---------------------------- MODULE MCFallbacks ----------------------------
(* Fallbacks for TLC: servers that know different forms of the statements,    *)
(* and the scrapers in groups of two or three.                                *)
EXTENDS Fallbacks

Stats  == Plain({"@userstat", "user_statistics", "@query_response_time_stats",
                 "QUERY_RESPONSE_TIME"})
Binlog == Plain({"@log_bin", "BINARY LOGS"})

MariaDB   == Plain({"ALL SLAVES STATUS", "SLAVE STATUS", "REPLICA STATUS", "SLAVE HOSTS"}) \cup Stats
Percona   == Plain({"SLAVE STATUS", "SLAVE HOSTS", "QUERY_RESPONSE_TIME_READ"}) \cup
             {<<"SLAVE STATUS", " NOLOCK">>} \cup Stats
Cluster   == Plain({"SLAVE STATUS", "REPLICA STATUS", "SLAVE HOSTS", "REPLICAS",
                    "transporters"}) \cup Binlog
Cluster84 == Plain({"REPLICA STATUS", "REPLICAS", "transporters",
                    "transporters, encrypted"}) \cup Binlog
Aurora    == Plain({"SLAVE STATUS", "SLAVE HOSTS", "replica_host_status"}) \cup Binlog \cup
             {<<"@log_bin", "OFF">>}

MCServers == {MariaDB, Percona, Cluster, Cluster84, Aurora}

In(r, kinds) == {[request |-> r, kind |-> k] : k \in kinds}

MCMixes ==
  {In(1, {"slave_status", "slave_hosts", "transporters"}),
   In(1, {"slave_hosts", "transporters"}) \cup In(2, {"transporters"}),
   In(1, {"slave_status", "query_response_time"}),
   In(1, {"replica_host", "userstats", "binlog_size"})}

ASSUME MCServersAssumption == SuffixesAreExtra
=============================================================================
