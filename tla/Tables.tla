------------------------------- MODULE Tables -------------------------------
(***************************************************************************)
(* What the scrapers of collector/ send: for each row of the result of     *)
(* their query some series, told apart by family and labels.               *)
(*                                                                         *)
(* A scraper has plans, among which its flags choose (the verbosity of     *)
(* several ndbinfo scrapers, the privileges of mysql.user).  A plan is a   *)
(* set of results.  The key of a result is the set of columns that tell    *)
(* its rows apart: those of GROUP BY where there is one, else the columns  *)
(* that identify a row of the server's table.  Its labels are the columns  *)
(* that become labels of all its families, and sends is what a row gives:  *)
(* all of it, or one of it when the result is of alternatives.             *)
(*                                                                         *)
(* Values, help texts and the order of columns are left out.  The versions *)
(* are those of Version(), times ten.                                      *)
(***************************************************************************)
EXTENDS Integers, Sequences

Send(family, type, more) == [family |-> family, type |-> type, more |-> more]

\* Families of a subsystem (the middle part of BuildFQName), one series each.
Gauges(sub, names)   == {Send(<<sub, n>>, "gauge", "") : n \in names}
Counters(sub, names) == {Send(<<sub, n>>, "counter", "") : n \in names}
Histograms(sub, names) == {Send(<<sub, n>>, "histogram", "") : n \in names}

\* A family of which one row sends a series for each value of a fixed label.
PerMode(sub, name, modes) == {Send(<<sub, name>>, "counter", m) : m \in modes}

(***************************************************************************)
(* named        columns that are a part of the family's name               *)
(* orElse       columns in which the query replaces NULL by a literal      *)
(* folded       columns of which different values may be sent as one       *)
(* alternatives a row gives one of the sends                               *)
(***************************************************************************)
Result(key, labels, sends) ==
  [key |-> key, labels |-> labels, sends |-> sends, named |-> {}, orElse |-> {},
   folded |-> {}, alternatives |-> FALSE]

Once(sends) == Result({}, {}, sends)

Scraper(name, since, plans) == [name |-> name, since |-> since, plans |-> plans]

\* One query whose labels are the columns that tell its rows apart.
Table(name, since, key, sends) == Scraper(name, since, <<{Result(key, key, sends)}>>)

-----------------------------------------------------------------------------
(* ndbinfo *)

BackupID == Table("ndbinfo.backup_id", 80, {}, Gauges("ndbinfo", {"last_backup_id"}))

\* An expiry date that does not parse ends the scrape with an error.
Certificates ==
  Scraper("ndbinfo.certificates", 84,
    <<{Result({"node_id", "cert_serial"}, {"node_id", "cert_name", "cert_serial"},
              Gauges("ndbinfo", {"certificate_expire_date"}))}>>)

ClusterOperations ==
  LET count == Gauges("ndbinfo", {"cluster_operations_count"})
      by    == {"node_id", "operation_type", "state"}
  IN  Scraper("ndbinfo.cluster_operations", 56,
        <<{[Result(by, by, count) EXCEPT !.orElse = {"state"}]},
          {[Result(by \cup {"tableid"}, by \cup {"tableid"}, count)
              EXCEPT !.orElse = {"state"}]}>>)

\* One series for each row, and the maximum over the rows.
ClusterTransactions ==
  LET by == {"node_id", "state"}
  IN  Scraper("ndbinfo.cluster_transactions", 56,
        <<{[Result(by, by, Gauges("ndbinfo", {"cluster_transactions_count"}))
              EXCEPT !.orElse = {"state"}],
           Once(Gauges("ndbinfo", {"cluster_transactions_max_inactive_seconds"}))}>>)

ConfigValues ==
  Table("ndbinfo.config_values", 57, {"name", "node_id"}, Gauges("ndbinfo", {"config_value"}))

NDBCounters_InstanceOmitted ==
  LET val == Counters("ndbinfo", {"counters"})
      by  == {"node_id", "block_name", "counter_name"}
      all == by \cup {"block_instance"}
  IN  Scraper("ndbinfo.counters", 56, <<{Result(by, by, val)}, {Result(all, by, val)}>>)

NDBCounters ==
  LET val == Counters("ndbinfo", {"counters"})
      by  == {"node_id", "block_name", "counter_name"}
      all == by \cup {"block_instance"}
  IN  Scraper("ndbinfo.counters", 56, <<{Result(by, by, val)}, {Result(all, all, val)}>>)

DiskPageBuffer ==
  LET pages == Counters("ndbinfo",
                 {"diskpagebuffer_pages_written", "diskpagebuffer_pages_written_lcp",
                  "diskpagebuffer_pages_read", "diskpagebuffer_log_waits",
                  "diskpagebuffer_page_requests_direct_return",
                  "diskpagebuffer_page_requests_wait_queue",
                  "diskpagebuffer_page_requests_wait_io"})
      all   == {"node_id", "block_instance"}
  IN  Scraper("ndbinfo.diskpagebuffer", 56,
        <<{Result({"node_id"}, {"node_id"}, pages)}, {Result(all, all, pages)}>>)

DiskStat ==
  Table("ndbinfo.diskstat", 80, {"node_id", "block_instance"},
    Gauges("ndbinfo",
      {"diskstat_pages_made_dirty", "diskstat_reads_issued", "diskstat_reads_completed",
       "diskstat_writes_issued", "diskstat_writes_completed", "diskstat_log_writes_issued",
       "diskstat_log_writes_completed", "diskstat_get_page_calls_issued",
       "diskstat_get_page_reqs_issued", "diskstat_get_page_reqs_completed"}))

LogColumns == {"node_id", "log_type", "log_id", "log_part"}

LogBuffers ==
  Table("ndbinfo.logbuffers", 56, LogColumns,
    Gauges("ndbinfo", {"logbuffers_bytes_total", "logbuffers_bytes_used"}))

LogSpaces ==
  Table("ndbinfo.logspaces", 56, LogColumns,
    Gauges("ndbinfo", {"logspaces_bytes_total", "logspaces_bytes_used"}))

Membership ==
  Scraper("ndbinfo.membership", 56,
    <<{Result({"node_id"}, {"node_id", "group_id"},
         Gauges("ndbinfo",
           {"membership_president", "membership_successor", "membership_arbitrator",
            "membership_arb_ticket", "membership_arb_state", "membership_arb_connected"}))}>>)

MemoryUsage ==
  Table("ndbinfo.memoryusage", 56, {"node_id", "memory_type"},
    Gauges("ndbinfo", {"memoryusage_used", "memoryusage_total"}))

Nodes ==
  Table("ndbinfo.nodes", 56, {"node_id"},
    Counters("ndbinfo", {"nodes_uptime"}) \cup
    Gauges("ndbinfo", {"nodes_status", "nodes_config_generation"}))

\* Verbosity 0, 1 and 2.  Only the last query joins ndbinfo.blocks, from the left:
\* a block number without a name gives NULL, and the scan of it an error.
Pools ==
  LET sizes == Gauges("ndbinfo", {"pools_used", "pools_total"})
      agg   == {"node_id", "pool_name"}
      all   == agg \cup {"block_name", "block_instance"}
  IN  Scraper("ndbinfo.pools", 56,
        <<{Result({"pool_name"}, {"pool_name"}, sizes)},
          {Result(agg, agg, sizes)},
          {Result(all, all, sizes)}>>)

Resources ==
  Table("ndbinfo.resources", 56, {"node_id", "resource_name"},
    Gauges("ndbinfo", {"resources_reserved", "resources_used", "resources_max"}))

\* With skip_idle a row leaves out the status families at rest.
TableDistribution ==
  Table("ndbinfo.table_distribution_status", 57, {"node_id", "table_id"},
    Gauges("ndbinfo",
      {"table_distribution_copy_status", "table_distribution_update_status",
       "table_distribution_lcp_status", "table_distribution_status",
       "table_distribution_partitions", "table_distribution_fragments",
       "table_distribution_scans_current", "table_distribution_scans_waiting",
       "table_distribution_reorg_ongoing"}))

Threadstat ==
  LET by     == {"node_id", "thr_no"}
      labels == by \cup {"thr_nm", "os_tid"}
      short  == {"threadstat_loops", "threadstat_signals_exec", "threadstat_waits",
                 "threadstat_os_minflt", "threadstat_os_majflt",
                 "threadstat_os_nvcsw", "threadstat_os_nivcsw"}
      full   == short \cup
                {"threadstat_signals_sent_local_prioa", "threadstat_signals_sent_local_priob",
                 "threadstat_signals_sent_remote_prioa", "threadstat_signals_sent_remote_priob",
                 "threadstat_os_now", "threadstat_os_utime", "threadstat_os_stime"}
  IN  Scraper("ndbinfo.threadstat", 56,
        <<{Result(by, labels, Counters("ndbinfo", short))},
          {Result(by, labels, Counters("ndbinfo", full))}>>)

-----------------------------------------------------------------------------
(* performance_schema *)

Operations == {"fetch", "insert", "update", "delete"}

\* The query of 8.0.28 and later has more columns; the same families are sent.
\* The last family is a summary; SCHEMA_NAME is not NULL after NOT IN (...).
PerfEventsStatements ==
  Scraper("perf_schema.eventsstatements", 56,
    <<{Result({"schema", "digest"}, {"schema", "digest", "digest_text"},
        Counters("perf_schema",
          {"events_statements_total", "events_statements_seconds_total",
           "events_statements_lock_time_seconds_total",
           "events_statements_cpu_time_seconds_total", "events_statements_errors_total",
           "events_statements_warnings_total", "events_statements_rows_affected_total",
           "events_statements_rows_sent_total", "events_statements_rows_examined_total",
           "events_statements_tmp_tables_total", "events_statements_tmp_disk_tables_total",
           "events_statements_sort_merge_passes_total", "events_statements_sort_rows_total",
           "events_statements_no_index_used_total"}) \cup
        {Send(<<"perf_schema", "events_statements_latency">>, "summary", "")})}>>)

\* One row of sums, all NULL when the table is empty: the scan ends in an error.
PerfEventsStatementsSum ==
  Scraper("perf_schema.eventsstatementssum", 57,
    <<{Once(Counters("perf_schema",
          {"events_statements_sum_total", "events_statements_sum_created_tmp_disk_tables",
           "events_statements_sum_created_tmp_tables", "events_statements_sum_errors",
           "events_statements_sum_lock_time", "events_statements_sum_no_good_index_used",
           "events_statements_sum_no_index_used", "events_statements_sum_rows_affected",
           "events_statements_sum_rows_examined", "events_statements_sum_rows_sent",
           "events_statements_sum_select_full_join",
           "events_statements_sum_select_full_range_join",
           "events_statements_sum_select_range", "events_statements_sum_select_range_check",
           "events_statements_sum_select_scan", "events_statements_sum_sort_merge_passes",
           "events_statements_sum_sort_range", "events_statements_sum_sort_rows",
           "events_statements_sum_sort_scan", "events_statements_sum_timer_wait",
           "events_statements_sum_warnings"}))}>>)

PerfEventsWaits ==
  Table("perf_schema.eventswaits", 55, {"event_name"},
    Counters("perf_schema", {"events_waits_total", "events_waits_seconds_total"}))

PerfFileEvents ==
  Table("perf_schema.file_events", 56, {"event_name"},
    PerMode("perf_schema", "file_events_total", {"read", "write", "misc"}) \cup
    PerMode("perf_schema", "file_events_seconds_total", {"read", "write", "misc"}) \cup
    PerMode("perf_schema", "file_events_bytes_total", {"read", "write"}))

\* The file name loses a prefix: with one that does not end in a slash, two names
\* may become one.
PerfFileInstances ==
  LET by == {"file_name", "event_name"}
  IN  Scraper("perf_schema.file_instances", 55,
        <<{[Result(by, by,
              PerMode("perf_schema", "file_instances_total", {"read", "write"}) \cup
              PerMode("perf_schema", "file_instances_bytes", {"read", "write"}))
            EXCEPT !.folded = {"file_name"}]}>>)

\* Inserts are sent for the row without an index, the other operations for all.
PerfIndexIOWaits ==
  LET by == {"schema", "name", "index"}
  IN  Scraper("perf_schema.indexiowaits", 56,
        <<{[Result(by, by,
              PerMode("perf_schema", "index_io_waits_total", Operations) \cup
              PerMode("perf_schema", "index_io_waits_seconds_total", Operations))
            EXCEPT !.orElse = {"index"}]}>>)

PerfMemoryEvents ==
  Table("perf_schema.memory_events", 57, {"event_name"},
    Counters("perf_schema", {"memory_events_alloc_bytes_total",
                             "memory_events_free_bytes_total"}) \cup
    Gauges("perf_schema", {"memory_events_used_bytes"}))

PerfNDBSyncExcludedObjects ==
  Table("perf_schema.ndb_sync_excluded_objects", 80, {},
    Gauges("perf_schema", {"ndb_sync_excluded_objects_count"}))

PerfNDBSyncPendingObjects ==
  Table("perf_schema.ndb_sync_pending_objects", 80, {},
    Gauges("perf_schema", {"ndb_sync_pending_objects_count"}))

\* The row of this server: a column without a number ends the scrape.
PerfReplicationGroupMemberStats ==
  Scraper("perf_schema.replication_group_member_stats", 57,
    <<{Once(
        Gauges("perf_schema", {"transactions_in_queue",
                               "transactions_remote_in_applier_queue"}) \cup
        Counters("perf_schema",
          {"transactions_checked_total", "conflicts_detected_total",
           "transactions_rows_validating_total", "transactions_remote_applied_total",
           "transactions_local_proposed_total", "transactions_local_rollback_total"}))}>>)

\* Every column of the table becomes a label.
PerfReplicationGroupMembers ==
  Scraper("perf_schema.replication_group_members", 57,
    <<{Result({"channel_name", "member_id"},
              {"channel_name", "member_id", "member_host", "member_port", "member_state"},
              Gauges("perf_schema", {"replication_group_member_info"}))}>>)

\* A timestamp that does not parse is sent as 0.
PerfReplicationApplierStatsByWorker ==
  Table("perf_schema.replication_applier_status_by_worker", 80, {"channel_name", "member_id"},
    Gauges("perf_schema",
      {"last_applied_transaction_original_commit_timestamp_seconds",
       "last_applied_transaction_immediate_commit_timestamp_seconds",
       "last_applied_transaction_start_apply_timestamp_seconds",
       "last_applied_transaction_end_apply_timestamp_seconds",
       "applying_transaction_original_commit_timestamp_seconds",
       "applying_transaction_immediate_commit_timestamp_seconds",
       "applying_transaction_start_apply_timestamp_seconds"}))

PerfTableIOWaits ==
  Table("perf_schema.tableiowaits", 56, {"schema", "name"},
    PerMode("perf_schema", "table_io_waits_total", Operations) \cup
    PerMode("perf_schema", "table_io_waits_seconds_total", Operations))

PerfTableLockWaits ==
  LET sql == {"read_normal", "read_with_shared_locks", "read_high_priority",
              "read_no_insert", "write_normal", "write_allow_write",
              "write_concurrent_insert", "write_low_priority"}
  IN  Table("perf_schema.tablelocks", 56, {"schema", "name"},
        PerMode("perf_schema", "sql_lock_waits_total", sql) \cup
        PerMode("perf_schema", "sql_lock_waits_seconds_total", sql) \cup
        PerMode("perf_schema", "external_lock_waits_total", {"read", "write"}) \cup
        PerMode("perf_schema", "external_lock_waits_seconds_total", {"read", "write"}))

-----------------------------------------------------------------------------
(* The other ndbinfo scrapers *)

\* The rows of a node and a bound become buckets of the node's histograms.
PGMANTimeTrackStats ==
  Table("ndbinfo.pgman_time_track_stats", 80, {"node_id"},
    Histograms("ndbinfo",
      {"pgman_time_track_stats_page_reads", "pgman_time_track_stats_page_writes",
       "pgman_time_track_stats_log_waits", "pgman_time_track_stats_get_page_calls"}))

TCTimeTrackStats ==
  Table("ndbinfo.tc_time_track_stats", 56, {"node_id"},
    Histograms("ndbinfo",
      {"tc_time_track_stats_scans", "tc_time_track_stats_scan_errors",
       "tc_time_track_stats_scan_fragments", "tc_time_track_stats_scan_fragment_errors",
       "tc_time_track_stats_transactions", "tc_time_track_stats_transaction_errors",
       "tc_time_track_stats_read_key_ops", "tc_time_track_stats_write_key_ops",
       "tc_time_track_stats_index_key_ops", "tc_time_track_stats_key_op_errors"}))

\* The columns of a node's links; the status also has the remote address.
Transporters ==
  Table("ndbinfo.transporters", 56, {"node_id", "remote_node_id"},
    Gauges("ndbinfo", {"transporters_status", "transporters_overloaded",
                       "transporters_slowdown", "transporters_encrypted"}) \cup
    Counters("ndbinfo", {"transporters_bytes_sent", "transporters_bytes_received"}))

\* The node is a label of the rows that name one.
Files ==
  Scraper("ndbinfo.files", 56,
    <<{Result({"file_id", "file_name", "file_type", "node"},
         {"file_id", "file_name", "file_type", "tablespace", "logfile_group", "node"},
         Gauges("ndbinfo", {"files_free_extents", "files_total_extents", "files_extent_size",
                            "files_size", "files_version", "files_undo_log_buffer_size"}))}>>)

-----------------------------------------------------------------------------
(* information_schema *)

AutoIncrementColumns ==
  Table("auto_increment.columns", 51, {"schema", "table", "column"},
    Gauges("info_schema", {"auto_increment_column", "auto_increment_column_max"}))

\* Columns the program does not know become families of their own, untyped.
ClientStat ==
  Table("info_schema.clientstats", 55, {"client"},
    Counters("info_schema",
      {"client_statistics_total_connections",
       "client_statistics_connected_time_seconds_total", "client_statistics_busy_seconds_total",
       "client_statistics_cpu_time_seconds_total", "client_statistics_bytes_received_total",
       "client_statistics_bytes_sent_total", "client_statistics_binlog_bytes_written_total",
       "client_statistics_rows_read_total", "client_statistics_rows_sent_total",
       "client_statistics_rows_deleted_total", "client_statistics_rows_inserted_total",
       "client_statistics_rows_fetched_total", "client_statistics_rows_updated_total",
       "client_statistics_table_rows_read_total", "client_statistics_select_commands_total",
       "client_statistics_update_commands_total", "client_statistics_other_commands_total",
       "client_statistics_commit_transactions_total",
       "client_statistics_rollback_transactions_total",
       "client_statistics_denied_connections_total",
       "client_statistics_lost_connections_total", "client_statistics_access_denied_total",
       "client_statistics_empty_queries_total",
       "client_statistics_total_ssl_connections_total",
       "client_statistics_max_statement_time_exceeded_total"}) \cup
    Gauges("info_schema", {"client_statistics_concurrent_connections"}) \cup
    {Send(<<"info_schema", "client_statistics_">>, "untyped", "other column")})

UserStat ==
  Table("info_schema.userstats", 51, {"user"},
    Counters("info_schema",
      {"user_statistics_total_connections",
       "user_statistics_connected_time_seconds_total", "user_statistics_busy_seconds_total",
       "user_statistics_cpu_time_seconds_total", "user_statistics_bytes_received_total",
       "user_statistics_bytes_sent_total", "user_statistics_binlog_bytes_written_total",
       "user_statistics_rows_read_total", "user_statistics_rows_sent_total",
       "user_statistics_rows_deleted_total", "user_statistics_rows_inserted_total",
       "user_statistics_rows_fetched_total", "user_statistics_rows_updated_total",
       "user_statistics_table_rows_read_total", "user_statistics_select_commands_total",
       "user_statistics_update_commands_total", "user_statistics_other_commands_total",
       "user_statistics_commit_transactions_total",
       "user_statistics_rollback_transactions_total",
       "user_statistics_denied_connections_total", "user_statistics_lost_connections_total",
       "user_statistics_access_denied_total", "user_statistics_empty_queries_total",
       "user_statistics_total_ssl_connections_total"}) \cup
    Gauges("info_schema", {"user_statistics_concurrent_connections"}) \cup
    {Send(<<"info_schema", "user_statistics_">>, "untyped", "other column")})

InnodbCmp ==
  Table("info_schema.innodb_cmp", 55, {"page_size"},
    Counters("info_schema",
      {"innodb_cmp_compress_ops_total", "innodb_cmp_compress_ops_ok_total",
       "innodb_cmp_compress_time_seconds_total", "innodb_cmp_uncompress_ops_total",
       "innodb_cmp_uncompress_time_seconds_total"}))

InnodbCmpMem ==
  Table("info_schema.innodb_cmpmem", 55, {"page_size", "buffer_pool"},
    Counters("info_schema",
      {"innodb_cmpmem_pages_used_total", "innodb_cmpmem_pages_free_total",
       "innodb_cmpmem_relocation_ops_total", "innodb_cmpmem_relocation_time_seconds_total"}))

\* The family of a row follows from its subsystem, name, type and sign.
InnodbMetrics ==
  Scraper("info_schema.innodb_metrics", 56,
    <<{[Result({"metric"}, {},
          Counters("info_schema", {"innodb_metrics_buffer_page_read_total",
                                   "innodb_metrics_buffer_page_written_total"}) \cup
          Gauges("info_schema", {"innodb_metrics_buffer_pool_pages",
                                 "innodb_metrics_buffer_pool_dirty_pages"}) \cup
          {Send(<<"info_schema", "innodb_metrics_">>, "gauge", ""),
           Send(<<"info_schema", "innodb_metrics_", "_total">>, "counter", "")})
        EXCEPT !.named = {"metric"}, !.alternatives = TRUE]}>>)

InfoSchemaInnodbTablespaces ==
  LET by == {"tablespace_name"}
  IN  Scraper("info_schema.innodb_tablespaces", 57,
        <<{Result(by, by \cup {"file_format", "row_format", "space_type"},
             Gauges("info_schema", {"innodb_tablespace_space_info"})),
           Result(by, by,
             Gauges("info_schema", {"innodb_tablespace_file_size_bytes",
                                    "innodb_tablespace_allocated_size_bytes"}))}>>)

\* A row of a statistic the program does not know is left out.
RocksDBPerfContext ==
  LET by == {"schema", "table", "part"}
  IN  Scraper("info_schema.rocksdb_perf_context", 56,
        <<{[Result(by \cup {"stat_type"}, by,
              {Send(<<"info_schema", "rocksdb_perf_context_">>, "counter", "")})
            EXCEPT !.named = {"stat_type"}, !.orElse = {"part"}]}>>)

SchemaStat ==
  Table("info_schema.schemastats", 51, {"schema"},
    Counters("info_schema",
      {"schema_statistics_rows_read_total", "schema_statistics_rows_changed_total",
       "schema_statistics_rows_changed_x_indexes_total"}))

TableStat ==
  Table("info_schema.tablestats", 51, {"schema", "table"},
    Counters("info_schema",
      {"table_statistics_rows_read_total", "table_statistics_rows_changed_total",
       "table_statistics_rows_changed_x_indexes_total"}))

\* One query for each schema of the flag or of the server.
TableSchema ==
  LET by == {"schema", "table"}
  IN  Scraper("info_schema.tables", 51,
        <<{Result(by, by \cup {"type", "engine", "row_format", "create_options"},
             Gauges("info_schema", {"table_version"})),
           Result(by, by,
             Gauges("info_schema", {"table_rows"}) \cup
             {Send(<<"info_schema", "table_size">>, "gauge", c) :
                c \in {"data_length", "index_length", "data_free"}})}>>)

\* Sums by command and state, by host and by user, of the maps of Scrape.
Processlist ==
  LET by == {"command", "state"}
  IN  Scraper("info_schema.processlist", 51,
        <<{Result(by, by, Gauges("info_schema",
             {"processlist_threads", "processlist_seconds"})),
           Result({"client_host"}, {"client_host"},
             Gauges("info_schema", {"processlist_processes_by_host"})),
           Result({"mysql_user"}, {"mysql_user"},
             Gauges("info_schema", {"processlist_processes_by_user"}))}>>)

QueryResponseTime ==
  Table("info_schema.query_response_time", 55, {},
    Histograms("info_schema",
      {"query_response_time_seconds", "read_query_response_time_seconds",
       "write_query_response_time_seconds"}))

ReplicaHost ==
  Scraper("info_schema.replica_host", 56,
    <<{Result({"server_id"}, {"server_id", "role"},
         Gauges("info_schema",
           {"replica_host_cpu_percent", "replica_host_replica_latency_seconds",
            "replica_host_lag_seconds", "replica_host_log_stream_speed",
            "replica_host_replay_latency_seconds"}))}>>)

-----------------------------------------------------------------------------
(* sys, mysql, the engines, SHOW statements and pt-heartbeat *)

SysUserSummary ==
  Table("sys.user_summary", 57, {"user"},
    Counters("sys", {"statements_total", "statement_latency", "table_scans_total",
                     "file_ios_total", "file_io_seconds_total", "connections_total",
                     "unique_hosts_total", "memory_allocated_bytes_total"}) \cup
    Gauges("sys", {"current_connections", "current_memory_bytes"}))

\* With the privileges a row also gives a series for each column that holds Y or
\* N.  These are all the columns: a user named Y has one for his name.
User ==
  LET by     == {"mysql_user", "hostmask"}
      limits == Gauges("mysql", {"max_questions", "max_updates", "max_connections",
                                 "max_user_connections"})
      privs  == {"user", "host",
                 "select_priv", "insert_priv", "update_priv", "delete_priv", "create_priv",
                 "drop_priv", "reload_priv", "shutdown_priv", "process_priv", "file_priv",
                 "grant_priv", "references_priv", "index_priv", "alter_priv", "show_db_priv",
                 "super_priv", "create_tmp_table_priv", "lock_tables_priv", "execute_priv",
                 "repl_slave_priv", "repl_client_priv", "create_view_priv", "show_view_priv",
                 "create_routine_priv", "alter_routine_priv", "create_user_priv",
                 "event_priv", "trigger_priv", "create_tablespace_priv"}
  IN  Scraper("mysql.user", 51,
        <<{Result(by, by, limits)}, {Result(by, by, limits \cup Gauges("mysql", privs))}>>)

EngineInnodbStatus ==
  Table("engine_innodb_status", 51, {},
    Gauges("engine_innodb", {"queries_inside_innodb", "queries_in_queue",
                             "read_views_open_inside_innodb"}))

\* sanitizeTokudbMetric drops some characters and replaces others.
EngineTokudbStatus ==
  Scraper("engine_tokudb_status", 56,
    <<{[Result({"key"}, {}, {Send(<<"engine_tokudb", "">>, "untyped", "")})
        EXCEPT !.named = {"key"}, !.folded = {"key"}]}>>)

\* validPrometheusName: what is neither letter, digit nor underscore becomes an
\* underscore.  Variables that are text come together in four more families.
GlobalVariables ==
  Scraper("global_variables", 51,
    <<{[Result({"variable"}, {}, {Send(<<"global_variables", "">>, "gauge", "")})
        EXCEPT !.named = {"variable"}, !.folded = {"variable"}],
       Once(Gauges("version", {"info"}) \cup
            Gauges("galera", {"variables_info", "gcache_size_bytes"}) \cup
            Gauges("transaction", {"isolation"}))}>>)

\* Names of six classes become labels, other names families.
GlobalStatus ==
  Scraper("global_status", 51,
    <<{[Result({"variable"}, {},
          Counters("global_status",
            {"commands_total", "handlers_total", "connection_errors_total",
             "buffer_pool_page_changes_total", "innodb_row_ops_total",
             "performance_schema_lost_total"}) \cup
          Gauges("global_status", {"buffer_pool_pages", "buffer_pool_dirty_pages"}) \cup
          {Send(<<"global_status", "">>, "untyped", "")})
        EXCEPT !.named = {"variable"}, !.folded = {"variable"}, !.alternatives = TRUE],
       Once(Gauges("galera", {"status_info"}) \cup
            Gauges("galera_evs_repl_latency",
              {"min_seconds", "avg_seconds", "max_seconds", "stdev", "sample_size"}))}>>)

Heartbeat ==
  Table("heartbeat", 51, {"server_id"},
    Gauges("heartbeat", {"now_timestamp_seconds", "stored_timestamp_seconds"}))

SlaveHosts ==
  Scraper("slave_hosts", 51,
    <<{Result({"server_id"}, {"server_id", "slave_host", "port", "master_id", "slave_uuid"},
         Gauges("heartbeat", {"mysql_slave_hosts_info"}))}>>)

\* A channel (MySQL) or a connection (MariaDB) gives a series for each column that
\* parses, and one for each domain and server of its two GTID positions.
SlaveStatus ==
  LET channel == {"channel_name", "connection_name"}
      by      == channel \cup {"master_host", "master_uuid"}
      gtids   == {"domain_id", "server_id"}
  IN  Scraper("slave_status", 51,
        <<{[Result(channel \cup {"column"}, by, {Send(<<"slave_status", "">>, "untyped", "")})
            EXCEPT !.named = {"column"}],
           Result(channel \cup gtids, by \cup gtids,
             Gauges("slave_status", {"gtid_io_pos", "gtid_slave_pos"}))}>>)

BinlogSize ==
  Table("binlog_size", 51, {}, Gauges("binlog", {"size_bytes", "files", "file_number"}))

\* The counter of the background task, and when verbose the table of aggregates.
DiskWriteSpeeds ==
  LET by      == {"node_id", "thr_no"}
      counter == Result(by, by, Counters("ndbinfo", {"disk_write_speed_backup_lcp_bytes",
                                                     "disk_write_speed_redo_bytes"}))
      table   == Result(by, by,
                   Counters("ndbinfo", {"disk_write_speed_slowdowns_io_lag",
                                        "disk_write_speed_slowdowns_high_cpu",
                                        "disk_write_speed_set_to_min"}) \cup
                   Gauges("ndbinfo", {"disk_write_speed_target_speed"}))
  IN  Scraper("ndbinfo.disk_write_speed", 56, <<{counter}, {counter, table}>>)

-----------------------------------------------------------------------------

\* The map of mysqld_exporter.go: all scrapers, whether enabled or not.
scrapers ==
  {GlobalStatus, GlobalVariables, SlaveStatus, Processlist, User, TableSchema,
   InfoSchemaInnodbTablespaces, InnodbMetrics, AutoIncrementColumns, BinlogSize,
   PerfTableIOWaits, PerfIndexIOWaits, PerfTableLockWaits, PerfEventsStatements,
   PerfEventsStatementsSum, PerfEventsWaits, PerfFileEvents, PerfFileInstances,
   PerfMemoryEvents, PerfNDBSyncExcludedObjects, PerfNDBSyncPendingObjects,
   PerfReplicationGroupMembers, PerfReplicationGroupMemberStats,
   PerfReplicationApplierStatsByWorker, SysUserSummary, UserStat, ClientStat, TableStat,
   SchemaStat, InnodbCmp, InnodbCmpMem, QueryResponseTime, EngineTokudbStatus,
   EngineInnodbStatus, Heartbeat, SlaveHosts, ReplicaHost, RocksDBPerfContext, BackupID,
   Certificates, ClusterOperations, ClusterTransactions, ConfigValues, NDBCounters,
   DiskPageBuffer, DiskStat, DiskWriteSpeeds, Files, LogBuffers, LogSpaces, Membership,
   MemoryUsage, Nodes, PGMANTimeTrackStats, Pools, Resources, TableDistribution,
   TCTimeTrackStats, Threadstat, Transporters}

=============================================================================
