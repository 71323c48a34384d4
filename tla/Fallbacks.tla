----------------------------- MODULE Fallbacks -----------------------------
(***************************************************************************)
(* The scrapers that ask a server more than one query: other forms of a    *)
(* statement for servers that do not know the first, or a variable that    *)
(* says whether a table is there at all.  Those of one request ask the     *)
(* same server and share its connections; those of all requests, whatever  *)
(* server they ask, share the flag of ndbinfo.transporters.                *)
(*                                                                         *)
(* A query is sent when the pool has a connection for it and answered in a *)
(* later step.  An open result keeps its connection until its Close, or    *)
(* until the context of the request is done; without a query timeout the   *)
(* scrapers have no other context.                                         *)
(***************************************************************************)
EXTENDS Integers, Sequences, FiniteSets, Functions

CONSTANTS
  Mixes,          \* sets of scrapers at work together, each of a request and a kind
  Servers,        \* each the set of the queries that a server knows, and
                  \* with suffix OFF the variables that are off
  MaxOpenConns,   \* connections of a request
  MaxFaults,      \* bound: failures of a scraper's queries that its server knows, and of
                  \* its scans
  MaxRows,        \* bound: rows of a result
  None

Kinds == {"slave_status", "slave_hosts", "replica_host", "transporters", "userstats",
          "query_response_time", "binlog_size"}

ASSUME FallbacksAssumption ==
  /\ \A mix \in Mixes : mix \subseteq [request : Nat, kind : Kinds] /\ IsFiniteSet(mix)
  /\ MaxOpenConns \in Nat \ {0} /\ MaxFaults \in Nat /\ MaxRows \in Nat
  /\ None \notin {"nil", "error"}

VARIABLES
  active, server, \* the scrapers at work, and what the server of each request knows
  pc, at,         \* the step a scraper is at, and the query it works on
  open,           \* its open results
  withEncrypted,  \* transporters: encrypted is among the variables to scan into
  rows, read,     \* rows scanned of the result, results read to their end
  sent,           \* transporters: whether rows were sent with encrypted, without, or both
  result,         \* what Scrape has returned
  encrypted,      \* ndbinfoTransportersScrapeEncrypted, of the whole process
  ended,          \* requests whose context is done
  faults,         \* failures that a scraper has met
  overtaken       \* scrapers at work when another one turned the flag off

vars == <<server, active, pc, at, open, withEncrypted, rows, read, sent, result,
          encrypted, ended, faults, overtaken>>

-----------------------------------------------------------------------------
(* The queries, and where a scraper goes after the answer: another query, the *)
(* rows, or a return                                                          *)

slaveStatusQueries       == <<"ALL SLAVES STATUS", "SLAVE STATUS", "REPLICA STATUS">>
slaveStatusQuerySuffixes == <<" NONBLOCKING", " NOLOCK", "">>

Query(q)       == [to |-> "query", q |-> q, suffix |-> 0]
Suffix(q, i)   == [to |-> "query", q |-> q, suffix |-> i]
Rows           == [to |-> "rows", q |-> 0, suffix |-> 0]
Return(answer) == [to |-> answer, q |-> 0, suffix |-> 0]

\* What the server is asked: a statement and a suffix.  The plain one is at suffix 0.
Statement(kind, q) ==
  CASE kind = "slave_status" -> slaveStatusQueries[q]
    [] kind = "slave_hosts"  -> <<"SLAVE HOSTS", "REPLICAS">>[q]
    [] kind = "replica_host" -> "replica_host_status"
    [] kind = "transporters" -> <<"transporters, encrypted", "transporters">>[q]
    [] kind = "userstats"    -> <<"@userstat", "user_statistics">>[q]
    [] kind = "query_response_time" ->
         <<"@query_response_time_stats", "QUERY_RESPONSE_TIME",
           "QUERY_RESPONSE_TIME_READ", "QUERY_RESPONSE_TIME_WRITE">>[q]
    [] kind = "binlog_size"  -> <<"@log_bin", "BINARY LOGS">>[q]

Plain(statements) == statements \X {""}

Text(kind, p) ==
  <<Statement(kind, p.q), IF p.suffix = 0 THEN "" ELSE slaveStatusQuerySuffixes[p.suffix]>>

\* QueryRow, whose result its Scan closes.
IsCheck(kind, p) == p.q = 1 /\ kind \in {"userstats", "query_response_time", "binlog_size"}

First(kind) == Query(IF kind = "transporters" /\ ~encrypted THEN 2 ELSE 1)

SlaveStatusNext_BreakOfInner(p, answer) ==
  IF p.suffix < 3 /\ answer # "ok" THEN Suffix(p.q, p.suffix + 1)
  ELSE IF p.q < 3 THEN Query(p.q + 1)
  ELSE IF answer = "ok" THEN Rows ELSE Return("error")

SlaveStatusNext_TwoForms(p, answer) ==
  IF p.suffix = 0 /\ answer = "ok" THEN Rows
  ELSE IF p.suffix < 3 /\ answer # "ok" THEN Suffix(p.q, p.suffix + 1)
  ELSE IF p.q < 2 THEN Query(p.q + 1)
  ELSE IF answer = "ok" THEN Rows ELSE Return("error")

\* A suffix that succeeds leaves the inner loop only.
SlaveStatusNext(p, answer) ==
  IF p.suffix = 0 /\ answer = "ok" THEN Rows
  ELSE IF p.suffix < 3 /\ answer # "ok" THEN Suffix(p.q, p.suffix + 1)
  ELSE IF p.q < 3 THEN Query(p.q + 1)
  ELSE IF answer = "ok" THEN Rows ELSE Return("error")

SlaveHostsNext_ErrorIsNil(p, answer) ==
  IF answer = "ok" THEN Rows
  ELSE IF p.q = 1 /\ answer = "unknown" THEN Query(2) ELSE Return("nil")

\* The second form only after a syntax error.
SlaveHostsNext(p, answer) ==
  IF answer = "ok" THEN Rows
  ELSE IF p.q = 1 /\ answer = "unknown" THEN Query(2) ELSE Return("error")

ReplicaHostNext(p, answer) ==
  IF answer = "ok" THEN Rows ELSE Return(IF answer = "unknown" THEN "nil" ELSE "error")

TransportersNext(p, answer) ==
  IF answer = "ok" THEN Rows ELSE IF p.q = 1 THEN Query(2) ELSE Return("error")

\* No variable, an error or OFF: nothing to collect.
UserStatNext(p, answer) ==
  IF p.q = 1 THEN IF answer = "ok" THEN Query(2) ELSE Return("nil")
  ELSE IF answer = "ok" THEN Rows ELSE Return("error")

\* Only the first table's error is returned.
QueryResponseTimeNext(p, answer) ==
  IF answer = "ok" THEN IF p.q = 1 THEN Query(2) ELSE Rows
  ELSE IF p.q = 3 THEN Query(4) ELSE Return(IF p.q = 2 THEN "error" ELSE "nil")

BinlogSizeNext(p, answer) ==
  IF answer = "ok" THEN IF p.q = 1 THEN Query(2) ELSE Rows
  ELSE Return(IF answer = "off" THEN "nil" ELSE "error")

After(kind, p, answer) ==
  CASE kind = "slave_status"        -> SlaveStatusNext(p, answer)
    [] kind = "slave_hosts"         -> SlaveHostsNext(p, answer)
    [] kind = "replica_host"        -> ReplicaHostNext(p, answer)
    [] kind = "transporters"        -> TransportersNext(p, answer)
    [] kind = "userstats"           -> UserStatNext(p, answer)
    [] kind = "query_response_time" -> QueryResponseTimeNext(p, answer)
    [] kind = "binlog_size"         -> BinlogSizeNext(p, answer)

\* After the last row: the other tables of query_response_time, or the end.
AfterRows(kind, p) ==
  IF kind = "query_response_time" /\ p.q < 4 THEN Query(p.q + 1) ELSE Return("nil")

-----------------------------------------------------------------------------

Requests == {s.request : s \in active}

Init ==
  /\ active \in Mixes /\ server \in [Requests -> Servers]
  /\ pc = [s \in active |-> "idle"] /\ at = [s \in active |-> Query(1)]
  /\ open = [s \in active |-> 0] /\ withEncrypted = [s \in active |-> FALSE]
  /\ rows = [s \in active |-> 0] /\ read = [s \in active |-> 0]
  /\ sent = [s \in active |-> {}] /\ result = [s \in active |-> None]
  /\ encrypted = TRUE /\ ended = {} /\ overtaken = {}
  /\ faults = [s \in active |-> 0]

Colleagues(s) == {t \in active : t.request = s.request}

\* Connections in use: one for each open result, and for each query under way.
Holds == [t \in active |-> open[t] + (IF pc[t] = "sent" THEN 1 ELSE 0)]
InUse(s) == SumFunctionOnSet(Holds, Colleagues(s))

\* Where position p leads; a scraper that returns closes the result it reads.
GoTo(s, p, opened) ==
  /\ pc' = [pc EXCEPT ![s] = CASE p.to = "query" -> "send"
                               [] p.to = "rows"  -> "variables"
                               [] OTHER          -> "returned"]
  /\ at' = IF p.to = "query" THEN [at EXCEPT ![s] = p] ELSE at
  /\ result' = IF p.to \in {"nil", "error"} THEN [result EXCEPT ![s] = p.to] ELSE result
  /\ open' = [open EXCEPT ![s] = opened]
  /\ rows' = [rows EXCEPT ![s] = 0]

Begin(s) ==
  /\ pc[s] = "idle"
  /\ GoTo(s, First(s.kind), 0)
  /\ UNCHANGED <<server, active, withEncrypted, read, sent, encrypted, ended, faults, overtaken>>

Send_NoLimit(s) ==
  /\ pc[s] = "send" /\ s.request \notin ended
  /\ pc' = [pc EXCEPT ![s] = "sent"]
  /\ UNCHANGED <<server, active, at, open, withEncrypted, rows, read, sent, result,
                 encrypted, ended, faults, overtaken>>

Send(s) ==
  /\ pc[s] = "send" /\ s.request \notin ended /\ InUse(s) < MaxOpenConns
  /\ pc' = [pc EXCEPT ![s] = "sent"]
  /\ UNCHANGED <<server, active, at, open, withEncrypted, rows, read, sent, result,
                 encrypted, ended, faults, overtaken>>

AtWork(s) == pc[s] \notin {"idle", "returned"}

FlagFalls_OnSuccess(s, answer) == s.kind = "transporters" /\ at[s].q = 1

\* Any error of its query makes transporters give up the column for good.
FlagFalls(s, answer) == s.kind = "transporters" /\ at[s].q = 1 /\ answer # "ok"

Take(s, answer) ==
  /\ GoTo(s, After(s.kind, at[s], answer),
          IF answer = "ok" /\ ~IsCheck(s.kind, at[s]) THEN open[s] + 1 ELSE open[s])
  /\ encrypted' = (encrypted /\ ~FlagFalls(s, answer))
  /\ overtaken' = IF encrypted /\ ~encrypted'
                  THEN overtaken \cup {t \in active \ {s} : AtWork(t)}
                  ELSE overtaken
  /\ UNCHANGED <<server, active, withEncrypted, read, sent, ended>>

Knows(s, statement, suffix) == <<statement, suffix>> \in server[s.request]

Known(s) == Text(s.kind, at[s]) \in server[s.request]
IsOff(s) == IsCheck(s.kind, at[s]) /\ Knows(s, Statement(s.kind, at[s].q), "OFF")

Fault(s) == faults[s] < MaxFaults /\ faults' = [faults EXCEPT ![s] = @ + 1]

Answers(s) ==
  /\ pc[s] = "sent" /\ s.request \notin ended /\ Known(s)
  /\ Take(s, IF IsOff(s) THEN "off" ELSE "ok")
  /\ UNCHANGED faults

IsUnknown(s) ==
  /\ pc[s] = "sent" /\ s.request \notin ended /\ ~Known(s)
  /\ Take(s, "unknown")
  /\ UNCHANGED faults

Fails(s) ==
  /\ pc[s] = "sent" /\ s.request \notin ended /\ Known(s)
  /\ Fault(s)
  /\ Take(s, "error")

\* A query without a context that could still be done.
NotSent(s) ==
  /\ pc[s] \in {"send", "sent"} /\ s.request \in ended
  /\ Take(s, "error")
  /\ UNCHANGED faults

Variables_AllColumns(s) ==
  /\ pc[s] = "variables"
  /\ pc' = [pc EXCEPT ![s] = "rows"]
  /\ withEncrypted' = [withEncrypted EXCEPT ![s] = s.kind = "transporters"]
  /\ UNCHANGED <<server, active, at, open, rows, read, sent, result, encrypted, ended, faults,
                 overtaken>>

\* The flag is read again to make the list of variables.
Variables(s) ==
  /\ pc[s] = "variables"
  /\ pc' = [pc EXCEPT ![s] = "rows"]
  /\ withEncrypted' = [withEncrypted EXCEPT ![s] = s.kind = "transporters" /\ encrypted]
  /\ UNCHANGED <<server, active, at, open, rows, read, sent, result, encrypted, ended, faults,
                 overtaken>>

\* Scan needs as many variables as the result has columns.
Mismatch(s) == s.kind = "transporters" /\ withEncrypted[s] # (at[s].q = 1)

Close_Forgotten(s) == open[s]

Close(s) == IF open[s] = 0 THEN 0 ELSE open[s] - 1

Scan(s) ==
  /\ pc[s] = "rows" /\ s.request \notin ended /\ rows[s] < MaxRows /\ ~Mismatch(s)
  /\ rows' = [rows EXCEPT ![s] = @ + 1]
  /\ sent' = IF s.kind = "transporters" THEN [sent EXCEPT ![s] = @ \cup {encrypted}] ELSE sent
  /\ UNCHANGED <<server, active, pc, at, open, withEncrypted, read, result, encrypted, ended,
                 faults, overtaken>>

\* binlog_size returns nil all the same, but for a number of columns that it does not
\* know; query_response_time returns the error of its first table only.
ScanFailure(s) ==
  CASE s.kind = "binlog_size"                            -> {Return("nil"), Return("error")}
    [] s.kind = "query_response_time" /\ at[s].q > 2 -> {AfterRows(s.kind, at[s])}
    [] OTHER                                             -> {Return("error")}

ScanFails(s) ==
  /\ pc[s] = "rows" /\ s.request \notin ended /\ rows[s] < MaxRows
  /\ \/ Mismatch(s) /\ UNCHANGED faults
     \/ Fault(s)
  /\ \E p \in ScanFailure(s) : GoTo(s, p, Close(s))
  /\ UNCHANGED <<server, active, withEncrypted, read, sent, encrypted, ended, overtaken>>

\* The end of a context ends the rows too, without an error.
RowsEnd(s) ==
  /\ pc[s] = "rows"
  /\ read' = [read EXCEPT ![s] = @ + 1]
  /\ GoTo(s, AfterRows(s.kind, at[s]), Close(s))
  /\ UNCHANGED <<server, active, withEncrypted, sent, encrypted, ended, faults, overtaken>>

\* A deadline, or a client that hangs up: database/sql closes the results.
ContextDone(r) ==
  /\ r \notin ended
  /\ ended' = ended \cup {r}
  /\ open' = [s \in active |-> IF s.request = r THEN 0 ELSE open[s]]
  /\ UNCHANGED <<server, active, pc, at, withEncrypted, rows, read, sent, result, encrypted,
                 faults, overtaken>>

Scrape(s) ==
  \/ Begin(s) \/ Send(s) \/ Answers(s) \/ IsUnknown(s) \/ Fails(s) \/ NotSent(s)
  \/ Variables(s) \/ Scan(s) \/ ScanFails(s) \/ RowsEnd(s)

AllReturned == (\A s \in active : pc[s] = "returned") /\ UNCHANGED vars

Next ==
  \/ \E s \in active : Scrape(s)
  \/ \E r \in Requests : ContextDone(r)
  \/ AllReturned

Spec == Init /\ [][Next]_vars

\* Some goroutine that can run does, and the server answers.  No fairness for
\* ContextDone: without the header of Prometheus a context may last for ever.
FairSpec == Spec /\ WF_vars(\E s \in active : Scrape(s))

-----------------------------------------------------------------------------
(* Properties *)

TypeOK ==
  /\ active \in Mixes /\ server \in [Requests -> Servers]
  /\ pc \in [active -> {"idle", "send", "sent", "variables", "rows", "returned"}]
  /\ at \in [active -> [to : {"query"}, q : 1..4, suffix : 0..3]]
  /\ open \in [active -> 0..3] /\ withEncrypted \in [active -> BOOLEAN]
  /\ rows \in [active -> 0..MaxRows] /\ read \in [active -> 0..3]
  /\ sent \in [active -> SUBSET BOOLEAN] /\ result \in [active -> {None, "nil", "error"}]
  /\ encrypted \in BOOLEAN /\ ended \subseteq Requests
  /\ faults \in [active -> 0..MaxFaults] /\ overtaken \subseteq active
  /\ \A s \in active : InUse(s) <= MaxOpenConns
  /\ \A s \in active : result[s] # None <=> pc[s] = "returned"

\* Results that a scraper has lost: open, and not the one that it reads.
Lost(s) == open[s] - (IF pc[s] \in {"variables", "rows"} THEN 1 ELSE 0)

\* A server that knows a statement with a suffix knows the plain one.  (of the servers)
SuffixesAreExtra ==
  \A sv \in Servers, q \in 1..3, i \in 1..3 :
    <<slaveStatusQueries[q], slaveStatusQuerySuffixes[i]>> \in sv =>
      <<slaveStatusQueries[q], "">> \in sv

\* A result is lost, and with it a connection, only after a query failed on a server
\* that knows it, each for a failure that the same scraper has met; so MaxOpenConns
\* failures are needed before a scraper can wait for connections that it holds itself.
\* (the loops of ScrapeSlaveStatus.Scrape)
LostResultsNeedFaults == \A s \in active : Lost(s) <= faults[s]

\* No error is lost on the way: the scrapers without a check return nil only when
\* they have read a result, whichever of their queries failed before.
\* (slave_status.go, slave_hosts.go, ndbinfo_transporters.go)
NilMeansRead ==
  \A s \in active :
    result[s] = "nil" /\ s.kind \in {"slave_status", "slave_hosts", "transporters"} =>
      read[s] = 1

\* The statements a scraper is there to read from, and the check before them.
Wanted(s) ==
  LET Some(qs) == \E q \in qs : Knows(s, Statement(s.kind, q), "")
      IsOn     == Some({1}) /\ ~Knows(s, Statement(s.kind, 1), "OFF")
  IN  CASE s.kind = "slave_status"          -> Some(1..3)
        [] s.kind = "slave_hosts"           -> Some({1, 2})
        [] s.kind = "replica_host"          -> Some({1})
        [] s.kind = "transporters"          -> Some({2})
        [] OTHER                            -> IsOn /\ Some({2})

\* query_response_time reads each table that the server has, the others one.
Results(s) ==
  IF s.kind = "query_response_time"
  THEN Cardinality({q \in 2..4 : Knows(s, Statement(s.kind, q), "")}) ELSE 1

Undisturbed(s) == faults[s] = 0 /\ s.request \notin ended

\* A scraper that meets no failure itself reads what its server has and says so, whatever
\* forms of its statements the server knows, whatever other servers know, and whatever
\* fails or ends beside it.  Only a scrape of transporters may err without a failure of its
\* own: one that was at work when another turned the flag off.  (every Scrape of this
\* module, and the flag of ndbinfo_transporters.go:48 that all targets share)
Served ==
  \A s \in active :
    pc[s] = "returned" /\ Wanted(s) /\ Undisturbed(s) =>
      \/ result[s] = "nil" /\ read[s] = Results(s)
      \/ s.kind = "transporters" /\ s \in overtaken

\* Variables and columns, or the rows of one scrape, differ only in a scrape that was
\* at work when another turned the flag off; those that begin later are whole.
\* (ndbinfoTransportersQueryDB, and the two tests of the flag after it)
MixedOnlyAcross ==
  \A s \in active :
    s.kind = "transporters" /\ (sent[s] = BOOLEAN \/ (pc[s] = "rows" /\ Mismatch(s))) =>
      s \in overtaken

HasColumn(s) == Knows(s, "transporters, encrypted", "")

\* Some scrape of transporters, of any target, gave a reason to drop the column.
Excused == \E t \in active : t.kind = "transporters" /\ ~(HasColumn(t) /\ Undisturbed(t))

\* Rows are sent without encrypted only after some scrape of transporters, of this target
\* or of another, has failed, was ended, or asked a server without the column; and rows
\* with it come from a server that has it.
\* (ndbinfoTransportersQueryDB, and the test of the flag for each row)
ColumnSent ==
  \A s \in active :
    /\ FALSE \in sent[s] => Excused
    /\ TRUE \in sent[s] => HasColumn(s)

\* While a scraper meets fewer failures than it has connections, all return, without any
\* deadline: nobody waits for ever for the connections of the pool.
\* (slave_status.go 85 beside the other scrapers of a request)
Terminates == <>(\A s \in active : pc[s] = "returned")

\* "Leverage lock-free SHOW SLAVE STATUS by guessing the right suffix"
\* (slave_status.go:83): where the server knows a lock-free form, that one is read.
LockFreeUsed ==
  \A s \in active :
    s.kind = "slave_status" /\ pc[s] = "rows" =>
      \A i \in 1..2 :
        Knows(s, slaveStatusQueries[at[s].q], slaveStatusQuerySuffixes[i]) =>
          at[s].suffix \in 1..2

=============================================================================
