-------------------------------- MODULE Rows --------------------------------
(***************************************************************************)
(* The scrapers that compute over the rows of their result: values carried *)
(* from one row to the next, sums and histograms that are sent after the   *)
(* last.  A behaviour is one Scrape: a result, a step for each of its      *)
(* rows, and what comes after them.  A result may break off: Next of the   *)
(* rows is then false before the last of them, and nobody asks for Err, so *)
(* that what comes after the rows is done with the rows read until then.   *)
(*                                                                         *)
(* The variables of Scrape are the fields of var, with the values they     *)
(* have before the first row; the metrics sent are in out.                 *)
(***************************************************************************)
EXTENDS Integers, Sequences, FiniteSets, Functions

CONSTANTS
  Results,      \* for each kind of scraper, results it may read
  UpperBounds,  \* the bounds of a histogram helper, in ascending order
  Width,        \* bits of the sums of processlist
  Unknown,      \* what an empty command, state or host is called
  Sanitized     \* each command or state in lower case, without punctuation

ASSUME RowsAssumption ==
  /\ DOMAIN Results = {"processlist", "files", "histogram", "query_response_time",
                       "binlog", "slave_hosts"}
  /\ Width \in Nat \ {0} /\ 2^Width \in Nat \ {0}
  /\ UpperBounds \in Seq(Nat) /\ UpperBounds # <<>>
  /\ \A i \in 2..Len(UpperBounds) : UpperBounds[i - 1] < UpperBounds[i]

\* What the variables of a Scan hold, by the column of the query.  A replica is listed by
\* MySQL from 5.6, by MySQL before, or by MariaDB.
RowOf ==
  [processlist |-> [user : STRING, host : STRING, command : STRING, state : STRING,
                    count : 0..(2^Width - 1), time : 0..(2^Width - 1)],
   files |-> [file : Nat, type : STRING, node : STRING, undo : Nat \cup {-1}],
   histogram |-> [bound : {UpperBounds[i] : i \in DOMAIN UpperBounds}, count : Nat],
   query_response_time |-> [length : Nat, count : Nat, total : Nat],
   binlog |-> [filename : [number : Nat, dot : BOOLEAN], size : Nat],
   slave_hosts |-> [host : STRING, columns : {5}, fourth : {"source"}, fifth : {"uuid"}] \cup
                   [host : STRING, columns : {5}, fourth : {"rank"}, fifth : {"source"}] \cup
                   [host : STRING, columns : {4}, fourth : {"source"}, fifth : {""}]]

\* The table of a server has each bound at most once, and need not have them all.  The
\* response times ascend, and the row TOO LONG is the last.
ASSUME ResultsAssumption ==
  /\ \A k \in DOMAIN Results : Results[k] \subseteq Seq(RowOf[k])
  /\ \A r \in Results.histogram : \A i, j \in DOMAIN r : i # j => r[i].bound # r[j].bound
  /\ \A r \in Results.query_response_time : \A i, j \in DOMAIN r :
       i < j => r[i].length # 0 /\ (r[j].length # 0 => r[i].length < r[j].length)

VARIABLES kind, result, next, var, out, returned

vars == <<kind, result, next, var, out, returned>>

-----------------------------------------------------------------------------
(* Maps of Go: an absent key reads as 0 *)

At(map, key) == IF key \in DOMAIN map THEN map[key] ELSE 0
Put(map, key, value) == [k \in DOMAIN map \cup {key} |-> IF k = key THEN value ELSE map[k]]
Empty == [k \in {} |-> 0]

\* map[key] += n on numbers of Width bits.
Add(map, key, n) == Put(map, key, (At(map, key) + n) % 2^Width)

Start(k) ==
  CASE k = "processlist" -> [counts |-> Empty, times |-> Empty, hosts |-> Empty, users |-> Empty]
    [] k = "files"       -> [nodeID |-> "", undoBufferSize |-> -1]
    [] k = "histogram"   -> [bucket |-> Empty]
    [] k = "query_response_time" -> [cnt |-> 0, sum |-> 0, buckets |-> Empty]
    [] k = "binlog"      -> [size |-> 0, count |-> 0, filename |-> [number |-> 0, dot |-> FALSE]]
    [] k = "slave_hosts" -> [rrrOrMasterId |-> "", slaveUuidOrMasterId |-> ""]

-----------------------------------------------------------------------------
(* One row *)

\* Commands and states that differ in case or punctuation only become one.
sanitizeState(state) == Sanitized[IF state = "" THEN Unknown ELSE state]

ProcessRow_HostReplaced(row) ==
  LET key  == <<sanitizeState(row.command), sanitizeState(row.state)>>
      host == IF row.host = "" THEN Unknown ELSE row.host
  IN  [counts |-> Add(var.counts, key, row.count), times |-> Add(var.times, key, row.time),
       hosts |-> Put(var.hosts, host, row.count), users |-> Add(var.users, row.user, row.count)]

ProcessRow(row) ==
  LET key  == <<sanitizeState(row.command), sanitizeState(row.state)>>
      host == IF row.host = "" THEN Unknown ELSE row.host
  IN  [counts |-> Add(var.counts, key, row.count), times |-> Add(var.times, key, row.time),
       hosts |-> Add(var.hosts, host, row.count), users |-> Add(var.users, row.user, row.count)]

\* Both variables keep what an earlier row had when EXTRA does not name them.
FileExtra(row) ==
  [nodeID         |-> IF row.node # "" THEN row.node ELSE var.nodeID,
   undoBufferSize |-> IF row.undo # -1 THEN row.undo ELSE var.undoBufferSize]

\* A row of the table of a server: the bucket is set, and made cumulative after the rows.
BucketRow(row) == [bucket |-> Put(var.bucket, row.bound, row.count)]

\* Length 0 is the row TOO LONG: counted, but no bucket.
ResponseTimeRow(row) ==
  LET cnt == var.cnt + row.count
  IN  [cnt |-> cnt, sum |-> var.sum + row.total,
       buckets |-> IF row.length = 0 THEN var.buckets ELSE Put(var.buckets, row.length, cnt)]

BinlogRow_SizeOfLast(row) ==
  [size |-> row.size, count |-> var.count + 1, filename |-> row.filename]

BinlogRow(row) ==
  [size |-> var.size + row.size, count |-> var.count + 1, filename |-> row.filename]

\* The columns of the three server families: with a UUID, with a recovery rank, with
\* neither.  The fifth is scanned only where there is one.
SlaveHostRow(row) ==
  [rrrOrMasterId       |-> row.fourth,
   slaveUuidOrMasterId |-> IF row.columns = 5 THEN row.fifth ELSE var.slaveUuidOrMasterId]

RowVar(row) ==
  CASE kind = "processlist"          -> ProcessRow(row)
    [] kind = "files"                -> FileExtra(row)
    [] kind = "histogram"            -> BucketRow(row)
    [] kind = "query_response_time"  -> ResponseTimeRow(row)
    [] kind = "binlog"               -> BinlogRow(row)
    [] kind = "slave_hosts"          -> SlaveHostRow(row)

-----------------------------------------------------------------------------
(* What is sent for a row, from the variables after it *)

FileSent_BeforeExtra(row, v) ==
  {[file |-> row.file, node |-> var.nodeID,
    undo |-> IF row.type = "UNDO LOG" THEN var.undoBufferSize ELSE -1]}

FileSent(row, v) ==
  {[file |-> row.file, node |-> v.nodeID,
    undo |-> IF row.type = "UNDO LOG" THEN v.undoBufferSize ELSE -1]}

SlaveHostSent_TakesRank(row, v) ==
  IF row.columns = 5 /\ v.slaveUuidOrMasterId = "uuid"
  THEN {[host |-> row.host, master |-> v.rrrOrMasterId, uuid |-> v.slaveUuidOrMasterId]}
  ELSE {[host |-> row.host, master |-> v.rrrOrMasterId, uuid |-> ""]}

SlaveHostSent(row, v) ==
  LET slave(master, uuid) == {[host |-> row.host, master |-> master, uuid |-> uuid]}
  IN  IF row.columns # 5 THEN slave(v.rrrOrMasterId, "")
      ELSE IF v.slaveUuidOrMasterId = "uuid"
           THEN slave(v.rrrOrMasterId, v.slaveUuidOrMasterId)
           ELSE slave(v.slaveUuidOrMasterId, "")

RowSent(row, v) ==
  CASE kind = "files"       -> FileSent(row, v)
    [] kind = "slave_hosts" -> SlaveHostSent(row, v)
    [] OTHER                -> {}

-----------------------------------------------------------------------------
(* What is sent after the last row *)

\* Twice the sum, which is of halves: each counter taken at the middle of its bucket.
ArtificialSum(bucket) ==
  LET below(i) == IF i = 1 THEN 0 ELSE UpperBounds[i - 1]
  IN  SumFunctionOnSet([i \in DOMAIN UpperBounds |->
                          (UpperBounds[i] + below(i)) * At(bucket, UpperBounds[i])],
                       DOMAIN UpperBounds)

MakeCumulative_SkipsMissing(bucket) ==
  LET Cumulated[i \in 0..Len(UpperBounds)] ==
        IF i = 0 THEN bucket
        ELSE LET sum == IF i = 1 THEN 0 ELSE At(Cumulated[i - 1], UpperBounds[i - 1])
             IN  IF UpperBounds[i] \notin DOMAIN bucket THEN Cumulated[i - 1]
                 ELSE Put(Cumulated[i - 1], UpperBounds[i], bucket[UpperBounds[i]] + sum)
  IN  Cumulated[Len(UpperBounds)]

\* bucket[bound] += sum also makes the bounds that had no row.
MakeCumulative(bucket) ==
  LET Cumulated[i \in 0..Len(UpperBounds)] ==
        IF i = 0 THEN bucket
        ELSE LET sum == IF i = 1 THEN 0 ELSE Cumulated[i - 1][UpperBounds[i - 1]]
             IN  Put(Cumulated[i - 1], UpperBounds[i], At(bucket, UpperBounds[i]) + sum)
  IN  Cumulated[Len(UpperBounds)]

GetLast == UpperBounds[Len(UpperBounds)]

\* A node without rows has no histogram.
HistogramSent ==
  IF var.bucket = Empty THEN {}
  ELSE LET bucket == MakeCumulative(var.bucket)
       IN  {[count |-> At(bucket, GetLast), sum2 |-> ArtificialSum(var.bucket), buckets |-> bucket]}

ResponseTimeSent == {[count |-> var.cnt, sum2 |-> 2 * var.sum, buckets |-> var.buckets]}

ProcessesSent == {var}

BinlogSent == {[size |-> var.size, files |-> var.count, number |-> var.filename.number]}

LastSent ==
  CASE kind = "processlist"          -> ProcessesSent
    [] kind = "histogram"            -> HistogramSent
    [] kind = "query_response_time"  -> ResponseTimeSent
    [] kind = "binlog"               -> BinlogSent
    [] OTHER                         -> {}

-----------------------------------------------------------------------------

Init ==
  /\ kind \in DOMAIN Results
  /\ result \in Results[kind]
  /\ next = 1 /\ var = Start(kind) /\ out = {} /\ returned = "no"

Row ==
  /\ returned = "no" /\ next <= Len(result)
  /\ var' = RowVar(result[next])
  /\ out' = out \cup RowSent(result[next], var')
  /\ next' = next + 1
  /\ UNCHANGED <<kind, result, returned>>

\* A number out of range, a NULL: an error, but for binlog_size, which returns nil unless
\* the result has a number of columns that it does not know.
ScanFails ==
  /\ returned = "no" /\ next <= Len(result)
  /\ returned' \in {"error"} \cup (IF kind = "binlog" THEN {"nil"} ELSE {})
  /\ UNCHANGED <<kind, result, next, var, out>>

\* strings.Split(filename, ".")[1]: without a row, or a dot, an index out of range.
HasNumber == kind = "binlog" => var.filename.dot

\* After the last row, or where the result breaks off.
AfterRows ==
  /\ returned = "no" /\ HasNumber
  /\ out' = out \cup LastSent
  /\ returned' = "nil"
  /\ UNCHANGED <<kind, result, next, var>>

\* A panic of a scraper's goroutine ends the process.
Panic ==
  /\ returned = "no" /\ ~HasNumber
  /\ returned' = "panic"
  /\ UNCHANGED <<kind, result, next, var, out>>

Returned == returned # "no" /\ UNCHANGED vars

Next == Row \/ ScanFails \/ AfterRows \/ Panic \/ Returned

Spec == Init /\ [][Next]_vars

-----------------------------------------------------------------------------
(* Properties *)

\* The rows that were scanned: all of a result, unless it broke off.
RowsRead == 1..(next - 1)

\* The sum of an expression over the rows read that satisfy a test.
SumOver(Test(_), Value(_)) ==
  SumFunctionOnSet([i \in DOMAIN result |-> Value(result[i])], {i \in RowsRead : Test(result[i])})

SumOfMap(map) == SumFunctionOnSet(map, DOMAIN map)

\* A histogram is cumulative, of a result that breaks off as well: each bucket counts the
\* rows read up to its bound, each bound of the helper has one, and the count of all is
\* the last bucket and, for the response times, those that were too long besides.  The
\* artificial sum is at most that of the bounds, which it would not be of counters made
\* cumulative before.
\* (MakeCumulative, ArtificialSum, processQueryResponseTimeTable)
HistogramsCumulative ==
  kind \in {"histogram", "query_response_time"} =>
    \A h \in out :
      LET ByLength     == kind = "query_response_time"
          Bound(row)   == IF ByLength THEN row.length ELSE row.bound
          TooLong(row) == ByLength /\ row.length = 0
      IN  /\ \A b \in DOMAIN h.buckets :
               h.buckets[b] = SumOver(LAMBDA row : Bound(row) <= b /\ ~TooLong(row),
                                      LAMBDA row : row.count)
          /\ h.count = SumOver(LAMBDA row : TRUE, LAMBDA row : row.count)
          /\ IF ByLength THEN 0 \notin DOMAIN h.buckets
             ELSE /\ DOMAIN h.buckets = {UpperBounds[i] : i \in 1..Len(UpperBounds)}
                  /\ h.sum2 <= 2 * SumOver(LAMBDA row : TRUE, LAMBDA row : row.bound * row.count)

\* However rows are merged, each process that was read is counted once by state, once by
\* host and once by user, and its seconds once by state; without overflow these are all
\* the processes, and all their seconds.
\* (ScrapeProcesslist.Scrape)
ProcessesConserved ==
  kind = "processlist" =>
    \A p \in out :
      LET IsAll(map, all) == /\ SumOfMap(map) % 2^Width = all % 2^Width
                             /\ all < 2^Width => SumOfMap(map) = all
          processes == SumOver(LAMBDA row : TRUE, LAMBDA row : row.count)
          seconds   == SumOver(LAMBDA row : TRUE, LAMBDA row : row.time)
      IN  /\ IsAll(p.counts, processes) /\ IsAll(p.hosts, processes)
          /\ IsAll(p.users, processes) /\ IsAll(p.times, seconds)

\* A row that names its node, or its undo buffer, is sent with that; another one with
\* nothing, or what an earlier row named.
\* (ScrapeNDBInfoFiles.Scrape)
FilesOwnNode ==
  kind = "files" =>
    \A f \in out : \E i \in RowsRead :
      LET row == result[i]
      IN  /\ f.file = row.file
          /\ f.node = row.node \/ (row.node = "" /\ \E j \in 1..(i - 1) : f.node = result[j].node)
          /\ row.type = "UNDO LOG" =>
               f.undo = row.undo \/ (row.undo = -1 /\ \E j \in 1..(i - 1) : f.undo = result[j].undo)

\* What binlog_size sends is of the same rows, those it has read: their number, their
\* sizes and the file number of the last of them.  Only before a row, or after one whose
\* name has no dot, can it end the process: on a server without binary logs, and where
\* the result breaks off at once.  (ScrapeBinlogSize.Scrape)
BinlogOfRowsRead ==
  kind = "binlog" =>
    /\ \A b \in out :
         /\ next > 1 /\ b.files = next - 1
         /\ b.size = SumOver(LAMBDA row : TRUE, LAMBDA row : row.size)
         /\ b.number = result[next - 1].filename.number
    /\ returned = "panic" => next = 1 \/ ~result[next - 1].filename.dot

\* A replica's source is the column that holds it, in each of the three layouts.
\* (ScrapeSlaveHosts.Scrape)
SourceOfReplica ==
  kind = "slave_hosts" =>
    \A h \in out : \E i \in RowsRead :
      h.host = result[i].host /\ h.master = "source" /\ (h.uuid = "uuid" <=> result[i].fifth = "uuid")

=============================================================================
