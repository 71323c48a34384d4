----------------------------- MODULE RowsProofs -----------------------------
(***************************************************************************)
(* Proofs about Rows, for results of any length, any bounds and any width. *)
(*                                                                         *)
(* Each property has an invariant of its own that says what the variables  *)
(* of Scrape are after the rows so far: an account of the rows read.  What *)
(* is sent after them is that account, whether they are all of the result  *)
(* or it broke off.                                                        *)
(***************************************************************************)
EXTENDS Rows, SumTheorems

-----------------------------------------------------------------------------
(* Results and the place in them *)

\* The result is one that the scraper may read, and next is a row of it or after the last.
Placed ==
  /\ kind \in DOMAIN Results /\ result \in Results[kind]
  /\ result \in Seq(RowOf[kind])
  /\ next \in 1..(Len(result) + 1)

\* A scrape begins before the first row.
LEMMA PlacedInit == Init => Placed
<1> SUFFICES ASSUME Init PROVE Placed
  OBVIOUS
<1>1. kind \in DOMAIN Results /\ result \in Results[kind] /\ next = 1
  BY DEF Init
<1>2. result \in Seq(RowOf[kind])
  BY <1>1, ResultsAssumption
<1>3. Len(result) \in Nat
  BY <1>2
<1> QED BY <1>1, <1>2, <1>3 DEF Placed

\* The rows are read in order, each once.
LEMMA PlacedStep == Placed /\ [Next]_vars => Placed'
<1> SUFFICES ASSUME Placed, [Next]_vars PROVE Placed'
  OBVIOUS
<1>1. CASE Row
  BY <1>1 DEF Row, Placed
<1>2. CASE ScanFails \/ AfterRows \/ Panic \/ Returned \/ UNCHANGED vars
  BY <1>2 DEF ScanFails, AfterRows, Panic, Returned, vars, Placed
<1> QED BY <1>1, <1>2 DEF Next

\* The rows of a result are those up to its length, and the rows read are some of them.
LEMMA AllRows ==
  ASSUME Placed
  PROVE  /\ DOMAIN result = 1..Len(result) /\ Len(result) \in Nat
         /\ next \in Nat /\ 1 <= next /\ next <= Len(result) + 1
         /\ RowsRead = 1..(next - 1) /\ RowsRead \subseteq DOMAIN result
         /\ {i \in RowsRead : TRUE} = RowsRead
BY DEF Placed, RowsRead

\* A step that is not a row's leaves what the rows have made.
LEMMA OtherSteps ==
  ASSUME [Next]_vars, ~Row
  PROVE  /\ UNCHANGED <<kind, result, next, var>>
         /\ \/ UNCHANGED out
            \/ /\ returned = "no" /\ HasNumber /\ returned' = "nil"
               /\ out' = out \cup LastSent
BY DEF Next, ScanFails, AfterRows, Panic, Returned, vars

-----------------------------------------------------------------------------
(* ndbinfo.files *)

\* What the variables have, an earlier row named.
FilesCarried ==
  kind = "files" =>
    /\ var.nodeID = "" \/ \E j \in 1..(next - 1) : var.nodeID = result[j].node
    /\ var.undoBufferSize = -1 \/ \E j \in 1..(next - 1) : var.undoBufferSize = result[j].undo

\* The metric of a row and of what the variables hold.
LEMMA FileSentIs ==
  ASSUME NEW row, NEW v, NEW f, f \in FileSent(row, v)
  PROVE  /\ f.file = row.file /\ f.node = v.nodeID
         /\ row.type = "UNDO LOG" => f.undo = v.undoBufferSize
<1> DEFINE undo == IF row.type = "UNDO LOG" THEN v.undoBufferSize ELSE -1
<1>1. f = [file |-> row.file, node |-> v.nodeID, undo |-> undo]
  BY DEF FileSent
<1>2. row.type = "UNDO LOG" => undo = v.undoBufferSize
  OBVIOUS
<1> HIDE DEF undo
<1> QED BY <1>1, <1>2

\* f is of row i, with what this row or an earlier one named.
FileOf(f, i) ==
  /\ f.file = result[i].file
  /\ \/ f.node = result[i].node
     \/ result[i].node = "" /\ \E j \in 1..(i - 1) : f.node = result[j].node
  /\ result[i].type = "UNDO LOG" =>
       \/ f.undo = result[i].undo
       \/ result[i].undo = -1 /\ \E j \in 1..(i - 1) : f.undo = result[j].undo

\* FilesOwnNode, and what the variables have.
FilesSoFar ==
  FilesCarried /\ (kind = "files" => \A f \in out : \E i \in 1..(next - 1) : FileOf(f, i))

\* ... says no less than the property.
LEMMA FilesSoFarOwn == FilesSoFar => FilesOwnNode
BY Zenon DEF FilesSoFar, FilesOwnNode, FileOf, RowsRead

\* Each row is sent with its own node and undo buffer, or those of earlier rows.
LEMMA FilesStep ==
  ASSUME Placed, FilesSoFar, [Next]_vars
  PROVE  FilesSoFar'
<1> SUFFICES ASSUME kind' = "files" PROVE FilesSoFar'
  BY DEF FilesSoFar, FilesCarried
<1>0. /\ kind = "files" /\ result \in Seq(RowOf.files) /\ result' = result
      /\ next \in Nat /\ 1 <= next /\ next <= Len(result) + 1 /\ Len(result) \in Nat
  <2>1. kind' = kind /\ result' = result
    BY DEF Next, Row, ScanFails, AfterRows, Panic, Returned, vars
  <2>2. kind = "files"
    BY <2>1
  <2>3. result \in Seq(RowOf.files)
    BY <2>2 DEF Placed
  <2> QED BY <2>1, <2>2, <2>3 DEF Placed
<1>1. \A f, i : FileOf(f, i)' <=> FileOf(f, i)
  BY <1>0 DEF FileOf
<1>2. CASE Row
  <2> DEFINE row == result[next]
  <2>1. /\ next <= Len(result) /\ next' = next + 1
        /\ var' = FileExtra(row) /\ out' = out \cup FileSent(row, var')
    BY <1>0, <1>2 DEF Row, RowVar, RowSent
  <2>2. /\ var'.nodeID = IF row.node # "" THEN row.node ELSE var.nodeID
        /\ var'.undoBufferSize = IF row.undo # -1 THEN row.undo ELSE var.undoBufferSize
    BY <2>1 DEF FileExtra
  <2>3. \A j \in 1..(next - 1) : j \in 1..(next' - 1)
    BY <1>0, <2>1
  <2>4. next \in 1..(next' - 1)
    BY <1>0, <2>1
  <2>5. FilesCarried'
    BY <1>0, <2>1, <2>2, <2>3, <2>4 DEF FilesCarried, FilesSoFar
  <2>6. ASSUME NEW f \in out' PROVE \E i \in 1..(next' - 1) : FileOf(f, i)
    <3>1. CASE f \in out
      BY <1>0, <2>3, <3>1 DEF FilesSoFar
    <3>2. CASE f \in FileSent(row, var')
      <4>1. /\ f.file = row.file /\ f.node = var'.nodeID
            /\ row.type = "UNDO LOG" => f.undo = var'.undoBufferSize
        BY ZenonT(40), <3>2, FileSentIs
      <4>2. f.node = row.node \/ (row.node = "" /\ \E j \in 1..(next - 1) : f.node = result[j].node)
        BY <1>0, <2>2, <4>1 DEF FilesCarried, FilesSoFar
      <4>3. row.type = "UNDO LOG" =>
              \/ f.undo = row.undo
              \/ row.undo = -1 /\ \E j \in 1..(next - 1) : f.undo = result[j].undo
        BY <1>0, <2>2, <4>1 DEF FilesCarried, FilesSoFar
      <4>4. FileOf(f, next)
        BY <4>1, <4>2, <4>3 DEF FileOf
      <4> QED BY <2>4, <4>4
    <3> QED BY <2>1, <3>1, <3>2
  <2> QED BY <1>1, <2>5, <2>6 DEF FilesSoFar
<1>3. CASE ~Row
  <2>1. UNCHANGED <<kind, result, next, var, out>>
    BY <1>0, <1>3, OtherSteps DEF LastSent
  <2>2. FilesCarried' <=> FilesCarried
    BY <2>1 DEF FilesCarried
  <2> QED BY <1>1, <2>1, <2>2 DEF FilesSoFar
<1> QED BY <1>2, <1>3

\* A row of ndbinfo.files is sent with its own node and undo buffer, or those of earlier
\* rows where it names none.
\* (ScrapeNDBInfoFiles.Scrape)
THEOREM FilesOwnNodeHolds == Spec => []FilesOwnNode
<1>1. Init => FilesSoFar
  <2> SUFFICES ASSUME Init, kind = "files" PROVE FilesSoFar
    BY DEF Init, FilesSoFar, FilesCarried
  <2>1. var = [nodeID |-> "", undoBufferSize |-> -1] /\ out = {}
    BY DEF Init, Start
  <2>2. var.nodeID = "" /\ var.undoBufferSize = -1
    BY <2>1
  <2> QED BY <2>1, <2>2 DEF FilesSoFar, FilesCarried
<1>2. Placed /\ FilesSoFar /\ [Next]_vars => FilesSoFar'
  BY FilesStep
<1> QED BY <1>1, <1>2, FilesSoFarOwn, PlacedInit, PlacedStep, PTL DEF Spec

-----------------------------------------------------------------------------
(* slave_hosts *)

\* The metric of a row, in each layout.
LEMMA SlaveHostSentIs ==
  ASSUME NEW row \in RowOf.slave_hosts, NEW v, v = SlaveHostRow(row),
         NEW h, h \in SlaveHostSent(row, v)
  PROVE  h.host = row.host /\ h.master = "source" /\ (h.uuid = "uuid" <=> row.fifth = "uuid")
<1>0. \/ row.columns = 5 /\ row.fourth = "source" /\ row.fifth = "uuid"
      \/ row.columns = 5 /\ row.fourth = "rank" /\ row.fifth = "source"
      \/ row.columns = 4 /\ row.fourth = "source" /\ row.fifth = ""
  BY DEF RowOf
<1>1. row.columns = 4 => row.columns # 5
  OBVIOUS
<1>2. v.rrrOrMasterId = row.fourth /\ (row.columns = 5 => v.slaveUuidOrMasterId = row.fifth)
  BY DEF SlaveHostRow
<1>3. CASE row.columns = 5 /\ row.fourth = "source" /\ row.fifth = "uuid"
  <2>1. h = [host |-> row.host, master |-> v.rrrOrMasterId, uuid |-> v.slaveUuidOrMasterId]
    BY <1>2, <1>3 DEF SlaveHostSent
  <2> QED BY <1>2, <1>3, <2>1
<1>4. CASE row.columns = 5 /\ row.fourth = "rank" /\ row.fifth = "source"
  <2>1. h = [host |-> row.host, master |-> v.slaveUuidOrMasterId, uuid |-> ""]
    BY <1>2, <1>4 DEF SlaveHostSent
  <2> QED BY <1>2, <1>4, <2>1
<1>5. CASE row.columns # 5 /\ row.fourth = "source" /\ row.fifth = ""
  <2>1. h = [host |-> row.host, master |-> v.rrrOrMasterId, uuid |-> ""]
    BY <1>5 DEF SlaveHostSent
  <2>2. h.host = row.host /\ h.master = "source" /\ h.uuid = row.fifth
    BY <1>2, <1>5, <2>1
  <2> QED BY <2>2
<1> QED BY <1>0, <1>1, <1>3, <1>4, <1>5

\* Each row is sent with its own source and UUID, whatever the variables had before.
LEMMA SourceStep ==
  ASSUME Placed, SourceOfReplica, [Next]_vars
  PROVE  SourceOfReplica'
<1> SUFFICES ASSUME kind' = "slave_hosts" PROVE SourceOfReplica'
  BY DEF SourceOfReplica
<1>0. /\ kind = "slave_hosts" /\ result \in Seq(RowOf.slave_hosts)
      /\ next \in Nat /\ 1 <= next /\ next <= Len(result) + 1 /\ Len(result) \in Nat
  <2>1. kind' = kind
    BY DEF Next, Row, ScanFails, AfterRows, Panic, Returned, vars
  <2>2. kind = "slave_hosts"
    BY <2>1
  <2>3. result \in Seq(RowOf.slave_hosts)
    BY <2>2 DEF Placed
  <2> QED BY <2>2, <2>3 DEF Placed
<1>1. CASE Row
  <2> DEFINE row == result[next]
  <2>1. /\ next <= Len(result) /\ next' = next + 1 /\ result' = result
        /\ var' = SlaveHostRow(row) /\ out' = out \cup SlaveHostSent(row, var')
    BY <1>0, <1>1 DEF Row, RowVar, RowSent
  <2>2. row \in RowOf.slave_hosts
    BY <1>0, <2>1
  <2>4. ASSUME NEW h \in SlaveHostSent(row, var')
        PROVE  h.host = row.host /\ h.master = "source" /\ (h.uuid = "uuid" <=> row.fifth = "uuid")
    BY <2>1, <2>2, SlaveHostSentIs
  <2>5. next \in 1..(next' - 1) /\ \A j \in 1..(next - 1) : j \in 1..(next' - 1)
    BY <1>0, <2>1
  <2> QED BY <1>0, <2>1, <2>4, <2>5 DEF SourceOfReplica, RowsRead
<1>2. CASE ~Row
  <2>1. UNCHANGED <<kind, result, next, var, out>>
    BY <1>0, <1>2, OtherSteps DEF LastSent
  <2> QED BY <2>1 DEF SourceOfReplica, RowsRead
<1> QED BY <1>1, <1>2

\* A replica's source is the column that holds it, in each of the three layouts, and in
\* results that mix them.
\* (ScrapeSlaveHosts.Scrape)
THEOREM SourceOfReplicaHolds == Spec => []SourceOfReplica
<1>1. Init => SourceOfReplica
  BY DEF Init, SourceOfReplica
<1>2. Placed /\ SourceOfReplica /\ [Next]_vars => SourceOfReplica'
  BY SourceStep
<1> QED BY <1>1, <1>2, PlacedInit, PlacedStep, PTL DEF Spec

-----------------------------------------------------------------------------
(* binlog_size *)

\* The size of each row.
Sizes == [i \in DOMAIN result |-> result[i].size]

\* After each row: the sum of the rows so far, their number, and the name of the last.
BinlogSoFar ==
  kind = "binlog" =>
    /\ var.size = SumFunctionOnSet(Sizes, 1..(next - 1)) /\ var.size \in Int
    /\ var.count = next - 1
    /\ next = 1 => var.filename.dot = FALSE
    /\ next > 1 => var.filename = result[next - 1].filename
    /\ returned = "no" => out = {}
    /\ returned = "panic" => ~HasNumber

\* One step keeps the account.
LEMMA BinlogStep ==
  ASSUME Placed, BinlogSoFar, BinlogOfRowsRead, [Next]_vars
  PROVE  BinlogSoFar' /\ BinlogOfRowsRead'
<1> SUFFICES ASSUME kind' = "binlog" PROVE BinlogSoFar' /\ BinlogOfRowsRead'
  BY DEF BinlogSoFar, BinlogOfRowsRead
<1>0. /\ kind = "binlog" /\ result \in Seq(RowOf.binlog) /\ result' = result
  <2>1. kind' = kind /\ result' = result
    BY DEF Next, Row, ScanFails, AfterRows, Panic, Returned, vars
  <2>2. kind = "binlog"
    BY <2>1
  <2>3. result \in Seq(RowOf.binlog)
    BY <2>2 DEF Placed
  <2> QED BY <2>1, <2>2, <2>3
<1>1. \A i \in DOMAIN result : Sizes[i] = result[i].size /\ Sizes[i] \in Int
  <2> SUFFICES ASSUME NEW i \in DOMAIN result PROVE result[i].size \in Int
    BY DEF Sizes
  <2>1. result[i] \in RowOf.binlog
    BY <1>0
  <2> QED BY <2>1 DEF RowOf
<1>2. Sizes' = Sizes
  BY <1>0 DEF Sizes
<1>3. /\ DOMAIN result = 1..Len(result) /\ Len(result) \in Nat
      /\ next \in Nat /\ 1 <= next /\ next <= Len(result) + 1
      /\ RowsRead = 1..(next - 1) /\ {i \in RowsRead : TRUE} = RowsRead
  BY AllRows
<1>4. CASE Row
  <2> DEFINE row == result[next]
  <2>1. /\ next <= Len(result) /\ next' = next + 1 /\ returned = "no" /\ returned' = returned
        /\ var' = BinlogRow(row) /\ out' = out
    BY <1>0, <1>4 DEF Row, RowVar, RowSent
  <2>2. /\ var'.size = var.size + row.size /\ var'.count = var.count + 1
        /\ var'.filename = row.filename
    BY <2>1 DEF BinlogRow
  <2>3. \A i \in 1..next : i \in DOMAIN result
    BY <1>3, <2>1
  <2>4. SumFunctionOnSet(Sizes, 1..next) = SumFunctionOnSet(Sizes, 1..(next - 1)) + Sizes[next]
    <3>1. next \in Nat /\ next # 0 /\ \A i \in 1..next : Sizes[i] \in Int
      BY <1>1, <1>3, <2>3
    <3> QED BY <3>1, SumUpTo
  <2>5. Sizes[next] = row.size /\ Sizes[next] \in Int
    BY <1>1, <1>3, <2>3
  <2>6. next' - 1 = next /\ next' > 1
    BY <1>3, <2>1
  <2>7. var'.size = SumFunctionOnSet(Sizes', 1..(next' - 1)) /\ var'.size \in Int
    BY <1>0, <1>2, <2>2, <2>4, <2>5, <2>6 DEF BinlogSoFar
  <2>8. var'.count = next' - 1
    BY <1>0, <1>3, <2>1, <2>2 DEF BinlogSoFar
  <2>9. var'.filename = result'[next' - 1].filename
    BY <1>0, <2>2, <2>6
  <2>10. BinlogSoFar'
    BY <1>0, <2>1, <2>6, <2>7, <2>8, <2>9 DEF BinlogSoFar
  <2>11. BinlogOfRowsRead'
    BY <1>0, <2>1 DEF BinlogSoFar, BinlogOfRowsRead
  <2> QED BY <2>10, <2>11
<1>5. CASE ~Row /\ ~AfterRows
  <2>1. /\ UNCHANGED <<kind, result, next, var, out>>
        /\ returned' = "no" => returned = "no"
        /\ returned' = "panic" => returned = "panic" \/ ~HasNumber
    BY <1>0, <1>5 DEF Next, ScanFails, Panic, Returned, vars
  <2>2. HasNumber' <=> HasNumber
    BY <2>1 DEF HasNumber
  <2>3. BinlogSoFar'
    BY <1>0, <1>2, <2>1, <2>2 DEF BinlogSoFar
  <2>4. returned' = "panic" => next = 1 \/ ~result[next - 1].filename.dot
    <3> SUFFICES ASSUME returned' = "panic", next # 1
                 PROVE  ~result[next - 1].filename.dot
      OBVIOUS
    <3>1. ~HasNumber
      BY <1>0, <2>1 DEF BinlogSoFar
    <3>2. next > 1
      BY <1>3
    <3> QED BY <1>0, <3>1, <3>2 DEF BinlogSoFar, HasNumber
  <2>5. \A b \in out' :
          /\ next > 1 /\ b.files = next - 1
          /\ b.size = SumOver(LAMBDA row : TRUE, LAMBDA row : row.size)
          /\ b.number = result[next - 1].filename.number
    BY <1>0, <2>1 DEF BinlogOfRowsRead
  <2>6. SumOver(LAMBDA row : TRUE, LAMBDA row : row.size)' = SumOver(LAMBDA row : TRUE, LAMBDA row : row.size)
    BY <1>0, <2>1 DEF SumOver, RowsRead
  <2>7. BinlogOfRowsRead'
    BY <1>0, <2>1, <2>4, <2>5, <2>6 DEF BinlogOfRowsRead
  <2> QED BY <2>3, <2>7
<1>6. CASE AfterRows
  <2>1. /\ UNCHANGED <<kind, result, next, var>> /\ HasNumber
        /\ returned = "no" /\ returned' = "nil" /\ out' = out \cup BinlogSent
    BY <1>0, <1>6 DEF AfterRows, LastSent
  <2>2. BinlogSoFar'
    BY <1>0, <1>2, <2>1 DEF BinlogSoFar
  <2>3. var.filename.dot
    BY <1>0, <2>1 DEF HasNumber
  <2>4. next > 1
    BY <1>0, <1>3, <2>3 DEF BinlogSoFar
  <2>5. SumOver(LAMBDA row : TRUE, LAMBDA row : row.size) = SumFunctionOnSet(Sizes, 1..(next - 1))
    BY <1>3 DEF SumOver, Sizes
  <2>6. out' = {[size |-> var.size, files |-> var.count, number |-> var.filename.number]}
    BY <1>0, <2>1 DEF BinlogSoFar, BinlogSent
  <2>7. ASSUME NEW b \in out'
        PROVE  /\ next > 1 /\ b.files = next - 1
               /\ b.size = SumOver(LAMBDA row : TRUE, LAMBDA row : row.size)
               /\ b.number = result[next - 1].filename.number
    BY <1>0, <2>4, <2>5, <2>6 DEF BinlogSoFar
  <2>8. SumOver(LAMBDA row : TRUE, LAMBDA row : row.size)' = SumOver(LAMBDA row : TRUE, LAMBDA row : row.size)
    BY <1>0, <2>1 DEF SumOver, RowsRead
  <2>9. BinlogOfRowsRead'
    BY <1>0, <2>1, <2>7, <2>8 DEF BinlogOfRowsRead
  <2> QED BY <2>2, <2>9
<1> QED BY <1>4, <1>5, <1>6

\* What binlog_size sends is of the rows it has read, all of one result or those before it
\* broke off: their number, the sum of their sizes, the file number of the last.  It ends
\* the process only without a row, or where the last name read has no dot.
\* (ScrapeBinlogSize.Scrape)
THEOREM BinlogOfRowsReadHolds == Spec => []BinlogOfRowsRead
<1>1. Init => BinlogSoFar /\ BinlogOfRowsRead
  <2> SUFFICES ASSUME Init, kind = "binlog" PROVE BinlogSoFar /\ BinlogOfRowsRead
    BY DEF Init, BinlogSoFar, BinlogOfRowsRead
  <2>1. /\ var.size = 0 /\ var.count = 0 /\ var.filename.dot = FALSE
        /\ next = 1 /\ out = {} /\ returned = "no"
    BY DEF Init, Start
  <2>2. SumFunctionOnSet(Sizes, 1..(next - 1)) = 0
    <3>1. 1..(next - 1) = {}
      BY <2>1
    <3> QED BY <3>1, SumEmpty
  <2>3. BinlogSoFar
    BY <2>1, <2>2 DEF BinlogSoFar
  <2>4. BinlogOfRowsRead
    BY <2>1 DEF BinlogOfRowsRead
  <2> QED BY <2>3, <2>4
<1>2. Placed /\ BinlogSoFar /\ BinlogOfRowsRead /\ [Next]_vars => BinlogSoFar' /\ BinlogOfRowsRead'
  BY BinlogStep
<1> QED BY <1>1, <1>2, PlacedInit, PlacedStep, PTL DEF Spec

-----------------------------------------------------------------------------
(* processlist *)

\* What the numbers of the maps are taken modulo of.
Span == 2^Width

\* ... is a number above 0.
LEMMA SpanType == Span \in Nat /\ Span > 0
BY RowsAssumption DEF Span

\* A number has one remainder.
LEMMA Remainder ==
  ASSUME NEW y \in Nat, NEW k \in Nat, NEW r \in Nat, r < Span, y = Span * k + r
  PROVE  y % Span = r
BY SpanType

\* Overflows leave the remainder.
LEMMA Overflows ==
  ASSUME NEW x \in Nat, NEW k \in Nat
  PROVE  (x + k * Span) % Span = x % Span
<1>1. PICK q \in Nat, r \in Nat : x = Span * q + r /\ r < Span /\ r = x % Span
  <2>1. x = Span * (x \div Span) + (x % Span) /\ x \div Span \in Nat
    BY SpanType
  <2>2. x % Span \in Nat /\ x % Span < Span
    BY SpanType
  <2> QED BY <2>1, <2>2
<1>2. x + k * Span = Span * (q + k) + r
  BY <1>1, SpanType
<1>3. (x + k * Span) \in Nat /\ q + k \in Nat
  BY SpanType
<1> QED BY <1>1, <1>2, <1>3, Remainder

\* A map of Go with numbers of Width bits.
IsMap(map) ==
  /\ map = [k \in DOMAIN map |-> map[k]] /\ IsFiniteSet(DOMAIN map)
  /\ \A k \in DOMAIN map : map[k] \in Nat /\ map[k] < Span

\* The numbers of a map are all that was added but for the overflows.
Conserved(map, all) ==
  /\ IsMap(map)
  /\ \E k \in Nat : all = SumOfMap(map) + k * Span

\* A sum of a map after one number of it was set.
LEMMA PutSum ==
  ASSUME NEW map, IsFiniteSet(DOMAIN map), \A k \in DOMAIN map : map[k] \in Int,
         NEW key, NEW value \in Int
  PROVE  /\ SumOfMap(Put(map, key, value)) = SumOfMap(map) - At(map, key) + value
         /\ SumOfMap(map) \in Int /\ At(map, key) \in Int
<1> DEFINE g == Put(map, key, value)
           D == DOMAIN map
<1>1. /\ DOMAIN g = D \cup {key} /\ g[key] = value
      /\ \A k \in D \ {key} : g[k] = map[k]
      /\ \A k \in D \cup {key} : g[k] \in Int
  BY DEF Put
<1>2. SumOfMap(map) = SumFunctionOnSet(map, D) /\ SumFunctionOnSet(map, D) \in Int
  BY SumInt DEF SumOfMap
<1>3. SumOfMap(g) = SumFunctionOnSet(g, D \cup {key})
  BY <1>1 DEF SumOfMap
<1>4. At(map, key) \in Int /\ (key \in D => At(map, key) = map[key]) /\ (key \notin D => At(map, key) = 0)
  BY DEF At
<1> SUFFICES SumOfMap(g) = SumOfMap(map) - At(map, key) + value
  BY <1>2, <1>4
<1> HIDE DEF g
<1>5. CASE key \in D
  <2>1. D \cup {key} = D
    BY <1>5
  <2>2. SumFunctionOnSet(g, D) = SumFunctionOnSet(map, D) - map[key] + g[key]
    <3>1. \A y \in D : map[y] \in Int /\ g[y] \in Int
      BY <1>1
    <3> QED BY <1>1, <1>5, <3>1, SumUpdate
  <2>3. SumOfMap(g) = SumFunctionOnSet(g, D) /\ At(map, key) = map[key]
    BY <1>3, <1>4, <1>5, <2>1
  <2> QED BY <1>1, <1>2, <2>2, <2>3
<1>6. CASE key \notin D
  <2>1. IsFiniteSet(D \cup {key}) /\ (D \cup {key}) \ {key} = D
    BY <1>6, FS_AddElement
  <2>2. SumFunctionOnSet(g, D \cup {key}) = g[key] + SumFunctionOnSet(g, D)
    BY <1>1, <2>1, SumRemove
  <2>3. SumFunctionOnSet(g, D) = SumFunctionOnSet(map, D)
    <3>1. \A k \in D : g[k] = map[k]
      BY <1>1, <1>6
    <3> QED BY <3>1, SumSame
  <2>4. SumOfMap(g) = value + SumOfMap(map) /\ At(map, key) = 0
    BY <1>1, <1>2, <1>3, <1>4, <1>6, <2>2, <2>3
  <2> QED BY <1>2, <2>4
<1> QED BY <1>5, <1>6

\* map[key] += n loses n to an overflow only.
LEMMA AddConserves ==
  ASSUME NEW map, NEW all \in Nat, Conserved(map, all), NEW key, NEW n \in Nat, n < Span
  PROVE  Conserved(Add(map, key, n), all + n)
<1> DEFINE old == At(map, key)
           new == (old + n) % Span
           g == Put(map, key, new)
<1>1. IsMap(map) /\ IsFiniteSet(DOMAIN map) /\ \A k \in DOMAIN map : map[k] \in Nat /\ map[k] < Span
  BY DEF Conserved, IsMap
<1>2. old \in Nat /\ old < Span
  BY <1>1, SpanType DEF At
<1>3. /\ new \in Nat /\ new < Span
      /\ \E c \in {0, 1} : old + n = new + c * Span
  <2>1. CASE old + n < Span
    <3>0. old + n = Span * 0 + (old + n) /\ old + n \in Nat
      BY <1>2, SpanType
    <3>1. new = old + n
      BY <2>1, <3>0, Remainder
    <3> QED BY <1>2, <2>1, <3>1, SpanType
  <2>2. CASE ~(old + n < Span)
    <3>1. old + n = Span * 1 + (old + n - Span) /\ old + n - Span \in Nat /\ old + n - Span < Span
      BY <1>2, <2>2, SpanType
    <3>2. new = old + n - Span
      BY <1>2, <3>1, Remainder
    <3> QED BY <1>2, <3>1, <3>2, SpanType
  <2> QED BY <2>1, <2>2
<1> HIDE DEF new
<1>4. SumOfMap(g) = SumOfMap(map) - old + new /\ SumOfMap(map) \in Int
  BY <1>1, <1>3, PutSum
<1>5. PICK k \in Nat : all = SumOfMap(map) + k * Span
  BY DEF Conserved
<1>6. PICK c \in {0, 1} : old + n = new + c * Span
  BY <1>3
<1>7. all + n = SumOfMap(g) + (k + c) * Span /\ k + c \in Nat
  <2>1. all + n = SumOfMap(g) + k * Span + c * Span
    <3> HIDE DEF old, g
    <3>1. k * Span \in Int /\ c * Span \in Int
      BY SpanType
    <3> QED BY <1>2, <1>3, <1>4, <1>5, <1>6, <3>1
  <2>2. (k + c) * Span = k * Span + c * Span
    BY SpanType
  <2>3. SumOfMap(g) \in Int /\ k * Span \in Int /\ c * Span \in Int /\ k + c \in Nat
    BY <1>2, <1>3, <1>4, SpanType
  <2> HIDE DEF g
  <2> QED BY <2>1, <2>2, <2>3
<1>8. IsMap(g)
  <2>1. g = [k1 \in DOMAIN g |-> g[k1]] /\ DOMAIN g = DOMAIN map \cup {key}
    BY DEF Put
  <2>2. IsFiniteSet(DOMAIN g)
    BY <1>1, <2>1, FS_AddElement
  <2>3. \A k1 \in DOMAIN g : g[k1] \in Nat /\ g[k1] < Span
    BY <1>1, <1>3 DEF Put
  <2> QED BY <2>1, <2>2, <2>3 DEF IsMap
<1>9. Add(map, key, n) = g
  BY DEF Add, Span, new
<1> QED BY <1>7, <1>8, <1>9 DEF Conserved

\* What is conserved is all of it, up to the overflows.
LEMMA ConservedIsAll ==
  ASSUME NEW map, NEW all \in Nat, Conserved(map, all)
  PROVE  /\ SumOfMap(map) % 2^Width = all % 2^Width
         /\ all < 2^Width => SumOfMap(map) = all
<1>1. PICK k \in Nat : all = SumOfMap(map) + k * Span
  BY DEF Conserved
<1>2. SumOfMap(map) \in Nat
  BY SumNat DEF Conserved, IsMap, SumOfMap
<1>3. all % Span = SumOfMap(map) % Span
  BY <1>1, <1>2, Overflows
<1>4. all < Span => SumOfMap(map) = all
  <2>1. k # 0 => k * Span >= Span
    BY SpanType
  <2> QED BY <1>1, <1>2, <2>1, SpanType
<1> QED BY <1>3, <1>4 DEF Span

-----------------------------------------------------------------------------
(* The rows of processlist *)

\* The count, and the seconds, of each row.
Counts == [i \in DOMAIN result |-> result[i].count]
Times == [i \in DOMAIN result |-> result[i].time]

\* After each row: each map has the processes, or the seconds, of the rows so far.
ProcessesSoFar ==
  kind = "processlist" =>
    /\ Conserved(var.counts, SumFunctionOnSet(Counts, 1..(next - 1)))
    /\ Conserved(var.hosts, SumFunctionOnSet(Counts, 1..(next - 1)))
    /\ Conserved(var.users, SumFunctionOnSet(Counts, 1..(next - 1)))
    /\ Conserved(var.times, SumFunctionOnSet(Times, 1..(next - 1)))
    /\ returned = "no" => out = {}

\* Of each row both are numbers of Width bits.
LEMMA ProcessRowsAre ==
  ASSUME Placed, kind = "processlist"
  PROVE  \A i \in DOMAIN result :
           /\ Counts[i] = result[i].count /\ Counts[i] \in Nat /\ Counts[i] < Span
           /\ Times[i] = result[i].time /\ Times[i] \in Nat /\ Times[i] < Span
<1> SUFFICES ASSUME NEW i \in DOMAIN result
             PROVE  /\ result[i].count \in Nat /\ result[i].count < Span
                    /\ result[i].time \in Nat /\ result[i].time < Span
  BY DEF Counts, Times
<1>1. result \in Seq(RowOf.processlist)
  BY DEF Placed
<1>2. result[i] \in RowOf.processlist
  BY <1>1
<1>3. result[i].count \in 0..(Span - 1) /\ result[i].time \in 0..(Span - 1)
  BY <1>2 DEF RowOf, Span
<1> QED BY <1>3, SpanType

\* A sum of numbers of the rows read grows by the number of the next row.
LEMMA SumOfNextRow ==
  ASSUME Placed, next <= Len(result), NEW f, \A i \in DOMAIN result : f[i] \in Nat
  PROVE  /\ SumFunctionOnSet(f, 1..next) = SumFunctionOnSet(f, 1..(next - 1)) + f[next]
         /\ SumFunctionOnSet(f, 1..(next - 1)) \in Nat
<1>1. \A i \in 1..next : i \in DOMAIN result
  BY AllRows
<1>2. /\ next \in Nat /\ next # 0 /\ \A i \in 1..next : f[i] \in Int
      /\ next - 1 \in Nat /\ \A i \in 1..(next - 1) : f[i] \in Nat
  BY <1>1, AllRows
<1>3. SumFunctionOnSet(f, 1..next) = SumFunctionOnSet(f, 1..(next - 1)) + f[next]
  BY <1>2, SumUpTo
<1>4. SumFunctionOnSet(f, 1..(next - 1)) \in Nat
  BY <1>2, SumNatUpTo
<1> QED BY <1>3, <1>4

\* An empty map has nothing.
LEMMA EmptyConserved == Conserved(Empty, 0)
<1>1. DOMAIN Empty = {} /\ Empty = [k \in DOMAIN Empty |-> Empty[k]] /\ IsFiniteSet(DOMAIN Empty)
  BY FS_EmptySet DEF Empty
<1>2. IsMap(Empty)
  BY <1>1 DEF IsMap
<1>3. SumOfMap(Empty) = 0
  BY <1>1, SumEmpty DEF SumOfMap
<1>4. 0 = SumOfMap(Empty) + 0 * Span
  BY <1>3, SpanType
<1> QED BY <1>2, <1>4 DEF Conserved

\* One step keeps the account.
LEMMA ProcessesStep ==
  ASSUME Placed, ProcessesSoFar, ProcessesConserved, [Next]_vars
  PROVE  ProcessesSoFar' /\ ProcessesConserved'
<1> SUFFICES ASSUME kind' = "processlist" PROVE ProcessesSoFar' /\ ProcessesConserved'
  BY DEF ProcessesSoFar, ProcessesConserved
<1>0. /\ kind = "processlist" /\ result' = result
      /\ Counts' = Counts /\ Times' = Times
  <2>1. kind' = kind /\ result' = result
    BY DEF Next, Row, ScanFails, AfterRows, Panic, Returned, vars
  <2> QED BY <2>1 DEF Counts, Times
<1>1. \A i \in DOMAIN result :
        /\ Counts[i] = result[i].count /\ Counts[i] \in Nat /\ Counts[i] < Span
        /\ Times[i] = result[i].time /\ Times[i] \in Nat /\ Times[i] < Span
  BY <1>0, ProcessRowsAre
<1>2. /\ DOMAIN result = 1..Len(result) /\ Len(result) \in Nat
      /\ next \in Nat /\ 1 <= next /\ next <= Len(result) + 1
      /\ RowsRead = 1..(next - 1) /\ {i \in RowsRead : TRUE} = RowsRead
  BY AllRows
<1> DEFINE processes == SumFunctionOnSet(Counts, 1..(next - 1))
           seconds   == SumFunctionOnSet(Times, 1..(next - 1))
<1>3. /\ Conserved(var.counts, processes) /\ Conserved(var.hosts, processes)
      /\ Conserved(var.users, processes) /\ Conserved(var.times, seconds)
  BY <1>0 DEF ProcessesSoFar
<1>4. CASE Row
  <2> DEFINE row == result[next]
  <2>1. /\ next <= Len(result) /\ next' = next + 1 /\ returned = "no" /\ returned' = returned
        /\ var' = ProcessRow(row) /\ out' = out
    BY <1>0, <1>4 DEF Row, RowVar, RowSent
  <2>2. next \in DOMAIN result /\ next' - 1 = next
    BY <1>2, <2>1
  <2>3. /\ row.count \in Nat /\ row.count < Span /\ Counts[next] = row.count
        /\ row.time \in Nat /\ row.time < Span /\ Times[next] = row.time
    BY <1>1, <2>2
  <2>4. /\ SumFunctionOnSet(Counts', 1..(next' - 1)) = processes + row.count /\ processes \in Nat
        /\ SumFunctionOnSet(Times', 1..(next' - 1)) = seconds + row.time /\ seconds \in Nat
    BY <1>0, <1>1, <2>1, <2>2, <2>3, SumOfNextRow
  <2>5. PICK key, host, user :
          /\ var'.counts = Add(var.counts, key, row.count)
          /\ var'.times = Add(var.times, key, row.time)
          /\ var'.hosts = Add(var.hosts, host, row.count)
          /\ var'.users = Add(var.users, user, row.count)
    <3>1. /\ var'.counts = Add(var.counts, <<sanitizeState(row.command), sanitizeState(row.state)>>, row.count)
          /\ var'.times = Add(var.times, <<sanitizeState(row.command), sanitizeState(row.state)>>, row.time)
          /\ var'.hosts = Add(var.hosts, IF row.host = "" THEN Unknown ELSE row.host, row.count)
          /\ var'.users = Add(var.users, row.user, row.count)
      BY <2>1, Zenon DEF ProcessRow
    <3> QED BY <3>1, Zenon
  <2> HIDE DEF processes, seconds, row
  <2>6. ASSUME NEW map, Conserved(map, processes), NEW k
        PROVE  Conserved(Add(map, k, row.count), SumFunctionOnSet(Counts', 1..(next' - 1)))
    <3>1. Conserved(Add(map, k, row.count), processes + row.count)
      BY <2>3, <2>4, <2>6, AddConserves
    <3> QED BY <2>4, <3>1
  <2>7. ASSUME NEW map, Conserved(map, seconds), NEW k
        PROVE  Conserved(Add(map, k, row.time), SumFunctionOnSet(Times', 1..(next' - 1)))
    <3>1. Conserved(Add(map, k, row.time), seconds + row.time)
      BY <2>3, <2>4, <2>7, AddConserves
    <3> QED BY <2>4, <3>1
  <2>8. /\ Conserved(var'.counts, SumFunctionOnSet(Counts', 1..(next' - 1)))
        /\ Conserved(var'.hosts, SumFunctionOnSet(Counts', 1..(next' - 1)))
        /\ Conserved(var'.users, SumFunctionOnSet(Counts', 1..(next' - 1)))
        /\ Conserved(var'.times, SumFunctionOnSet(Times', 1..(next' - 1)))
    BY <1>3, <2>5, <2>6, <2>7
  <2>9. out' = {}
    BY <1>0, <2>1 DEF ProcessesSoFar
  <2> QED BY <1>0, <2>8, <2>9 DEF ProcessesSoFar, ProcessesConserved
<1>5. ASSUME UNCHANGED <<kind, result, next, var>>
      PROVE  SumOver(LAMBDA row : TRUE, LAMBDA row : row.count)' = processes
             /\ SumOver(LAMBDA row : TRUE, LAMBDA row : row.time)' = seconds
  <2>1. {i \in RowsRead' : TRUE} = 1..(next - 1)
    BY <1>2, <1>5 DEF RowsRead
  <2> QED BY <1>5, <2>1 DEF SumOver, Counts, Times
<1>6. CASE ~Row
  <2>1. /\ UNCHANGED <<kind, result, next, var>>
        /\ returned' = "no" => returned = "no"
        /\ out' = out \/ (returned = "no" /\ returned' = "nil" /\ out' = out \cup ProcessesSent)
    BY <1>0, <1>6 DEF Next, ScanFails, AfterRows, Panic, Returned, vars, LastSent
  <2>2. ProcessesSoFar'
    <3>1. returned' = "no" => out' = {}
      BY <1>0, <2>1 DEF ProcessesSoFar
    <3> QED BY <1>0, <1>3, <2>1, <3>1 DEF ProcessesSoFar
  <2>3. processes \in Nat /\ seconds \in Nat
    <3>1. next - 1 \in Nat /\ \A i \in 1..(next - 1) : Counts[i] \in Nat /\ Times[i] \in Nat
      BY <1>1, <1>2
    <3> QED BY <3>1, SumNatUpTo
  <2> HIDE DEF processes, seconds
  <2>4. ASSUME NEW map, NEW all \in Nat, Conserved(map, all)
        PROVE  /\ SumOfMap(map) % 2^Width = all % 2^Width
               /\ all < 2^Width => SumOfMap(map) = all
    BY <2>4, ConservedIsAll
  <2>5. /\ SumOver(LAMBDA row : TRUE, LAMBDA row : row.count)' = processes
        /\ SumOver(LAMBDA row : TRUE, LAMBDA row : row.time)' = seconds
    BY <1>5, <2>1
  <2>6. CASE out' = out
    <3>1. /\ SumOver(LAMBDA row : TRUE, LAMBDA row : row.count)'
               = SumOver(LAMBDA row : TRUE, LAMBDA row : row.count)
          /\ SumOver(LAMBDA row : TRUE, LAMBDA row : row.time)'
               = SumOver(LAMBDA row : TRUE, LAMBDA row : row.time)
      BY <2>1 DEF SumOver, RowsRead
    <3>2. ProcessesConserved'
      BY <1>0, <2>1, <2>6, <3>1 DEF ProcessesConserved
    <3> QED BY <2>2, <3>2
  <2>7. CASE out' = {var}
    <3>1. ProcessesConserved'
      BY <1>3, <2>3, <2>4, <2>5, <2>7 DEF ProcessesConserved
    <3> QED BY <2>2, <3>1
  <2>8. out' = out \/ out' = {var}
    BY <1>0, <2>1 DEF ProcessesSoFar, ProcessesSent
  <2> QED BY <2>2, <2>6, <2>7, <2>8
<1> QED BY <1>4, <1>6

\* However rows are merged, and however many were read, each process is counted once by
\* state, once by host and once by user, and its seconds once by state, modulo the width
\* of the counters.
\* (ScrapeProcesslist.Scrape)
THEOREM ProcessesConservedHolds == Spec => []ProcessesConserved
<1>1. Init => ProcessesSoFar /\ ProcessesConserved
  <2> SUFFICES ASSUME Init, kind = "processlist" PROVE ProcessesSoFar /\ ProcessesConserved
    BY DEF Init, ProcessesSoFar, ProcessesConserved
  <2>1. /\ var.counts = Empty /\ var.hosts = Empty /\ var.users = Empty /\ var.times = Empty
        /\ next = 1 /\ out = {} /\ returned = "no"
    BY DEF Init, Start
  <2>2. SumFunctionOnSet(Counts, 1..(next - 1)) = 0 /\ SumFunctionOnSet(Times, 1..(next - 1)) = 0
    <3>1. 1..(next - 1) = {}
      BY <2>1
    <3> QED BY <3>1, SumEmpty
  <2>3. ProcessesSoFar
    BY <2>1, <2>2, EmptyConserved DEF ProcessesSoFar
  <2>4. ProcessesConserved
    BY <2>1 DEF ProcessesConserved
  <2> QED BY <2>3, <2>4
<1>2. Placed /\ ProcessesSoFar /\ ProcessesConserved /\ [Next]_vars
        => ProcessesSoFar' /\ ProcessesConserved'
  BY ProcessesStep
<1> QED BY <1>1, <1>2, PlacedInit, PlacedStep, PTL DEF Spec

-----------------------------------------------------------------------------
(* The bounds of a histogram, and what MakeCumulative makes of a bucket *)

\* The place of the greatest bound.
Last == Len(UpperBounds)

\* The bounds are numbers, and there is one at least.
LEMMA BoundsType ==
  /\ Last \in Nat /\ Last # 0 /\ DOMAIN UpperBounds = 1..Last /\ 1 \in 1..Last /\ Last \in 1..Last
  /\ \A i \in 1..Last : UpperBounds[i] \in Nat
<1>1. UpperBounds \in Seq(Nat) /\ UpperBounds # <<>>
  BY RowsAssumption
<1> QED BY <1>1 DEF Last

\* An earlier bound is a smaller one.
LEMMA BoundsAscend ==
  \A i, j \in 1..Last : i < j => UpperBounds[i] < UpperBounds[j]
<1> DEFINE T == {n \in Nat : \A i, j \in 1..Last : i < j /\ j <= n => UpperBounds[i] < UpperBounds[j]}
<1>1. 0 \in T
  BY BoundsType
<1>2. ASSUME NEW n \in Nat, n \in T PROVE n + 1 \in T
  <2> SUFFICES ASSUME NEW i \in 1..Last, NEW j \in 1..Last, i < j, j <= n + 1
               PROVE  UpperBounds[i] < UpperBounds[j]
    OBVIOUS
  <2>1. CASE j <= n
    BY <1>2, <2>1
  <2>2. CASE j = n + 1
    <3>1. n \in 1..Last /\ i <= n /\ n + 1 \in 2..Len(UpperBounds)
      BY <2>2, BoundsType DEF Last
    <3>2. UpperBounds[n] < UpperBounds[n + 1]
      <4>1. UpperBounds[(n + 1) - 1] < UpperBounds[n + 1]
        BY <3>1, RowsAssumption
      <4> QED BY <4>1
    <3>3. i = n \/ UpperBounds[i] < UpperBounds[n]
      BY <1>2, <3>1
    <3> QED BY <2>2, <3>1, <3>2, <3>3, BoundsType
  <2> QED BY <2>1, <2>2, BoundsType
<1>3. Nat \subseteq T
  <2> HIDE DEF T
  <2> QED BY <1>1, <1>2, SetInduction
<1>4. Last \in T
  BY <1>3, BoundsType
<1> QED BY <1>4, BoundsType

\* No two bounds are one, and those up to the one at j are at places up to j.
LEMMA BoundsDistinct ==
  ASSUME NEW i \in 1..Last, NEW j \in 1..Last
  PROVE  /\ UpperBounds[i] = UpperBounds[j] => i = j
         /\ UpperBounds[i] <= UpperBounds[j] <=> i <= j
BY BoundsAscend, BoundsType

\* One turn of the loop of MakeCumulative.
CumStep(g, bucket, i) ==
  IF i = 0 THEN bucket
  ELSE LET sum == IF i = 1 THEN 0 ELSE g[i - 1][UpperBounds[i - 1]]
       IN  Put(g[i - 1], UpperBounds[i], At(bucket, UpperBounds[i]) + sum)

\* The bucket after each turn.
Cum(bucket) == CHOOSE g : g = [i \in 0..Last |-> CumStep(g, bucket, i)]

\* MakeCumulative is the bucket after the last turn.
LEMMA CumIsLast == \A bucket : MakeCumulative(bucket) = Cum(bucket)[Last]
BY DEF MakeCumulative, Cum, CumStep, Last

\* A turn depends on the turn before only.
LEMMA CumStepSame ==
  ASSUME NEW bucket, NEW i \in Nat, NEW g, NEW h, i # 0 => g[i - 1] = h[i - 1]
  PROVE  CumStep(g, bucket, i) = CumStep(h, bucket, i)
BY DEF CumStep

\* The recursive definition of the turns defines something.
LEMMA CumExists ==
  ASSUME NEW bucket
  PROVE  \E g : g = [i \in 0..Last |-> CumStep(g, bucket, i)]
<1> DEFINE IsCum(g, n) == g = [i \in 0..n |-> CumStep(g, bucket, i)]
           T == {n \in Nat : \E g : IsCum(g, n)}
<1>1. 0 \in T
  <2> DEFINE h == [i \in 0..0 |-> bucket]
  <2>1. \A i \in 0..0 : CumStep(h, bucket, i) = bucket
    BY DEF CumStep
  <2>2. IsCum(h, 0)
    BY <2>1
  <2> HIDE DEF IsCum, h
  <2> QED BY <2>2
<1>2. ASSUME NEW n \in Nat, n \in T PROVE n + 1 \in T
  <2>1. PICK g : IsCum(g, n)
    BY <1>2
  <2> DEFINE h == [i \in 0..(n + 1) |-> CumStep(g, bucket, i)]
  <2>2. \A i \in 0..n : h[i] = g[i]
    <3> SUFFICES ASSUME NEW i \in 0..n PROVE h[i] = g[i]
      OBVIOUS
    <3>1. g[i] = CumStep(g, bucket, i)
      BY <2>1
    <3>2. i \in 0..(n + 1)
      OBVIOUS
    <3>3. h[i] = CumStep(g, bucket, i)
      BY <3>2
    <3> QED BY <3>1, <3>3
  <2>3. ASSUME NEW i \in 0..(n + 1) PROVE CumStep(g, bucket, i) = CumStep(h, bucket, i)
    <3> HIDE DEF h
    <3>1. i # 0 => i - 1 \in 0..n
      OBVIOUS
    <3>2. i # 0 => g[i - 1] = h[i - 1]
      BY <2>2, <3>1
    <3> QED BY <3>2, CumStepSame
  <2>4. IsCum(h, n + 1)
    <3>1. h = [i \in 0..(n + 1) |-> CumStep(g, bucket, i)]
      OBVIOUS
    <3> HIDE DEF h
    <3> QED BY <2>3, <3>1
  <2> HIDE DEF IsCum, h
  <2> QED BY <2>4
<1>3. Nat \subseteq T
  <2> HIDE DEF T
  <2> QED BY <1>1, <1>2, SetInduction
<1>4. Last \in T
  BY <1>3, BoundsType
<1> QED BY <1>4

\* The turns, one by one.
LEMMA CumTurns ==
  ASSUME NEW bucket, NEW i \in 0..Last
  PROVE  Cum(bucket)[i] = CumStep(Cum(bucket), bucket, i)
<1>1. Cum(bucket) = [j \in 0..Last |-> CumStep(Cum(bucket), bucket, j)]
  BY CumExists DEF Cum
<1> DEFINE g == Cum(bucket)
<1>2. g = [j \in 0..Last |-> CumStep(g, bucket, j)]
  BY <1>1
<1> HIDE DEF g
<1>3. g[i] = CumStep(g, bucket, i)
  BY <1>2
<1> QED BY <1>3 DEF g

\* What a bucket has for each bound.
Counters(bucket) == [k \in 1..Last |-> At(bucket, UpperBounds[k])]

\* After the turn of a bound, it and each before it count all that was up to them.
LEMMA CumulativeSoFar ==
  ASSUME NEW bucket, \A k \in 1..Last : At(bucket, UpperBounds[k]) \in Nat
  PROVE  \A i \in 0..Last :
           /\ DOMAIN Cum(bucket)[i] = DOMAIN bucket \cup {UpperBounds[k] : k \in 1..i}
           /\ \A j \in 1..i : Cum(bucket)[i][UpperBounds[j]] = SumFunctionOnSet(Counters(bucket), 1..j)
<1> DEFINE g == Cum(bucket)
           Right(i) == /\ DOMAIN g[i] = DOMAIN bucket \cup {UpperBounds[k] : k \in 1..i}
                       /\ \A j \in 1..i : g[i][UpperBounds[j]] = SumFunctionOnSet(Counters(bucket), 1..j)
           T == {n \in Nat : n <= Last => Right(n)}
<1>1. 0 \in T
  <2>1. g[0] = bucket
    BY CumTurns, BoundsType DEF CumStep
  <2> QED BY <2>1
<1>2. ASSUME NEW n \in Nat, n \in T PROVE n + 1 \in T
  <2> SUFFICES ASSUME n + 1 <= Last PROVE Right(n + 1)
    OBVIOUS
  <2>1. Right(n) /\ n + 1 \in 1..Last /\ n + 1 \in 0..Last
    <3> HIDE DEF Right
    <3> QED BY <1>2, BoundsType
  <2> DEFINE sum == IF n = 0 THEN 0 ELSE g[n][UpperBounds[n]]
             value == At(bucket, UpperBounds[n + 1]) + sum
  <2>2. g[n + 1] = Put(g[n], UpperBounds[n + 1], value)
    <3>1. g[n + 1] = CumStep(g, bucket, n + 1)
      BY <2>1, CumTurns
    <3>2. (n + 1) - 1 = n /\ n + 1 # 0 /\ (n + 1 = 1 <=> n = 0)
      OBVIOUS
    <3> HIDE DEF g, sum
    <3>3. n # 0 => sum = g[n][UpperBounds[n]]
      BY DEF sum
    <3>4. n = 0 => sum = 0
      BY DEF sum
    <3>5. \A i \in Nat : i # 0 =>
            CumStep(g, bucket, i)
              = Put(g[i - 1], UpperBounds[i],
                    At(bucket, UpperBounds[i]) + (IF i = 1 THEN 0 ELSE g[i - 1][UpperBounds[i - 1]]))
      BY DEF CumStep
    <3>6. (IF n + 1 = 1 THEN 0 ELSE g[n][UpperBounds[n]]) = sum
      BY <3>2, <3>3, <3>4
    <3>7. n + 1 \in Nat
      OBVIOUS
    <3> QED BY <3>1, <3>2, <3>5, <3>6, <3>7
  <2>3. value = SumFunctionOnSet(Counters(bucket), 1..(n + 1))
    <3>1. \A k \in 1..(n + 1) : Counters(bucket)[k] = At(bucket, UpperBounds[k]) /\ Counters(bucket)[k] \in Int
      BY <2>1, BoundsType DEF Counters
    <3>2. /\ SumFunctionOnSet(Counters(bucket), 1..(n + 1))
               = SumFunctionOnSet(Counters(bucket), 1..n) + Counters(bucket)[n + 1]
          /\ SumFunctionOnSet(Counters(bucket), 1..n) \in Int
      <4>1. n + 1 \in Nat /\ n + 1 # 0 /\ (n + 1) - 1 = n
        OBVIOUS
      <4>2. \A k \in 1..(n + 1) : Counters(bucket)[k] \in Int
        BY <3>1
      <4> QED BY <4>1, <4>2, SumUpTo
    <3>3. sum = SumFunctionOnSet(Counters(bucket), 1..n)
      <4>1. CASE n = 0
        <5>1. 1..n = {}
          BY <4>1
        <5> QED BY <4>1, <5>1, SumEmpty
      <4>2. CASE n # 0
        <5>1. n \in 1..n
          BY <4>2
        <5> HIDE DEF g
        <5> QED BY <2>1, <4>2, <5>1
      <4> QED BY <4>1, <4>2
    <3>4. Counters(bucket)[n + 1] = At(bucket, UpperBounds[n + 1]) /\ Counters(bucket)[n + 1] \in Int
      BY <3>1
    <3> HIDE DEF sum
    <3> QED BY <3>2, <3>3, <3>4
  <2>4. DOMAIN g[n + 1] = DOMAIN bucket \cup {UpperBounds[k] : k \in 1..(n + 1)}
    <3> HIDE DEF g, value
    <3>1. DOMAIN g[n + 1] = DOMAIN g[n] \cup {UpperBounds[n + 1]}
      BY <2>2 DEF Put
    <3>2. {UpperBounds[k] : k \in 1..(n + 1)} = {UpperBounds[k] : k \in 1..n} \cup {UpperBounds[n + 1]}
      <4>1. 1..(n + 1) = (1..n) \cup {n + 1}
        OBVIOUS
      <4> QED BY <4>1
    <3> QED BY <2>1, <3>1, <3>2
  <2>5. ASSUME NEW j \in 1..(n + 1)
        PROVE  g[n + 1][UpperBounds[j]] = SumFunctionOnSet(Counters(bucket), 1..j)
    <3> HIDE DEF g, value
    <3>1. \A key \in DOMAIN g[n + 1] :
            g[n + 1][key] = IF key = UpperBounds[n + 1] THEN value ELSE g[n][key]
      BY <2>2 DEF Put
    <3>2. UpperBounds[j] \in DOMAIN g[n + 1]
      BY <2>4
    <3>3. CASE j = n + 1
      BY <2>3, <3>1, <3>2, <3>3
    <3>4. CASE j # n + 1
      <4>1. j \in 1..n /\ j \in 1..Last
        BY <2>1, <3>4, BoundsType
      <4>2. UpperBounds[j] # UpperBounds[n + 1]
        BY <2>1, <3>4, <4>1, BoundsDistinct
      <4> QED BY <2>1, <3>1, <3>2, <4>1, <4>2
    <3> QED BY <3>3, <3>4
  <2> QED BY <2>4, <2>5
<1>3. Nat \subseteq T
  <2> HIDE DEF T
  <2> QED BY <1>1, <1>2, SetInduction
<1>4. ASSUME NEW i \in 0..Last PROVE Right(i)
  <2>1. i \in T /\ i <= Last
    BY <1>3, BoundsType
  <2> HIDE DEF Right
  <2> QED BY <2>1
<1> QED BY <1>4

\* The bucket of a helper has each of its bounds, with all that was up to it.
LEMMA CumulativeIs ==
  ASSUME NEW bucket, \A k \in 1..Last : At(bucket, UpperBounds[k]) \in Nat,
         DOMAIN bucket \subseteq {UpperBounds[k] : k \in 1..Last}
  PROVE  /\ DOMAIN MakeCumulative(bucket) = {UpperBounds[k] : k \in 1..Last}
         /\ \A j \in 1..Last :
              MakeCumulative(bucket)[UpperBounds[j]] = SumFunctionOnSet(Counters(bucket), 1..j)
<1>1. Last \in 0..Last
  BY BoundsType
<1>2. /\ DOMAIN Cum(bucket)[Last] = DOMAIN bucket \cup {UpperBounds[k] : k \in 1..Last}
      /\ \A j \in 1..Last : Cum(bucket)[Last][UpperBounds[j]] = SumFunctionOnSet(Counters(bucket), 1..j)
  BY <1>1, CumulativeSoFar
<1>3. MakeCumulative(bucket) = Cum(bucket)[Last]
  BY CumIsLast
<1> QED BY <1>2, <1>3

-----------------------------------------------------------------------------
(* query_response_time *)

\* What the last step sends, when h is the histogram of the response times.
TimesRight(h) ==
  /\ \A b \in DOMAIN h.buckets :
       /\ h.buckets[b]
            = SumFunctionOnSet(Counts, {i \in RowsRead : result[i].length <= b /\ result[i].length # 0})
       /\ b # 0
  /\ h.count = SumFunctionOnSet(Counts, RowsRead)

\* After each row: each bucket has the rows up to its own, and none is of length 0.
ResponseTimesSoFar ==
  kind = "query_response_time" =>
    /\ var.cnt = SumFunctionOnSet(Counts, 1..(next - 1)) /\ var.cnt \in Nat
    /\ \A b \in DOMAIN var.buckets :
         \E j \in 1..(next - 1) :
           b = result[j].length /\ b # 0 /\ var.buckets[b] = SumFunctionOnSet(Counts, 1..j)
    /\ returned = "no" => out = {}
    /\ \A h \in out : TimesRight(h)

\* For the response times, the property says no more than that.
LEMMA TimesAreCumulative ==
  ASSUME kind = "query_response_time", ResponseTimesSoFar
  PROVE  HistogramsCumulative
<1>0. \A h \in out : TimesRight(h)
  BY DEF ResponseTimesSoFar
<1>1. \A h \in out : 0 \notin DOMAIN h.buckets
  BY <1>0 DEF TimesRight
<1>2. {i \in RowsRead : TRUE} = RowsRead
  OBVIOUS
<1> QED BY <1>0, <1>1, <1>2 DEF HistogramsCumulative, SumOver, TimesRight, Counts

\* The rows read up to a length, without the row TOO LONG, are those until it.
LEMMA TimesUpTo ==
  ASSUME Placed, kind = "query_response_time", NEW j \in RowsRead, result[j].length # 0
  PROVE  {i \in RowsRead : result[i].length <= result[j].length /\ result[i].length # 0} = 1..j
<1>1. /\ result \in Results.query_response_time
      /\ result \in Seq(RowOf.query_response_time)
  BY DEF Placed
<1>2. \A i \in DOMAIN result : result[i].length \in Nat
  <2> SUFFICES ASSUME NEW i \in DOMAIN result PROVE result[i].length \in Nat
    OBVIOUS
  <2>1. result[i] \in RowOf.query_response_time
    BY <1>1
  <2> QED BY <2>1 DEF RowOf
<1>3. \A i, k \in DOMAIN result :
        i < k => result[i].length # 0 /\ (result[k].length # 0 => result[i].length < result[k].length)
  BY <1>1, ResultsAssumption
<1>4. /\ DOMAIN result = 1..Len(result) /\ Len(result) \in Nat
      /\ RowsRead = 1..(next - 1) /\ RowsRead \subseteq DOMAIN result /\ next \in Nat
  BY AllRows
<1>5. ASSUME NEW i \in RowsRead
      PROVE  result[i].length <= result[j].length /\ result[i].length # 0 <=> i <= j
  <2>1. CASE i < j
    BY <1>2, <1>3, <1>4, <2>1
  <2>2. CASE i = j
    BY <1>2, <1>4, <2>2
  <2>3. CASE i > j
    BY <1>2, <1>3, <2>3, <1>4
  <2> QED BY <1>4, <2>1, <2>2, <2>3
<1> QED BY <1>4, <1>5

\* The counts of the rows are numbers.
LEMMA CountsAre ==
  ASSUME Placed, kind \in {"query_response_time", "histogram"}
  PROVE  \A i \in DOMAIN result : Counts[i] = result[i].count /\ Counts[i] \in Nat
<1> SUFFICES ASSUME NEW i \in DOMAIN result PROVE result[i].count \in Nat
  BY DEF Counts
<1>1. CASE kind = "query_response_time"
  <2>1. result \in Seq(RowOf.query_response_time)
    BY <1>1 DEF Placed
  <2>2. result[i] \in RowOf.query_response_time
    BY <2>1
  <2> QED BY <2>2 DEF RowOf
<1>2. CASE kind = "histogram"
  <2>1. result \in Seq(RowOf.histogram)
    BY <1>2 DEF Placed
  <2>2. result[i] \in RowOf.histogram
    BY <2>1
  <2> QED BY <2>2 DEF RowOf
<1> QED BY <1>1, <1>2

\* One step keeps the account.
LEMMA ResponseTimesStep ==
  ASSUME Placed, ResponseTimesSoFar, [Next]_vars
  PROVE  ResponseTimesSoFar'
<1> SUFFICES ASSUME kind' = "query_response_time" PROVE ResponseTimesSoFar'
  BY DEF ResponseTimesSoFar
<1>0. /\ kind = "query_response_time" /\ result' = result /\ Counts' = Counts
      /\ next' = next => \A h : TimesRight(h)' <=> TimesRight(h)
  <2>1. kind' = kind /\ result' = result
    BY DEF Next, Row, ScanFails, AfterRows, Panic, Returned, vars
  <2>2. Counts' = Counts
    BY <2>1 DEF Counts
  <2>3. ASSUME NEW h, next' = next PROVE TimesRight(h)' <=> TimesRight(h)
    BY <2>1, <2>2, <2>3 DEF TimesRight, RowsRead
  <2> QED BY <2>1, <2>2, <2>3
<1>1. \A i \in DOMAIN result : Counts[i] = result[i].count /\ Counts[i] \in Nat
  BY <1>0, CountsAre
<1>3. /\ DOMAIN result = 1..Len(result) /\ RowsRead = 1..(next - 1)
      /\ Len(result) \in Nat /\ next \in Nat /\ 1 <= next /\ next <= Len(result) + 1
  BY AllRows
<1>4. CASE Row
  <2> DEFINE row == result[next]
  <2>1. /\ next <= Len(result) /\ next' = next + 1 /\ returned = "no" /\ returned' = returned
        /\ var' = ResponseTimeRow(row) /\ out' = out
    BY <1>0, <1>4 DEF Row, RowVar, RowSent
  <2>2. /\ var'.cnt = var.cnt + row.count
        /\ var'.buckets = IF row.length = 0 THEN var.buckets
                          ELSE Put(var.buckets, row.length, var.cnt + row.count)
    BY <2>1 DEF ResponseTimeRow
  <2>3. \A i \in 1..next : i \in DOMAIN result
    BY <1>3, <2>1
  <2>4. SumFunctionOnSet(Counts, 1..next) = SumFunctionOnSet(Counts, 1..(next - 1)) + row.count
    <3>1. next \in Nat /\ next # 0 /\ \A i \in 1..next : Counts[i] \in Int
      BY <1>1, <1>3, <2>3
    <3>2. Counts[next] = row.count
      BY <1>1, <1>3, <2>3
    <3> QED BY <3>1, <3>2, SumUpTo
  <2>5. next' - 1 = next /\ row.count \in Nat
    BY <1>1, <1>3, <2>1
  <2>6. var'.cnt = SumFunctionOnSet(Counts, 1..next) /\ var'.cnt \in Nat
    BY <1>0, <2>2, <2>4, <2>5 DEF ResponseTimesSoFar
  <2>7. ASSUME NEW b \in DOMAIN var'.buckets
        PROVE  \E j \in 1..next :
                 b = result[j].length /\ b # 0 /\ var'.buckets[b] = SumFunctionOnSet(Counts, 1..j)
    <3>1. CASE row.length # 0 /\ b = row.length
      <4>1. var'.buckets[b] = var'.cnt
        BY <2>2, <3>1 DEF Put
      <4>2. next \in 1..next
        BY <1>3
      <4> QED BY <2>6, <3>1, <4>1, <4>2
    <3>2. CASE ~(row.length # 0 /\ b = row.length)
      <4>1. b \in DOMAIN var.buckets /\ var'.buckets[b] = var.buckets[b]
        BY <2>2, <2>7, <3>2 DEF Put
      <4>2. \A j \in 1..(next - 1) : j \in 1..next
        BY <1>3
      <4> QED BY <1>0, <4>1, <4>2 DEF ResponseTimesSoFar
    <3> QED BY <3>1, <3>2
  <2>8. \A b \in DOMAIN var'.buckets :
          \E j \in 1..(next' - 1) :
            b = result'[j].length /\ b # 0 /\ var'.buckets[b] = SumFunctionOnSet(Counts', 1..j)
    BY <1>0, <2>5, <2>7
  <2>9. out' = {}
    BY <1>0, <2>1 DEF ResponseTimesSoFar
  <2> QED BY <1>0, <2>5, <2>6, <2>8, <2>9 DEF ResponseTimesSoFar
<1>5. CASE ~Row /\ ~AfterRows
  <2>1. UNCHANGED <<kind, result, next, var, out>> /\ (returned' = "no" => returned = "no")
    BY <1>0, <1>5 DEF Next, ScanFails, Panic, Returned, vars
  <2> QED BY <1>0, <2>1 DEF ResponseTimesSoFar
<1>6. CASE AfterRows
  <2>1. /\ UNCHANGED <<kind, result, next, var>>
        /\ returned = "no" /\ returned' = "nil" /\ out' = out \cup ResponseTimeSent
    BY <1>0, <1>6 DEF AfterRows, LastSent
  <2>4. ASSUME NEW h \in out' PROVE TimesRight(h)
    <3>1. h = [count |-> var.cnt, sum2 |-> 2 * var.sum, buckets |-> var.buckets]
      BY <1>0, <2>1 DEF ResponseTimesSoFar, ResponseTimeSent
    <3>2. h.count = var.cnt /\ h.buckets = var.buckets
      BY <3>1
    <3>3. h.count = SumFunctionOnSet(Counts, RowsRead)
      BY <1>0, <1>3, <3>2 DEF ResponseTimesSoFar
    <3>4. ASSUME NEW b \in DOMAIN h.buckets
          PROVE  /\ h.buckets[b]
                      = SumFunctionOnSet(Counts, {i \in RowsRead : result[i].length <= b /\ result[i].length # 0})
                 /\ b # 0
      <4>1. PICK j \in 1..(next - 1) :
              b = result[j].length /\ b # 0 /\ var.buckets[b] = SumFunctionOnSet(Counts, 1..j)
        BY <1>0, <3>2 DEF ResponseTimesSoFar
      <4>2. {i \in RowsRead : result[i].length <= b /\ result[i].length # 0} = 1..j
        BY <1>0, <1>3, <4>1, TimesUpTo
      <4> QED BY <3>2, <4>1, <4>2
    <3> QED BY <3>3, <3>4 DEF TimesRight
  <2> QED BY <1>0, <2>1, <2>4 DEF ResponseTimesSoFar
<1> QED BY <1>4, <1>5, <1>6

-----------------------------------------------------------------------------
(* Histograms of a helper *)

\* The bound of each row as often as it counts.
Weights == [i \in DOMAIN result |-> result[i].bound * result[i].count]

\* What the last step sends, when h is a histogram of a helper.
BoundsRight(h) ==
  /\ \A b \in DOMAIN h.buckets :
       h.buckets[b] = SumFunctionOnSet(Counts, {i \in RowsRead : result[i].bound <= b})
  /\ h.count = SumFunctionOnSet(Counts, RowsRead)
  /\ DOMAIN h.buckets = {UpperBounds[i] : i \in 1..Len(UpperBounds)}
  /\ h.sum2 <= 2 * SumFunctionOnSet(Weights, RowsRead)

\* After each row: the bucket has the counts of the rows so far, each at its bound.
HistogramSoFar ==
  kind = "histogram" =>
    /\ DOMAIN var.bucket = {result[i].bound : i \in 1..(next - 1)}
    /\ \A i \in 1..(next - 1) : var.bucket[result[i].bound] = result[i].count
    /\ returned = "no" => out = {}
    /\ \A h \in out : BoundsRight(h)

\* For the histograms of a helper, the property says no more than that.
LEMMA BoundsAreCumulative ==
  ASSUME kind = "histogram", HistogramSoFar
  PROVE  HistogramsCumulative
<1>1. \A h \in out : BoundsRight(h)
  BY DEF HistogramSoFar
<1>2. {i \in RowsRead : TRUE} = RowsRead
  OBVIOUS
<1>3. kind # "query_response_time"
  OBVIOUS
<1> QED BY <1>1, <1>2, <1>3 DEF HistogramsCumulative, SumOver, BoundsRight, Counts, Weights

\* The place of a row's bound among the bounds.
Place == [i \in DOMAIN result |-> CHOOSE k \in 1..Last : UpperBounds[k] = result[i].bound]

\* Each row has a bound of the helper, and no two have the same.
LEMMA PlaceIs ==
  ASSUME Placed, kind = "histogram"
  PROVE  /\ \A i \in DOMAIN result :
              /\ Place[i] \in 1..Last /\ UpperBounds[Place[i]] = result[i].bound
              /\ result[i].bound \in Nat /\ result[i].count \in Nat
         /\ \A i, j \in DOMAIN result : Place[i] = Place[j] => i = j
         /\ RowsRead \subseteq DOMAIN result
<1>1. result \in Results.histogram /\ result \in Seq(RowOf.histogram)
  BY DEF Placed
<1>2. ASSUME NEW i \in DOMAIN result
      PROVE  /\ Place[i] \in 1..Last /\ UpperBounds[Place[i]] = result[i].bound
             /\ result[i].bound \in Nat /\ result[i].count \in Nat
  <2>1. result[i] \in RowOf.histogram
    BY <1>1
  <2>2. PICK k \in 1..Last : UpperBounds[k] = result[i].bound
    BY <2>1, BoundsType DEF RowOf
  <2>3. Place[i] \in 1..Last /\ UpperBounds[Place[i]] = result[i].bound
    BY <2>2 DEF Place
  <2> QED BY <2>1, <2>2, <2>3, BoundsType DEF RowOf
<1>3. \A i, j \in DOMAIN result : i # j => result[i].bound # result[j].bound
  BY <1>1, ResultsAssumption
<1>4. RowsRead \subseteq DOMAIN result
  BY AllRows
<1> HIDE DEF Place
<1> QED BY <1>2, <1>3, <1>4

\* A sum over the bounds up to one is a sum over the rows read up to it.
LEMMA SumByBound ==
  ASSUME Placed, kind = "histogram", NEW f, NEW g,
         \A k \in 1..Last : f[k] \in Int,
         \A i \in RowsRead : g[i] = f[Place[i]],
         \A k \in 1..Last : (\A i \in RowsRead : Place[i] # k) => f[k] = 0,
         NEW j \in 1..Last
  PROVE  SumFunctionOnSet(f, 1..j)
           = SumFunctionOnSet(g, {i \in RowsRead : result[i].bound <= UpperBounds[j]})
<1> DEFINE R == {i \in RowsRead : result[i].bound <= UpperBounds[j]}
           p == Place
           I == {p[i] : i \in R}
<1>1. IsFiniteSet(R) /\ IsFiniteSet(1..j)
  <2>1. RowsRead = 1..(next - 1) /\ next - 1 \in Int
    BY AllRows
  <2>2. IsFiniteSet(RowsRead)
    BY <2>1, FS_Interval
  <2>3. IsFiniteSet(R)
    BY <2>2, FS_Subset
  <2>4. IsFiniteSet(1..j)
    <3>1. j \in Int /\ 1 \in Int
      BY BoundsType
    <3> QED BY <3>1, FS_Interval
  <2> QED BY <2>3, <2>4
<1>2. \A i \in RowsRead : p[i] \in 1..Last /\ (i \in R <=> p[i] \in 1..j)
  <2> SUFFICES ASSUME NEW i \in RowsRead PROVE p[i] \in 1..Last /\ (i \in R <=> p[i] \in 1..j)
    OBVIOUS
  <2>1. p[i] \in 1..Last /\ UpperBounds[p[i]] = result[i].bound
    BY PlaceIs
  <2>2. UpperBounds[p[i]] <= UpperBounds[j] <=> p[i] <= j
    BY <2>1, BoundsDistinct
  <2> HIDE DEF p
  <2> QED BY <2>1, <2>2, BoundsType
<1>3. \A i, k \in R : p[i] = p[k] => i = k
  BY PlaceIs
<1>4. \A i \in R : g[i] = f[p[i]] /\ g[i] \in Int
  BY <1>2
<1>5. I \in SUBSET (1..j)
  BY <1>2
<1>6. \A k \in 1..j : f[k] \in Int
  BY BoundsType
<1>7. \A k \in (1..j) \ I : f[k] = 0
  <2> SUFFICES ASSUME NEW k \in (1..j) \ I PROVE f[k] = 0
    OBVIOUS
  <2>1. k \in 1..Last
    BY BoundsType
  <2>2. \A i \in RowsRead : p[i] # k
    BY <1>2
  <2> QED BY <2>1, <2>2
<1> SUFFICES SumFunctionOnSet(f, 1..j) = SumFunctionOnSet(g, R)
  OBVIOUS
<1> HIDE DEF R, p
<1>8. SumFunctionOnSet(f, I) = SumFunctionOnSet(g, R)
  BY <1>1, <1>3, <1>4, SumReindex
<1> HIDE DEF I
<1>9. SumFunctionOnSet(f, 1..j) = SumFunctionOnSet(f, I)
  BY <1>1, <1>5, <1>6, <1>7, SumExtend
<1> QED BY <1>8, <1>9

\* After the rows, the bucket has the count of each row read at its bound, and no more.
LEMMA BucketIs ==
  ASSUME Placed, kind = "histogram", HistogramSoFar
  PROVE  /\ \A i \in RowsRead : Counters(var.bucket)[Place[i]] = result[i].count
         /\ \A k \in 1..Last :
              (\A i \in RowsRead : Place[i] # k) => Counters(var.bucket)[k] = 0
         /\ \A k \in 1..Last : /\ Counters(var.bucket)[k] = At(var.bucket, UpperBounds[k])
                               /\ At(var.bucket, UpperBounds[k]) \in Nat
         /\ DOMAIN var.bucket \subseteq {UpperBounds[k] : k \in 1..Last}
<1> DEFINE p == Place
           b == var.bucket
<1>1. /\ DOMAIN b = {result[i].bound : i \in RowsRead}
      /\ \A i \in RowsRead : b[result[i].bound] = result[i].count
  <2>1. 1..(next - 1) = RowsRead
    BY AllRows
  <2> QED BY <2>1 DEF HistogramSoFar
<1>2. \A i \in RowsRead :
        /\ p[i] \in 1..Last /\ UpperBounds[p[i]] = result[i].bound
        /\ result[i].count \in Nat
  BY PlaceIs
<1> SUFFICES /\ \A i \in RowsRead : Counters(b)[p[i]] = result[i].count
             /\ \A k \in 1..Last :
                  (\A i \in RowsRead : p[i] # k) => Counters(b)[k] = 0
             /\ \A k \in 1..Last : /\ Counters(b)[k] = At(b, UpperBounds[k])
                                   /\ At(b, UpperBounds[k]) \in Nat
             /\ DOMAIN b \subseteq {UpperBounds[k] : k \in 1..Last}
  OBVIOUS
<1> HIDE DEF p, b
<1>3. \A i \in RowsRead : At(b, UpperBounds[p[i]]) = result[i].count
  BY <1>1, <1>2 DEF At
<1>4. ASSUME NEW k \in 1..Last, \A i \in RowsRead : p[i] # k
      PROVE  At(b, UpperBounds[k]) = 0
  <2>1. \A i \in RowsRead : UpperBounds[k] # result[i].bound
    BY <1>2, <1>4, BoundsDistinct
  <2>2. UpperBounds[k] \notin DOMAIN b
    BY <1>1, <2>1
  <2> QED BY <2>2 DEF At
<1>5. \A k \in 1..Last : At(b, UpperBounds[k]) \in Nat
  <2> SUFFICES ASSUME NEW k \in 1..Last PROVE At(b, UpperBounds[k]) \in Nat
    OBVIOUS
  <2>1. CASE \A i \in RowsRead : p[i] # k
    BY <1>4, <2>1
  <2>2. CASE \E i \in RowsRead : p[i] = k
    BY <1>2, <1>3, <2>2
  <2> QED BY <2>1, <2>2
<1>6. \A k \in 1..Last : Counters(b)[k] = At(b, UpperBounds[k])
  BY DEF Counters
<1>7. DOMAIN b \subseteq {UpperBounds[k] : k \in 1..Last}
  BY <1>1, <1>2
<1> QED BY <1>2, <1>3, <1>4, <1>5, <1>6, <1>7

\* Half a bound and half the one below are at most the bound.
LEMMA Middle ==
  ASSUME NEW x \in Nat, NEW y \in Nat, y <= x, NEW n \in Nat
  PROVE  (x + y) * n <= 2 * (x * n) /\ (x + y) * n \in Int /\ x * n \in Int /\ 2 * (x * n) \in Int
<1>1. y * n <= x * n /\ y * n \in Nat /\ x * n \in Nat
  OBVIOUS
<1>2. (x + y) * n = x * n + y * n
  OBVIOUS
<1> QED BY <1>1, <1>2

\* The artificial sum is at most that of the bounds.
LEMMA ArtificialSumIs ==
  ASSUME Placed, kind = "histogram", HistogramSoFar
  PROVE  ArtificialSum(var.bucket) <= 2 * SumFunctionOnSet(Weights, RowsRead)
<1> DEFINE b == var.bucket
           below(i) == IF i = 1 THEN 0 ELSE UpperBounds[i - 1]
           art == [i \in 1..Last |-> (UpperBounds[i] + below(i)) * At(b, UpperBounds[i])]
           weight == [k \in 1..Last |-> UpperBounds[k] * At(b, UpperBounds[k])]
           double == [k \in 1..Last |-> 2 * weight[k]]
<1>1. ArtificialSum(b) = SumFunctionOnSet(art, 1..Last)
  BY BoundsType DEF ArtificialSum
<1>2. /\ \A i \in RowsRead : Counters(b)[Place[i]] = result[i].count
      /\ \A k \in 1..Last :
           (\A i \in RowsRead : Place[i] # k) => Counters(b)[k] = 0
      /\ \A k \in 1..Last : Counters(b)[k] = At(b, UpperBounds[k]) /\ At(b, UpperBounds[k]) \in Nat
  BY BucketIs
<1>3. ASSUME NEW k \in 1..Last
      PROVE  /\ art[k] \in Int /\ double[k] \in Int /\ art[k] <= double[k]
             /\ weight[k] \in Int /\ double[k] = 2 * weight[k]
  <2>1. below(k) \in Nat /\ below(k) <= UpperBounds[k] /\ UpperBounds[k] \in Nat
    <3>1. k # 1 => k - 1 \in 1..Last /\ k - 1 < k
      BY BoundsType
    <3>2. k # 1 => UpperBounds[k - 1] < UpperBounds[k] /\ UpperBounds[k - 1] \in Nat
      BY <3>1, BoundsAscend, BoundsType
    <3> QED BY <3>2, BoundsType
  <2> DEFINE x == UpperBounds[k]
             y == below(k)
             n == At(b, UpperBounds[k])
  <2>2. art[k] = (x + y) * n /\ double[k] = 2 * (x * n) /\ weight[k] = x * n
    OBVIOUS
  <2>3. x \in Nat /\ y \in Nat /\ y <= x /\ n \in Nat
    BY <1>2, <2>1
  <2> HIDE DEF x, y, n, art, double, weight
  <2>4. (x + y) * n <= 2 * (x * n) /\ (x + y) * n \in Int /\ x * n \in Int /\ 2 * (x * n) \in Int
    BY <2>3, Middle
  <2> QED BY <2>2, <2>4
<1>4. \A i \in RowsRead : Weights[i] = weight[Place[i]]
  <2> SUFFICES ASSUME NEW i \in RowsRead PROVE Weights[i] = weight[Place[i]]
    OBVIOUS
  <2>1. Place[i] \in 1..Last /\ UpperBounds[Place[i]] = result[i].bound
    BY PlaceIs
  <2>2. At(b, UpperBounds[Place[i]]) = result[i].count
    BY <1>2, <2>1
  <2>3. i \in DOMAIN result
    BY AllRows
  <2> QED BY <2>1, <2>2, <2>3 DEF Weights
<1>5. ASSUME NEW k \in 1..Last, \A i \in RowsRead : Place[i] # k
      PROVE  weight[k] = 0
  <2>1. At(b, UpperBounds[k]) = 0
    BY <1>2, <1>5
  <2>2. UpperBounds[k] \in Nat
    BY BoundsType
  <2> QED BY <2>1, <2>2
<1>6. IsFiniteSet(1..Last)
  BY BoundsType, FS_Interval
<1> SUFFICES ArtificialSum(b) <= 2 * SumFunctionOnSet(Weights, RowsRead)
  OBVIOUS
<1> HIDE DEF b, art, weight, double
<1>7. SumFunctionOnSet(art, 1..Last) <= SumFunctionOnSet(double, 1..Last)
  <2>1. \A k \in 1..Last : art[k] \in Int /\ double[k] \in Int /\ art[k] <= double[k]
    BY <1>3
  <2> QED BY <1>6, <2>1, SumMonotone
<1>8. SumFunctionOnSet(double, 1..Last) = 2 * SumFunctionOnSet(weight, 1..Last)
  <2>1. \A k \in 1..Last : weight[k] \in Int /\ double[k] \in Int /\ double[k] = 2 * weight[k]
    BY <1>3
  <2> QED BY <1>6, <2>1, SumTwice
<1>9. SumFunctionOnSet(weight, 1..Last)
        = SumFunctionOnSet(Weights, {i \in RowsRead : result[i].bound <= UpperBounds[Last]})
  <2>1. \A k \in 1..Last : weight[k] \in Int
    BY <1>3
  <2>2. \A k \in 1..Last : (\A i \in RowsRead : Place[i] # k) => weight[k] = 0
    BY <1>5
  <2>3. Last \in 1..Last
    BY BoundsType
  <2> QED BY <1>4, <2>1, <2>2, <2>3, SumByBound
<1>10. {i \in RowsRead : result[i].bound <= UpperBounds[Last]} = RowsRead
  <2> SUFFICES ASSUME NEW i \in RowsRead PROVE result[i].bound <= UpperBounds[Last]
    OBVIOUS
  <2>1. Place[i] \in 1..Last /\ UpperBounds[Place[i]] = result[i].bound
    BY PlaceIs
  <2>2. Last \in 1..Last /\ Place[i] <= Last
    BY <2>1, BoundsType
  <2> QED BY <2>1, <2>2, BoundsDistinct
<1> QED BY <1>1, <1>7, <1>8, <1>9, <1>10

\* What is sent for the bucket of the rows read.
LEMMA HistogramSentIs ==
  ASSUME Placed, kind = "histogram", HistogramSoFar, NEW h \in HistogramSent
  PROVE  BoundsRight(h)
<1> DEFINE m == MakeCumulative(var.bucket)
           c == Counters(var.bucket)
           s == ArtificialSum(var.bucket)
<1>1. h = [count |-> At(m, GetLast), sum2 |-> s, buckets |-> m]
  BY DEF HistogramSent
<1>2. /\ \A i \in RowsRead : c[Place[i]] = result[i].count
      /\ \A k \in 1..Last : (\A i \in RowsRead : Place[i] # k) => c[k] = 0
      /\ \A k \in 1..Last : c[k] \in Int
  BY BucketIs
<1>3. /\ DOMAIN m = {UpperBounds[k] : k \in 1..Last}
      /\ \A j \in 1..Last : m[UpperBounds[j]] = SumFunctionOnSet(c, 1..j)
  <2>1. /\ \A k \in 1..Last : At(var.bucket, UpperBounds[k]) \in Nat
        /\ DOMAIN var.bucket \subseteq {UpperBounds[k] : k \in 1..Last}
    BY BucketIs
  <2> QED BY <2>1, CumulativeIs
<1>4. s <= 2 * SumFunctionOnSet(Weights, RowsRead)
  BY ArtificialSumIs
<1> HIDE DEF m, c, s
<1>5. h.count = At(m, GetLast) /\ h.sum2 = s /\ h.buckets = m
  BY <1>1
<1>6. ASSUME NEW j \in 1..Last
      PROVE  m[UpperBounds[j]]
               = SumFunctionOnSet(Counts, {i \in RowsRead : result[i].bound <= UpperBounds[j]})
  <2>1. \A i \in RowsRead : Counts[i] = c[Place[i]]
    BY <1>2, AllRows DEF Counts
  <2>2. SumFunctionOnSet(c, 1..j)
          = SumFunctionOnSet(Counts, {i \in RowsRead : result[i].bound <= UpperBounds[j]})
    BY <1>2, <2>1, SumByBound
  <2> QED BY <1>3, <2>2
<1>7. ASSUME NEW b \in DOMAIN m
      PROVE  m[b] = SumFunctionOnSet(Counts, {i \in RowsRead : result[i].bound <= b})
  <2>1. PICK j \in 1..Last : b = UpperBounds[j]
    BY <1>3
  <2> QED BY <1>6, <2>1
<1>8. At(m, GetLast) = SumFunctionOnSet(Counts, RowsRead)
  <2>1. Last \in 1..Last
    BY BoundsType
  <2>2. At(m, GetLast) = m[UpperBounds[Last]]
    BY <1>3, <2>1 DEF At, GetLast, Last
  <2>3. {i \in RowsRead : result[i].bound <= UpperBounds[Last]} = RowsRead
    <3> SUFFICES ASSUME NEW i \in RowsRead PROVE result[i].bound <= UpperBounds[Last]
      OBVIOUS
    <3>1. Place[i] \in 1..Last /\ UpperBounds[Place[i]] = result[i].bound
      BY PlaceIs
    <3>2. Place[i] <= Last
      BY <3>1, BoundsType
    <3> QED BY <2>1, <3>1, <3>2, BoundsDistinct
  <2> QED BY <1>6, <2>1, <2>2, <2>3
<1> QED BY <1>3, <1>4, <1>5, <1>7, <1>8 DEF BoundsRight, Last

\* One step keeps the account.
LEMMA HistogramStep ==
  ASSUME Placed, HistogramSoFar, [Next]_vars
  PROVE  HistogramSoFar'
<1> SUFFICES ASSUME kind' = "histogram" PROVE HistogramSoFar'
  BY DEF HistogramSoFar
<1>0. /\ kind = "histogram" /\ result' = result
      /\ next' = next => \A h : BoundsRight(h)' <=> BoundsRight(h)
  <2>1. kind' = kind /\ result' = result
    BY DEF Next, Row, ScanFails, AfterRows, Panic, Returned, vars
  <2>2. Counts' = Counts /\ Weights' = Weights
    BY <2>1 DEF Counts, Weights
  <2>3. ASSUME NEW h, next' = next PROVE BoundsRight(h)' <=> BoundsRight(h)
    BY <2>1, <2>2, <2>3 DEF BoundsRight, RowsRead
  <2> QED BY <2>1, <2>3
<1>1. /\ DOMAIN result = 1..Len(result)
      /\ Len(result) \in Nat /\ next \in Nat /\ 1 <= next /\ next <= Len(result) + 1
  BY AllRows
<1>2. /\ DOMAIN var.bucket = {result[i].bound : i \in 1..(next - 1)}
      /\ \A i \in 1..(next - 1) : var.bucket[result[i].bound] = result[i].count
  BY <1>0 DEF HistogramSoFar
<1>3. CASE Row
  <2> DEFINE row == result[next]
  <2>1. /\ next <= Len(result) /\ next' = next + 1 /\ returned = "no" /\ returned' = returned
        /\ var' = BucketRow(row) /\ out' = out
    BY <1>0, <1>3 DEF Row, RowVar, RowSent
  <2>2. var'.bucket = Put(var.bucket, row.bound, row.count)
    BY <2>1 DEF BucketRow
  <2>3. next' - 1 = next /\ 1..next = (1..(next - 1)) \cup {next} /\ next \in DOMAIN result
    BY <1>1, <2>1
  <2>4. \A i \in 1..(next - 1) : result[i].bound # row.bound
    <3>1. result \in Results.histogram
      BY <1>0 DEF Placed
    <3>2. \A i, j \in DOMAIN result : i # j => result[i].bound # result[j].bound
      BY <3>1, ResultsAssumption
    <3>3. \A i \in 1..(next - 1) : i \in DOMAIN result /\ i # next
      BY <1>1
    <3> QED BY <2>3, <3>2, <3>3
  <2>5. DOMAIN var'.bucket = {result[i].bound : i \in 1..next}
    BY <1>2, <2>2, <2>3 DEF Put
  <2>6. \A i \in 1..next : var'.bucket[result[i].bound] = result[i].count
    BY <1>2, <2>2, <2>3, <2>4 DEF Put
  <2>7. out' = {}
    BY <1>0, <2>1 DEF HistogramSoFar
  <2> QED BY <1>0, <2>3, <2>5, <2>6, <2>7 DEF HistogramSoFar
<1>4. CASE ~Row /\ ~AfterRows
  <2>1. UNCHANGED <<kind, result, next, var, out>> /\ (returned' = "no" => returned = "no")
    BY <1>0, <1>4 DEF Next, ScanFails, Panic, Returned, vars
  <2> QED BY <1>0, <2>1 DEF HistogramSoFar
<1>5. CASE AfterRows
  <2>1. /\ UNCHANGED <<kind, result, next, var>>
        /\ returned = "no" /\ returned' = "nil" /\ out' = out \cup HistogramSent
    BY <1>0, <1>5 DEF AfterRows, LastSent
  <2>2. ASSUME NEW h \in out' PROVE BoundsRight(h)
    <3>1. h \in HistogramSent
      BY <1>0, <2>1 DEF HistogramSoFar
    <3> QED BY <1>0, <2>1, <3>1, HistogramSentIs
  <2> QED BY <1>0, <2>1, <2>2 DEF HistogramSoFar
<1> QED BY <1>3, <1>4, <1>5

\* A histogram is cumulative: each bucket counts the rows read up to its bound, and the
\* last all of them, in whatever order the rows of the table of a server come, and
\* wherever the result breaks off.
\* (MakeCumulative, ArtificialSum, processQueryResponseTimeTable)
THEOREM HistogramsCumulativeHolds == Spec => []HistogramsCumulative
<1>1. Init => HistogramSoFar /\ ResponseTimesSoFar
  <2>1. ASSUME Init, kind = "histogram" PROVE HistogramSoFar
    <3>1. var.bucket = Empty /\ next = 1 /\ out = {}
      BY <2>1 DEF Init, Start
    <3>2. DOMAIN var.bucket = {} /\ 1..(next - 1) = {}
      BY <3>1 DEF Empty
    <3> QED BY <3>1, <3>2 DEF HistogramSoFar
  <2>2. ASSUME Init, kind = "query_response_time" PROVE ResponseTimesSoFar
    <3>1. var.cnt = 0 /\ var.buckets = Empty /\ next = 1 /\ out = {}
      BY <2>2 DEF Init, Start
    <3>2. DOMAIN var.buckets = {} /\ 1..(next - 1) = {}
      BY <3>1 DEF Empty
    <3>3. SumFunctionOnSet(Counts, 1..(next - 1)) = 0
      BY <3>2, SumEmpty
    <3> QED BY <3>1, <3>2, <3>3 DEF ResponseTimesSoFar
  <2> QED BY <2>1, <2>2 DEF HistogramSoFar, ResponseTimesSoFar
<1>2. Placed /\ HistogramSoFar /\ ResponseTimesSoFar /\ [Next]_vars
        => HistogramSoFar' /\ ResponseTimesSoFar'
  BY HistogramStep, ResponseTimesStep
<1>3. HistogramSoFar /\ ResponseTimesSoFar => HistogramsCumulative
  <2>1. kind \notin {"histogram", "query_response_time"} => HistogramsCumulative
    BY DEF HistogramsCumulative
  <2> QED BY <2>1, BoundsAreCumulative, TimesAreCumulative
<1> QED BY <1>1, <1>2, <1>3, PlacedInit, PlacedStep, PTL DEF Spec

=============================================================================
