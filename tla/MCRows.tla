------------------------------- MODULE MCRows -------------------------------
(* Rows for TLC: results of up to three rows.                                 *)
EXTENDS Rows

UpTo(n, S) == UNION {[1..k -> S] : k \in 0..n}

\* Two states are one when sanitized; the sums of two or three rows overflow 3 bits.
MCSanitized == [s \in {"Sleep", "Has read", "has_read", "unknown"} |->
  CASE s = "Sleep" -> "sleep" [] s \in {"Has read", "has_read"} -> "has_read" [] OTHER -> s]

Processes ==
  [user : {"u", "v"}, host : {"", "a"}, command : {"Sleep"},
   state : {"", "Has read", "has_read"}, count : {1, 3}, time : {1, 5}]

Files ==
  [file : {1, 2, 3}, type : {"UNDO LOG", "TABLESPACE"}, node : {"", "n1", "n2"}, undo : {-1, 8}]

\* The table of a server has each bound at most once, and need not have them all.
Bounds     == {0, 2, 4}
Histograms ==
  {f \in UpTo(3, [bound : Bounds, count : 0..2]) :
     \A i, j \in DOMAIN f : i # j => f[i].bound # f[j].bound}

\* Ascending, the row TOO LONG the last.
ResponseTimes ==
  {f \in UpTo(3, [length : {0, 1, 2, 3}, count : 0..2, total : {1}]) :
     /\ \A i, j \in DOMAIN f : i < j /\ f[j].length # 0 => f[i].length < f[j].length /\ f[i].length # 0
     /\ \A i, j \in DOMAIN f : i < j => f[i].length # 0}

Binlogs ==
  UpTo(3, [filename : [number : {1, 2}, dot : BOOLEAN], size : {1, 5}])

\* MySQL from 5.6, MySQL before, MariaDB.
Replicas ==
  UpTo(2, [host : {"h", "i"}, columns : {5}, fourth : {"source"}, fifth : {"uuid"}] \cup
          [host : {"h", "i"}, columns : {5}, fourth : {"rank"}, fifth : {"source"}] \cup
          [host : {"h", "i"}, columns : {4}, fourth : {"source"}, fifth : {""}])

MCResults ==
  [processlist |-> UpTo(3, Processes),
   files |-> {f \in UpTo(3, Files) : \A i \in DOMAIN f : f[i].file = i},
   histogram |-> Histograms, query_response_time |-> ResponseTimes, binlog |-> Binlogs,
   slave_hosts |-> Replicas]

MCUpperBounds == <<0, 2, 4>>
=============================================================================
