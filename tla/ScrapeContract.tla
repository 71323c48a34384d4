--------------------------- MODULE ScrapeContract ---------------------------
(***************************************************************************)
(* What one Collect call of the exporter promises to the registry that     *)
(* reads its metrics: every collector it starts reports exactly once, "up" *)
(* is the last metric and is sent exactly once, it is 0 only when no       *)
(* collector was started and 1 only when every started one has reported.   *)
(***************************************************************************)
CONSTANTS
  Scrapers,   \* the collectors of the request
  Waiting,    \* no value yet
  Good, Bad   \* the values of collector_success, and of up: 1 and 0

VARIABLES
  started,    \* collectors whose goroutine was started
  result,     \* collector_success of each collector
  up          \* the up metric

vars == <<started, result, up>>

Init ==
  /\ started = {}
  /\ result = [s \in Scrapers |-> Waiting]
  /\ up = Waiting

Start(s) ==
  /\ up = Waiting
  /\ s \notin started
  /\ started' = started \cup {s}
  /\ UNCHANGED <<result, up>>

Report(s, value) ==
  /\ up = Waiting
  /\ s \in started
  /\ result[s] = Waiting
  /\ result' = [result EXCEPT ![s] = value]
  /\ UNCHANGED <<started, up>>

Up(value) ==
  /\ up = Waiting
  /\ value = Bad => started = {}
  /\ \A s \in started : result[s] # Waiting
  /\ up' = value
  /\ UNCHANGED <<started, result>>

Next ==
  \/ \E s \in Scrapers : Start(s) \/ Report(s, Good) \/ Report(s, Bad)
  \/ Up(Good) \/ Up(Bad)

Spec == Init /\ [][Next]_vars
=============================================================================
