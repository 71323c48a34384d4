--------------------------- MODULE ExporterProofs ---------------------------
(***************************************************************************)
(* Safety of Exporter for every set of scrapers, every configuration of    *)
(* the pool and of the timeouts, and every combination of faults; and, for *)
(* the settings that leave room for the fast scrapers (RoomForFast), that  *)
(* none of them fails because of the slow ones.                            *)
(***************************************************************************)
EXTENDS Exporter, SumTheorems

-----------------------------------------------------------------------------
(* What the goroutines' helpers return *)

\* A goroutine that returns keeps the time of its context.
LEMMA ReturnedType ==
  ASSUME NEW p \in ScraperState, NEW ok \in BOOLEAN
  PROVE  Returned(p, ok) \in ScraperState /\ Returned(p, ok).pc = "report"
         /\ Returned(p, ok).began = p.began
BY DEF Returned, ScraperState, ScraperPCs

\* So does one that goes on with its next query, if it has one.
LEMMA NextQueryType ==
  ASSUME NEW p \in ScraperState
  PROVE  NextQuery(p) \in ScraperState /\ NextQuery(p).pc \in {"acquire", "report"}
         /\ NextQuery(p).began = p.began
<1>1. CASE p.left > 1
  <2>1. p.left \in Nat /\ p.left - 1 \in Nat
    BY <1>1 DEF ScraperState
  <2>2. NextQuery(p) = [p EXCEPT !.pc = "acquire", !.left = p.left - 1]
    BY <1>1 DEF NextQuery
  <2> QED BY <2>1, <2>2 DEF ScraperState, ScraperPCs
<1>2. CASE ~(p.left > 1)
  <2>1. Returned(p, TRUE) \in ScraperState
    BY ReturnedType
  <2> QED BY <1>2, <2>1, ReturnedType DEF NextQuery, ScraperState, ScraperPCs
<1> QED BY <1>1, <1>2

\* Every step of a goroutine but Report replaces its state by another state:
\* how its program counter moves, and when its context was made.
Moves(s, p) ==
  /\ p \in ScraperState
  /\ sc' = [sc EXCEPT ![s] = p]
  /\ \/ sc[s].pc = "started" /\ p.pc \in {"acquire", "report"} /\ p.began = now
     \/ /\ sc[s].pc \in {"acquire", "query", "rows"}
        /\ p.pc \in {"acquire", "query", "rows", "report"}
        /\ p.began = sc[s].began
        /\ p.pc = "query" => sc[s].pc = "acquire"
        /\ p.pc = "rows" => sc[s].pc = "query"
     \/ sc[s].pc = "reported" /\ p.pc = "finished" /\ p.began = sc[s].began
  /\ UNCHANGED <<now, gone, pc, began, version, todo, db, ret, result, up>>

\* The steps of a goroutine are those that Moves describes, and Report.
LEMMA ScraperMoves ==
  ASSUME TypeOK, NEW s \in Scrapers, Scraper(s)
  PROVE  Report(s) \/ \E p : Moves(s, p)
<1>0. sc[s] \in ScraperState
  BY DEF TypeOK
<1>1. CASE Start(s)
  <2>1. PICK p : /\ p = IF Queries[s] = 0
                        THEN [Returned(sc[s], TRUE) EXCEPT !.began = now]
                        ELSE [sc[s] EXCEPT !.pc = "acquire", !.began = now]
                 /\ Step(s, "started", p)
    BY <1>1 DEF Start
  <2>2. p \in ScraperState /\ p.pc \in {"acquire", "report"} /\ p.began = now
    BY <2>1, <1>0 DEF Returned, ScraperState, ScraperPCs, TypeOK
  <2> QED BY <2>1, <2>2 DEF Step, Moves
<1>2. CASE Acquire(s)
  BY <1>2, <1>0 DEF Acquire, Step, Moves, ScraperState, ScraperPCs, TypeOK
<1>3. ASSUME NEW p \in AfterError(s)
      PROVE  p \in ScraperState /\ p.pc \in {"acquire", "report"}
             /\ p.began = sc[s].began
  BY <1>0, ReturnedType, NextQueryType DEF AfterError
<1>4. CASE AcquireFails(s)
  BY <1>4, <1>3 DEF AcquireFails, Step, Moves
<1>5. CASE QueryFails(s)
  BY <1>5, <1>3 DEF QueryFails, Step, Moves
<1>6. CASE QueryAnswers(s)
  BY <1>6, <1>0 DEF QueryAnswers, Step, Moves, ScraperState, ScraperPCs
<1>7. CASE RowsEnd(s)
  BY <1>7, <1>0, ReturnedType, NextQueryType DEF RowsEnd, Step, Moves
<1>8. CASE ScanFails(s)
  BY <1>8, <1>0, ReturnedType DEF ScanFails, Step, Moves
<1>9. CASE RowsCut(s)
  <2>1. PICK p : /\ p = [NextQuery(sc[s]) EXCEPT !.whole = FALSE]
                 /\ Step(s, "rows", p)
    BY <1>9 DEF RowsCut
  <2>2. p \in ScraperState /\ p.pc \in {"acquire", "report"} /\ p.began = sc[s].began
    BY <2>1, <1>0, NextQueryType DEF ScraperState
  <2> QED BY <2>1, <2>2 DEF Step, Moves
<1>10. CASE Finish(s)
  BY <1>10, <1>0 DEF Finish, Step, Moves, ScraperState, ScraperPCs
<1> QED BY <1>1, <1>2, <1>4, <1>5, <1>6, <1>7, <1>8, <1>9, <1>10 DEF Scraper

-----------------------------------------------------------------------------
(* Types *)

\* The initial state has the types.
LEMMA TypeInit == Init => TypeOK
<1> SUFFICES ASSUME Init PROVE TypeOK
  OBVIOUS
<1>1. sc \in [Scrapers -> ScraperState]
  <2>1. \A s \in Scrapers : Queries[s] \in Nat
    BY QueriesAssumption
  <2> QED BY <2>1 DEF Init, ScraperState, ScraperPCs
<1>2. result \in [Scrapers -> Values] /\ ret \in Values /\ up \in Values
  BY DEF Init, Values
<1> QED BY <1>1, <1>2 DEF Init, TypeOK, PCs

\* The steps of Collect keep the types.
LEMMA TypeCollect == TypeOK /\ Collect => TypeOK'
<1> SUFFICES ASSUME TypeOK, Collect PROVE TypeOK'
  OBVIOUS
<1> USE DEF TypeOK, PCs, Values
<1>1. CASE \E s \in Scrapers : Skip(s) \/ Spawn(s)
  BY <1>1 DEF Skip, Spawn, ScraperState, ScraperPCs
<1>2. CASE \E v \in Versions : ReadVersion(v)
  BY <1>2, VersionsAssumption DEF ReadVersion
<1>3. CASE Open \/ OpenFails \/ ReadVersionFails
  BY <1>3 DEF Open, OpenFails, ReadVersionFails
<1>4. CASE Ping \/ PingFails \/ Connected
  BY <1>4 DEF Ping, PingFails, Connected
<1>5. CASE Return \/ Wait \/ Close \/ Up
  BY <1>5 DEF Return, Wait, Close, Up
<1> QED BY <1>1, <1>2, <1>3, <1>4, <1>5 DEF Collect

\* Every step keeps the types.
LEMMA TypeStep == TypeOK /\ [Next]_vars => TypeOK'
<1> SUFFICES ASSUME TypeOK, [Next]_vars PROVE TypeOK'
  OBVIOUS
<1>1. CASE Collect
  BY <1>1, TypeCollect
<1>2. ASSUME NEW s \in Scrapers, Scraper(s) PROVE TypeOK'
  <2>1. CASE Report(s)
    BY <2>1 DEF Report, TypeOK, Values, ScraperState, ScraperPCs
  <2>2. ASSUME NEW p, Moves(s, p) PROVE TypeOK'
    BY <2>2 DEF Moves, TypeOK
  <2> QED BY <1>2, <2>1, <2>2, ScraperMoves
<1>3. CASE Disconnect
  BY <1>3 DEF Disconnect, TypeOK
<1>4. CASE Clock
  BY <1>4 DEF Clock, TypeOK
<1>5. CASE UNCHANGED vars
  BY <1>5 DEF vars, TypeOK
<1> QED BY <1>1, <1>2, <1>3, <1>4, <1>5 DEF Next, End

\* Every variable of the request keeps its type.
THEOREM TypeCorrect == Spec => []TypeOK
BY TypeInit, TypeStep, PTL DEF Spec

-----------------------------------------------------------------------------
(* The inductive invariant *)

\* How Collect's place, the loop over the scrapers, the goroutines and the
\* pool go together.  NoUseAfterClose and PoolClosed follow.
Lifecycle ==
  /\ pc = "open" => db = "none"
  /\ pc \in {"version", "ping", "connected", "spawn", "wait"} => db = "open"
  /\ pc \in {"up", "done"} => db # "open"
  /\ pc \in {"open", "version", "ping", "connected"} => todo = Scrapers
  /\ pc = "wait" => todo = {}
  /\ \A s \in Scrapers : s \in todo <=> sc[s].pc = "off"
  /\ \A s \in Scrapers :
       sc[s].pc \notin {"off", "skipped", "finished"} => pc \in {"spawn", "wait"}

\* What has been sent, and what scrape returns.
Outputs ==
  /\ up = "waiting" <=> pc # "done"
  /\ \A s \in Scrapers : result[s] = "waiting" <=> sc[s].pc \notin {"reported", "finished"}
  /\ pc = "wait" => ret = "good"
  /\ pc \in {"close", "up"} =>
       \/ ret = "good" /\ \A s \in Scrapers : sc[s].pc \in {"skipped", "finished"}
       \/ ret = "bad" /\ todo = Scrapers

\* Where the time of a request goes, when there is a query timeout.
Timing ==
  /\ pc = "open" => now = 0
  /\ pc = "version" => began = 0 /\ now <= QueryTimeout
  /\ pc = "ping" => began <= QueryTimeout /\ now <= began + QueryTimeout
  /\ pc \in {"connected", "spawn"} => now <= 2 * QueryTimeout
  /\ \A s \in Scrapers : sc[s].pc = "started" => now <= 2 * QueryTimeout
  /\ \A s \in Scrapers :
       sc[s].pc \in {"acquire", "query", "rows"} =>
         sc[s].began <= 2 * QueryTimeout /\ now <= sc[s].began + QueryTimeout
  /\ now <= 3 * QueryTimeout

IInv ==
  /\ TypeOK
  /\ Lifecycle
  /\ Outputs
  /\ QueryTimeout > 0 => Timing
  /\ RequestTimeout > 0 => now <= RequestTimeout

\* The initial state satisfies the strengthened invariant.
LEMMA InitIInv == Init => IInv
<1> SUFFICES ASSUME Init PROVE IInv
  OBVIOUS
<1>1. TypeOK
  BY TypeInit
<1>2. Lifecycle
  BY DEF Init, Lifecycle
<1>3. Outputs
  BY DEF Init, Outputs
<1>4. QueryTimeout > 0 => Timing
  BY FlagsAssumption DEF Init, Timing
<1>5. RequestTimeout > 0 => now <= RequestTimeout
  BY HeaderAssumption DEF Init
<1> QED BY <1>1, <1>2, <1>3, <1>4, <1>5 DEF IInv

\* The pool is open, and goroutines run, only in the phases of Collect for it.
LEMMA LifecycleStep == TypeOK /\ Lifecycle /\ [Next]_vars => Lifecycle'
<1> SUFFICES ASSUME TypeOK, Lifecycle, [Next]_vars PROVE Lifecycle'
  OBVIOUS
<1>0. sc \in [Scrapers -> ScraperState] /\ todo \subseteq Scrapers
  BY DEF TypeOK
<1>1. CASE Open \/ OpenFails
  BY <1>1 DEF Open, OpenFails, Lifecycle
<1>2. CASE \E v \in Versions : ReadVersion(v)
  BY <1>2 DEF ReadVersion, Lifecycle
<1>3. CASE ReadVersionFails
  BY <1>3 DEF ReadVersionFails, Lifecycle
<1>4. CASE Ping \/ PingFails \/ Connected
  BY <1>4 DEF Ping, PingFails, Connected, Lifecycle
<1>5. ASSUME NEW s \in Scrapers, Skip(s) \/ Spawn(s) PROVE Lifecycle'
  <2>1. /\ pc = "spawn" /\ pc' = pc /\ db' = db
        /\ s \in todo /\ todo' = todo \ {s}
        /\ sc' \in [Scrapers -> ScraperState]
        /\ sc'[s].pc \in {"skipped", "started"}
        /\ \A u \in Scrapers \ {s} : sc'[u] = sc[u]
    BY <1>5, <1>0 DEF Skip, Spawn, ScraperState, ScraperPCs
  <2> QED BY <2>1, <1>0 DEF Lifecycle
<1>6. CASE Return
  BY <1>6 DEF Return, Lifecycle
<1>7. CASE Wait
  BY <1>7, <1>0 DEF Wait, Lifecycle
<1>8. CASE Close \/ Up
  BY <1>8 DEF Close, Up, Lifecycle
<1>9. ASSUME NEW s \in Scrapers, Scraper(s) PROVE Lifecycle'
  <2>1. CASE Report(s)
    BY <2>1, <1>0 DEF Report, Lifecycle, ScraperState
  <2>2. ASSUME NEW p, Moves(s, p) PROVE Lifecycle'
    <3>1. sc'[s] = p /\ \A u \in Scrapers \ {s} : sc'[u] = sc[u]
      BY <2>2, <1>0 DEF Moves
    <3>2. /\ p.pc \notin {"off", "skipped"}
          /\ sc[s].pc \notin {"off", "skipped", "finished"}
      BY <2>2 DEF Moves
    <3>3. UNCHANGED <<pc, db, todo>>
      BY <2>2 DEF Moves
    <3> QED BY <3>1, <3>2, <3>3 DEF Lifecycle
  <2> QED BY <1>9, <2>1, <2>2, ScraperMoves
<1>10. CASE Disconnect \/ Clock \/ UNCHANGED vars
  BY <1>10 DEF Disconnect, Clock, vars, Lifecycle
<1> QED BY <1>1, <1>2, <1>3, <1>4, <1>5, <1>6, <1>7, <1>8, <1>9, <1>10
       DEF Next, Collect, End

\* What was sent and what scrape returns agree with where each goroutine is.
LEMMA OutputsStep == TypeOK /\ Lifecycle /\ Outputs /\ [Next]_vars => Outputs'
<1> SUFFICES ASSUME TypeOK, Lifecycle, Outputs, [Next]_vars PROVE Outputs'
  OBVIOUS
<1>0. /\ sc \in [Scrapers -> ScraperState] /\ todo \subseteq Scrapers
      /\ result \in [Scrapers -> Values] /\ ret \in Values
  BY DEF TypeOK
<1>1. CASE Open \/ OpenFails
  BY <1>1 DEF Open, OpenFails, Lifecycle, Outputs
<1>2. CASE \E v \in Versions : ReadVersion(v)
  BY <1>2 DEF ReadVersion, Outputs
<1>3. CASE ReadVersionFails
  BY <1>3 DEF ReadVersionFails, Lifecycle, Outputs
<1>4. CASE Ping \/ PingFails \/ Connected
  BY <1>4 DEF Ping, PingFails, Connected, Lifecycle, Outputs
<1>5. ASSUME NEW s \in Scrapers, Skip(s) \/ Spawn(s) PROVE Outputs'
  <2>1. /\ pc = "spawn" /\ UNCHANGED <<pc, ret, result, up>>
        /\ sc[s].pc = "off" /\ sc'[s].pc \in {"skipped", "started"}
        /\ \A u \in Scrapers \ {s} : sc'[u] = sc[u]
    BY <1>5, <1>0 DEF Skip, Spawn, ScraperState, ScraperPCs, Lifecycle
  <2> QED BY <2>1, <1>0 DEF Outputs
<1>6. CASE Return
  BY <1>6 DEF Return, Outputs
<1>7. CASE Wait
  BY <1>7 DEF Wait, Outputs
<1>8. CASE Close \/ Up
  BY <1>8, <1>0 DEF Close, Up, Outputs
<1>9. ASSUME NEW s \in Scrapers, Scraper(s) PROVE Outputs'
  <2>1. CASE Report(s)
    <3>1. pc \in {"spawn", "wait"}
      BY <2>1 DEF Report, Lifecycle
    <3>2. result'[s] # "waiting" /\ sc'[s].pc = "reported"
      BY <2>1, <1>0 DEF Report, ScraperState
    <3>3. \A u \in Scrapers \ {s} : sc'[u] = sc[u] /\ result'[u] = result[u]
      BY <2>1, <1>0 DEF Report
    <3>4. UNCHANGED <<pc, ret, up>>
      BY <2>1 DEF Report
    <3> QED BY <3>1, <3>2, <3>3, <3>4 DEF Outputs
  <2>2. ASSUME NEW p, Moves(s, p) PROVE Outputs'
    <3>1. sc'[s] = p /\ \A u \in Scrapers \ {s} : sc'[u] = sc[u]
      BY <2>2, <1>0 DEF Moves
    <3>2. /\ sc[s].pc \notin {"off", "skipped", "finished"}
          /\ p.pc \in {"reported", "finished"} <=> sc[s].pc = "reported"
      BY <2>2 DEF Moves
    <3>3. UNCHANGED <<pc, ret, result, up>>
      BY <2>2 DEF Moves
    <3>4. pc \in {"spawn", "wait"}
      BY <3>2 DEF Lifecycle
    <3> QED BY <3>1, <3>2, <3>3, <3>4 DEF Outputs
  <2> QED BY <1>9, <2>1, <2>2, ScraperMoves
<1>10. CASE Disconnect \/ Clock \/ UNCHANGED vars
  BY <1>10 DEF Disconnect, Clock, vars, Outputs
<1> QED BY <1>1, <1>2, <1>3, <1>4, <1>5, <1>6, <1>7, <1>8, <1>9, <1>10
       DEF Next, Collect, End

\* Time passes only while Collect or a goroutine waits on a live context.
LEMMA ClockWaits ==
  ASSUME TypeOK, Lifecycle, Clock
  PROVE  /\ now' = now + 1
         /\ \/ pc \in {"version", "ping"} /\ ~CtxDone(began)
            \/ /\ pc = "wait"
               /\ \E s \in Scrapers : /\ sc[s].pc \in {"acquire", "query", "rows"}
                                     /\ ~CtxDone(sc[s].began)
         /\ \A s \in Scrapers : sc[s].pc # "started"
         /\ \A s \in Scrapers :
              sc[s].pc \in {"acquire", "query", "rows"} => ~CtxDone(sc[s].began)
<1>0. sc \in [Scrapers -> ScraperState]
  BY DEF TypeOK
<1>1. now' = now + 1 /\ CollectWaits /\ \A s \in Scrapers : ScraperWaits(s)
  BY DEF Clock
<1>2. \A s \in Scrapers :
        /\ sc[s].pc # "started"
        /\ sc[s].pc \in {"acquire", "query", "rows"} => ~CtxDone(sc[s].began)
        /\ sc[s].pc \in {"off", "skipped", "finished", "acquire", "query", "rows"}
  BY <1>1 DEF ScraperWaits
<1>3. CASE pc = "wait" /\ \E s \in Scrapers : sc[s].pc \notin {"skipped", "finished"}
  <2>1. \A s \in Scrapers : sc[s].pc # "off"
    BY <1>3 DEF Lifecycle
  <2> QED BY <1>1, <1>2, <1>3, <2>1
<1> QED BY <1>1, <1>2, <1>3 DEF CollectWaits

\* With a query timeout, each phase begins and ends in time.
LEMMA TimingStep ==
  ASSUME TypeOK, Lifecycle, QueryTimeout > 0, Timing, [Next]_vars
  PROVE  Timing'
<1>0. /\ sc \in [Scrapers -> ScraperState] /\ todo \subseteq Scrapers
      /\ now \in Nat /\ began \in Nat /\ QueryTimeout \in Nat
  BY FlagsAssumption DEF TypeOK
<1>1. CASE Open \/ OpenFails
  BY <1>1, <1>0 DEF Open, OpenFails, Timing
<1>2. CASE \E v \in Versions : ReadVersion(v)
  BY <1>2, <1>0 DEF ReadVersion, Timing
<1>3. CASE ReadVersionFails
  BY <1>3 DEF ReadVersionFails, Timing
<1>4. CASE Ping \/ PingFails \/ Connected
  BY <1>4, <1>0 DEF Ping, PingFails, Connected, Timing
<1>5. ASSUME NEW s \in Scrapers, Skip(s) \/ Spawn(s) PROVE Timing'
  <2>1. /\ pc = "spawn" /\ UNCHANGED <<now, pc, began>>
        /\ sc'[s].pc \in {"skipped", "started"}
        /\ \A u \in Scrapers \ {s} : sc'[u] = sc[u]
    BY <1>5, <1>0 DEF Skip, Spawn, ScraperState, ScraperPCs
  <2> QED BY <2>1 DEF Timing
<1>6. CASE Return \/ Wait \/ Close \/ Up
  BY <1>6 DEF Return, Wait, Close, Up, Timing
<1>7. ASSUME NEW s \in Scrapers, Scraper(s) PROVE Timing'
  <2>1. CASE Report(s)
    <3>1. /\ UNCHANGED <<now, pc, began>> /\ sc'[s].pc = "reported"
          /\ \A u \in Scrapers \ {s} : sc'[u] = sc[u]
      BY <2>1, <1>0 DEF Report, ScraperState
    <3> QED BY <3>1 DEF Timing
  <2>2. ASSUME NEW p, Moves(s, p) PROVE Timing'
    <3>1. /\ UNCHANGED <<now, pc, began>> /\ sc'[s] = p
          /\ \A u \in Scrapers \ {s} : sc'[u] = sc[u]
      BY <2>2, <1>0 DEF Moves
    <3>2. \/ sc[s].pc = "started" /\ p.began = now /\ p.pc # "started"
          \/ /\ sc[s].pc \in {"acquire", "query", "rows"}
             /\ p.began = sc[s].began /\ p.pc # "started"
          \/ p.pc = "finished"
      BY <2>2 DEF Moves
    <3>3. p.pc \in {"acquire", "query", "rows"} =>
            p.began <= 2 * QueryTimeout /\ now <= p.began + QueryTimeout
      BY <3>2, <1>0 DEF Timing
    <3>4. p.pc # "started"
      BY <3>2
    <3> QED BY <3>1, <3>3, <3>4 DEF Timing
  <2> QED BY <1>7, <2>1, <2>2, ScraperMoves
<1>8. CASE Clock
  <2>1. \A t \in Nat : ~CtxDone(t) => now + 1 <= t + QueryTimeout
    BY <1>0 DEF CtxDone
  <2>2. \A s \in Scrapers : sc[s].began \in Nat
    BY <1>0 DEF ScraperState
  <2>3. UNCHANGED <<pc, began, sc>> /\ now' = now + 1
    BY <1>8 DEF Clock
  <2>4. \A s \in Scrapers : sc[s].pc # "started"
    BY <1>8, ClockWaits
  <2>5. \A s \in Scrapers :
          sc[s].pc \in {"acquire", "query", "rows"} =>
            now + 1 <= sc[s].began + QueryTimeout
    BY <1>8, <2>1, <2>2, ClockWaits
  <2>6. CASE pc \in {"version", "ping"} /\ ~CtxDone(began)
    <3>1. now + 1 <= began + QueryTimeout
      BY <2>1, <2>6, <1>0
    <3> QED BY <3>1, <1>0, <2>3, <2>4, <2>5, <2>6 DEF Timing
  <2>7. CASE pc = "wait" /\ \E s \in Scrapers : sc[s].pc \in {"acquire", "query", "rows"}
    <3>1. PICK s \in Scrapers : sc[s].pc \in {"acquire", "query", "rows"}
      BY <2>7
    <3>2. now + 1 <= sc[s].began + QueryTimeout /\ sc[s].began <= 2 * QueryTimeout
      BY <3>1, <2>5 DEF Timing
    <3>3. now + 1 <= 3 * QueryTimeout
      BY <3>2, <2>2, <1>0
    <3> QED BY <3>3, <1>0, <2>3, <2>4, <2>5, <2>7 DEF Timing
  <2> QED BY <1>8, <2>6, <2>7, ClockWaits
<1>9. CASE Disconnect \/ UNCHANGED vars
  BY <1>9 DEF Disconnect, vars, Timing
<1> QED BY <1>1, <1>2, <1>3, <1>4, <1>5, <1>6, <1>7, <1>8, <1>9
       DEF Next, Collect, End

\* With a request timeout, the clock stops at it.
LEMMA RequestStep ==
  ASSUME TypeOK, Lifecycle, RequestTimeout > 0, now <= RequestTimeout, [Next]_vars
  PROVE  now' <= RequestTimeout
<1>1. CASE Clock
  <2>1. now' = now + 1 /\ ~RequestDone
    BY <1>1, ClockWaits DEF CtxDone
  <2> QED BY <2>1, HeaderAssumption DEF RequestDone, TypeOK
<1>2. CASE ~Clock
  <2>1. ASSUME NEW s \in Scrapers, Scraper(s) PROVE now' = now
    BY <2>1, ScraperMoves DEF Report, Moves
  <2>2. CASE Collect
    BY <2>2 DEF Collect, Open, OpenFails, ReadVersion, ReadVersionFails, Ping,
                PingFails, Connected, Skip, Spawn, Return, Wait, Close, Up
  <2> QED BY <1>2, <2>1, <2>2 DEF Next, Disconnect, End, vars
<1> QED BY <1>1, <1>2

\* Every step keeps the strengthened invariant.
LEMMA StepIInv == IInv /\ [Next]_vars => IInv'
BY TypeStep, LifecycleStep, OutputsStep, TimingStep, RequestStep DEF IInv

\* The strengthened invariant holds in every reachable state.
\* (Exporter.Collect, Exporter.scrape)
THEOREM Invariance == Spec => []IInv
BY InitIInv, StepIInv, PTL DEF Spec

-----------------------------------------------------------------------------
(* The safety properties *)

\* No scraper goroutine uses the pool after instance.Close.
THEOREM NoUseAfterCloseHolds == Spec => []NoUseAfterClose
<1>1. IInv => NoUseAfterClose
  BY DEF IInv, Lifecycle, NoUseAfterClose
<1> QED BY <1>1, Invariance, PTL

\* Collect does not end with its pool open.
THEOREM PoolClosedHolds == Spec => []PoolClosed
<1>1. IInv => PoolClosed
  BY DEF IInv, Lifecycle, PoolClosed
<1> QED BY <1>1, Invariance, PTL

\* A request ends within three query timeouts and within its own timeout, for
\* any number of scrapers, queries and connections.
THEOREM AnswersInTimeHolds == Spec => []AnswersInTime
<1>1. IInv => AnswersInTime
  BY DEF IInv, Timing, AnswersInTime
<1> QED BY <1>1, Invariance, PTL

-----------------------------------------------------------------------------
(* Exporter implements ScrapeContract *)

StartedSet == {s \in Scrapers : sc[s].pc \notin {"off", "skipped"}}

\* A scrape begins as the contract does.
LEMMA ContractInit == Init => Contract!Init
BY DEF Init, Contract!Init

\* Every step is one of the contract, or leaves what the contract speaks of.
LEMMA ContractStep == IInv /\ [Next]_vars => [Contract!Next]_(Contract!vars)
<1> SUFFICES ASSUME IInv, [Next]_vars PROVE [Contract!Next]_(Contract!vars)
  OBVIOUS
<1>0. /\ sc \in [Scrapers -> ScraperState] /\ result \in [Scrapers -> Values]
      /\ TypeOK /\ Lifecycle /\ Outputs
  BY DEF IInv, TypeOK
<1>1. ASSUME UNCHANGED <<sc, result, up>> PROVE UNCHANGED Contract!vars
  BY <1>1 DEF Contract!vars
<1>2. CASE \/ Open \/ OpenFails \/ ReadVersionFails \/ Ping \/ PingFails
           \/ Connected \/ Return \/ Wait \/ Close
           \/ \E v \in Versions : ReadVersion(v)
  BY <1>1, <1>2 DEF Open, OpenFails, ReadVersionFails, Ping, PingFails, Connected,
                    Return, Wait, Close, ReadVersion
<1>3. ASSUME NEW s \in Scrapers, Skip(s) PROVE UNCHANGED Contract!vars
  <2>1. /\ sc'[s].pc = "skipped" /\ sc[s].pc = "off"
        /\ \A u \in Scrapers \ {s} : sc'[u] = sc[u]
        /\ UNCHANGED <<result, up>>
    BY <1>3, <1>0 DEF Skip, ScraperState, ScraperPCs, Lifecycle
  <2>2. StartedSet' = StartedSet
    BY <2>1 DEF StartedSet
  <2> QED BY <2>1, <2>2 DEF Contract!vars, StartedSet
<1>4. ASSUME NEW s \in Scrapers, Spawn(s) PROVE Contract!Start(s)
  <2>1. /\ pc = "spawn" /\ sc'[s].pc = "started" /\ sc[s].pc = "off"
        /\ \A u \in Scrapers \ {s} : sc'[u] = sc[u]
        /\ UNCHANGED <<result, up>>
    BY <1>4, <1>0 DEF Spawn, ScraperState, ScraperPCs, Lifecycle
  <2>2. StartedSet' = StartedSet \cup {s} /\ s \notin StartedSet
    BY <2>1 DEF StartedSet
  <2>3. up = "waiting"
    BY <2>1, <1>0 DEF Outputs
  <2> QED BY <2>1, <2>2, <2>3 DEF Contract!Start, StartedSet
<1>5. CASE Up
  <2>1. pc = "up" /\ up' = ret /\ UNCHANGED <<sc, result>>
    BY <1>5 DEF Up
  <2>2. up = "waiting"
    BY <2>1, <1>0 DEF Outputs
  <2>3. CASE ret = "good" /\ \A s \in Scrapers : sc[s].pc \in {"skipped", "finished"}
    <3>1. \A s \in StartedSet : result[s] # "waiting"
      BY <2>3, <1>0 DEF StartedSet, Outputs
    <3>2. Contract!Up("good")
      BY <2>1, <2>2, <2>3, <3>1 DEF Contract!Up, StartedSet
    <3> QED BY <3>2 DEF Contract!Next
  <2>4. CASE ret = "bad" /\ todo = Scrapers
    <3>1. StartedSet = {}
      BY <2>4, <1>0 DEF StartedSet, Lifecycle
    <3>2. Contract!Up("bad")
      BY <2>1, <2>2, <2>4, <3>1 DEF Contract!Up, StartedSet
    <3> QED BY <3>2 DEF Contract!Next
  <2> QED BY <2>1, <2>3, <2>4, <1>0 DEF Outputs
<1>6. ASSUME NEW s \in Scrapers, Scraper(s)
      PROVE  [Contract!Next]_(Contract!vars)
  <2>1. CASE Report(s)
    <3>1. /\ sc[s].pc = "report" /\ sc'[s].pc = "reported"
          /\ \A u \in Scrapers \ {s} : sc'[u] = sc[u]
          /\ UNCHANGED up
      BY <2>1, <1>0 DEF Report, ScraperState
    <3>2. StartedSet' = StartedSet /\ s \in StartedSet
      BY <3>1 DEF StartedSet
    <3>3. up = "waiting" /\ result[s] = "waiting"
      BY <3>1, <1>0 DEF Lifecycle, Outputs
    <3>4. PICK v \in {"good", "bad"} : result' = [result EXCEPT ![s] = v]
      BY <2>1 DEF Report
    <3>5. Contract!Report(s, v)
      BY <3>1, <3>2, <3>3, <3>4 DEF Contract!Report, StartedSet
    <3> QED BY <3>4, <3>5 DEF Contract!Next
  <2>2. ASSUME NEW p, Moves(s, p) PROVE UNCHANGED Contract!vars
    <3>1. /\ sc'[s] = p
          /\ \A u \in Scrapers \ {s} : sc'[u] = sc[u]
          /\ UNCHANGED <<result, up>>
      BY <2>2, <1>0 DEF Moves
    <3>2. p.pc \notin {"off", "skipped"} /\ sc[s].pc \notin {"off", "skipped"}
      BY <2>2 DEF Moves
    <3>3. StartedSet' = StartedSet
      BY <3>1, <3>2 DEF StartedSet
    <3> QED BY <3>1, <3>3 DEF Contract!vars, StartedSet
  <2> QED BY <1>6, <2>1, <2>2, <1>0, ScraperMoves
<1>7. CASE Disconnect \/ Clock \/ UNCHANGED vars
  BY <1>1, <1>7 DEF Disconnect, Clock, vars
<1> QED BY <1>2, <1>3, <1>4, <1>5, <1>6, <1>7
       DEF Next, Collect, End, Contract!Next

\* Every started collector reports once, and up comes last and tells the truth.
THEOREM KeepsContractHolds == Spec => KeepsContract
BY ContractInit, ContractStep, Invariance, PTL DEF Spec, KeepsContract, Contract!Spec

-----------------------------------------------------------------------------
(* Fast scrapers beside slow ones *)

Fast == Scrapers \ Slow

\* The slow scrapers cannot take every connection; the fast ones, one query after the
\* other on a connection of their own, need less than a query timeout; and nothing but
\* a query timeout ends a query.
RoomForFast ==
  /\ Faults \cap {"server", "client"} = {} /\ RequestTimeout = 0
  /\ Cardinality(Slow) < MaxOpenConns
  /\ QueryTimeout > 0 => SumFunctionOnSet(Queries, Fast) < QueryTimeout

\* Units of the clock that the queries of a scraper may still take: one for each, none
\* for one that the server has answered or, since the clock has moved, will.
WorkOf(p, queries, t) ==
  CASE p.pc \in {"off", "started"}          -> queries
    [] p.pc = "acquire"                     -> p.left
    [] p.pc = "query" /\ p.sent = t         -> p.left
    [] p.pc = "query" /\ p.sent # t         -> p.left - 1
    [] p.pc = "rows"                        -> p.left - 1
    [] OTHER                                -> 0

Work == [s \in Fast |-> WorkOf(sc[s], Queries[s], now)]

\* The queries that a scraper has left, and whether it has failed.
Going(p, queries, t) ==
  /\ p.pc \in {"off", "started"} => p.left = queries
  /\ p.pc \in {"acquire", "query", "rows"} => p.left \in 1..queries
  /\ p.pc = "query" => p.sent <= t
  /\ p.pc = "report" => p.ok

\* Time since the beginning of a fast scraper, and the work that is left: never more than
\* the queries of all.
OnTime ==
  /\ ~gone
  /\ \A s \in Fast : Going(sc[s], Queries[s], now) /\ result[s] # "bad"
  /\ \A s \in Fast :
       sc[s].pc \in {"acquire", "query", "rows"} =>
         /\ sc[s].began <= now
         /\ now - sc[s].began + SumFunctionOnSet(Work, Fast) <= SumFunctionOnSet(Queries, Fast)

\* The constants of the scrapers are within the reach of the theorems about sums.
LEMMA FastFinite == IsFiniteSet(Fast) /\ IsFiniteSet(Slow) /\ \A s \in Fast : Queries[s] \in Nat
<1>1. Fast \subseteq Scrapers
  BY DEF Fast
<1> QED BY <1>1, FiniteAssumption, SlowAssumption, QueriesAssumption, FS_Subset

\* The work that is left of one scraper.
LEMMA WorkType ==
  ASSUME NEW p \in ScraperState, NEW queries \in Nat, NEW t \in Nat, Going(p, queries, t)
  PROVE  WorkOf(p, queries, t) \in 0..queries
BY DEF ScraperState, Going, WorkOf

\* The work of one scraper among those of all.
LEMMA WorkAt ==
  ASSUME NEW s \in Fast
  PROVE  Work[s] = WorkOf(sc[s], Queries[s], now)
BY DEF Work

\* The work that is left is at most all the work.
LEMMA SumsOfWork ==
  ASSUME TypeOK, OnTime
  PROVE  /\ \A s \in Fast : Work[s] \in 0..Queries[s]
         /\ SumFunctionOnSet(Work, Fast) \in Nat /\ SumFunctionOnSet(Queries, Fast) \in Nat
         /\ SumFunctionOnSet(Work, Fast) <= SumFunctionOnSet(Queries, Fast)
<1>1. ASSUME NEW s \in Fast PROVE Work[s] \in 0..Queries[s]
  <2>1. sc[s] \in ScraperState /\ Queries[s] \in Nat /\ now \in Nat /\ Going(sc[s], Queries[s], now)
    BY FastFinite DEF Fast, TypeOK, OnTime
  <2> QED BY <2>1, WorkType, WorkAt
<1>2. /\ \A s \in Fast : Work[s] \in Nat /\ Work[s] \in Int /\ Queries[s] \in Nat
                         /\ Queries[s] \in Int /\ Work[s] <= Queries[s]
      /\ IsFiniteSet(Fast)
  BY <1>1, FastFinite
<1>3. SumFunctionOnSet(Work, Fast) \in Nat /\ SumFunctionOnSet(Queries, Fast) \in Nat
  BY <1>2, SumNat
<1>4. SumFunctionOnSet(Work, Fast) <= SumFunctionOnSet(Queries, Fast)
  BY <1>2, SumMonotone
<1> QED BY <1>1, <1>3, <1>4

\* No context of a fast scraper is done.
LEMMA NotLate ==
  ASSUME RoomForFast, TypeOK, OnTime, NEW s \in Fast, sc[s].pc \in {"acquire", "query", "rows"}
  PROVE  ~CtxDone(sc[s].began)
<1>1. /\ sc[s].began <= now
      /\ now - sc[s].began + SumFunctionOnSet(Work, Fast) <= SumFunctionOnSet(Queries, Fast)
      /\ ~gone
  BY DEF OnTime
<1>2. sc[s].began \in Nat /\ now \in Nat
  BY DEF TypeOK, ScraperState, Fast
<1>3. SumFunctionOnSet(Work, Fast) \in Nat /\ SumFunctionOnSet(Queries, Fast) \in Nat
  BY SumsOfWork
<1>4. QueryTimeout > 0 => ~(now >= sc[s].began + QueryTimeout)
  BY <1>1, <1>2, <1>3, FlagsAssumption DEF RoomForFast
<1>5. ~RequestDone
  BY <1>1 DEF RequestDone, RoomForFast
<1> QED BY <1>4, <1>5 DEF CtxDone

\* A step of one goroutine, without the clock.
LEMMA OneWorks ==
  ASSUME TypeOK, OnTime, TypeOK', NEW s \in Scrapers, NEW p \in ScraperState,
         sc' = [sc EXCEPT ![s] = p], UNCHANGED <<now, gone>>,
         \A t \in Scrapers \ {s} : result'[t] = result[t],
         s \in Fast =>
           /\ Going(p, Queries[s], now) /\ result'[s] # "bad"
           /\ WorkOf(p, Queries[s], now) <= WorkOf(sc[s], Queries[s], now)
           /\ p.pc \in {"acquire", "query", "rows"} =>
                \/ p.began = now
                \/ p.began = sc[s].began /\ sc[s].pc \in {"acquire", "query", "rows"}
  PROVE  OnTime'
<1>1. sc'[s] = p /\ \A t \in Scrapers \ {s} : sc'[t] = sc[t]
  BY DEF TypeOK
<1>2. \A t \in Fast : Going(sc'[t], Queries[t], now) /\ result'[t] # "bad"
  BY <1>1 DEF OnTime, Fast
<1>3. ASSUME NEW t \in Fast PROVE Work'[t] \in 0..Queries[t] /\ Work'[t] <= Work[t]
  <2>1. Work'[t] = WorkOf(sc'[t], Queries[t], now)
    BY DEF Work
  <2>2. sc'[t] \in ScraperState /\ Queries[t] \in Nat /\ now \in Nat
    BY FastFinite DEF TypeOK, Fast
  <2>3. Work'[t] \in 0..Queries[t]
    BY <1>2, <2>1, <2>2, WorkType
  <2>4. WorkOf(sc'[t], Queries[t], now) <= Work[t]
    <3>1. CASE t = s
      BY <1>1, <3>1, WorkAt
    <3>2. CASE t # s
      <4>1. Work'[t] = Work[t]
        BY <1>1, <2>1, <3>2, WorkAt DEF Fast
      <4> QED BY <2>1, <2>2, <2>3, <4>1
    <3> QED BY <3>1, <3>2
  <2> QED BY <2>1, <2>3, <2>4
<1>4. /\ \A t \in Fast : Work'[t] \in Int /\ Work[t] \in Int /\ Work'[t] <= Work[t]
                         /\ Work'[t] \in Nat
      /\ IsFiniteSet(Fast)
  <2>1. \A t \in Fast : Work[t] \in 0..Queries[t] /\ Queries[t] \in Nat
    BY SumsOfWork, FastFinite
  <2> QED BY <1>3, <2>1, FastFinite
<1>5. SumFunctionOnSet(Work', Fast) <= SumFunctionOnSet(Work, Fast)
  BY <1>4, SumMonotone
<1>6. /\ SumFunctionOnSet(Work', Fast) \in Nat
      /\ SumFunctionOnSet(Work, Fast) \in Nat /\ SumFunctionOnSet(Queries, Fast) \in Nat
      /\ SumFunctionOnSet(Work, Fast) <= SumFunctionOnSet(Queries, Fast)
  BY <1>4, SumNat, SumsOfWork
<1>7. ASSUME NEW t \in Fast, sc'[t].pc \in {"acquire", "query", "rows"}
      PROVE  /\ sc'[t].began <= now
             /\ now - sc'[t].began + SumFunctionOnSet(Work', Fast)
                  <= SumFunctionOnSet(Queries, Fast)
  <2>1. now \in Nat /\ sc'[t].began \in Nat
    BY DEF TypeOK, Fast, ScraperState
  <2>2. CASE sc'[t].began = now
    BY <1>5, <1>6, <2>1, <2>2
  <2>3. CASE sc'[t].began = sc[t].began /\ sc[t].pc \in {"acquire", "query", "rows"}
    <3>1. /\ sc[t].began <= now
          /\ now - sc[t].began + SumFunctionOnSet(Work, Fast) <= SumFunctionOnSet(Queries, Fast)
      BY <2>3 DEF OnTime
    <3> QED BY <1>5, <1>6, <2>1, <2>3, <3>1
  <2>4. t = s \/ sc'[t] = sc[t]
    BY <1>1 DEF Fast
  <2> QED BY <1>1, <1>7, <2>2, <2>3, <2>4
<1> QED BY <1>2, <1>7 DEF OnTime

\* What comes after a query is one query less, or the end.
LEMMA NextWorks ==
  ASSUME NEW p \in ScraperState, p.pc = "rows", NEW queries \in Nat, NEW t \in Nat,
         Going(p, queries, t), NEW next, next \in {NextQuery(p), Returned(p, TRUE)}
  PROVE  /\ Going(next, queries, t) /\ WorkOf(next, queries, t) <= WorkOf(p, queries, t)
         /\ next.pc = "acquire" \/ next.pc = "report"
<1>1. p.left \in 1..queries /\ WorkOf(p, queries, t) = p.left - 1
  BY DEF Going, WorkOf
<1>2. CASE next = Returned(p, TRUE)
  <2>1. next.pc = "report" /\ next.ok
    BY <1>2 DEF Returned, ScraperState
  <2> QED BY <1>1, <2>1 DEF Going, WorkOf
<1>3. CASE p.left > 1 /\ next = NextQuery(p)
  <2>1. next = [p EXCEPT !.pc = "acquire", !.left = p.left - 1]
    BY <1>3 DEF NextQuery
  <2>2. next.pc = "acquire" /\ next.left = p.left - 1
    BY <2>1 DEF ScraperState
  <2> QED BY <1>1, <1>3, <2>2 DEF Going, WorkOf
<1>4. CASE ~(p.left > 1) /\ next = NextQuery(p)
  <2>1. next.pc = "report" /\ next.ok
    BY <1>4 DEF NextQuery, Returned, ScraperState
  <2> QED BY <1>1, <2>1 DEF Going, WorkOf
<1> QED BY <1>2, <1>3, <1>4

\* No step of a goroutine adds to the work that is left, and none of a fast scraper fails.
LEMMA ScraperOnTime ==
  ASSUME RoomForFast, TypeOK, OnTime, TypeOK', NEW s \in Scrapers, Scraper(s)
  PROVE  OnTime'
<1> DEFINE Good(p) ==
      /\ Going(p, Queries[s], now)
      /\ WorkOf(p, Queries[s], now) <= WorkOf(sc[s], Queries[s], now)
      /\ p.pc \in {"acquire", "query", "rows"} =>
           \/ p.began = now
           \/ p.began = sc[s].began /\ sc[s].pc \in {"acquire", "query", "rows"}
<1>0. /\ sc[s] \in ScraperState /\ sc \in [Scrapers -> ScraperState] /\ now \in Nat
      /\ Queries[s] \in Nat
      /\ s \in Fast => Going(sc[s], Queries[s], now) /\ result[s] # "bad"
  BY QueriesAssumption DEF TypeOK, OnTime
<1>1. ASSUME NEW p, NEW from, Step(s, from, p), s \in Fast => Good(p)
      PROVE  OnTime'
  <2>1. sc' = [sc EXCEPT ![s] = p] /\ UNCHANGED <<now, gone, result>>
    BY <1>1 DEF Step
  <2>2. p \in ScraperState
    BY <1>0, <2>1 DEF TypeOK
  <2> QED BY <1>0, <1>1, <2>1, <2>2, OneWorks
<1> HIDE DEF Good
<1>2. s \in Fast /\ sc[s].pc \in {"acquire", "query", "rows"} => ~CtxDone(sc[s].began)
  BY NotLate
<1>3. "server" \notin Faults
  BY DEF RoomForFast
<1>4. CASE Start(s)
  <2> DEFINE p == IF Queries[s] = 0
                  THEN [Returned(sc[s], TRUE) EXCEPT !.began = now]
                  ELSE [sc[s] EXCEPT !.pc = "acquire", !.began = now]
  <2>1. Step(s, "started", p)
    BY <1>4 DEF Start
  <2>2. sc[s].pc = "started"
    BY <2>1 DEF Step
  <2>3. ASSUME s \in Fast PROVE Good(p)
    <3>1. sc[s].left = Queries[s] /\ WorkOf(sc[s], Queries[s], now) = Queries[s]
      BY <1>0, <2>2, <2>3 DEF Going, WorkOf
    <3>2. CASE Queries[s] = 0
      <4>1. p.pc = "report" /\ p.ok
        BY <1>0, <3>2 DEF Returned, ScraperState
      <4> HIDE DEF p
      <4> QED BY <1>0, <3>1, <4>1 DEF Good, Going, WorkOf
    <3>3. CASE Queries[s] # 0
      <4>1. p.pc = "acquire" /\ p.left = Queries[s] /\ p.began = now
        BY <1>0, <3>1, <3>3 DEF ScraperState
      <4> HIDE DEF p
      <4> QED BY <1>0, <3>1, <3>3, <4>1 DEF Good, Going, WorkOf
    <3> QED BY <3>2, <3>3
  <2> HIDE DEF p
  <2> QED BY <1>1, <2>1, <2>3
<1>5. CASE Acquire(s)
  <2> DEFINE p == [sc[s] EXCEPT !.pc = "query", !.sent = now]
  <2>1. Step(s, "acquire", p)
    BY <1>5 DEF Acquire
  <2>2. sc[s].pc = "acquire"
    BY <2>1 DEF Step
  <2>3. p.pc = "query" /\ p.sent = now /\ p.left = sc[s].left /\ p.began = sc[s].began
    BY <1>0 DEF ScraperState
  <2> HIDE DEF p
  <2>4. ASSUME s \in Fast PROVE Good(p)
    BY <1>0, <2>2, <2>3, <2>4 DEF Good, Going, WorkOf
  <2> QED BY <1>1, <2>1, <2>4
<1>6. ASSUME AcquireFails(s) \/ QueryFails(s) PROVE OnTime'
  <2>1. PICK p, from : Step(s, from, p) /\ from \in {"acquire", "query"} /\ CtxDone(sc[s].began)
    BY <1>3, <1>6 DEF AcquireFails, QueryFails
  <2>2. s \notin Fast
    BY <1>2, <2>1 DEF Step
  <2> QED BY <1>1, <2>1, <2>2
<1>7. CASE QueryAnswers(s)
  <2> DEFINE p == [sc[s] EXCEPT !.pc = "rows"]
  <2>1. Step(s, "query", p) /\ sc[s].sent < now
    BY <1>7 DEF QueryAnswers
  <2>2. sc[s].pc = "query" /\ sc[s].sent \in Nat
    BY <1>0, <2>1 DEF Step, ScraperState
  <2>3. p.pc = "rows" /\ p.left = sc[s].left /\ p.began = sc[s].began
    BY <1>0 DEF ScraperState
  <2> HIDE DEF p
  <2>4. ASSUME s \in Fast PROVE Good(p)
    BY <1>0, <2>1, <2>2, <2>3, <2>4 DEF Good, Going, WorkOf
  <2> QED BY <1>1, <2>1, <2>4
<1>8. CASE RowsEnd(s)
  <2>1. PICK p : p \in {NextQuery(sc[s]), Returned(sc[s], TRUE)} /\ Step(s, "rows", p)
    BY <1>8 DEF RowsEnd
  <2>2. sc[s].pc = "rows"
    BY <2>1 DEF Step
  <2>3. p.began = sc[s].began
    BY <1>0, <2>1, NextQueryType, ReturnedType
  <2>4. ASSUME s \in Fast PROVE Good(p)
    BY <1>0, <2>1, <2>2, <2>3, <2>4, NextWorks DEF Good
  <2> QED BY <1>1, <2>1, <2>4
<1>9. CASE ScanFails(s)
  BY <1>3, <1>9 DEF ScanFails
<1>10. CASE RowsCut(s)
  <2> DEFINE q == NextQuery(sc[s])
             p == [q EXCEPT !.whole = FALSE]
  <2>1. Step(s, "rows", p)
    BY <1>10 DEF RowsCut
  <2>2. sc[s].pc = "rows"
    BY <2>1 DEF Step
  <2>3. q \in ScraperState /\ q.began = sc[s].began
    BY <1>0, NextQueryType
  <2>4. ASSUME s \in Fast
        PROVE  /\ Going(q, Queries[s], now)
               /\ WorkOf(q, Queries[s], now) <= WorkOf(sc[s], Queries[s], now)
               /\ q.pc = "acquire" \/ q.pc = "report"
    BY <1>0, <2>2, <2>4, NextWorks
  <2> HIDE DEF q
  <2>5. p.pc = q.pc /\ p.left = q.left /\ p.began = q.began /\ p.ok = q.ok /\ p.sent = q.sent
    BY <2>3 DEF ScraperState
  <2> HIDE DEF p
  <2>6. ASSUME s \in Fast PROVE Good(p)
    BY <2>2, <2>3, <2>4, <2>5, <2>6 DEF Good, Going, WorkOf
  <2> QED BY <1>1, <2>1, <2>6
<1>11. CASE Report(s)
  <2> DEFINE p == [sc[s] EXCEPT !.pc = "reported"]
  <2>1. /\ sc[s].pc = "report" /\ sc' = [sc EXCEPT ![s] = p]
        /\ result' = [result EXCEPT ![s] = IF sc[s].ok THEN "good" ELSE "bad"]
        /\ UNCHANGED <<now, gone>>
    BY <1>0, <1>11 DEF Report
  <2>2. p.pc = "reported" /\ p \in ScraperState
    BY <1>0 DEF ScraperState, ScraperPCs
  <2> HIDE DEF p
  <2>3. s \in Fast => result'[s] # "bad"
    BY <1>0, <2>1 DEF Going, TypeOK
  <2>4. \A t \in Scrapers \ {s} : result'[t] = result[t]
    BY <2>1
  <2>5. WorkOf(p, Queries[s], now) = 0 /\ WorkOf(sc[s], Queries[s], now) = 0
    BY <2>1, <2>2 DEF WorkOf
  <2>6. Going(p, Queries[s], now)
    BY <2>2 DEF Going
  <2>7. WorkOf(p, Queries[s], now) <= WorkOf(sc[s], Queries[s], now)
    BY <2>5
  <2>8. p.pc \notin {"acquire", "query", "rows"}
    BY <2>2
  <2>9. sc' = [sc EXCEPT ![s] = p] /\ UNCHANGED <<now, gone>>
    BY <2>1
  <2> QED BY <2>2, <2>3, <2>4, <2>6, <2>7, <2>8, <2>9, OneWorks
<1>12. CASE Finish(s)
  <2> DEFINE p == [sc[s] EXCEPT !.pc = "finished"]
  <2>1. Step(s, "reported", p)
    BY <1>12 DEF Finish
  <2>2. sc[s].pc = "reported" /\ p.pc = "finished"
    BY <1>0, <2>1 DEF Step, ScraperState
  <2> HIDE DEF p
  <2>3. Good(p)
    BY <2>2 DEF Good, Going, WorkOf
  <2> QED BY <1>1, <2>1, <2>3
<1> QED
  BY <1>4, <1>5, <1>6, <1>7, <1>8, <1>9, <1>10, <1>11, <1>12 DEF Scraper

\* The loop over the scrapers starts them all before the clock moves.
LEMMA LoopOnTime ==
  ASSUME TypeOK, Lifecycle, OnTime, TypeOK', NEW s \in Scrapers, Skip(s) \/ Spawn(s)
  PROVE  OnTime'
<1>0. /\ sc[s] \in ScraperState /\ sc \in [Scrapers -> ScraperState] /\ now \in Nat
      /\ Queries[s] \in Nat
      /\ s \in Fast => Going(sc[s], Queries[s], now) /\ result[s] # "bad"
  BY QueriesAssumption DEF TypeOK, OnTime
<1>1. PICK to \in {"skipped", "started"} : sc' = [sc EXCEPT ![s].pc = to]
  BY DEF Skip, Spawn
<1>2. s \in todo /\ UNCHANGED <<now, gone, result>>
  BY DEF Skip, Spawn
<1>3. sc[s].pc = "off"
  BY <1>2 DEF Lifecycle
<1> DEFINE p == [sc[s] EXCEPT !.pc = to]
<1>4. sc' = [sc EXCEPT ![s] = p]
  BY <1>0, <1>1
<1>5. p \in ScraperState /\ p.pc = to /\ p.left = sc[s].left
  BY <1>0 DEF ScraperState, ScraperPCs
<1> HIDE DEF p
<1>6. s \in Fast =>
        /\ Going(p, Queries[s], now)
        /\ WorkOf(p, Queries[s], now) <= WorkOf(sc[s], Queries[s], now)
  BY <1>0, <1>3, <1>5 DEF Going, WorkOf
<1>7. p.pc \notin {"acquire", "query", "rows"}
  BY <1>5
<1> QED BY <1>0, <1>2, <1>4, <1>5, <1>6, <1>7, OneWorks

\* While a fast scraper waits, some fast scraper has a connection and a query of its own:
\* the slow ones are fewer than the connections.
LEMMA SomeFastWorks ==
  ASSUME RoomForFast, TypeOK, OnTime, Clock, NEW s \in Fast,
         sc[s].pc \in {"acquire", "query", "rows"}
  PROVE  \E t \in Fast : sc[t].pc = "query" /\ sc[t].sent = now
<1>0. \A t \in Scrapers : ScraperWaits(t)
  BY DEF Clock
<1>1. \A t \in Fast : sc[t].pc \in {"query", "rows"} => sc[t].pc = "query" /\ now = sc[t].sent
  BY <1>0 DEF ScraperWaits, Fast
<1>2. CASE sc[s].pc \in {"query", "rows"}
  BY <1>1, <1>2
<1>3. CASE sc[s].pc = "acquire"
  <2>1. ~ConnFree
    BY <1>0, <1>3 DEF ScraperWaits, Fast
  <2>2. SUFFICES ASSUME Holders \cap Fast = {} PROVE FALSE
    BY <1>1 DEF Holders
  <2>3. Holders \subseteq Slow
    BY <2>2 DEF Holders, Fast
  <2>4. IsFiniteSet(Slow) /\ IsFiniteSet(Holders) /\ Cardinality(Holders) <= Cardinality(Slow)
    BY <2>3, FastFinite, FS_Subset
  <2>5. Cardinality(Holders) \in Nat /\ Cardinality(Slow) \in Nat
    BY <2>4, FS_CardinalityType
  <2> QED BY <2>1, <2>4, <2>5, FlagsAssumption DEF ConnFree, RoomForFast
<1> QED BY <1>2, <1>3

\* A unit of the clock answers one query, at least.
LEMMA ClockOnTime ==
  ASSUME RoomForFast, TypeOK, TypeOK', OnTime, Clock
  PROVE  OnTime'
<1>0. now' = now + 1 /\ now \in Nat /\ UNCHANGED <<gone, sc, result>>
  BY DEF Clock, TypeOK
<1>1. \A t \in Fast : Going(sc[t], Queries[t], now') /\ result[t] # "bad" /\ ~gone
  <2> SUFFICES ASSUME NEW t \in Fast PROVE Going(sc[t], Queries[t], now')
    BY DEF OnTime
  <2>1. sc[t] \in ScraperState /\ Going(sc[t], Queries[t], now)
    BY DEF TypeOK, Fast, OnTime
  <2> QED BY <1>0, <2>1 DEF Going, ScraperState
<1>2. ASSUME NEW t \in Fast
      PROVE  /\ Work'[t] \in Nat /\ Work[t] \in Nat /\ Work'[t] <= Work[t]
             /\ sc[t].pc = "query" /\ sc[t].sent = now => Work'[t] <= Work[t] - 1
  <2>1. /\ sc[t] \in ScraperState /\ Queries[t] \in Nat /\ now' \in Nat
        /\ Going(sc[t], Queries[t], now)
    BY <1>0, FastFinite DEF TypeOK, Fast, OnTime
  <2>2. Work'[t] = WorkOf(sc[t], Queries[t], now') /\ Work[t] = WorkOf(sc[t], Queries[t], now)
    BY <1>0, WorkAt DEF Work
  <2>3. Work'[t] \in 0..Queries[t] /\ Work[t] \in 0..Queries[t]
    BY <1>0, <1>1, <2>1, <2>2, WorkType
  <2>4. CASE sc[t].pc = "query"
    <3>1. sc[t].sent \in Nat /\ sc[t].sent <= now /\ sc[t].left \in Nat
      BY <2>1, <2>4 DEF ScraperState, Going
    <3>2. Work'[t] = sc[t].left - 1
      BY <1>0, <2>2, <2>4, <3>1 DEF WorkOf
    <3>3. Work[t] = IF sc[t].sent = now THEN sc[t].left ELSE sc[t].left - 1
      BY <2>2, <2>4 DEF WorkOf
    <3> QED BY <2>3, <3>1, <3>2, <3>3
  <2>5. CASE sc[t].pc # "query"
    <3>1. Work'[t] = Work[t]
      BY <2>2, <2>5 DEF WorkOf
    <3> QED BY <2>3, <2>5, <3>1
  <2> QED BY <2>4, <2>5
<1>3. ASSUME NEW s \in Fast, sc[s].pc \in {"acquire", "query", "rows"}
      PROVE  /\ sc[s].began <= now'
             /\ now' - sc[s].began + SumFunctionOnSet(Work', Fast)
                  <= SumFunctionOnSet(Queries, Fast)
  <2>1. PICK t \in Fast : sc[t].pc = "query" /\ sc[t].sent = now
    BY <1>3, SomeFastWorks
  <2> DEFINE Less == [u \in Fast |-> IF u = t THEN Work[u] - 1 ELSE Work[u]]
  <2>2. /\ \A u \in Fast : Less[u] \in Int /\ Work[u] \in Int /\ Work'[u] \in Int
                           /\ Work'[u] <= Less[u] /\ Work'[u] \in Nat
        /\ \A u \in Fast \ {t} : Less[u] = Work[u]
        /\ Less[t] = Work[t] - 1
    BY <1>2, <2>1
  <2> HIDE DEF Less
  <2>3. IsFiniteSet(Fast)
    BY FastFinite
  <2>4. SumFunctionOnSet(Less, Fast) = SumFunctionOnSet(Work, Fast) - Work[t] + Less[t]
    BY <2>2, <2>3, SumUpdate
  <2>5. SumFunctionOnSet(Work', Fast) <= SumFunctionOnSet(Less, Fast)
    BY <2>2, <2>3, SumMonotone
  <2>6. /\ SumFunctionOnSet(Work', Fast) \in Nat
        /\ SumFunctionOnSet(Work, Fast) \in Nat /\ SumFunctionOnSet(Queries, Fast) \in Nat
    BY <2>2, <2>3, SumNat, SumsOfWork
  <2>7. SumFunctionOnSet(Work', Fast) <= SumFunctionOnSet(Work, Fast) - 1
    BY <2>2, <2>4, <2>5, <2>6
  <2>8. /\ sc[s].began <= now /\ sc[s].began \in Nat
        /\ now - sc[s].began + SumFunctionOnSet(Work, Fast) <= SumFunctionOnSet(Queries, Fast)
    BY <1>3 DEF OnTime, TypeOK, ScraperState, Fast
  <2> QED BY <1>0, <2>6, <2>7, <2>8
<1> QED
  <2>1. ~gone'
    BY <1>0 DEF OnTime
  <2> QED BY <1>0, <1>1, <1>3, <2>1 DEF OnTime

\* At the start of a scrape all the work is left, and no time has passed.
LEMMA OnTimeInit == Init => OnTime
<1> SUFFICES ASSUME Init PROVE OnTime
  OBVIOUS
<1>1. \A s \in Fast : /\ sc[s].pc = "off" /\ sc[s].left = Queries[s]
                      /\ result[s] = "waiting"
  BY DEF Init, Fast
<1> QED BY <1>1 DEF Init, OnTime, Going

\* Every step keeps the fast scrapers on time.
LEMMA OnTimeStep ==
  ASSUME RoomForFast
  PROVE  IInv /\ OnTime /\ [Next]_vars => OnTime'
<1> SUFFICES ASSUME IInv, OnTime, [Next]_vars PROVE OnTime'
  OBVIOUS
<1>0. TypeOK /\ Lifecycle /\ TypeOK'
  BY TypeStep DEF IInv
<1>1. ASSUME UNCHANGED <<now, gone, sc, result>> PROVE OnTime'
  BY <1>1 DEF OnTime, Work
<1>2. ASSUME NEW s \in Scrapers, Scraper(s) PROVE OnTime'
  BY <1>0, <1>2, ScraperOnTime
<1>3. ASSUME NEW s \in Scrapers, Skip(s) \/ Spawn(s) PROVE OnTime'
  BY <1>0, <1>3, LoopOnTime
<1>4. CASE Clock
  BY <1>0, <1>4, ClockOnTime
<1>5. CASE Disconnect
  BY <1>5 DEF Disconnect, RoomForFast
<1>6. CASE \E v \in Versions : ReadVersion(v)
  BY <1>1, <1>6 DEF ReadVersion
<1>7. CASE Open \/ OpenFails \/ ReadVersionFails \/ Ping \/ PingFails \/ Connected
  BY <1>1, <1>7 DEF Open, OpenFails, ReadVersionFails, Ping, PingFails, Connected
<1>8. CASE Return \/ Wait \/ Close \/ Up
  BY <1>1, <1>8 DEF Return, Wait, Close, Up
<1>9. CASE UNCHANGED vars
  BY <1>1, <1>9 DEF vars
<1> QED BY <1>2, <1>3, <1>4, <1>5, <1>6, <1>7, <1>8, <1>9 DEF Next, Collect, End

\* With more connections than slow scrapers, and a query timeout above the number of the
\* queries of the fast ones, none of these fails, however many there are of both.
\* (the goroutines of Exporter.scrape, and the limit that newInstance sets)
THEOREM FastScrapersSucceedHolds ==
  ASSUME RoomForFast
  PROVE  Spec => []FastScrapersSucceed
<1>1. Init => OnTime
  BY OnTimeInit
<1>2. IInv /\ OnTime /\ [Next]_vars => OnTime'
  BY OnTimeStep
<1>3. OnTime => FastScrapersSucceed
  BY DEF OnTime, FastScrapersSucceed, Fast
<1> QED BY <1>1, <1>2, <1>3, Invariance, PTL DEF Spec
=============================================================================
