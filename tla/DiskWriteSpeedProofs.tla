------------------------ MODULE DiskWriteSpeedProofs ------------------------
(***************************************************************************)
(* Safety of DiskWriteSpeed for any number of concurrent scrapes, servers, *)
(* goroutines and threads, and for every interval.                         *)
(***************************************************************************)
EXTENDS DiskWriteSpeed, TLAPS

-----------------------------------------------------------------------------
(* Types *)

LEMMA IntervalType == Interval \in Nat /\ QueryTimeout \in Nat /\ QueryTimeout < Interval
BY IntervalAssumption DEF QueryTimeout

LEMMA ClampType ==
  ASSUME NEW x \in Int, NEW hi \in Nat
  PROVE  Clamp(0, x, hi) \in Nat
BY DEF Clamp

LEMMA SumRowsType ==
  ASSUME NEW n \in Nat
  PROVE  SumRows(n) \in [Keys -> Nat]
<1>1. SUFFICES ASSUME NEW k \in Keys
               PROVE  Clamp(0, n - (k - 1) * History,
                            IF Interval < History THEN Interval ELSE History) \in Nat
  BY DEF SumRows
<1>2. (IF Interval < History THEN Interval ELSE History) \in Nat
  BY IntervalAssumption, HistoryAssumption
<1>3. k - 1 \in Int /\ History \in Int
  BY HistoryAssumption, ThreadsAssumption DEF Keys
<1>4. (k - 1) * History \in Int
  BY <1>3
<1>5. n - (k - 1) * History \in Int
  BY <1>4
<1> QED BY <1>2, <1>5, ClampType

LEMMA FreeTaskType == FreeTask \in TaskState
BY DEF FreeTask, TaskState, TaskPCs, LivePCs, NoUpdate, NoSamples, Samples

LEMMA TypeInit == Init => TypeOK
<1> SUFFICES ASSUME Init PROVE TypeOK
  OBVIOUS
<1>1. task \in [Tasks -> TaskState]
  BY FreeTaskType DEF Init
<1>2. scrape \in [Scrapers -> ScrapeState]
  BY DEF Init, ScrapeState, ScrapePCs
<1>3. counter \in [Keys -> Samples]
  BY DEF Init, NoSamples, Samples
<1> QED BY <1>1, <1>2, <1>3 DEF Init, TypeOK

LEMMA TypeScrape ==
  ASSUME TypeOK, NEW s \in Scrapers, ScrapeStep(s), UNCHANGED crashed
  PROVE  TypeOK'
<1>0. scrape[s] \in ScrapeState
  BY DEF TypeOK
<1>1. ASSUME NEW p \in ScrapeState, NEW from, ScrapeGoes(s, from, p)
      PROVE  scrape' \in [Scrapers -> ScrapeState]
  BY <1>1 DEF ScrapeGoes, TypeOK
<1>2. ASSUME NEW x \in Targets, ScrapeBegin(s, x) PROVE TypeOK'
  <2>0. now \in Nat
    BY DEF TypeOK
  <2>1. now \in Int
    BY <2>0
  <2>2. [pc |-> "check", target |-> x, last |-> now, err |-> NULL,
         shown |-> FALSE, seen |-> {}] \in ScrapeState
    BY <2>1 DEF ScrapeState, ScrapePCs
  <2> QED BY <1>2, <2>2 DEF ScrapeBegin, TypeOK
<1>3. \A q \in ScrapePCs : [scrape[s] EXCEPT !.pc = q] \in ScrapeState
  BY <1>0 DEF ScrapeState
<1>4. CASE ScrapeCheckRunning(s) \/ ScrapeCheckError(s) \/ ScrapeRangeStart(s)
  BY <1>1, <1>3, <1>4
     DEF ScrapeCheckRunning, ScrapeCheckError, ScrapeRangeStart, TypeOK, ScrapePCs
<1>5. ASSUME NEW t \in Tasks, ScrapeSpawn(s, t) PROVE TypeOK'
  <2>1. [FreeTask EXCEPT !.pc = "begin", !.target = scrape[s].target] \in TaskState
    BY <1>0, FreeTaskType DEF TaskState, TaskPCs, ScrapeState
  <2>2. task' \in [Tasks -> TaskState]
    BY <1>5, <2>1 DEF ScrapeSpawn, TaskGoes, TypeOK
  <2>3. scrape' \in [Scrapers -> ScrapeState]
    BY <1>1, <1>3, <1>5 DEF ScrapeSpawn, ScrapePCs
  <2> QED BY <1>5, <2>2, <2>3 DEF ScrapeSpawn, TypeOK
<1>6. CASE ScrapeTakeError(s)
  <2>1. [scrape[s] EXCEPT !.pc = "clear", !.err = lastError] \in ScrapeState
    BY <1>0 DEF ScrapeState, ScrapePCs, TypeOK
  <2> QED BY <1>1, <1>6, <2>1 DEF ScrapeTakeError, TypeOK
<1>7. CASE ScrapeClearError(s) \/ ScrapeAggregate(s)
  BY <1>1, <1>3, <1>7 DEF ScrapeClearError, ScrapeAggregate, TypeOK, ScrapePCs
<1>8. CASE ScrapeRangeEnd(s)
  <2>1. [scrape[s] EXCEPT !.pc = IF Verbose THEN "aggregate" ELSE "succeeded",
                          !.shown = TRUE,
                          !.seen = ServersCounted] \in ScrapeState
    BY <1>0 DEF ScrapeState, ScrapePCs, ServersCounted
  <2> QED BY <1>1, <1>8, <2>1 DEF ScrapeRangeEnd, TypeOK
<1> QED BY <1>2, <1>4, <1>5, <1>6, <1>7, <1>8 DEF ScrapeStep

LEMMA TypeTask ==
  ASSUME TypeOK, NEW t \in Tasks, TaskStep(t), UNCHANGED crashed
  PROVE  TypeOK'
<1>0. task[t] \in TaskState /\ now \in Nat
  BY DEF TypeOK
<1>1. ASSUME NEW p \in TaskState, NEW from, TaskGoes(t, from, p)
      PROVE  task' \in [Tasks -> TaskState]
  BY <1>1 DEF TaskGoes, TypeOK
<1>2. \A q \in TaskPCs : [task[t] EXCEPT !.pc = q] \in TaskState
  BY <1>0 DEF TaskState
<1>3. CASE TaskBegin(t)
  <2>1. [task[t] EXCEPT !.pc = "connect", !.due = now] \in TaskState
    BY <1>0 DEF TaskState, TaskPCs, LivePCs
  <2> QED BY <1>1, <1>3, <2>1 DEF TaskBegin, TypeOK
<1>4. CASE TaskConnect(t)
  <2>1. now + Interval \in Nat
    BY <1>0, IntervalType
  <2>2. [task[t] EXCEPT !.pc = "wait", !.due = now + Interval] \in TaskState
    BY <1>0, <2>1 DEF TaskState, TaskPCs, LivePCs
  <2>3. task[t].target \in Targets \cup {NULL}
    BY <1>0 DEF TaskState
  <2>4. pools \in Nat
    BY DEF TypeOK
  <2>5. pools' \in Nat
    BY <1>4, <2>4 DEF TaskConnect
  <2>6. task' \in [Tasks -> TaskState]
    BY <1>1, <1>4, <2>2 DEF TaskConnect
  <2> QED BY <1>4, <2>3, <2>5, <2>6 DEF TaskConnect, TypeOK
<1>5. CASE TaskConnectFails(t) \/ TaskQueryFails(t)
  BY <1>1, <1>2, <1>5
     DEF TaskConnectFails, TaskQueryFails, TypeOK, TaskPCs, LivePCs
<1>6. CASE TaskTick(t)
  <2>1. task[t].due + Interval \in Nat /\ now + QueryTimeout \in Nat
    BY <1>0, IntervalType DEF TaskState
  <2>2. [task[t] EXCEPT !.pc = "query", !.db = conn, !.due = @ + Interval,
                        !.limit = now + QueryTimeout] \in TaskState
    BY <1>0, <2>1 DEF TaskState, TaskPCs, LivePCs, TypeOK
  <2> QED BY <1>1, <1>6, <2>2 DEF TaskTick, TypeOK
<1>7. CASE TaskQueryOk(t)
  <2>1. Threads * History \in Nat
    BY ThreadsAssumption, HistoryAssumption
  <2>2. PICK n \in 0 .. Threads * History :
          TaskGoes(t, "query", [task[t] EXCEPT !.pc = "ok", !.update = SumRows(n)])
    BY <1>7 DEF TaskQueryOk
  <2>3. SumRows(n) \in [Keys -> Nat]
    BY <2>1, SumRowsType
  <2>4. [task[t] EXCEPT !.pc = "ok", !.update = SumRows(n)] \in TaskState
    BY <1>0, <2>3 DEF TaskState, TaskPCs, LivePCs
  <2> QED BY <1>1, <1>7, <2>2, <2>4 DEF TaskQueryOk, TypeOK
<1>8. CASE TaskRecordFailure(t) \/ TaskRecordSuccess(t)
  <2>1. task[t].db \in Targets \cup {NULL}
    BY <1>0 DEF TaskState
  <2> QED BY <1>1, <1>2, <1>8, <2>1
          DEF TaskRecordFailure, TaskRecordSuccess, TypeOK, TaskPCs, LivePCs
<1>9. ASSUME NEW k \in Keys, TaskAddRead(t, k) PROVE TypeOK'
  <2>1. counter[k] \in Samples /\ task[t].update[k] \in Nat
    BY <1>0 DEF TypeOK, TaskState
  <2>2. [counter[k] EXCEPT ![task[t].db] = @ + task[t].update[k]] \in Samples
    <3>1. CASE task[t].db \in Targets
      <4>1. counter[k][task[t].db] \in Nat
        BY <2>1, <3>1 DEF Samples
      <4>2. counter[k][task[t].db] + task[t].update[k] \in Nat
        BY <2>1, <4>1
      <4> QED BY <2>1, <3>1, <4>2 DEF Samples
    <3>2. CASE task[t].db \notin Targets
      BY <2>1, <3>2 DEF Samples
    <3> QED BY <3>1, <3>2
  <2>3. [task[t] EXCEPT !.pc = "write", !.key = k,
                        !.entry = [counter[k] EXCEPT
                                     ![task[t].db] = @ + task[t].update[k]]]
          \in TaskState
    BY <1>0, <2>2 DEF TaskState, TaskPCs, LivePCs
  <2> QED BY <1>1, <1>9, <2>3 DEF TaskAddRead, TypeOK
<1>10. CASE TaskAddWrite(t)
  <2>1. task[t].entry \in Samples /\ task[t].update \in [Keys -> Nat]
    BY <1>0 DEF TaskState
  <2>2. [task[t].update EXCEPT ![task[t].key] = 0] \in [Keys -> Nat]
    BY <2>1
  <2>3. [task[t] EXCEPT !.pc = "add", !.update[task[t].key] = 0] \in TaskState
    BY <1>0, <2>2 DEF TaskState, TaskPCs, LivePCs
  <2>4. counter' \in [Keys -> Samples]
    BY <1>10, <2>1 DEF TaskAddWrite, TypeOK
  <2> QED BY <1>1, <1>10, <2>3, <2>4 DEF TaskAddWrite, TypeOK
<1>11. CASE TaskTickDone(t) \/ TaskExit(t)
  BY <1>1, <1>2, <1>11 DEF TaskTickDone, TaskExit, TypeOK, TaskPCs, LivePCs
<1>12. CASE TaskForgetConn(t)
  BY <1>1, <1>12, FreeTaskType DEF TaskForgetConn, TypeOK
<1> QED BY <1>3, <1>4, <1>5, <1>6, <1>7, <1>8, <1>9, <1>10, <1>11, <1>12
        DEF TaskStep

LEMMA TypeStep == TypeOK /\ [Next]_vars => TypeOK'
<1> SUFFICES ASSUME TypeOK, [Next]_vars PROVE TypeOK'
  OBVIOUS
<1>1. ASSUME NEW s \in Scrapers, ScrapeStep(s), UNCHANGED crashed PROVE TypeOK'
  BY <1>1, TypeScrape
<1>2. ASSUME NEW t \in Tasks, TaskStep(t), UNCHANGED crashed PROVE TypeOK'
  BY <1>2, TypeTask
<1>3. CASE Clock /\ UNCHANGED crashed
  <2>1. now \in Nat
    BY DEF TypeOK
  <2>2. now' \in Nat
    BY <1>3, <2>1 DEF Clock
  <2> QED BY <1>3, <2>2 DEF Clock, TypeOK
<1>4. CASE MapFault \/ \E t \in Tasks : TaskTickNil(t)
  BY <1>4 DEF MapFault, TaskTickNil, TypeOK
<1>5. CASE UNCHANGED vars
  BY <1>5 DEF vars, TypeOK
<1> QED BY <1>1, <1>2, <1>3, <1>4, <1>5 DEF Next, End

\* Every shared variable and every goroutine's state keep their types.
THEOREM TypeCorrect == Spec => []TypeOK
BY TypeInit, TypeStep, PTL DEF Spec

-----------------------------------------------------------------------------
(* The flag *)

\* A step of a live task that stays live, or that was not live, keeps the
\* witness of a flag it does not set.
LEMMA FlagKept ==
  ASSUME TypeOK, RunningHasTask, running' => running,
         NEW t \in Tasks, NEW p, NEW from, TaskGoes(t, from, p),
         from \in LivePCs => p.pc \in LivePCs
  PROVE  RunningHasTask'
<1> SUFFICES ASSUME running'
             PROVE  \E u \in Tasks : task'[u].pc \in LivePCs
  BY DEF RunningHasTask
<1>1. PICK u \in Tasks : task[u].pc \in LivePCs
  BY DEF RunningHasTask
<1>2. task' = [task EXCEPT ![t] = p] /\ task[t].pc = from
  BY DEF TaskGoes
<1>3. task \in [Tasks -> TaskState]
  BY DEF TypeOK
<1>4. CASE u = t
  BY <1>1, <1>2, <1>3, <1>4
<1>5. CASE u # t
  BY <1>1, <1>2, <1>3, <1>5
<1> QED BY <1>4, <1>5

LEMMA FlagTask ==
  ASSUME TypeOK, RunningHasTask, NEW t \in Tasks, TaskStep(t)
  PROVE  RunningHasTask'
<1>0. task[t] \in TaskState /\ task \in [Tasks -> TaskState]
  BY DEF TypeOK
<1>1. CASE TaskBegin(t)
  <2>1. task'[t].pc = "connect"
    BY <1>0, <1>1 DEF TaskBegin, TaskGoes, TaskState
  <2> QED BY <2>1 DEF RunningHasTask, LivePCs
<1>2. CASE TaskConnect(t)
  BY <1>0, <1>2, FlagKept DEF TaskConnect, LivePCs, TaskState
<1>3. CASE TaskConnectFails(t)
  BY <1>0, <1>3, FlagKept DEF TaskConnectFails, LivePCs, TaskState
<1>4. CASE TaskTick(t)
  BY <1>0, <1>4, FlagKept DEF TaskTick, LivePCs, TaskState
<1>5. CASE TaskQueryOk(t)
  <2>1. PICK n \in 0 .. Threads * History :
          TaskGoes(t, "query", [task[t] EXCEPT !.pc = "ok", !.update = SumRows(n)])
    BY <1>5 DEF TaskQueryOk
  <2>2. [task[t] EXCEPT !.pc = "ok", !.update = SumRows(n)].pc \in LivePCs
    BY <1>0 DEF LivePCs, TaskState
  <2> QED BY <1>5, <2>1, <2>2, FlagKept DEF TaskQueryOk
<1>6. CASE TaskQueryFails(t)
  BY <1>0, <1>6, FlagKept DEF TaskQueryFails, LivePCs, TaskState
<1>7. CASE TaskRecordFailure(t)
  BY <1>0, <1>7, FlagKept DEF TaskRecordFailure, LivePCs, TaskState
<1>8. CASE TaskRecordSuccess(t)
  BY <1>0, <1>8, FlagKept DEF TaskRecordSuccess, LivePCs, TaskState
<1>9. ASSUME NEW k \in Keys, TaskAddRead(t, k) PROVE RunningHasTask'
  BY <1>0, <1>9, FlagKept DEF TaskAddRead, LivePCs, TaskState
<1>10. CASE TaskAddWrite(t)
  BY <1>0, <1>10, FlagKept DEF TaskAddWrite, LivePCs, TaskState
<1>11. CASE TaskTickDone(t)
  BY <1>0, <1>11, FlagKept DEF TaskTickDone, LivePCs, TaskState
<1>12. CASE TaskExit(t)
  BY <1>12 DEF TaskExit, RunningHasTask
<1>13. CASE TaskForgetConn(t)
  BY <1>13, FlagKept DEF TaskForgetConn, LivePCs
<1> QED BY <1>1, <1>2, <1>3, <1>4, <1>5, <1>6, <1>7, <1>8, <1>9, <1>10,
           <1>11, <1>12, <1>13 DEF TaskStep

LEMMA FlagScrape ==
  ASSUME TypeOK, RunningHasTask, NEW s \in Scrapers, ScrapeStep(s)
  PROVE  RunningHasTask'
<1>1. ASSUME NEW t \in Tasks, ScrapeSpawn(s, t) PROVE RunningHasTask'
  <2>1. "free" \notin LivePCs
    BY DEF LivePCs
  <2> QED BY <1>1, <2>1, FlagKept DEF ScrapeSpawn
<1>2. CASE UNCHANGED <<running, task>>
  BY <1>2 DEF RunningHasTask
<1>3. ASSUME NEW x \in Targets, ScrapeBegin(s, x) PROVE UNCHANGED <<running, task>>
  BY <1>3 DEF ScrapeBegin
<1> QED BY <1>1, <1>2, <1>3
        DEF ScrapeStep, ScrapeCheckRunning, ScrapeCheckError, ScrapeTakeError,
            ScrapeClearError, ScrapeRangeStart, ScrapeRangeEnd, ScrapeAggregate

LEMMA FlagStep == TypeOK /\ RunningHasTask /\ [Next]_vars => RunningHasTask'
<1> SUFFICES ASSUME TypeOK, RunningHasTask, [Next]_vars PROVE RunningHasTask'
  OBVIOUS
<1>1. ASSUME NEW s \in Scrapers, ScrapeStep(s) PROVE RunningHasTask'
  BY <1>1, FlagScrape
<1>2. ASSUME NEW t \in Tasks, TaskStep(t) PROVE RunningHasTask'
  BY <1>2, FlagTask
<1>3. CASE UNCHANGED <<running, task>>
  BY <1>3 DEF RunningHasTask
<1> QED BY <1>1, <1>2, <1>3 DEF Next, End, vars, Clock, MapFault, TaskTickNil

\* A flag that is set has a goroutine that will reset it, however many scrapes
\* race to start the task (lines 177 to 182 and 232).
THEOREM RunningHasTaskHolds == Spec => []RunningHasTask
<1>1. Init => RunningHasTask
  BY DEF Init, RunningHasTask
<1> QED BY <1>1, TypeCorrect, FlagStep, PTL DEF Spec

-----------------------------------------------------------------------------
(* The tick *)

\* TickEndsInTime is not inductive: it rests on where the ticker and the
\* query's deadline stand in the states before.
InTime(t) ==
  /\ task[t].pc = "wait" => now <= task[t].due
  /\ task[t].pc = "query" => now <= task[t].limit /\ task[t].limit < task[t].due
  /\ task[t].pc \in {"ok", "add", "write"} => now < task[t].due

Timing == \A t \in Tasks : InTime(t)

\* Steps in memory take no time: what they do to one task is enough.
LEMMA TimingKept ==
  ASSUME TypeOK, Timing, now' = now,
         NEW t \in Tasks, NEW p, NEW from, TaskGoes(t, from, p),
         /\ p.pc = "wait" => now <= p.due
         /\ p.pc = "query" => now <= p.limit /\ p.limit < p.due
         /\ p.pc \in {"ok", "add", "write"} => now < p.due
  PROVE  Timing'
<1> SUFFICES ASSUME NEW u \in Tasks PROVE InTime(u)'
  BY DEF Timing
<1>1. task' = [task EXCEPT ![t] = p] /\ task \in [Tasks -> TaskState]
  BY DEF TaskGoes, TypeOK
<1>2. CASE u = t
  <2>1. task'[u] = p
    BY <1>1, <1>2
  <2> QED BY <2>1 DEF InTime
<1>3. CASE u # t
  <2>1. task'[u] = task[u]
    BY <1>1, <1>3
  <2> QED BY <2>1 DEF Timing, InTime
<1> QED BY <1>2, <1>3

LEMMA TimingTask ==
  ASSUME TypeOK, Timing, NEW t \in Tasks, TaskStep(t)
  PROVE  Timing'
<1>0. task[t] \in TaskState /\ now \in Nat
  BY DEF TypeOK
<1>1. task[t].due \in Nat /\ task[t].limit \in Nat
  BY <1>0 DEF TaskState
<1>2. InTime(t)
  BY DEF Timing
<1>3. CASE TaskBegin(t)
  BY <1>0, <1>3, TimingKept DEF TaskBegin, TaskState
<1>4. CASE TaskConnect(t)
  <2>1. now <= now + Interval
    BY <1>0, IntervalType
  <2> QED BY <1>0, <1>4, <2>1, TimingKept DEF TaskConnect, TaskState
<1>5. CASE TaskConnectFails(t)
  BY <1>0, <1>5, TimingKept DEF TaskConnectFails, TaskState
<1>6. CASE TaskTick(t)
  <2> DEFINE p == [task[t] EXCEPT !.pc = "query", !.db = conn,
                                  !.due = @ + Interval,
                                  !.limit = now + QueryTimeout]
  <2>1. task[t].due = now
    BY <1>0, <1>1, <1>2, <1>6 DEF TaskTick, TaskGoes, InTime
  <2>2. p.pc = "query" /\ p.due = now + Interval /\ p.limit = now + QueryTimeout
    BY <1>0, <2>1 DEF TaskState
  <2>3. now <= now + QueryTimeout /\ now + QueryTimeout < now + Interval
    BY <1>0, IntervalType
  <2>4. TaskGoes(t, "wait", p) /\ now' = now
    BY <1>6 DEF TaskTick
  <2> HIDE DEF p
  <2> QED BY <2>2, <2>3, <2>4, TimingKept
<1>7. CASE TaskQueryOk(t)
  <2>1. PICK n \in 0 .. Threads * History :
          TaskGoes(t, "query", [task[t] EXCEPT !.pc = "ok", !.update = SumRows(n)])
    BY <1>7 DEF TaskQueryOk
  <2> DEFINE p == [task[t] EXCEPT !.pc = "ok", !.update = SumRows(n)]
  <2>2. p.pc = "ok" /\ p.due = task[t].due
    BY <1>0 DEF TaskState
  <2>3. now < task[t].due
    BY <1>0, <1>1, <1>2, <2>1 DEF InTime, TaskGoes
  <2>4. TaskGoes(t, "query", p) /\ now' = now
    BY <1>7, <2>1 DEF TaskQueryOk
  <2> HIDE DEF p
  <2> QED BY <2>2, <2>3, <2>4, TimingKept
<1>8. CASE TaskQueryFails(t)
  BY <1>0, <1>8, TimingKept DEF TaskQueryFails, TaskState
<1>9. CASE TaskRecordFailure(t)
  BY <1>0, <1>9, TimingKept DEF TaskRecordFailure, TaskState
<1>10. CASE TaskRecordSuccess(t)
  BY <1>0, <1>2, <1>10, TimingKept DEF TaskRecordSuccess, TaskState, TaskGoes, InTime
<1>11. ASSUME NEW k \in Keys, TaskAddRead(t, k) PROVE Timing'
  BY <1>0, <1>2, <1>11, TimingKept DEF TaskAddRead, TaskState, TaskGoes, InTime
<1>12. CASE TaskAddWrite(t)
  BY <1>0, <1>2, <1>12, TimingKept DEF TaskAddWrite, TaskState, TaskGoes, InTime
<1>13. CASE TaskTickDone(t)
  <2>1. now <= task[t].due
    BY <1>0, <1>1, <1>2, <1>13 DEF TaskTickDone, TaskGoes, InTime
  <2> QED BY <1>0, <1>13, <2>1, TimingKept DEF TaskTickDone, TaskState
<1>14. CASE TaskExit(t)
  BY <1>0, <1>14, TimingKept DEF TaskExit, TaskState
<1>15. CASE TaskForgetConn(t)
  BY <1>15, TimingKept DEF TaskForgetConn, FreeTask
<1> QED BY <1>3, <1>4, <1>5, <1>6, <1>7, <1>8, <1>9, <1>10, <1>11, <1>12,
           <1>13, <1>14, <1>15 DEF TaskStep

LEMMA TimingScrape ==
  ASSUME TypeOK, Timing, NEW s \in Scrapers, ScrapeStep(s)
  PROVE  Timing'
<1>1. ASSUME NEW t \in Tasks, ScrapeSpawn(s, t) PROVE Timing'
  <2>1. [FreeTask EXCEPT !.pc = "begin", !.target = scrape[s].target].pc = "begin"
    BY DEF FreeTask
  <2> QED BY <1>1, <2>1, TimingKept DEF ScrapeSpawn
<1>2. CASE UNCHANGED <<now, task>>
  BY <1>2 DEF Timing, InTime
<1>3. ASSUME NEW x \in Targets, ScrapeBegin(s, x) PROVE UNCHANGED <<now, task>>
  BY <1>3 DEF ScrapeBegin
<1> QED BY <1>1, <1>2, <1>3
        DEF ScrapeStep, ScrapeCheckRunning, ScrapeCheckError, ScrapeTakeError,
            ScrapeClearError, ScrapeRangeStart, ScrapeRangeEnd, ScrapeAggregate

\* The clock waits for every goroutine that is not itself waiting.
LEMMA TimingClock == TypeOK /\ Timing /\ Clock => Timing'
<1> SUFFICES ASSUME TypeOK, Timing, Clock, NEW t \in Tasks PROVE InTime(t)'
  BY DEF Timing
<1>0. task[t] \in TaskState /\ now \in Nat
  BY DEF TypeOK
<1>1. task[t].due \in Nat /\ task[t].limit \in Nat
  BY <1>0 DEF TaskState
<1>2. now' = now + 1 /\ task' = task /\ TaskWaits(t)
  BY DEF Clock
<1>3. InTime(t)
  BY DEF Timing
<1> QED BY <1>0, <1>1, <1>2, <1>3 DEF InTime, TaskWaits

LEMMA TimingStep == TypeOK /\ Timing /\ [Next]_vars => Timing'
<1> SUFFICES ASSUME TypeOK, Timing, [Next]_vars PROVE Timing'
  OBVIOUS
<1>1. ASSUME NEW s \in Scrapers, ScrapeStep(s) PROVE Timing'
  BY <1>1, TimingScrape
<1>2. ASSUME NEW t \in Tasks, TaskStep(t) PROVE Timing'
  BY <1>2, TimingTask
<1>3. CASE Clock
  BY <1>3, TimingClock
<1>4. CASE UNCHANGED <<now, task>>
  BY <1>4 DEF Timing, InTime
<1> QED BY <1>1, <1>2, <1>3, <1>4 DEF Next, End, vars, MapFault, TaskTickNil

\* No tick runs into the next one, for every interval and however slow the
\* server is (the context of lines 129 to 131, interval - 1 second).
THEOREM TickEndsInTimeHolds == Spec => []TickEndsInTime
<1>1. Init => Timing
  BY DEF Init, Timing, InTime, FreeTask
<1>2. TypeOK /\ Timing => TickEndsInTime
  <2> SUFFICES ASSUME TypeOK, Timing, NEW t \in Tasks,
                      task[t].pc \in {"query", "ok", "add", "write"}
               PROVE  now < task[t].due
    BY DEF TickEndsInTime
  <2>1. task[t] \in TaskState /\ now \in Nat
    BY DEF TypeOK
  <2>2. task[t].due \in Nat /\ task[t].limit \in Nat
    BY <2>1 DEF TaskState
  <2> QED BY <2>1, <2>2 DEF Timing, InTime
<1> QED BY <1>1, <1>2, TypeCorrect, TimingStep, PTL DEF Spec
=============================================================================
