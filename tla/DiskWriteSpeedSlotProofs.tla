---------------------- MODULE DiskWriteSpeedSlotProofs ----------------------
(***************************************************************************)
(* Safety of DiskWriteSpeed when scrapes do not overlap: one slot serves   *)
(* all requests, for any servers, goroutines and threads, every interval,  *)
(* every length of the table's history and any number of failures and      *)
(* restarts of the task.                                                   *)
(***************************************************************************)
EXTENDS DiskWriteSpeedProofs, SumTheorems

OneScraper == \A s, u \in Scrapers : s = u

-----------------------------------------------------------------------------
(* The inductive invariant *)

Active(t) == task[t].pc \notin {"free", "exit2"}

\* A task that has just been started: no time has passed since.
Fresh(t) ==
  \/ task[t].pc = "begin"
  \/ task[t].pc = "connect" /\ task[t].due >= now

\* The entry that add has computed and not yet stored.
Added(t) ==
  [counter[task[t].key] EXCEPT ![task[t].db] = @ + task[t].update[task[t].key]]

\* What is true of a task that polls or is about to.  The scrape that started
\* it has gone on, and is the one that will take an error recorded before.
TaskOk(t) ==
  /\ task[t].target \in Targets
  /\ task[t].pc # "begin" => running
  /\ task[t].pc = "begin" =>
       \A s \in Scrapers : scrape[s].last >= now /\ scrape[s].pc \notin {"check", "spawn"}
  /\ task[t].pc \in LivePCs \ {"connect", "exit"} => conn = task[t].target
  /\ task[t].pc \in {"query", "fail", "ok", "add", "write"} => task[t].db = task[t].target
  /\ task[t].pc = "write" => task[t].key \in Keys /\ task[t].entry = Added(t)
  /\ lastError # NULL =>
       \/ task[t].pc = "exit"
       \/ Fresh(t) /\ \E s \in Scrapers : scrape[s].pc \in {"error", "take", "clear"}

\* Of two tasks one at most is active, and while the resets of one are under
\* way the other has only just been started.
Apart(t, u) ==
  /\ ~(Active(t) /\ Active(u))
  /\ task[u].pc = "exit2" /\ Active(t) => Fresh(t)

ScrapeOk(s) ==
  /\ scrape[s].pc \in {"check", "spawn"} =>
       scrape[s].target \in Targets /\ scrape[s].last >= now
  /\ scrape[s].pc = "spawn" => \A t \in Tasks : ~Active(t)
  /\ scrape[s].pc = "take" => lastError # NULL
  /\ scrape[s].pc = "clear" => scrape[s].err # NULL /\ scrape[s].err = lastError
  /\ scrape[s].pc \in {"aggregate", "succeeded"} => scrape[s].shown

SlotInv ==
  /\ \A t \in Tasks : Active(t) => TaskOk(t)
  /\ \A t, u \in Tasks : t # u => Apart(t, u)
  /\ \A s \in Scrapers : ScrapeOk(s)
  /\ crashed # "nil pool"

\* There is no task at the beginning.
LEMMA SlotInit == Init => SlotInv
<1> SUFFICES ASSUME Init PROVE SlotInv
  OBVIOUS
<1>1. \A t \in Tasks : task[t].pc = "free"
  BY DEF Init, FreeTask
<1>2. \A s \in Scrapers : scrape[s].pc = "idle"
  BY DEF Init
<1>3. crashed = "no"
  BY DEF Init
<1> QED BY <1>1, <1>2, <1>3 DEF SlotInv, Active, Apart, ScrapeOk

\* One task moves.
LEMMA Moved ==
  ASSUME TypeOK, NEW t \in Tasks, NEW p, NEW from, TaskGoes(t, from, p)
  PROVE  /\ task[t].pc = from /\ task'[t] = p
         /\ \A u \in Tasks \ {t} : task'[u] = task[u]
BY DEF TypeOK, TaskGoes

-----------------------------------------------------------------------------
(* Steps of the task *)

\* A step of the active task: the others have nothing to lose.
LEMMA SlotKept ==
  ASSUME TypeOK, SlotInv, NEW t \in Tasks, NEW p, NEW from, TaskGoes(t, from, p),
         from \notin {"free", "exit2"},
         UNCHANGED <<now, scrape, crashed>>,
         Fresh(t) /\ Active(t)' => Fresh(t)',
         Active(t)' => TaskOk(t)',
         lastError' = lastError \/ (lastError = NULL /\ from \in {"fail", "ok"})
  PROVE  SlotInv'
<1>1. /\ task[t].pc = from /\ task'[t] = p
      /\ \A u \in Tasks \ {t} : task'[u] = task[u]
  BY Moved
<1>2. Active(t)
  BY <1>1 DEF Active
<1>3. \A u \in Tasks \ {t} : ~Active(u) /\ ~Active(u)' /\ Active(u)' = Active(u)
  BY <1>1, <1>2 DEF SlotInv, Apart, Active
<1>4. \A u \in Tasks : Active(u)' => TaskOk(u)'
  BY <1>3
<1>5. ASSUME NEW u \in Tasks, NEW v \in Tasks, u # v PROVE Apart(u, v)'
  <2>1. ~(Active(u)' /\ Active(v)')
    BY <1>3, <1>5
  <2>2. ASSUME task'[v].pc = "exit2", Active(u)' PROVE Fresh(u)'
    <3>1. u = t /\ v # t
      BY <1>3, <1>5, <2>2
    <3>2. task[v].pc = "exit2"
      BY <1>1, <2>2, <3>1
    <3>3. Fresh(t)
      BY <1>2, <1>5, <3>1, <3>2 DEF SlotInv, Apart
    <3> QED BY <2>2, <3>1, <3>3
  <2> QED BY <2>1, <2>2 DEF Apart, Active
<1>6. ASSUME NEW s \in Scrapers PROVE ScrapeOk(s)'
  <2>1. ScrapeOk(s) /\ scrape[s].pc # "spawn" /\ scrape'[s] = scrape[s]
    BY <1>2 DEF SlotInv, ScrapeOk
  <2> QED BY <2>1 DEF ScrapeOk
<1> QED BY <1>4, <1>5, <1>6 DEF SlotInv

\* Same for the steps that change nothing shared and keep polling.
LEMMA SlotPolls ==
  ASSUME TypeOK, SlotInv, NEW t \in Tasks, NEW p, NEW from, TaskGoes(t, from, p),
         from \in LivePCs \ {"connect", "exit"},
         p.pc \in LivePCs \ {"connect", "exit", "write"},
         UNCHANGED <<now, running, conn, lastError, scrape, crashed>>,
         p.target = task[t].target,
         p.pc = "wait" \/ p.db = task[t].target
  PROVE  SlotInv'
<1>1. task[t].pc = from /\ task'[t] = p
  BY Moved
<1>2. Active(t) /\ ~Fresh(t)
  BY <1>1 DEF Active, Fresh, LivePCs
<1>3. TaskOk(t)
  BY <1>2 DEF SlotInv
<1>4. lastError = NULL
  BY <1>1, <1>2, <1>3 DEF TaskOk, LivePCs
<1>5. p.pc # "begin" /\ p.pc # "exit" /\ p.pc # "write"
  BY DEF LivePCs
<1>6. from # "begin" /\ from \in LivePCs \ {"connect", "exit"} /\ from \notin {"free", "exit2"}
  BY DEF LivePCs
<1>7. running /\ conn = task[t].target /\ task[t].target \in Targets
  BY <1>1, <1>3, <1>6 DEF TaskOk
<1>8. TaskOk(t)'
  BY <1>1, <1>4, <1>5, <1>7 DEF TaskOk
<1>9. SlotInv'
  BY <1>2, <1>6, <1>8, SlotKept
<1> QED BY <1>9

\* A step of a task keeps the tasks apart.
LEMMA SlotTask ==
  ASSUME TypeOK, SlotInv, Timing, NEW t \in Tasks, TaskStep(t), UNCHANGED crashed
  PROVE  SlotInv'
<1>0. task[t] \in TaskState /\ task \in [Tasks -> TaskState] /\ now \in Nat
  BY DEF TypeOK
<1>1. Active(t) => TaskOk(t)
  BY DEF SlotInv
<1>2. CASE TaskBegin(t)
  <2> DEFINE p == [task[t] EXCEPT !.pc = "connect", !.due = now]
  <2>1. TaskGoes(t, "begin", p) /\ running'
        /\ UNCHANGED <<now, conn, lastError, counter, scrape, pools>>
    BY <1>2 DEF TaskBegin
  <2>2. p.pc = "connect" /\ p.due = now /\ p.target = task[t].target
    BY <1>0 DEF TaskState
  <2> HIDE DEF p
  <2>3. task[t].pc = "begin" /\ task'[t] = p
    BY <2>1, Moved
  <2>4. TaskOk(t)
    BY <1>1, <2>3 DEF Active
  <2>5. Fresh(t)'
    BY <1>0, <2>1, <2>2, <2>3 DEF Fresh
  <2>6. TaskOk(t)'
    BY <2>1, <2>2, <2>3, <2>4, <2>5 DEF TaskOk
  <2> QED BY <2>1, <2>5, <2>6, SlotKept
<1>3. CASE TaskConnect(t)
  <2> DEFINE p == [task[t] EXCEPT !.pc = "wait", !.due = now + Interval]
  <2>1. /\ TaskGoes(t, "connect", p) /\ task[t].due < now /\ conn' = task[t].target
        /\ UNCHANGED <<now, running, lastError, counter, scrape>>
    BY <1>3 DEF TaskConnect
  <2>2. p.pc = "wait" /\ p.target = task[t].target
    BY <1>0 DEF TaskState
  <2> HIDE DEF p
  <2>3. task[t].pc = "connect" /\ task'[t] = p
    BY <2>1, Moved
  <2>4. task[t].due \in Nat
    BY <1>0 DEF TaskState
  <2>5. TaskOk(t) /\ ~Fresh(t)
    BY <1>0, <1>1, <2>1, <2>3, <2>4 DEF Active, Fresh
  <2>6. TaskOk(t)'
    BY <2>1, <2>2, <2>3, <2>5 DEF TaskOk
  <2> QED BY <2>1, <2>5, <2>6, SlotKept
<1>4. CASE TaskConnectFails(t)
  <2> DEFINE p == [task[t] EXCEPT !.pc = "exit"]
  <2>1. /\ TaskGoes(t, "connect", p) /\ task[t].due < now
        /\ UNCHANGED <<now, running, conn, lastError, counter, scrape, pools>>
    BY <1>4 DEF TaskConnectFails
  <2>2. p.pc = "exit" /\ p.target = task[t].target
    BY <1>0 DEF TaskState
  <2> HIDE DEF p
  <2>3. task[t].pc = "connect" /\ task'[t] = p
    BY <2>1, Moved
  <2>4. task[t].due \in Nat
    BY <1>0 DEF TaskState
  <2>5. TaskOk(t) /\ ~Fresh(t)
    BY <1>0, <1>1, <2>1, <2>3, <2>4 DEF Active, Fresh
  <2>6. TaskOk(t)'
    BY <2>1, <2>2, <2>3, <2>5 DEF TaskOk
  <2> QED BY <2>1, <2>5, <2>6, SlotKept
<1>5. CASE TaskTick(t)
  <2> DEFINE p == [task[t] EXCEPT !.pc = "query", !.db = conn,
                                  !.due = @ + Interval,
                                  !.limit = now + QueryTimeout]
  <2>1. /\ TaskGoes(t, "wait", p)
        /\ UNCHANGED <<now, running, conn, lastError, counter, scrape, pools>>
    BY <1>5 DEF TaskTick
  <2>2. p.pc = "query" /\ p.target = task[t].target /\ p.db = conn
    BY <1>0 DEF TaskState
  <2> HIDE DEF p
  <2>3. conn = task[t].target
    BY <1>1, <2>1, Moved DEF Active, TaskOk, LivePCs
  <2> QED BY <2>1, <2>2, <2>3, SlotPolls DEF LivePCs
<1>6. CASE TaskQueryOk(t)
  <2>1. PICK n \in 0 .. Threads * History :
          TaskGoes(t, "query", [task[t] EXCEPT !.pc = "ok", !.update = SumRows(n)])
    BY <1>6 DEF TaskQueryOk
  <2> DEFINE p == [task[t] EXCEPT !.pc = "ok", !.update = SumRows(n)]
  <2>2. /\ TaskGoes(t, "query", p)
        /\ UNCHANGED <<now, running, conn, lastError, counter, scrape, pools>>
    BY <1>6, <2>1 DEF TaskQueryOk
  <2>3. p.pc = "ok" /\ p.target = task[t].target /\ p.db = task[t].db
    BY <1>0 DEF TaskState
  <2> HIDE DEF p
  <2>4. task[t].db = task[t].target
    BY <1>1, <2>2, Moved DEF Active, TaskOk
  <2> QED BY <2>2, <2>3, <2>4, SlotPolls DEF LivePCs
<1>7. CASE TaskQueryFails(t)
  <2> DEFINE p == [task[t] EXCEPT !.pc = "fail"]
  <2>1. /\ TaskGoes(t, "query", p)
        /\ UNCHANGED <<now, running, conn, lastError, counter, scrape, pools>>
    BY <1>7 DEF TaskQueryFails
  <2>2. p.pc = "fail" /\ p.target = task[t].target /\ p.db = task[t].db
    BY <1>0 DEF TaskState
  <2> HIDE DEF p
  <2>3. task[t].db = task[t].target
    BY <1>1, <2>1, Moved DEF Active, TaskOk
  <2> QED BY <2>1, <2>2, <2>3, SlotPolls DEF LivePCs
<1>8. CASE TaskRecordFailure(t)
  <2> DEFINE p == [task[t] EXCEPT !.pc = "exit"]
  <2>1. /\ TaskGoes(t, "fail", p)
        /\ UNCHANGED <<now, running, conn, counter, scrape, pools>>
    BY <1>8 DEF TaskRecordFailure
  <2>2. p.pc = "exit" /\ p.target = task[t].target
    BY <1>0 DEF TaskState
  <2> HIDE DEF p
  <2>3. task[t].pc = "fail" /\ task'[t] = p
    BY <2>1, Moved
  <2>4. TaskOk(t) /\ ~Fresh(t)
    BY <1>1, <2>3 DEF Active, Fresh
  <2>5. lastError = NULL
    BY <2>3, <2>4 DEF TaskOk
  <2>6. TaskOk(t)'
    BY <2>1, <2>2, <2>3, <2>4 DEF TaskOk
  <2> QED BY <2>1, <2>4, <2>5, <2>6, SlotKept
<1>9. CASE TaskRecordSuccess(t)
  <2> DEFINE p == [task[t] EXCEPT !.pc = "add"]
  <2>1. /\ TaskGoes(t, "ok", p) /\ lastError' = NULL
        /\ UNCHANGED <<now, running, conn, counter, scrape, pools>>
    BY <1>9 DEF TaskRecordSuccess
  <2>2. p.pc = "add" /\ p.target = task[t].target /\ p.db = task[t].db
    BY <1>0 DEF TaskState
  <2> HIDE DEF p
  <2>3. task[t].pc = "ok" /\ task'[t] = p
    BY <2>1, Moved
  <2>4. TaskOk(t) /\ ~Fresh(t)
    BY <1>1, <2>3 DEF Active, Fresh
  <2>5. lastError = NULL
    BY <2>3, <2>4 DEF TaskOk
  <2>6. task[t].db = task[t].target
    BY <2>3, <2>4 DEF TaskOk
  <2> QED BY <1>9, <2>1, <2>2, <2>5, <2>6, SlotPolls DEF LivePCs
<1>10. ASSUME NEW k \in Keys, TaskAddRead(t, k) PROVE SlotInv'
  <2> DEFINE e == [counter[k] EXCEPT ![task[t].db] = @ + task[t].update[k]]
             p == [task[t] EXCEPT !.pc = "write", !.key = k, !.entry = e]
  <2>1. /\ TaskGoes(t, "add", p)
        /\ UNCHANGED <<now, running, conn, lastError, counter, scrape, pools>>
    BY <1>10 DEF TaskAddRead
  <2>2. /\ p.pc = "write" /\ p.target = task[t].target /\ p.db = task[t].db
        /\ p.key = k /\ p.entry = e /\ p.update = task[t].update
    BY <1>0 DEF TaskState
  <2> HIDE DEF p
  <2>3. task[t].pc = "add" /\ task'[t] = p
    BY <2>1, Moved
  <2>4. TaskOk(t) /\ ~Fresh(t)
    BY <1>1, <2>3 DEF Active, Fresh
  <2>5. Added(t)' = e
    BY <2>1, <2>2, <2>3 DEF Added
  <2>6. task[t].pc \in LivePCs \ {"connect", "exit"}
    BY <2>3 DEF LivePCs
  <2> HIDE DEF e
  <2>7. TaskOk(t)'
    BY <2>1, <2>2, <2>3, <2>4, <2>5, <2>6 DEF TaskOk
  <2> QED BY <2>1, <2>4, <2>7, SlotKept
<1>11. CASE TaskAddWrite(t)
  <2> DEFINE p == [task[t] EXCEPT !.pc = "add", !.update[task[t].key] = 0]
  <2>1. /\ TaskGoes(t, "write", p)
        /\ UNCHANGED <<now, running, conn, lastError, scrape, pools>>
    BY <1>11 DEF TaskAddWrite
  <2>2. p.pc = "add" /\ p.target = task[t].target /\ p.db = task[t].db
    BY <1>0 DEF TaskState
  <2> HIDE DEF p
  <2>3. task[t].db = task[t].target
    BY <1>1, <2>1, Moved DEF Active, TaskOk
  <2> QED BY <2>1, <2>2, <2>3, SlotPolls DEF LivePCs
<1>12. CASE TaskTickDone(t)
  <2> DEFINE p == [task[t] EXCEPT !.pc = "wait"]
  <2>1. /\ TaskGoes(t, "add", p)
        /\ UNCHANGED <<now, running, conn, lastError, counter, scrape, pools>>
    BY <1>12 DEF TaskTickDone
  <2>2. p.pc = "wait" /\ p.target = task[t].target
    BY <1>0 DEF TaskState
  <2> HIDE DEF p
  <2> QED BY <2>1, <2>2, SlotPolls DEF LivePCs
<1>13. CASE TaskExit(t)
  <2> DEFINE p == [task[t] EXCEPT !.pc = "exit2"]
  <2>1. /\ TaskGoes(t, "exit", p)
        /\ UNCHANGED <<now, conn, lastError, counter, scrape, pools>>
    BY <1>13 DEF TaskExit
  <2>2. p.pc = "exit2"
    BY <1>0 DEF TaskState
  <2> HIDE DEF p
  <2>3. task[t].pc = "exit" /\ task'[t] = p
    BY <2>1, Moved
  <2>4. ~Active(t)'
    BY <2>2, <2>3 DEF Active
  <2> QED BY <2>1, <2>4, SlotKept
<1>14. CASE TaskForgetConn(t)
  <2>1. /\ TaskGoes(t, "exit2", FreeTask)
        /\ UNCHANGED <<now, running, lastError, counter, scrape, pools>>
    BY <1>14 DEF TaskForgetConn
  <2>2. /\ task[t].pc = "exit2" /\ task'[t] = FreeTask
        /\ \A u \in Tasks \ {t} : task'[u] = task[u]
    BY <2>1, Moved
  <2>3. ~Active(t)' /\ task'[t].pc = "free"
    BY <2>2 DEF Active, FreeTask
  <2>4. \A u \in Tasks \ {t} : Active(u)' = Active(u) /\ Fresh(u)' = Fresh(u)
    BY <2>1, <2>2 DEF Active, Fresh
  <2>5. ASSUME NEW u \in Tasks, Active(u)' PROVE TaskOk(u)'
    <3>1. u # t /\ Active(u) /\ task'[u] = task[u]
      BY <2>2, <2>3, <2>4, <2>5
    <3>2. TaskOk(u) /\ Fresh(u)
      BY <2>2, <3>1 DEF SlotInv, Apart
    <3>3. task[u].pc \in {"begin", "connect"}
      BY <3>2 DEF Fresh
    <3>4. Fresh(u)'
      BY <2>4, <3>1, <3>2
    <3> QED BY <2>1, <3>1, <3>2, <3>3, <3>4 DEF TaskOk, LivePCs
  <2>6. ASSUME NEW u \in Tasks, NEW v \in Tasks, u # v PROVE Apart(u, v)'
    <3>1. Apart(u, v)
      BY <2>6 DEF SlotInv
    <3> QED BY <2>2, <2>3, <2>4, <2>6, <3>1 DEF Apart
  <2>7. ASSUME NEW s \in Scrapers PROVE ScrapeOk(s)'
    <3>1. ScrapeOk(s)
      BY DEF SlotInv
    <3> QED BY <2>1, <2>3, <2>4, <3>1 DEF ScrapeOk
  <2> QED BY <2>5, <2>6, <2>7 DEF SlotInv
<1> QED BY <1>2, <1>3, <1>4, <1>5, <1>6, <1>7, <1>8, <1>9, <1>10, <1>11, <1>12,
           <1>13, <1>14 DEF TaskStep

-----------------------------------------------------------------------------
(* Steps of the scrape *)

\* The scrape of the only slot moves.
LEMMA ScrapeMoved ==
  ASSUME OneScraper, TypeOK, NEW s \in Scrapers, NEW p, NEW from, ScrapeGoes(s, from, p)
  PROVE  /\ scrape[s].pc = from /\ scrape'[s] = p
         /\ \A u \in Scrapers : u = s
BY DEF OneScraper, TypeOK, ScrapeGoes

\* Where it goes matters to the tasks in three ways.
LEMMA SlotScraped ==
  ASSUME OneScraper, TypeOK, SlotInv, NEW s \in Scrapers,
         UNCHANGED <<now, running, conn, counter, task, crashed>>,
         \/ scrape'[s].pc \notin {"check", "spawn"}
         \/ scrape'[s].pc = "spawn" /\ scrape[s].pc = "check" /\ ~running,
         scrape'[s].last = scrape[s].last,
         lastError' # NULL =>
           /\ lastError' = lastError
           /\ scrape[s].pc \in {"error", "take", "clear"} =>
                scrape'[s].pc \in {"error", "take", "clear"},
         ScrapeOk(s)'
  PROVE  SlotInv'
<1>1. \A u \in Scrapers : u = s
  BY DEF OneScraper
<1>2. ASSUME NEW t \in Tasks, Active(t)' PROVE TaskOk(t)'
  <2>1. Active(t) /\ TaskOk(t)
    BY <1>2 DEF Active, SlotInv
  <2>2. task[t].pc = "begin" => scrape'[s].last >= now /\ scrape'[s].pc \notin {"check", "spawn"}
    BY <1>1, <2>1 DEF TaskOk
  <2>3. ASSUME lastError' # NULL
        PROVE  \/ task[t].pc = "exit"
               \/ Fresh(t)' /\ scrape'[s].pc \in {"error", "take", "clear"}
    BY <1>1, <2>1, <2>3 DEF TaskOk, Fresh
  <2>4. Added(t)' = Added(t)
    BY DEF Added
  <2> QED BY <1>1, <2>1, <2>2, <2>3, <2>4 DEF TaskOk
<1>3. \A t, u \in Tasks : t # u => Apart(t, u)'
  BY DEF SlotInv, Apart, Active, Fresh
<1>4. \A u \in Scrapers : ScrapeOk(u)'
  BY <1>1
<1> QED BY <1>2, <1>3, <1>4 DEF SlotInv

\* A step of the one scrape does.
LEMMA SlotScrape ==
  ASSUME OneScraper, TypeOK, SlotInv, NEW s \in Scrapers, ScrapeStep(s), UNCHANGED crashed
  PROVE  SlotInv'
<1>0. /\ scrape[s] \in ScrapeState /\ scrape \in [Scrapers -> ScrapeState]
      /\ now \in Nat /\ scrape[s].last \in Int
      /\ ScrapeOk(s) /\ \A u \in Scrapers : u = s
  BY DEF TypeOK, SlotInv, OneScraper, ScrapeState
<1>1. ASSUME NEW x \in Targets, ScrapeBegin(s, x) PROVE SlotInv'
  <2> DEFINE p == [pc |-> "check", target |-> x, last |-> now, err |-> NULL,
                   shown |-> FALSE, seen |-> {}]
  <2>1. /\ scrape'[s] = p /\ scrape[s].last < now
        /\ scrape[s].pc \in {"idle", "succeeded", "failed"}
        /\ UNCHANGED <<now, running, conn, lastError, counter, task, pools>>
    BY <1>0, <1>1 DEF ScrapeBegin
  <2>2. ASSUME NEW t \in Tasks, Active(t)' PROVE TaskOk(t)'
    <3>1. Active(t) /\ TaskOk(t)
      BY <2>1, <2>2 DEF Active, SlotInv
    <3>2. task[t].pc # "begin"
      BY <1>0, <2>1, <3>1 DEF TaskOk
    <3>3. lastError # NULL => task[t].pc = "exit"
      BY <1>0, <2>1, <3>1 DEF TaskOk
    <3>4. Added(t)' = Added(t)
      BY <2>1 DEF Added
    <3> QED BY <2>1, <3>1, <3>2, <3>3, <3>4 DEF TaskOk
  <2>3. \A t, u \in Tasks : t # u => Apart(t, u)'
    BY <2>1 DEF SlotInv, Apart, Active, Fresh
  <2>4. ScrapeOk(s)'
    BY <1>0, <2>1 DEF ScrapeOk
  <2> QED BY <1>0, <2>2, <2>3, <2>4 DEF SlotInv
<1>2. CASE ScrapeCheckRunning(s)
  <2> DEFINE p == [scrape[s] EXCEPT !.pc = IF running THEN "error" ELSE "spawn"]
  <2>1. /\ scrape'[s] = p /\ scrape[s].pc = "check"
        /\ UNCHANGED <<now, running, conn, lastError, counter, task, pools>>
    BY <1>2, ScrapeMoved DEF ScrapeCheckRunning
  <2>2. /\ p.pc = IF running THEN "error" ELSE "spawn"
        /\ p.last = scrape[s].last /\ p.target = scrape[s].target
    BY <1>0 DEF ScrapeState
  <2> HIDE DEF p
  <2>3. ASSUME ~running, NEW t \in Tasks PROVE ~Active(t)
    BY <2>1, <2>3 DEF SlotInv, TaskOk
  <2>4. ScrapeOk(s)'
    BY <1>0, <2>1, <2>2, <2>3 DEF ScrapeOk, Active
  <2> QED BY <2>1, <2>2, <2>4, SlotScraped
<1>3. ASSUME NEW t \in Tasks, ScrapeSpawn(s, t) PROVE SlotInv'
  <2> DEFINE p == [scrape[s] EXCEPT !.pc = "error"]
             q == [FreeTask EXCEPT !.pc = "begin", !.target = scrape[s].target]
  <2>1. /\ ScrapeGoes(s, "spawn", p) /\ TaskGoes(t, "free", q)
        /\ UNCHANGED <<now, running, conn, lastError, counter, pools>>
    BY <1>3 DEF ScrapeSpawn
  <2>2. p.pc = "error" /\ p.last = scrape[s].last
    BY <1>0 DEF ScrapeState
  <2>3. q.pc = "begin" /\ q.target = scrape[s].target
    BY DEF FreeTask
  <2> HIDE DEF p, q
  <2>4. scrape'[s] = p /\ scrape[s].pc = "spawn"
    BY <2>1, ScrapeMoved
  <2>5. task[t].pc = "free" /\ task'[t] = q /\ \A u \in Tasks \ {t} : task'[u] = task[u]
    BY <2>1, Moved
  <2>6. \A u \in Tasks : ~Active(u)
    BY <1>0, <2>4 DEF ScrapeOk
  <2>7. \A u \in Tasks \ {t} : ~Active(u)'
    BY <2>5, <2>6 DEF Active
  <2>8. Fresh(t)'
    BY <2>3, <2>5 DEF Fresh
  <2>9. scrape'[s].last >= now
    BY <1>0, <2>2, <2>4 DEF ScrapeOk
  <2>10. TaskOk(t)'
    BY <1>0, <2>1, <2>2, <2>3, <2>4, <2>5, <2>8, <2>9 DEF TaskOk, ScrapeOk, LivePCs
  <2>11. \A u, v \in Tasks : u # v => Apart(u, v)'
    BY <2>5, <2>7, <2>8 DEF Apart
  <2>12. ScrapeOk(s)'
    BY <2>2, <2>4 DEF ScrapeOk
  <2> QED BY <1>0, <2>7, <2>10, <2>11, <2>12 DEF SlotInv
<1>4. CASE ScrapeCheckError(s)
  <2> DEFINE p == [scrape[s] EXCEPT !.pc = IF lastError # NULL THEN "take" ELSE "range"]
  <2>1. /\ scrape'[s] = p /\ scrape[s].pc = "error"
        /\ UNCHANGED <<now, running, conn, lastError, counter, task, pools>>
    BY <1>4, ScrapeMoved DEF ScrapeCheckError
  <2>2. /\ p.pc = IF lastError # NULL THEN "take" ELSE "range"
        /\ p.last = scrape[s].last
    BY <1>0 DEF ScrapeState
  <2> HIDE DEF p
  <2>3. ScrapeOk(s)'
    BY <2>1, <2>2 DEF ScrapeOk
  <2> QED BY <2>1, <2>2, <2>3, SlotScraped
<1>5. CASE ScrapeTakeError(s)
  <2> DEFINE p == [scrape[s] EXCEPT !.pc = "clear", !.err = lastError]
  <2>1. /\ scrape'[s] = p /\ scrape[s].pc = "take"
        /\ UNCHANGED <<now, running, conn, lastError, counter, task, pools>>
    BY <1>5, ScrapeMoved DEF ScrapeTakeError
  <2>2. p.pc = "clear" /\ p.err = lastError /\ p.last = scrape[s].last
    BY <1>0 DEF ScrapeState
  <2> HIDE DEF p
  <2>3. ScrapeOk(s)'
    BY <1>0, <2>1, <2>2 DEF ScrapeOk
  <2> QED BY <2>1, <2>2, <2>3, SlotScraped
<1>6. CASE ScrapeClearError(s)
  <2> DEFINE p == [scrape[s] EXCEPT !.pc =
                     IF scrape[s].err # NULL THEN "failed" ELSE "succeeded"]
  <2>1. /\ scrape'[s] = p /\ scrape[s].pc = "clear" /\ lastError' = NULL
        /\ UNCHANGED <<now, running, conn, counter, task, pools>>
    BY <1>6, ScrapeMoved DEF ScrapeClearError
  <2>2. p.pc = "failed" /\ p.last = scrape[s].last
    BY <1>0, <2>1 DEF ScrapeState, ScrapeOk
  <2> HIDE DEF p
  <2>3. ScrapeOk(s)'
    BY <2>1, <2>2 DEF ScrapeOk
  <2> QED BY <2>1, <2>2, <2>3, SlotScraped
<1>7. CASE ScrapeRangeStart(s)
  <2> DEFINE p == [scrape[s] EXCEPT !.pc = "ranging"]
  <2>1. /\ scrape'[s] = p /\ scrape[s].pc = "range"
        /\ UNCHANGED <<now, running, conn, lastError, counter, task, pools>>
    BY <1>7, ScrapeMoved DEF ScrapeRangeStart
  <2>2. p.pc = "ranging" /\ p.last = scrape[s].last
    BY <1>0 DEF ScrapeState
  <2> HIDE DEF p
  <2>3. ScrapeOk(s)'
    BY <2>1, <2>2 DEF ScrapeOk
  <2> QED BY <2>1, <2>2, <2>3, SlotScraped
<1>8. CASE ScrapeRangeEnd(s)
  <2> DEFINE p == [scrape[s] EXCEPT !.pc = IF Verbose THEN "aggregate" ELSE "succeeded",
                                    !.shown = TRUE,
                                    !.seen = ServersCounted]
  <2>1. /\ scrape'[s] = p /\ scrape[s].pc = "ranging"
        /\ UNCHANGED <<now, running, conn, lastError, counter, task, pools>>
    BY <1>8, ScrapeMoved DEF ScrapeRangeEnd
  <2>2. p.pc \in {"aggregate", "succeeded"} /\ p.shown /\ p.last = scrape[s].last
    BY <1>0 DEF ScrapeState
  <2> HIDE DEF p
  <2>3. ScrapeOk(s)'
    BY <2>1, <2>2 DEF ScrapeOk
  <2> QED BY <2>1, <2>2, <2>3, SlotScraped
<1>9. CASE ScrapeAggregate(s)
  <2>1. PICK outcome \in {"succeeded", "failed"} :
          ScrapeGoes(s, "aggregate", [scrape[s] EXCEPT !.pc = outcome])
    BY <1>9 DEF ScrapeAggregate
  <2> DEFINE p == [scrape[s] EXCEPT !.pc = outcome]
  <2>2. /\ scrape'[s] = p /\ scrape[s].pc = "aggregate"
        /\ UNCHANGED <<now, running, conn, lastError, counter, task, pools>>
    BY <1>9, <2>1, ScrapeMoved DEF ScrapeAggregate
  <2>3. p.pc = outcome /\ p.last = scrape[s].last /\ p.shown = scrape[s].shown
    BY <1>0 DEF ScrapeState
  <2> HIDE DEF p
  <2>4. ScrapeOk(s)'
    BY <1>0, <2>2, <2>3 DEF ScrapeOk
  <2> QED BY <2>2, <2>3, <2>4, SlotScraped
<1> QED BY <1>1, <1>2, <1>3, <1>4, <1>5, <1>6, <1>7, <1>8, <1>9 DEF ScrapeStep

-----------------------------------------------------------------------------
(* The clock, and all steps *)

\* When time passes no task has just been started, none is on its way out, and
\* no scrape is between the two reads of the error.
LEMMA SlotClock ==
  ASSUME TypeOK, SlotInv, Clock, UNCHANGED crashed
  PROVE  SlotInv'
<1>1. /\ now' = now + 1
      /\ UNCHANGED <<running, conn, lastError, counter, task, scrape, pools>>
      /\ \A t \in Tasks : TaskWaits(t)
      /\ \A s \in Scrapers : ScrapeWaits(s)
  BY DEF Clock
<1>2. \A t \in Tasks : task[t].pc \in {"free", "connect", "wait", "query"}
  BY <1>1 DEF TaskWaits
<1>3. \A s \in Scrapers : scrape[s].pc \in {"idle", "succeeded", "failed", "aggregate"}
  BY <1>1 DEF ScrapeWaits
<1>4. ASSUME NEW t \in Tasks, Active(t)' PROVE TaskOk(t)'
  <2>1. Active(t) /\ TaskOk(t) /\ task[t].pc \in {"free", "connect", "wait", "query"}
    BY <1>1, <1>2, <1>4 DEF Active, SlotInv
  <2>2. lastError = NULL
    BY <1>3, <2>1 DEF TaskOk
  <2> QED BY <1>1, <2>1, <2>2 DEF TaskOk
<1>5. \A t, u \in Tasks : t # u => Apart(t, u)'
  BY <1>1, <1>2 DEF SlotInv, Apart, Active
<1>6. \A s \in Scrapers : ScrapeOk(s)'
  BY <1>1, <1>3 DEF SlotInv, ScrapeOk, Active
<1> QED BY <1>1, <1>4, <1>5, <1>6 DEF SlotInv

\* Every step does.
LEMMA SlotStep ==
  ASSUME OneScraper
  PROVE  TypeOK /\ Timing /\ SlotInv /\ [Next]_vars => SlotInv'
<1> SUFFICES ASSUME TypeOK, Timing, SlotInv, [Next]_vars PROVE SlotInv'
  OBVIOUS
<1>1. ASSUME NEW s \in Scrapers, ScrapeStep(s), UNCHANGED crashed PROVE SlotInv'
  BY <1>1, SlotScrape
<1>2. ASSUME NEW t \in Tasks, TaskStep(t), UNCHANGED crashed PROVE SlotInv'
  BY <1>2, SlotTask
<1>3. CASE Clock /\ UNCHANGED crashed
  BY <1>3, SlotClock
<1>4. ASSUME UNCHANGED <<now, running, conn, lastError, counter, task, scrape>>,
             crashed' # "nil pool"
      PROVE  SlotInv'
  BY ZenonT(40), <1>4 DEF SlotInv, Active, TaskOk, Apart, ScrapeOk, Fresh, Added
<1>5. CASE MapFault
  BY <1>4, <1>5 DEF MapFault
<1>6. ASSUME NEW t \in Tasks, TaskTickNil(t) PROVE FALSE
  <2>1. task[t].pc = "wait" /\ conn = NULL
    BY <1>6 DEF TaskTickNil
  <2>2. TaskOk(t)
    BY <2>1 DEF SlotInv, Active
  <2> QED BY <2>1, <2>2, NullAssumption DEF TaskOk, LivePCs
<1>7. CASE UNCHANGED vars
  BY <1>4, <1>7 DEF vars, SlotInv
<1> QED BY <1>1, <1>2, <1>3, <1>5, <1>6, <1>7 DEF Next, End

\* No tick is late at the beginning.
LEMMA TimingInit == Init => Timing
BY DEF Init, Timing, InTime, FreeTask

\* With one slot, the invariant holds in every reachable state.
LEMMA SlotHolds ==
  ASSUME OneScraper
  PROVE  Spec => [](TypeOK /\ Timing /\ SlotInv)
<1>1. TypeOK /\ Timing /\ SlotInv /\ [Next]_vars => SlotInv'
  BY SlotStep
<1> QED BY <1>1, TypeInit, TypeStep, TimingInit, TimingStep, SlotInit, PTL DEF Spec

\* As long as scrapes do not overlap there is one background task at most,
\* though a scrape tests the flag (232) that the task it starts sets (177): a
\* scrape that finds it down finds no task on its way either.
THEOREM AtMostOneTaskHolds ==
  ASSUME OneScraper
  PROVE  Spec => []AtMostOneTask
<1>1. SlotInv => AtMostOneTask
  <2> SUFFICES ASSUME SlotInv
               PROVE  Cardinality({t \in Tasks : task[t].pc \notin {"free", "exit2"}}) <= 1
    BY DEF AtMostOneTask
  <2> DEFINE A == {t \in Tasks : task[t].pc \notin {"free", "exit2"}}
  <2>1. \A t, u \in A : t = u
    BY DEF SlotInv, Apart, Active
  <2> HIDE DEF A
  <2>2. CASE A = {}
    BY <2>2, FS_EmptySet DEF A
  <2>3. CASE A # {}
    <3>1. PICK t \in A : TRUE
      BY <2>3
    <3>2. A = {t}
      BY <2>1, <3>1
    <3>3. Cardinality(A) = 1
      BY <3>2, FS_Singleton
    <3> QED BY <3>3 DEF A
  <2> QED BY <2>2, <2>3
<1> QED BY <1>1, SlotHolds, PTL

\* ... the task that polls finds its own pool in TaskConn: the reset of the
\* task before it (180) is over when it has connected.
THEOREM OwnPoolHolds ==
  ASSUME OneScraper
  PROVE  Spec => []OwnPool
<1>1. SlotInv => OwnPool
  BY DEF SlotInv, OwnPool, Active, TaskOk, LivePCs
<1> QED BY <1>1, SlotHolds, PTL

\* ... and the process does not die of a nil TaskConn (133).
THEOREM NoNilPoolHolds ==
  ASSUME OneScraper
  PROVE  Spec => []NoNilPool
<1>1. SlotInv => NoNilPool
  BY DEF SlotInv, NoNilPool
<1> QED BY <1>1, SlotHolds, PTL

\* ... a scrape that returns nil has sent the counters: between its two reads
\* of the error (238 and 239) no task replaces it.
THEOREM SuccessShowsHolds ==
  ASSUME OneScraper
  PROVE  Spec => []SuccessShows
<1>1. SlotInv => SuccessShows
  BY DEF SlotInv, ScrapeOk, SuccessShows
<1> QED BY <1>1, SlotHolds, PTL

-----------------------------------------------------------------------------
(* Action properties *)

\* Only a task's add writes the map.
LEMMA CounterSteps ==
  ASSUME Next
  PROVE  UNCHANGED counter \/ \E t \in Tasks : TaskAddWrite(t)
<1>1. ASSUME NEW s \in Scrapers, ScrapeStep(s) PROVE UNCHANGED counter
  BY <1>1 DEF ScrapeStep, ScrapeBegin, ScrapeCheckRunning, ScrapeSpawn, ScrapeCheckError,
              ScrapeTakeError, ScrapeClearError, ScrapeRangeStart, ScrapeRangeEnd,
              ScrapeAggregate
<1>2. ASSUME NEW t \in Tasks, TaskStep(t) PROVE UNCHANGED counter \/ TaskAddWrite(t)
  BY <1>2 DEF TaskStep, TaskBegin, TaskConnect, TaskConnectFails, TaskTick, TaskQueryOk,
              TaskQueryFails, TaskRecordFailure, TaskRecordSuccess, TaskAddRead,
              TaskTickDone, TaskExit, TaskForgetConn
<1> QED BY <1>1, <1>2 DEF Next, Clock, TaskTickNil, MapFault, End, vars

\* What add stores is what it read and the rows of the tick.
LEMMA WriteAdds ==
  ASSUME TypeOK, SlotInv, NEW t \in Tasks, TaskAddWrite(t)
  PROVE  /\ task[t].pc = "write" /\ Active(t)
         /\ task[t].key \in Keys /\ task[t].db \in Targets
         /\ counter' = [counter EXCEPT ![task[t].key] = Added(t)]
         /\ \A k \in Keys : counter[k] \in Samples /\ task[t].update[k] \in Nat
<1>1. task[t].pc = "write" /\ counter' = [counter EXCEPT ![task[t].key] = task[t].entry]
  BY DEF TaskAddWrite, TaskGoes
<1>2. Active(t) /\ TaskOk(t)
  BY <1>1 DEF SlotInv, Active
<1>3. task[t] \in TaskState /\ counter \in [Keys -> Samples]
  BY DEF TypeOK
<1> QED BY <1>1, <1>2, <1>3 DEF TaskOk, TaskState

\* What a task stores in the counter is what it read, and more.
LEMMA MonotoneStep ==
  ASSUME TypeOK, SlotInv, [Next]_vars
  PROVE  [\A k \in Keys, x \in Targets : counter'[k][x] >= counter[k][x]]_vars
<1>1. counter \in [Keys -> Samples]
  BY DEF TypeOK
<1>2. CASE UNCHANGED counter
  <2>1. ASSUME NEW k \in Keys, NEW x \in Targets PROVE counter'[k][x] >= counter[k][x]
    <3>1. counter[k][x] \in Nat
      BY <1>1 DEF Samples
    <3> QED BY <1>2, <3>1
  <2> QED BY <2>1
<1>3. ASSUME NEW t \in Tasks, TaskAddWrite(t), NEW k \in Keys, NEW x \in Targets
      PROVE  counter'[k][x] >= counter[k][x]
  <2>1. counter[k] \in Samples /\ counter[k][x] \in Nat
    BY <1>1 DEF Samples
  <2>2. CASE k # task[t].key
    <3>1. counter'[k] = counter[k]
      BY <1>1, <1>3, <2>2, WriteAdds
    <3> QED BY <2>1, <3>1
  <2>3. CASE k = task[t].key
    <3>1. counter'[k] = [counter[k] EXCEPT ![task[t].db] = @ + task[t].update[k]]
      BY <1>1, <1>3, <2>3, WriteAdds DEF Added
    <3>2. task[t].update[k] \in Nat
      BY <1>3, WriteAdds
    <3>3. counter'[k][x] = counter[k][x] \/ counter'[k][x] = counter[k][x] + task[t].update[k]
      BY <2>1, <3>1 DEF Samples
    <3> QED BY <2>1, <3>2, <3>3
  <2> QED BY <2>2, <2>3
<1> QED BY <1>2, <1>3, CounterSteps DEF vars

\* As long as scrapes do not overlap, the exported counters never go back: no
\* task stores an entry that another has changed since it was read.
THEOREM CounterMonotoneHolds ==
  ASSUME OneScraper
  PROVE  Spec => CounterMonotone
<1>1. TypeOK /\ SlotInv /\ [Next]_vars =>
        [\A k \in Keys, x \in Targets : counter'[k][x] >= counter[k][x]]_vars
  BY MonotoneStep
<1> QED BY <1>1, SlotHolds, PTL DEF CounterMonotone, Spec

Returned ==
  \E s \in Scrapers : /\ scrape[s].err = lastError
                      /\ scrape[s].pc = "clear" /\ scrape'[s].pc = "failed"

\* Only the clear of the scrape replaces an error.
LEMMA ReportedStep ==
  ASSUME TypeOK, SlotInv, [Next]_vars
  PROVE  [lastError # NULL /\ lastError' # lastError => Returned]_vars
<1> SUFFICES ASSUME Next, lastError # NULL, lastError' # lastError PROVE Returned
  BY DEF vars
<1>1. ASSUME NEW s \in Scrapers, ScrapeStep(s) PROVE Returned
  <2>1. ScrapeClearError(s)
    BY <1>1 DEF ScrapeStep, ScrapeBegin, ScrapeCheckRunning, ScrapeSpawn, ScrapeCheckError,
                ScrapeTakeError, ScrapeRangeStart, ScrapeRangeEnd, ScrapeAggregate
  <2>2. scrape[s].pc = "clear" /\ scrape[s].err # NULL /\ scrape[s].err = lastError
    BY <2>1 DEF ScrapeClearError, ScrapeGoes, SlotInv, ScrapeOk
  <2>3. scrape'[s] = [scrape[s] EXCEPT !.pc = "failed"]
    BY <2>1, <2>2 DEF ScrapeClearError, ScrapeGoes, TypeOK
  <2>4. scrape'[s].pc = "failed"
    BY ZenonT(40), <2>3 DEF TypeOK, ScrapeState
  <2> QED BY <2>2, <2>4 DEF Returned
<1>2. ASSUME NEW t \in Tasks, TaskStep(t) PROVE FALSE
  <2>1. TaskRecordFailure(t) \/ TaskRecordSuccess(t)
    BY <1>2 DEF TaskStep, TaskBegin, TaskConnect, TaskConnectFails, TaskTick, TaskQueryOk,
                TaskQueryFails, TaskAddRead, TaskAddWrite, TaskTickDone, TaskExit,
                TaskForgetConn
  <2>2. task[t].pc \in {"fail", "ok"}
    BY <2>1 DEF TaskRecordFailure, TaskRecordSuccess, TaskGoes
  <2> QED BY <2>2 DEF SlotInv, Active, TaskOk, Fresh
<1>3. Clock \/ MapFault \/ End \/ (\E t \in Tasks : TaskTickNil(t)) => FALSE
  BY DEF Clock, MapFault, End, TaskTickNil, vars
<1> QED BY <1>1, <1>2, <1>3 DEF Next

\* As long as scrapes do not overlap, a failure that a task has recorded (202)
\* stays until a scrape returns it (241): no success of a later tick hides it.
THEOREM FailureReportedHolds ==
  ASSUME OneScraper
  PROVE  Spec => FailureReported
<1>1. TypeOK /\ SlotInv /\ [Next]_vars =>
        [lastError # NULL /\ lastError' # lastError =>
           \E s \in Scrapers : /\ scrape[s].err = lastError
                               /\ scrape[s].pc = "clear" /\ scrape'[s].pc = "failed"]_vars
  BY ReportedStep DEF Returned
<1> QED BY <1>1, SlotHolds, PTL DEF FailureReported, Spec

-----------------------------------------------------------------------------
(* The samples in the counter *)

\* CounterNotInflated is not inductive: a tick may add a whole interval at
\* once, and is entitled to it because it is due an interval after the one
\* before, or after the connection.  What it adds is paid for by then.
Counted(t) ==
  /\ task[t].pc \in {"wait", "query", "ok", "add", "write"} =>
       task[t].due <= now + Interval
  /\ task[t].pc = "wait" =>
       \A k \in Keys : SampleTotal(k) <= task[t].due - Interval
  /\ task[t].pc = "query" =>
       \A k \in Keys : SampleTotal(k) <= task[t].due - Interval - Interval
  /\ task[t].pc \in {"ok", "add", "write"} =>
       \A k \in Keys : SampleTotal(k) + task[t].update[k] <= task[t].due - Interval

Accounts == CounterNotInflated /\ \A t \in Tasks : Counted(t)

\* The samples of a thread are a number.
LEMMA TotalType ==
  ASSUME TypeOK, NEW k \in Keys
  PROVE  SampleTotal(k) \in Nat
<1>1. \A x \in Targets : counter[k][x] \in Nat
  BY DEF TypeOK, Samples
<1> QED BY <1>1, TargetsAssumption, SumNat DEF SampleTotal

\* Of a thread, at most an interval of rows is summed (sumLimit).
LEMMA SumRowsBound ==
  ASSUME NEW n \in Nat, NEW k \in Keys
  PROVE  SumRows(n)[k] <= Interval
<1> DEFINE hi == IF Interval < History THEN Interval ELSE History
           x == n - (k - 1) * History
<1>1. hi \in Nat /\ hi <= Interval
  BY IntervalAssumption, HistoryAssumption
<1>2. x \in Int
  <2>1. k - 1 \in Int /\ History \in Int
    BY HistoryAssumption, ThreadsAssumption DEF Keys
  <2>2. (k - 1) * History \in Int
    BY <2>1
  <2> QED BY <2>2
<1>3. SumRows(n)[k] = Clamp(0, x, hi)
  BY DEF SumRows
<1> HIDE DEF hi, x
<1>4. Clamp(0, x, hi) <= hi
  BY <1>1, <1>2 DEF Clamp
<1>5. Clamp(0, x, hi) \in Nat /\ Interval \in Nat
  BY <1>1, <1>2, ClampType, IntervalAssumption
<1> QED BY <1>1, <1>3, <1>4, <1>5

\* A step that takes no time and writes no entry: one task's account is enough.
LEMMA AccountsKept ==
  ASSUME TypeOK, Accounts, UNCHANGED <<now, counter>>,
         NEW t \in Tasks, NEW p, NEW from, TaskGoes(t, from, p), Counted(t)'
  PROVE  Accounts'
<1>1. \A k \in Keys : SampleTotal(k)' = SampleTotal(k)
  BY DEF SampleTotal
<1>2. \A u \in Tasks \ {t} : task'[u] = task[u]
  BY Moved
<1>3. ASSUME NEW u \in Tasks \ {t} PROVE Counted(u)'
  <2>1. Counted(u) /\ task'[u] = task[u]
    BY <1>2 DEF Accounts
  <2> QED BY <1>1, <2>1 DEF Counted
<1>4. CounterNotInflated'
  BY <1>1 DEF Accounts, CounterNotInflated
<1> QED BY <1>3, <1>4 DEF Accounts

\* A step of a task keeps the account of each thread.
LEMMA AccountsTask ==
  ASSUME TypeOK, SlotInv, Timing, Accounts, NEW t \in Tasks, TaskStep(t)
  PROVE  Accounts'
<1>0. /\ task[t] \in TaskState /\ task \in [Tasks -> TaskState]
      /\ now \in Nat /\ Interval \in Nat
      /\ task[t].due \in Nat /\ task[t].update \in [Keys -> Nat]
  BY IntervalAssumption DEF TypeOK, TaskState
<1>1. Counted(t) /\ CounterNotInflated /\ InTime(t)
  BY DEF Accounts, Timing
<1>2. \A k \in Keys : SampleTotal(k) \in Nat
  BY TotalType
<1>3. UNCHANGED counter => \A k \in Keys : SampleTotal(k)' = SampleTotal(k)
  BY DEF SampleTotal
<1>4. ASSUME NEW p, NEW from, TaskGoes(t, from, p), UNCHANGED <<now, counter>>,
             p.pc \notin {"wait", "query", "ok", "add", "write"}
      PROVE  Accounts'
  <2>1. task'[t] = p
    BY <1>4, Moved
  <2>2. Counted(t)'
    BY <1>4, <2>1 DEF Counted
  <2> QED BY <1>4, <2>2, AccountsKept
<1>5. CASE TaskBegin(t) \/ TaskConnectFails(t) \/ TaskQueryFails(t)
           \/ TaskRecordFailure(t) \/ TaskExit(t)
  BY <1>0, <1>4, <1>5 DEF TaskBegin, TaskConnectFails, TaskQueryFails,
                          TaskRecordFailure, TaskExit, TaskState
<1>6. CASE TaskForgetConn(t)
  BY <1>4, <1>6 DEF TaskForgetConn, FreeTask
<1>7. CASE TaskConnect(t)
  <2> DEFINE p == [task[t] EXCEPT !.pc = "wait", !.due = now + Interval]
  <2>1. TaskGoes(t, "connect", p) /\ UNCHANGED <<now, counter>>
    BY <1>7 DEF TaskConnect
  <2>2. p.pc = "wait" /\ p.due = now + Interval
    BY <1>0 DEF TaskState
  <2> HIDE DEF p
  <2>3. task'[t] = p
    BY <2>1, Moved
  <2>4. \A k \in Keys : SampleTotal(k) <= (now + Interval) - Interval
    BY <1>0, <1>1, <1>2 DEF CounterNotInflated
  <2>5. Counted(t)'
    BY <1>0, <1>3, <2>1, <2>2, <2>3, <2>4 DEF Counted
  <2> QED BY <2>1, <2>5, AccountsKept
<1>8. CASE TaskTick(t)
  <2> DEFINE p == [task[t] EXCEPT !.pc = "query", !.db = conn,
                                  !.due = @ + Interval,
                                  !.limit = now + QueryTimeout]
  <2>1. TaskGoes(t, "wait", p) /\ UNCHANGED <<now, counter>> /\ task[t].due <= now
    BY <1>8 DEF TaskTick
  <2>2. p.pc = "query" /\ p.due = task[t].due + Interval
    BY <1>0 DEF TaskState
  <2> HIDE DEF p
  <2>3. task[t].pc = "wait" /\ task'[t] = p
    BY <2>1, Moved
  <2>4. \A k \in Keys : SampleTotal(k) <= (task[t].due + Interval) - Interval - Interval
    BY <1>0, <1>1, <1>2, <2>3 DEF Counted
  <2>5. Counted(t)'
    BY <1>0, <1>3, <2>1, <2>2, <2>3, <2>4 DEF Counted
  <2> QED BY <2>1, <2>5, AccountsKept
<1>9. CASE TaskQueryOk(t)
  <2>1. PICK n \in 0 .. Threads * History :
          TaskGoes(t, "query", [task[t] EXCEPT !.pc = "ok", !.update = SumRows(n)])
    BY <1>9 DEF TaskQueryOk
  <2> DEFINE p == [task[t] EXCEPT !.pc = "ok", !.update = SumRows(n)]
  <2>2. TaskGoes(t, "query", p) /\ UNCHANGED <<now, counter>>
    BY <1>9, <2>1 DEF TaskQueryOk
  <2>3. p.pc = "ok" /\ p.due = task[t].due /\ p.update = SumRows(n)
    BY <1>0 DEF TaskState
  <2> HIDE DEF p
  <2>4. task[t].pc = "query" /\ task'[t] = p
    BY <2>2, Moved
  <2>5. n \in Nat
    <3>1. Threads * History \in Nat
      BY ThreadsAssumption, HistoryAssumption
    <3> QED BY <3>1
  <2>6. ASSUME NEW k \in Keys
        PROVE  SampleTotal(k) + SumRows(n)[k] <= task[t].due - Interval
    <3>1. SumRows(n)[k] <= Interval /\ SumRows(n)[k] \in Nat
      BY <2>5, SumRowsBound, SumRowsType
    <3>2. SampleTotal(k) <= task[t].due - Interval - Interval
      BY <1>1, <2>4 DEF Counted
    <3> QED BY <1>0, <1>2, <3>1, <3>2
  <2>7. task[t].due <= now + Interval
    BY <1>1, <2>4 DEF Counted
  <2>8. Counted(t)'
    BY <1>3, <2>2, <2>3, <2>4, <2>6, <2>7 DEF Counted
  <2> QED BY <2>2, <2>8, AccountsKept
<1>10. ASSUME NEW p, NEW from \in {"ok", "add"}, TaskGoes(t, from, p),
              UNCHANGED <<now, counter>>,
              p.pc \in {"add", "write"}, p.due = task[t].due, p.update = task[t].update
       PROVE  Accounts'
  <2>1. task[t].pc = from /\ task'[t] = p
    BY <1>10, Moved
  <2>2. task[t].due <= now + Interval
    BY <1>1, <2>1 DEF Counted
  <2>3. \A k \in Keys : SampleTotal(k) + task[t].update[k] <= task[t].due - Interval
    BY <1>1, <2>1 DEF Counted
  <2>4. Counted(t)'
    BY <1>3, <1>10, <2>1, <2>2, <2>3 DEF Counted
  <2> QED BY <1>10, <2>4, AccountsKept
<1>11. CASE TaskRecordSuccess(t)
  BY <1>0, <1>10, <1>11 DEF TaskRecordSuccess, TaskState
<1>12. ASSUME NEW k \in Keys, TaskAddRead(t, k) PROVE Accounts'
  BY <1>0, <1>10, <1>12 DEF TaskAddRead, TaskState
<1>13. CASE TaskAddWrite(t)
  <2>0. PICK key \in Keys : key = task[t].key
    BY <1>13, WriteAdds
  <2> DEFINE p == [task[t] EXCEPT !.pc = "add", !.update[key] = 0]
  <2>1. TaskGoes(t, "write", p) /\ UNCHANGED now
    BY <1>13, <2>0 DEF TaskAddWrite
  <2>2. /\ p.pc = "add" /\ p.due = task[t].due
        /\ p.update = [task[t].update EXCEPT ![key] = 0]
    BY <1>0 DEF TaskState
  <2>3. /\ task[t].pc = "write" /\ Active(t) /\ task[t].db \in Targets
        /\ counter' = [counter EXCEPT ![key] = Added(t)]
    BY <1>13, <2>0, WriteAdds
  <2>4. counter \in [Keys -> Samples]
    BY DEF TypeOK
  <2> HIDE DEF p
  <2>5. task'[t] = p /\ \A u \in Tasks \ {t} : task'[u] = task[u]
    BY <2>1, Moved
  <2>6. SampleTotal(key)' = SampleTotal(key) + task[t].update[key]
    <3> DEFINE f == counter[key]
               g == counter'[key]
               x == task[t].db
    <3>1. f \in Samples /\ task[t].update[key] \in Nat
      BY <1>0, <2>3, <2>4
    <3>2. g = [f EXCEPT ![x] = @ + task[t].update[key]]
      BY <2>0, <2>3, <2>4 DEF Added
    <3>3. /\ \A y \in Targets : f[y] \in Int /\ g[y] \in Int
          /\ \A y \in Targets \ {x} : g[y] = f[y]
          /\ g[x] = f[x] + task[t].update[key] /\ f[x] \in Nat
      BY <2>3, <3>1, <3>2 DEF Samples
    <3>4. SampleTotal(key) = SumFunctionOnSet(f, Targets)
          /\ SampleTotal(key)' = SumFunctionOnSet(g, Targets)
      BY DEF SampleTotal
    <3> HIDE DEF f, g, x
    <3>5. x \in Targets
      BY <2>3 DEF x
    <3>6. SumFunctionOnSet(g, Targets) = SumFunctionOnSet(f, Targets) - f[x] + g[x]
      BY <3>3, <3>5, TargetsAssumption, SumUpdate
    <3>7. SampleTotal(key) \in Nat
      BY <1>2, <2>3
    <3> QED BY <3>1, <3>3, <3>4, <3>6, <3>7
  <2>7. ASSUME NEW k \in Keys \ {key} PROVE SampleTotal(k)' = SampleTotal(k)
    <3>1. counter'[k] = counter[k]
      BY <2>3, <2>4
    <3> QED BY <3>1 DEF SampleTotal
  <2>8. task[t].due <= now + Interval
    BY <1>1, <2>3 DEF Counted
  <2>9. ASSUME NEW k \in Keys
        PROVE  SampleTotal(k)' + p.update[k] <= task[t].due - Interval
    <3>1. SampleTotal(k) + task[t].update[k] <= task[t].due - Interval
      BY <1>1, <2>3 DEF Counted
    <3>2. CASE k = key
      <4>1. p.update[k] = 0
        BY <1>0, <2>2, <3>2
      <4>2. task[t].update[k] \in Nat
        BY <1>0
      <4>3. SampleTotal(k)' = SampleTotal(k) + task[t].update[k]
        BY <2>6, <3>2
      <4> QED BY <1>2, <3>1, <4>1, <4>2, <4>3
    <3>3. CASE k # key
      <4>1. p.update[k] = task[t].update[k] /\ SampleTotal(k)' = SampleTotal(k)
        BY <1>0, <2>2, <2>7, <3>3
      <4> QED BY <3>1, <4>1
    <3> QED BY <3>2, <3>3
  <2>10. Counted(t)'
    BY <2>1, <2>2, <2>5, <2>8, <2>9 DEF Counted
  <2>11. ASSUME NEW u \in Tasks \ {t} PROVE Counted(u)'
    <3>1. ~Active(u)
      BY <2>3 DEF SlotInv, Apart
    <3>2. task'[u].pc \in {"free", "exit2"}
      BY <2>5, <3>1 DEF Active
    <3> QED BY <3>2 DEF Counted
  <2>12. ASSUME NEW k \in Keys PROVE SampleTotal(k)' <= now'
    <3>1. CASE k = key
      <4>1. SampleTotal(k) + task[t].update[k] <= task[t].due - Interval
        BY <1>1, <2>3 DEF Counted
      <4>2. task[t].update[k] \in Nat
        BY <1>0
      <4>3. SampleTotal(k)' = SampleTotal(k) + task[t].update[k]
        BY <2>6, <3>1
      <4> QED BY <1>0, <1>2, <2>1, <2>8, <4>1, <4>2, <4>3
    <3>2. CASE k # key
      BY <1>1, <2>1, <2>7, <3>2 DEF CounterNotInflated
    <3> QED BY <3>1, <3>2
  <2> QED BY <2>10, <2>11, <2>12 DEF Accounts, CounterNotInflated
<1>14. CASE TaskTickDone(t)
  <2> DEFINE p == [task[t] EXCEPT !.pc = "wait"]
  <2>1. TaskGoes(t, "add", p) /\ UNCHANGED <<now, counter>>
    BY <1>14 DEF TaskTickDone
  <2>2. p.pc = "wait" /\ p.due = task[t].due
    BY <1>0 DEF TaskState
  <2> HIDE DEF p
  <2>3. task[t].pc = "add" /\ task'[t] = p
    BY <2>1, Moved
  <2>4. ASSUME NEW k \in Keys PROVE SampleTotal(k) <= task[t].due - Interval
    <3>1. SampleTotal(k) + task[t].update[k] <= task[t].due - Interval
      BY <1>1, <2>3 DEF Counted
    <3>2. task[t].update[k] \in Nat
      BY <1>0
    <3> QED BY <1>0, <1>2, <3>1, <3>2
  <2>5. task[t].due <= now + Interval
    BY <1>1, <2>3 DEF Counted
  <2>6. Counted(t)'
    BY <1>3, <2>1, <2>2, <2>3, <2>4, <2>5 DEF Counted
  <2> QED BY <2>1, <2>6, AccountsKept
<1> QED BY <1>5, <1>6, <1>7, <1>8, <1>9, <1>11, <1>12, <1>13, <1>14 DEF TaskStep

\* Every step does.
LEMMA AccountsStep ==
  TypeOK /\ SlotInv /\ Timing /\ Accounts /\ [Next]_vars => Accounts'
<1> SUFFICES ASSUME TypeOK, SlotInv, Timing, Accounts, [Next]_vars PROVE Accounts'
  OBVIOUS
<1>1. CASE UNCHANGED <<now, counter, task>>
  BY <1>1 DEF Accounts, CounterNotInflated, Counted, SampleTotal
<1>2. ASSUME NEW s \in Scrapers, NEW t \in Tasks, ScrapeSpawn(s, t) PROVE Accounts'
  <2> DEFINE q == [FreeTask EXCEPT !.pc = "begin", !.target = scrape[s].target]
  <2>1. TaskGoes(t, "free", q) /\ UNCHANGED <<now, counter>>
    BY <1>2 DEF ScrapeSpawn
  <2>2. q.pc = "begin"
    BY DEF FreeTask
  <2> HIDE DEF q
  <2>3. task'[t] = q
    BY <2>1, Moved
  <2>4. Counted(t)'
    BY <2>2, <2>3 DEF Counted
  <2> QED BY <2>1, <2>4, AccountsKept
<1>3. ASSUME NEW s \in Scrapers, ScrapeStep(s) PROVE Accounts'
  BY <1>1, <1>2, <1>3
     DEF ScrapeStep, ScrapeBegin, ScrapeCheckRunning, ScrapeCheckError, ScrapeTakeError,
         ScrapeClearError, ScrapeRangeStart, ScrapeRangeEnd, ScrapeAggregate
<1>4. ASSUME NEW t \in Tasks, TaskStep(t) PROVE Accounts'
  BY <1>4, AccountsTask
<1>5. CASE Clock
  <2>1. now' = now + 1 /\ UNCHANGED <<counter, task>>
    BY <1>5 DEF Clock
  <2>2. \A k \in Keys : SampleTotal(k)' = SampleTotal(k) /\ SampleTotal(k) \in Nat
    BY <2>1, TotalType DEF SampleTotal
  <2>3. now \in Nat /\ Interval \in Nat
    BY IntervalAssumption DEF TypeOK
  <2>4. CounterNotInflated'
    BY <2>1, <2>2, <2>3 DEF Accounts, CounterNotInflated
  <2>5. ASSUME NEW t \in Tasks PROVE Counted(t)'
    <3>1. Counted(t) /\ task[t].due \in Nat
      BY DEF Accounts, TypeOK, TaskState
    <3> QED BY <2>1, <2>2, <2>3, <3>1 DEF Counted
  <2> QED BY <2>4, <2>5 DEF Accounts
<1> QED BY <1>1, <1>3, <1>4, <1>5 DEF Next, TaskTickNil, MapFault, End, vars

\* Nothing has been counted at the beginning.
LEMMA AccountsInit == Init => Accounts
<1> SUFFICES ASSUME Init PROVE Accounts
  OBVIOUS
<1>1. ASSUME NEW k \in Keys PROVE SampleTotal(k) = 0
  <2>1. \A x \in Targets : counter[k][x] = 0
    BY DEF Init, NoSamples
  <2> QED BY <2>1, TargetsAssumption, SumZero DEF SampleTotal
<1>2. CounterNotInflated
  BY <1>1 DEF Init, CounterNotInflated
<1>3. \A t \in Tasks : task[t].pc = "free"
  BY DEF Init, FreeTask
<1> QED BY <1>2, <1>3 DEF Accounts, Counted

\* As long as scrapes do not overlap, no counter is ahead of the clock: whatever
\* fails and restarts, those of a thread on all servers together hold at most as
\* many samples as seconds have passed ("Number of bytes written", line 95).
THEOREM CounterNotInflatedHolds ==
  ASSUME OneScraper
  PROVE  Spec => []CounterNotInflated
<1>1. Accounts => CounterNotInflated
  BY DEF Accounts
<1> QED BY <1>1, AccountsInit, AccountsStep, SlotHolds, PTL DEF Spec
=============================================================================
