--------------------------- MODULE DiskWriteSpeed ---------------------------
(***************************************************************************)
(* The background task of collector/ndbinfo_disk_write_speed.go and the    *)
(* scrapes that start it, read its counter and report its failures.        *)
(*                                                                         *)
(* Four package-level variables are shared without any lock: TaskRunning,  *)
(* TaskConn, TaskLastError and Counter.  Every read or write of one of     *)
(* them is a step of its own, so all interleavings of the goroutines are   *)
(* behaviours of the model.                                                *)
(*                                                                         *)
(* Time is discrete.  Steps in memory take no time: the clock advances     *)
(* only when every goroutine waits for a timer or for the network.  A      *)
(* network operation takes at least one unit.                              *)
(*                                                                         *)
(* Bytes are abstracted to samples: ndbinfo.disk_write_speed_base holds    *)
(* one row per LDM thread and second, and a counter entry is the number of *)
(* rows added to it, kept apart by the server they were read from.         *)
(***************************************************************************)
EXTENDS Integers, FiniteSets, Functions

CONSTANTS
  Scrapers,   \* requests the exporter serves at the same time
  Targets,    \* MySQL servers (DSNs) that requests name
  Tasks,      \* identities for background goroutines; a free one is reused
  Threads,    \* number of (node_id, thr_no) pairs in the table
  Interval,   \* seconds between two ticks; 30 in the code
  History,    \* rows the table keeps per thread
  Verbose,    \* whether --collect.ndbinfo.disk_write_speed.verbose is "1"
  MaxTime,    \* bound on the clock
  NULL        \* Go's nil

ASSUME IntervalAssumption == Interval \in Nat /\ Interval > 1
ASSUME HistoryAssumption  == History \in Nat /\ History > 0
ASSUME ThreadsAssumption  == Threads \in Nat
ASSUME TimeAssumption     == MaxTime \in Nat
ASSUME VerboseAssumption  == Verbose \in BOOLEAN
ASSUME TargetsAssumption  == IsFiniteSet(Targets)
ASSUME NullAssumption     == NULL \notin Targets

Keys == 1 .. Threads

VARIABLES
  now,        \* the clock
  running,    \* ndbinfoDiskWriteSpeedTaskRunning
  conn,       \* ndbinfoDiskWriteSpeedTaskConn: the server it is connected to
  lastError,  \* ndbinfoDiskWriteSpeedTaskLastError: the server whose tick failed
  counter,    \* ndbinfoDiskWriteSpeedCounter: samples per key and server
  task,       \* the background goroutines
  scrape,     \* the Scrape calls
  pools,      \* connection pools background goroutines opened and nobody closed
  crashed     \* how the process died, if it did

vars == <<now, running, conn, lastError, counter, task, scrape, pools, crashed>>

\* Entries of one map: how many samples of each server a key has.
Samples == [Targets -> Nat]
NoSamples == [x \in Targets |-> 0]

\* TaskConnect to TaskExit: the lines between 177 and 179.
LivePCs   == {"connect", "wait", "query", "fail", "ok", "add", "write", "exit"}
TaskPCs   == LivePCs \cup {"free", "begin", "exit2"}
ScrapePCs == {"idle", "check", "spawn", "error", "take", "clear", "range",
              "ranging", "aggregate", "succeeded", "failed"}

TaskState ==
  [pc     : TaskPCs,
   target : Targets \cup {NULL},       \* mysqlDSN, an argument of the goroutine
   due    : Nat,                       \* when its ticker fires next; while it
                                       \* connects, when the attempt began
   limit  : Nat,                       \* deadline of the pending query
   db     : Targets \cup {NULL},       \* the pool the pending query runs on
   update : [Keys -> Nat],             \* rows of the tick not yet added
   key    : Keys \cup {0},             \* map key that add works on
   entry  : Samples]                   \* its entry, read and not yet written

ScrapeState ==
  [pc     : ScrapePCs,
   target : Targets \cup {NULL},
   last   : Int,                       \* when this request slot was last used
   err    : Targets \cup {NULL},       \* the local err of line 239
   shown  : BOOLEAN,                   \* the counter was walked and sent
   seen   : SUBSET Targets]            \* servers whose samples were sent

TypeOK ==
  /\ now \in Nat
  /\ running \in BOOLEAN
  /\ conn \in Targets \cup {NULL}
  /\ lastError \in Targets \cup {NULL}
  /\ counter \in [Keys -> Samples]
  /\ task \in [Tasks -> TaskState]
  /\ scrape \in [Scrapers -> ScrapeState]
  /\ pools \in Nat
  /\ crashed \in {"no", "nil pool", "map fault"}

NoUpdate == [k \in Keys |-> 0]
FreeTask == [pc |-> "free", target |-> NULL, due |-> 0, limit |-> 0,
             db |-> NULL, update |-> NoUpdate, key |-> 0, entry |-> NoSamples]

Init ==
  /\ now = 0
  /\ running = FALSE
  /\ conn = NULL
  /\ lastError = NULL
  /\ counter = [k \in Keys |-> NoSamples]
  /\ task = [t \in Tasks |-> FreeTask]
  /\ scrape = [s \in Scrapers |->
                 [pc |-> "idle", target |-> NULL, last |-> -1, err |-> NULL,
                  shown |-> FALSE, seen |-> {}]]
  /\ pools = 0
  /\ crashed = "no"

-----------------------------------------------------------------------------
(* Scrape *)

\* A goroutine, at from, goes on as p.
ScrapeGoes(s, from, p) ==
  /\ scrape[s].pc = from
  /\ scrape' = [scrape EXCEPT ![s] = p]

TaskGoes(t, from, p) ==
  /\ task[t].pc = from
  /\ task' = [task EXCEPT ![t] = p]

Free == {t \in Tasks : task[t].pc = "free"}
MaySpawn == {s \in Scrapers : scrape[s].pc \in {"check", "spawn"}}

\* A request for server x.  One slot serves at most one request per unit of
\* time (a Prometheus job scrapes a target once per interval).  Bound: a
\* request waits while it could need a goroutine identity that is not free.
ScrapeBegin(s, x) ==
  /\ scrape[s].pc \in {"idle", "succeeded", "failed"}
  /\ scrape[s].last < now
  /\ Cardinality(Free) > Cardinality(MaySpawn)
  /\ scrape' = [scrape EXCEPT ![s] =
                  [pc |-> "check", target |-> x, last |-> now, err |-> NULL,
                   shown |-> FALSE, seen |-> {}]]
  /\ UNCHANGED <<now, running, conn, lastError, counter, task, pools>>

\* Mutant: the flag is not consulted.
ScrapeCheckRunning_Ignored(s) ==
  /\ ScrapeGoes(s, "check", [scrape[s] EXCEPT !.pc = "spawn"])
  /\ UNCHANGED <<now, running, conn, lastError, counter, task, pools>>

\* if !ndbinfoDiskWriteSpeedTaskRunning
ScrapeCheckRunning(s) ==
  /\ ScrapeGoes(s, "check",
                [scrape[s] EXCEPT !.pc = IF running THEN "error" ELSE "spawn"])
  /\ UNCHANGED <<now, running, conn, lastError, counter, task, pools>>

\* go ndbinfoDiskWriteSpeedTask(30, instance.getDSN(), taskLogger)
ScrapeSpawn(s, t) ==
  /\ ScrapeGoes(s, "spawn", [scrape[s] EXCEPT !.pc = "error"])
  /\ TaskGoes(t, "free",
              [FreeTask EXCEPT !.pc = "begin", !.target = scrape[s].target])
  /\ UNCHANGED <<now, running, conn, lastError, counter, pools>>

\* if ndbinfoDiskWriteSpeedTaskLastError != nil
ScrapeCheckError(s) ==
  /\ ScrapeGoes(s, "error",
                [scrape[s] EXCEPT !.pc = IF lastError # NULL THEN "take" ELSE "range"])
  /\ UNCHANGED <<now, running, conn, lastError, counter, task, pools>>

\* Mutant: the error is cleared before it is read.
ScrapeTakeError_Cleared(s) ==
  /\ lastError' = NULL
  /\ ScrapeGoes(s, "take", [scrape[s] EXCEPT !.pc = "clear", !.err = lastError'])
  /\ UNCHANGED <<now, running, conn, counter, task, pools>>

\* err := ndbinfoDiskWriteSpeedTaskLastError, a second read
ScrapeTakeError(s) ==
  /\ ScrapeGoes(s, "take", [scrape[s] EXCEPT !.pc = "clear", !.err = lastError])
  /\ UNCHANGED <<now, running, conn, lastError, counter, task, pools>>

\* Mutant: the error is logged and cleared, and nil is returned.
ScrapeClearError_Swallowed(s) ==
  /\ ScrapeGoes(s, "clear", [scrape[s] EXCEPT !.pc = "succeeded"])
  /\ lastError' = NULL
  /\ UNCHANGED <<now, running, conn, counter, task, pools>>

\* ndbinfoDiskWriteSpeedTaskLastError = nil; return err
ScrapeClearError(s) ==
  /\ ScrapeGoes(s, "clear",
                [scrape[s] EXCEPT !.pc =
                   IF scrape[s].err # NULL THEN "failed" ELSE "succeeded"])
  /\ lastError' = NULL
  /\ UNCHANGED <<now, running, conn, counter, task, pools>>

\* The walk over the map starts; metrics are sent while it is in progress.
ScrapeRangeStart(s) ==
  /\ ScrapeGoes(s, "range", [scrape[s] EXCEPT !.pc = "ranging"])
  /\ UNCHANGED <<now, running, conn, lastError, counter, task, pools>>

ServersCounted == {x \in Targets : \E k \in Keys : counter[k][x] > 0}

ScrapeRangeEnd(s) ==
  /\ ScrapeGoes(s, "ranging",
                [scrape[s] EXCEPT !.pc = IF Verbose THEN "aggregate" ELSE "succeeded",
                                  !.shown = TRUE,
                                  !.seen = ServersCounted])
  /\ UNCHANGED <<now, running, conn, lastError, counter, task, pools>>

\* The query of the aggregate table, with its rows, on the scrape's own pool.
ScrapeAggregate(s) ==
  /\ scrape[s].last < now
  /\ \E outcome \in {"succeeded", "failed"} :
       ScrapeGoes(s, "aggregate", [scrape[s] EXCEPT !.pc = outcome])
  /\ UNCHANGED <<now, running, conn, lastError, counter, task, pools>>

-----------------------------------------------------------------------------
(* ndbinfoDiskWriteSpeedTask *)

\* Mutant: the flag is not set.
TaskBegin_NoFlag(t) ==
  /\ TaskGoes(t, "begin", [task[t] EXCEPT !.pc = "connect", !.due = now])
  /\ UNCHANGED <<now, running, conn, lastError, counter, scrape, pools>>

\* ndbinfoDiskWriteSpeedTaskRunning = true.  newInstance then gets 15 seconds.
TaskBegin(t) ==
  /\ TaskGoes(t, "begin", [task[t] EXCEPT !.pc = "connect", !.due = now])
  /\ running' = TRUE
  /\ UNCHANGED <<now, conn, lastError, counter, scrape, pools>>

\* Mutant: the pool is not published.
TaskConnect_NotPublished(t) ==
  /\ TaskGoes(t, "connect",
              [task[t] EXCEPT !.pc = "wait", !.due = now + Interval])
  /\ task[t].due < now
  /\ pools' = pools + 1
  /\ UNCHANGED <<now, running, conn, lastError, counter, scrape>>

\* newInstance succeeds: the pool is published, the ticker starts.
TaskConnect(t) ==
  /\ TaskGoes(t, "connect",
              [task[t] EXCEPT !.pc = "wait", !.due = now + Interval])
  /\ task[t].due < now
  /\ conn' = task[t].target
  /\ pools' = pools + 1
  /\ UNCHANGED <<now, running, lastError, counter, scrape>>

\* Mutant: the deferred resets are registered after the early return.
TaskConnectFails_NoReset(t) ==
  /\ TaskGoes(t, "connect", FreeTask)
  /\ task[t].due < now
  /\ UNCHANGED <<now, running, conn, lastError, counter, scrape, pools>>

\* Mutant: a pool is closed that was never opened.
TaskConnectFails_Closes(t) ==
  /\ TaskGoes(t, "connect", [task[t] EXCEPT !.pc = "exit"])
  /\ task[t].due < now
  /\ pools' = pools - 1
  /\ UNCHANGED <<now, running, conn, lastError, counter, scrape>>

\* newInstance fails and has closed its pool: return, LastError untouched.
TaskConnectFails(t) ==
  /\ TaskGoes(t, "connect", [task[t] EXCEPT !.pc = "exit"])
  /\ task[t].due < now
  /\ UNCHANGED <<now, running, conn, lastError, counter, scrape, pools>>

\* Mutant: the timeout is the whole interval.
QueryTimeout_Interval == Interval

\* context.WithTimeout(context.Background(), interval - time.Second)
QueryTimeout == Interval - 1

\* The ticker fires; TaskScrape dereferences TaskConn and sends the query.
TaskTick(t) ==
  /\ TaskGoes(t, "wait",
              [task[t] EXCEPT !.pc = "query",
                              !.db = conn,
                              !.due = @ + Interval,
                              !.limit = now + QueryTimeout])
  /\ task[t].due <= now
  /\ conn # NULL
  /\ UNCHANGED <<now, running, conn, lastError, counter, scrape, pools>>

\* The same with TaskConn nil: getDB dereferences it and the process panics.
TaskTickNil(t) ==
  /\ task[t].pc = "wait"
  /\ task[t].due <= now
  /\ conn = NULL
  /\ crashed' = "nil pool"
  /\ UNCHANGED <<now, running, conn, lastError, counter, task, scrape, pools>>

QuerySent(t) == task[t].limit - QueryTimeout

\* Rows come ordered by thread, newest first; n of them are read.  Of each
\* thread at most Interval rows are summed (sumLimit).
Clamp(lo, x, hi) == IF x < lo THEN lo ELSE IF x > hi THEN hi ELSE x

\* Mutant: sumLimit is compared with > instead of >=.
SumRows_OneMore(n) ==
  [k \in Keys |-> Clamp(0, n - (k - 1) * History,
                        IF Interval + 1 < History THEN Interval + 1 ELSE History)]

SumRows(n) ==
  [k \in Keys |-> Clamp(0, n - (k - 1) * History,
                        IF Interval < History THEN Interval ELSE History)]

\* rows.Next returned false.  rows.Err is not consulted, so any prefix of the
\* result, cut by the timeout or by a lost connection, is a success.
TaskQueryOk(t) ==
  /\ QuerySent(t) < now
  /\ \E n \in 0 .. Threads * History :
       TaskGoes(t, "query", [task[t] EXCEPT !.pc = "ok", !.update = SumRows(n)])
  /\ UNCHANGED <<now, running, conn, lastError, counter, scrape, pools>>

\* QueryContext or Scan returned an error, the timeout's included.
TaskQueryFails(t) ==
  /\ TaskGoes(t, "query", [task[t] EXCEPT !.pc = "fail"])
  /\ QuerySent(t) < now
  /\ UNCHANGED <<now, running, conn, lastError, counter, scrape, pools>>

\* ndbinfoDiskWriteSpeedTaskLastError = fmt.Errorf(...); return
TaskRecordFailure(t) ==
  /\ TaskGoes(t, "fail", [task[t] EXCEPT !.pc = "exit"])
  /\ lastError' = task[t].db
  /\ UNCHANGED <<now, running, conn, counter, scrape, pools>>

\* ndbinfoDiskWriteSpeedTaskLastError = nil
TaskRecordSuccess(t) ==
  /\ TaskGoes(t, "ok", [task[t] EXCEPT !.pc = "add"])
  /\ lastError' = NULL
  /\ UNCHANGED <<now, running, conn, counter, scrape, pools>>

Pending(t) == {k \in Keys : task[t].update[k] > 0}

\* Mutant: the old value of the entry is lost.
TaskAddRead_Replaces(t, k) ==
  /\ TaskGoes(t, "add",
              [task[t] EXCEPT !.pc = "write",
                              !.key = k,
                              !.entry = [NoSamples EXCEPT
                                          ![task[t].db] = task[t].update[k]]])
  /\ k \in Pending(t)
  /\ UNCHANGED <<now, running, conn, lastError, counter, scrape, pools>>

\* add: entry, ok := self[key]; entry.backupLcp += ...
TaskAddRead(t, k) ==
  /\ TaskGoes(t, "add",
              [task[t] EXCEPT !.pc = "write",
                              !.key = k,
                              !.entry = [counter[k] EXCEPT
                                          ![task[t].db] = @ + task[t].update[k]]])
  /\ k \in Pending(t)
  /\ UNCHANGED <<now, running, conn, lastError, counter, scrape, pools>>

\* add: self[key] = entry
TaskAddWrite(t) ==
  /\ TaskGoes(t, "write",
              [task[t] EXCEPT !.pc = "add", !.update[task[t].key] = 0])
  /\ counter' = [counter EXCEPT ![task[t].key] = task[t].entry]
  /\ UNCHANGED <<now, running, conn, lastError, scrape, pools>>

\* The loop goes back to the ticker.
TaskTickDone(t) ==
  /\ TaskGoes(t, "add", [task[t] EXCEPT !.pc = "wait"])
  /\ Pending(t) = {}
  /\ UNCHANGED <<now, running, conn, lastError, counter, scrape, pools>>

\* defer: ndbinfoDiskWriteSpeedTaskRunning = false
TaskExit(t) ==
  /\ TaskGoes(t, "exit", [task[t] EXCEPT !.pc = "exit2"])
  /\ running' = FALSE
  /\ UNCHANGED <<now, conn, lastError, counter, scrape, pools>>

\* defer: ndbinfoDiskWriteSpeedTaskConn = nil.  The pool is not closed.
TaskForgetConn(t) ==
  /\ TaskGoes(t, "exit2", FreeTask)
  /\ conn' = NULL
  /\ UNCHANGED <<now, running, lastError, counter, scrape, pools>>

-----------------------------------------------------------------------------
(* The runtime *)

\* The Go runtime kills the process when it notices that a map is written
\* while it is walked or written by another goroutine.  It need not notice.
MapRace ==
  \E t \in Tasks :
    /\ task[t].pc = "write"
    /\ \/ ServersCounted # {} /\ \E s \in Scrapers : scrape[s].pc = "ranging"
       \/ \E u \in Tasks \ {t} : task[u].pc = "write"

MapFault ==
  /\ MapRace
  /\ crashed' = "map fault"
  /\ UNCHANGED <<now, running, conn, lastError, counter, task, scrape, pools>>

\* Goroutines that wait for time to pass; every other one acts at once.
TaskWaits(t) ==
  \/ task[t].pc = "free"
  \/ task[t].pc = "connect" /\ now < task[t].due + Interval
  \/ task[t].pc = "wait" /\ now < task[t].due
  \/ task[t].pc = "query" /\ now < task[t].limit
ScrapeWaits(s) ==
  \/ scrape[s].pc \in {"idle", "succeeded", "failed"}
  \/ scrape[s].pc = "aggregate" /\ now < scrape[s].last + Interval

\* Bound: the clock stops at MaxTime.  A connection attempt and an aggregate
\* query end within Interval (15 of 30 seconds in the code for the former).
Clock ==
  /\ now < MaxTime
  /\ \A t \in Tasks : TaskWaits(t)
  /\ \A s \in Scrapers : ScrapeWaits(s)
  /\ now' = now + 1
  /\ UNCHANGED <<running, conn, lastError, counter, task, scrape, pools>>

ScrapeStep(s) ==
  \/ \E x \in Targets : ScrapeBegin(s, x)
  \/ ScrapeCheckRunning(s)
  \/ \E t \in Tasks : ScrapeSpawn(s, t)
  \/ ScrapeCheckError(s) \/ ScrapeTakeError(s) \/ ScrapeClearError(s)
  \/ ScrapeRangeStart(s) \/ ScrapeRangeEnd(s) \/ ScrapeAggregate(s)

TaskStep(t) ==
  \/ TaskBegin(t) \/ TaskConnect(t) \/ TaskConnectFails(t)
  \/ TaskTick(t) \/ TaskQueryOk(t) \/ TaskQueryFails(t)
  \/ TaskRecordFailure(t) \/ TaskRecordSuccess(t)
  \/ \E k \in Keys : TaskAddRead(t, k)
  \/ TaskAddWrite(t) \/ TaskTickDone(t)
  \/ TaskExit(t) \/ TaskForgetConn(t)

\* The end of a bounded behaviour, so that any other stop is a deadlock.
End == (crashed # "no" \/ now = MaxTime) /\ UNCHANGED vars

Next ==
  \/ /\ crashed = "no"
     /\ \/ /\ \/ \E s \in Scrapers : ScrapeStep(s)
              \/ \E t \in Tasks : TaskStep(t)
              \/ Clock
           /\ UNCHANGED crashed
        \/ \E t \in Tasks : TaskTickNil(t)
        \/ MapFault
  \/ End

Spec == Init /\ [][Next]_vars
-----------------------------------------------------------------------------
(* Properties that hold whatever the scrapes do *)

\* TaskRunning is never left TRUE by a goroutine that is gone: if it were, no
\* scrape would ever start the task again (the deferred reset, line 179).
RunningHasTask == running => \E t \in Tasks : task[t].pc \in LivePCs

\* A tick's query is over before the next tick is due, whatever the server
\* does, so the ticker never drops one (the timeout of interval - 1 second).
TickEndsInTime ==
  \A t \in Tasks :
    task[t].pc \in {"query", "ok", "add", "write"} => now < task[t].due

(* Properties that hold when scrapes do not overlap *)

\* Two background goroutines never poll at the same time, though the flag that
\* should prevent it is tested by the scrape (232) and set by the task (177).
AtMostOneTask ==
  Cardinality({t \in Tasks : task[t].pc \notin {"free", "exit2"}}) <= 1

\* Between its connection and its exit a task finds its own pool in TaskConn:
\* the reset of the task before it (180) never hits the new pool.
OwnPool ==
  \A t \in Tasks :
    task[t].pc \in LivePCs \ {"connect", "exit"} => conn = task[t].target

\* Both ways the process can die need a walk and a write at the same time;
\* a nil TaskConn is never dereferenced (133).
NoNilPool == crashed # "nil pool"

SampleTotal(k) == SumFunctionOnSet(counter[k], Targets)

\* "Number of bytes written": the counter never holds more one-second samples
\* of a thread than seconds have passed, over ticks, failures and restarts.  It
\* bounds the total; a second counted twice for another that was lost, as a query
\* that drifts can do, is within it.
CounterNotInflated == \A k \in Keys : SampleTotal(k) <= now

\* The exported counters never go back (a Prometheus CounterValue).
CounterMonotone ==
  [][\A k \in Keys, x \in Targets : counter'[k][x] >= counter[k][x]]_vars

\* A recorded failure only goes away when a scrape returns that very failure:
\* it is not overwritten by a later success (205) or cleared unread (241).
FailureReported ==
  [][lastError # NULL /\ lastError' # lastError =>
       \E s \in Scrapers : /\ scrape[s].err = lastError
                           /\ scrape[s].pc = "clear" /\ scrape'[s].pc = "failed"]_vars

\* A scrape that returns nil has sent the counters: the second read of
\* LastError (239) sees what the first one (238) saw.
SuccessShows == \A s \in Scrapers : scrape[s].pc = "succeeded" => scrape[s].shown

(* What the documentation says *)

\* exporter.go:177, "collects metrics from the target": the counters sent to a
\* request are those of the server it names.
ShowsItsTarget ==
  \A s \in Scrapers : scrape[s].shown => scrape[s].seen \subseteq {scrape[s].target}

\* README.md:187, "the pool is per scrape request": a pool lives no longer than
\* the goroutine it was opened for.
PoolsHaveTasks ==
  pools <= Cardinality({t \in Tasks : task[t].pc \in LivePCs \cup {"exit2"}})
=============================================================================
