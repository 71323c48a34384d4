------------------------------ MODULE Exporter ------------------------------
(***************************************************************************)
(* One request: Exporter.Collect and scrape of collector/exporter.go with  *)
(* the connection pool of collector/instance.go.  The exporter opens a     *)
(* pool, reads the server version, pings, starts one goroutine per scraper *)
(* the version allows, waits for all of them, closes the pool and sends    *)
(* "up".                                                                   *)
(*                                                                         *)
(* The steps race with the request context (Prometheus's timeout header, a *)
(* client that hangs up) and with a context per step (the query timeout).  *)
(* Time is discrete: steps in memory take none, the clock advances only    *)
(* when every goroutine waits, and a call to the server takes at least one *)
(* unit.  database/sql and the driver are external; what is assumed of     *)
(* them is that a call returns when its context is done and that a free    *)
(* connection goes to some goroutine that waits for one.                   *)
(***************************************************************************)
EXTENDS Integers, FiniteSets

CONSTANTS
  Scrapers,        \* the scrapers the request selected
  Since,           \* [Scrapers -> Nat]: the scraper's Version()
  Queries,         \* [Scrapers -> Nat]: queries its Scrape sends, in sequence
  Tolerant,        \* scrapers that go on after a query failed (slave_status)
  Slow,            \* scrapers whose queries may take any time
  Versions,        \* server versions
  MaxOpenConns,    \* --exporter.max_open_connections
  QueryTimeout,    \* --exporter.query_timeout, 0 when disabled
  RequestTimeout,  \* the header's timeout minus the offset, 0 when absent
  Faults,          \* what may go wrong: see FaultKinds
  MaxTime          \* bound on the clock

\* dsn: sql.Open rejects the DSN.  server: a call to the server fails.
\* rows: a result breaks off.  client: the HTTP client hangs up.
FaultKinds == {"dsn", "server", "rows", "client"}

ASSUME SinceAssumption    == Since \in [Scrapers -> Nat]
ASSUME QueriesAssumption  == Queries \in [Scrapers -> Nat]
ASSUME TolerantAssumption == Tolerant \subseteq Scrapers
ASSUME SlowAssumption     == Slow \subseteq Scrapers
ASSUME VersionsAssumption == Versions \subseteq Nat
ASSUME FiniteAssumption   == IsFiniteSet(Scrapers)
\* validateExporterFlags
ASSUME FlagsAssumption    == MaxOpenConns \in Nat \ {0} /\ QueryTimeout \in Nat
ASSUME HeaderAssumption   == RequestTimeout \in Nat
ASSUME FaultsAssumption   == Faults \subseteq FaultKinds
ASSUME TimeAssumption     == MaxTime \in Nat

VARIABLES
  now,      \* the clock
  gone,     \* the client hung up: the request context is cancelled
  pc,       \* where Collect is
  began,    \* when its current step's context was made
  version,  \* instance.versionMajorMinor
  todo,     \* scrapers the loop has not come to
  sc,       \* the scraper goroutines
  db,       \* the pool
  ret,      \* what scrape returns
  result,   \* collector_success metrics sent
  up        \* the up metric sent

vars == <<now, gone, pc, began, version, todo, sc, db, ret, result, up>>

PCs == {"open", "version", "ping", "connected", "spawn", "wait", "close",
        "up", "done"}
ScraperPCs == {"off", "skipped", "started", "acquire", "query", "rows",
               "report", "reported", "finished"}
Values == {"waiting", "good", "bad"}

ScraperState ==
  [pc    : ScraperPCs,
   began : Nat,            \* when its query timeout context was made
   sent  : Nat,            \* when its current query was sent
   left  : Nat,            \* queries it has still to send
   ok    : BOOLEAN,        \* collectorSuccess
   whole : BOOLEAN]        \* no result of it broke off

TypeOK ==
  /\ now \in Nat
  /\ gone \in BOOLEAN
  /\ pc \in PCs
  /\ began \in Nat
  /\ version \in Nat
  /\ todo \subseteq Scrapers
  /\ sc \in [Scrapers -> ScraperState]
  /\ db \in {"none", "open", "closed"}
  /\ ret \in Values
  /\ result \in [Scrapers -> Values]
  /\ up \in Values

Init ==
  /\ now = 0
  /\ gone = FALSE
  /\ pc = "open"
  /\ began = 0
  /\ version = 0
  /\ todo = Scrapers
  /\ sc = [s \in Scrapers |->
             [pc |-> "off", began |-> 0, sent |-> 0, left |-> Queries[s],
              ok |-> TRUE, whole |-> TRUE]]
  /\ db = "none"
  /\ ret = "waiting"
  /\ result = [s \in Scrapers |-> "waiting"]
  /\ up = "waiting"

-----------------------------------------------------------------------------
(* Contexts and connections *)

\* The request context: r.Context() with the header's timeout.
RequestDone == gone \/ (RequestTimeout > 0 /\ now >= RequestTimeout)

\* Mutant: the query timeout is not applied.
CtxDone_RequestOnly(t) == RequestDone

\* withQueryTimeoutContext, for a context made at time t
CtxDone(t) == RequestDone \/ (QueryTimeout > 0 /\ now >= t + QueryTimeout)

Holders == {s \in Scrapers : sc[s].pc \in {"query", "rows"}}

\* Mutant: every pool has one connection, as before 0.20.0.
ConnFree_One == Holders = {}

ConnFree == Cardinality(Holders) < MaxOpenConns

-----------------------------------------------------------------------------
(* Collect and scrape *)

\* newInstance: sql.Open and the pool limits.  No connection is made yet.
Open ==
  /\ pc = "open"
  /\ pc' = "version" /\ began' = now /\ db' = "open"
  /\ UNCHANGED <<now, gone, version, todo, sc, ret, result, up>>

OpenFails ==
  /\ pc = "open"
  /\ "dsn" \in Faults
  /\ pc' = "up" /\ ret' = "bad"
  /\ UNCHANGED <<now, gone, began, version, todo, sc, db, result, up>>

\* newInstance: queryVersion answers and the version parses.
ReadVersion(v) ==
  /\ pc = "version"
  /\ began < now /\ ~CtxDone(began)
  /\ version' = v
  /\ pc' = "ping" /\ began' = now
  /\ UNCHANGED <<now, gone, todo, sc, db, ret, result, up>>

\* Mutant: newInstance returns without closing the pool.
ReadVersionFails_NoClose ==
  /\ pc = "version"
  /\ CtxDone(began) \/ (began < now /\ "server" \in Faults)
  /\ pc' = "up" /\ ret' = "bad"
  /\ UNCHANGED <<now, gone, began, version, todo, sc, db, result, up>>

\* newInstance: the query fails or the version does not parse; db.Close.
ReadVersionFails ==
  /\ pc = "version"
  /\ CtxDone(began) \/ (began < now /\ "server" \in Faults)
  /\ pc' = "up" /\ db' = "closed" /\ ret' = "bad"
  /\ UNCHANGED <<now, gone, began, version, todo, sc, result, up>>

Ping ==
  /\ pc = "ping"
  /\ began < now /\ ~CtxDone(began)
  /\ pc' = "connected"
  /\ UNCHANGED <<now, gone, began, version, todo, sc, db, ret, result, up>>

\* Ping closes the pool itself; the deferred Close then closes it again.
PingFails ==
  /\ pc = "ping"
  /\ CtxDone(began) \/ (began < now /\ "server" \in Faults)
  /\ pc' = "close" /\ db' = "closed" /\ ret' = "bad"
  /\ UNCHANGED <<now, gone, began, version, todo, sc, result, up>>

\* The duration of "connection" is sent and the loop starts.
Connected ==
  /\ pc = "connected"
  /\ pc' = "spawn"
  /\ UNCHANGED <<now, gone, began, version, todo, sc, db, ret, result, up>>

\* if version < scraper.Version() { continue }
Skip(s) ==
  /\ pc = "spawn" /\ s \in todo
  /\ version < Since[s]
  /\ todo' = todo \ {s}
  /\ sc' = [sc EXCEPT ![s].pc = "skipped"]
  /\ UNCHANGED <<now, gone, pc, began, version, db, ret, result, up>>

\* wg.Go
Spawn(s) ==
  /\ pc = "spawn" /\ s \in todo
  /\ version >= Since[s]
  /\ todo' = todo \ {s}
  /\ sc' = [sc EXCEPT ![s].pc = "started"]
  /\ UNCHANGED <<now, gone, pc, began, version, db, ret, result, up>>

\* Mutant: wg.Wait is not deferred.
Return_NoWait ==
  /\ pc = "spawn" /\ todo = {}
  /\ pc' = "close" /\ ret' = "good"
  /\ UNCHANGED <<now, gone, began, version, todo, sc, db, result, up>>

\* return 1.0: the deferred wg.Wait runs first.
Return ==
  /\ pc = "spawn" /\ todo = {}
  /\ pc' = "wait" /\ ret' = "good"
  /\ UNCHANGED <<now, gone, began, version, todo, sc, db, result, up>>

Wait ==
  /\ pc = "wait"
  /\ \A s \in Scrapers : sc[s].pc \in {"skipped", "finished"}
  /\ pc' = "close"
  /\ UNCHANGED <<now, gone, began, version, todo, sc, db, ret, result, up>>

\* The deferred instance.Close.
Close ==
  /\ pc = "close"
  /\ pc' = "up" /\ db' = "closed"
  /\ UNCHANGED <<now, gone, began, version, todo, sc, ret, result, up>>

\* Collect sends up with the value scrape returned.
Up ==
  /\ pc = "up"
  /\ pc' = "done" /\ up' = ret
  /\ UNCHANGED <<now, gone, began, version, todo, sc, db, ret, result>>
-----------------------------------------------------------------------------
(* The scraper goroutines *)

\* What a goroutine that has returned from Scrape goes on with.
Returned(p, ok) == [p EXCEPT !.pc = "report", !.ok = ok]

\* Mutant: a sequence of fallback queries that does not end.
NextQuery_Repeats(p) == [p EXCEPT !.pc = "acquire", !.left = @ - 1]

\* The rest of Scrape after one query: the next one, or return nil.
NextQuery(p) ==
  IF p.left > 1 THEN [p EXCEPT !.pc = "acquire", !.left = @ - 1]
  ELSE [Returned(p, TRUE) EXCEPT !.left = 0]

\* A step of goroutine s, from pc to state p.
Step(s, from, p) ==
  /\ sc[s].pc = from
  /\ sc' = [sc EXCEPT ![s] = p]
  /\ UNCHANGED <<now, gone, pc, began, version, todo, db, ret, result, up>>

\* The goroutine makes its own context and calls Scrape.
Start(s) ==
  Step(s, "started",
       IF Queries[s] = 0
       THEN [Returned(sc[s], TRUE) EXCEPT !.began = now]
       ELSE [sc[s] EXCEPT !.pc = "acquire", !.began = now])

\* Mutant: each query gets a timeout of its own.
Acquire_NewContext(s) ==
  /\ ConnFree /\ ~CtxDone(sc[s].began)
  /\ Step(s, "acquire", [sc[s] EXCEPT !.pc = "query", !.sent = now, !.began = now])

\* The pool hands out a connection, and the query is sent on it.
Acquire(s) ==
  /\ ConnFree /\ ~CtxDone(sc[s].began)
  /\ Step(s, "acquire", [sc[s] EXCEPT !.pc = "query", !.sent = now])

\* An error from the query: returned, or, by a tolerant scraper, ignored.
AfterError(s) ==
  {Returned(sc[s], FALSE)} \cup
  (IF s \in Tolerant THEN {Returned(sc[s], TRUE), NextQuery(sc[s])} ELSE {})

\* The context is done while the goroutine waits for a connection.
AcquireFails(s) ==
  /\ CtxDone(sc[s].began)
  /\ \E p \in AfterError(s) : Step(s, "acquire", p)

\* The query fails on the server, or the context is done before its answer.
QueryFails(s) ==
  /\ CtxDone(sc[s].began) \/ (sc[s].sent < now /\ "server" \in Faults)
  /\ \E p \in AfterError(s) : Step(s, "query", p)

QueryAnswers(s) ==
  /\ sc[s].sent < now /\ ~CtxDone(sc[s].began)
  /\ Step(s, "query", [sc[s] EXCEPT !.pc = "rows"])

\* The last row is read and sent.  Scrape may also find nothing more to do
\* (userstat or log_bin is off) and return nil.
RowsEnd(s) ==
  \E p \in {NextQuery(sc[s]), Returned(sc[s], TRUE)} : Step(s, "rows", p)

\* A row does not scan: Scrape returns the error.
ScanFails(s) ==
  /\ "server" \in Faults
  /\ Step(s, "rows", Returned(sc[s], FALSE))

\* The result breaks off.  rows.Next returns false and no scraper asks
\* rows.Err, so Scrape goes on as after the last row.
RowsCut(s) ==
  /\ CtxDone(sc[s].began) \/ "rows" \in Faults
  /\ Step(s, "rows", [NextQuery(sc[s]) EXCEPT !.whole = FALSE])

\* Mutant: no collector_success after an error.
Report_OnlySuccess(s) ==
  /\ sc[s].pc = "report"
  /\ sc' = [sc EXCEPT ![s].pc = "reported"]
  /\ result' = [result EXCEPT ![s] = IF sc[s].ok THEN "good" ELSE @]
  /\ UNCHANGED <<now, gone, pc, began, version, todo, db, ret, up>>

\* ch <- collector_success
Report(s) ==
  /\ sc[s].pc = "report"
  /\ sc' = [sc EXCEPT ![s].pc = "reported"]
  /\ result' = [result EXCEPT ![s] = IF sc[s].ok THEN "good" ELSE "bad"]
  /\ UNCHANGED <<now, gone, pc, began, version, todo, db, ret, up>>

\* ch <- collector_duration_seconds; cancel; the WaitGroup is told.
Finish(s) == Step(s, "reported", [sc[s] EXCEPT !.pc = "finished"])

-----------------------------------------------------------------------------
(* The environment, the next-state relation and its fairness *)

Disconnect ==
  /\ "client" \in Faults
  /\ ~gone /\ pc # "done"
  /\ gone' = TRUE
  /\ UNCHANGED <<now, pc, began, version, todo, sc, db, ret, result, up>>

\* Who waits for the server, for a connection or for the others.  The server
\* answers a query of a scraper that is not slow after one unit.
CollectWaits ==
  \/ pc \in {"version", "ping"} /\ ~CtxDone(began)
  \/ pc = "wait" /\ \E s \in Scrapers : sc[s].pc \notin {"skipped", "finished"}
ScraperWaits(s) ==
  \/ sc[s].pc \in {"off", "skipped", "finished"}
  \/ sc[s].pc = "acquire" /\ ~ConnFree /\ ~CtxDone(sc[s].began)
  \/ sc[s].pc = "query" /\ ~CtxDone(sc[s].began) /\ (s \in Slow \/ now = sc[s].sent)
  \/ sc[s].pc = "rows" /\ ~CtxDone(sc[s].began) /\ s \in Slow

Clock ==
  /\ now < MaxTime
  /\ CollectWaits
  /\ \A s \in Scrapers : ScraperWaits(s)
  /\ now' = now + 1
  /\ UNCHANGED <<gone, pc, began, version, todo, sc, db, ret, result, up>>

Collect ==
  \/ Open \/ OpenFails
  \/ \E v \in Versions : ReadVersion(v)
  \/ ReadVersionFails
  \/ Ping \/ PingFails \/ Connected
  \/ \E s \in Scrapers : Skip(s) \/ Spawn(s)
  \/ Return \/ Wait \/ Close \/ Up

Scraper(s) ==
  \/ Start(s) \/ Acquire(s) \/ AcquireFails(s)
  \/ QueryFails(s) \/ QueryAnswers(s)
  \/ RowsEnd(s) \/ ScanFails(s) \/ RowsCut(s)
  \/ Report(s) \/ Finish(s)

\* The end of the request, or of the bounded clock.
End == (pc = "done" \/ now = MaxTime) /\ UNCHANGED vars

Next == Collect \/ (\E s \in Scrapers : Scraper(s)) \/ Disconnect \/ Clock \/ End

Spec == Init /\ [][Next]_vars

\* What happens without the server: goroutines run, contexts expire, time
\* passes.  Nothing says that the server ever answers.
CollectRuns ==
  \/ Open \/ Connected \/ Return \/ Wait \/ Close \/ Up
  \/ \E s \in Scrapers : Skip(s) \/ Spawn(s)
  \/ CtxDone(began) /\ (ReadVersionFails \/ PingFails)
ScraperRuns(s) ==
  \/ Start(s) \/ Acquire(s) \/ Report(s) \/ Finish(s)
  \/ AcquireFails(s)
  \/ CtxDone(sc[s].began) /\ (QueryFails(s) \/ RowsCut(s))

FairSpec ==
  /\ Spec
  /\ WF_vars(CollectRuns)
  /\ \A s \in Scrapers : WF_vars(ScraperRuns(s))
  /\ WF_vars(Clock)

-----------------------------------------------------------------------------
(* Properties *)

\* No goroutine uses the pool once it is closed: instance.Close is deferred
\* before wg.Wait and so runs after it, also when Ping has closed it early.
NoUseAfterClose ==
  (\E s \in Scrapers : sc[s].pc \in {"started", "acquire", "query", "rows"})
    => db = "open"

\* Collect never ends with its pool open, on whichever of its paths: sql.Open
\* fails, newInstance closes, Ping closes, the deferred Close.
PoolClosed == pc = "done" => db # "open"

\* The version query, the ping and the scrapers each have one query timeout,
\* however many queries a scraper sends and however long it waits for a
\* connection, and all of them have the request's.
AnswersInTime ==
  pc # "done" => /\ QueryTimeout > 0 => now <= 3 * QueryTimeout
                 /\ RequestTimeout > 0 => now <= RequestTimeout

\* TestSlowScraperDoesNotBlockFastScraper; CHANGELOG.md:18, "a single slow
\* scraper cannot cancel the others": without faults only slow ones fail.
FastScrapersSucceed == \A s \in Scrapers \ Slow : result[s] # "bad"

\* exporter.go:52, "Whether a collector succeeded": a collector that reports
\* success has sent every row of every query it made.
SuccessIsWhole == \A s \in Scrapers : result[s] = "good" => sc[s].whole

\* With a timeout the request ends, whatever the server does.
Terminates == <>(pc = "done")

\* Exporter keeps the promise of ScrapeContract.
Contract == INSTANCE ScrapeContract WITH
  Waiting <- "waiting", Good <- "good", Bad <- "bad",
  started <- {s \in Scrapers : sc[s].pc \notin {"off", "skipped"}}
KeepsContract == Contract!Spec
=============================================================================
