# A TLA+ development of mysqld_exporter

mysqld_exporter serves Prometheus metrics of MySQL servers. A request names a
target and a section of the configuration file; the exporter opens a connection
pool to the target, runs a set of *scrapers* concurrently on it and answers with
what they send. This fork adds scrapers for `ndbinfo`, one of which keeps a
background task between requests.

The modules model the parts of the program that have state, concurrency or
failure paths of their own. TLC checks them on small instances, TLAPS proves the
theorems listed below for all values of the constants.

## Inventory

| Component | State | Operations | Interacts with | Hard behaviours | What makes it correct |
|---|---|---|---|---|---|
| Disk write speed task (`collector/ndbinfo_disk_write_speed.go`) | four package variables: flag, pool, last error, counter map; a goroutine with a ticker | start, connect, tick, query, add, exit; `Scrape` | every request that runs the scraper | no locks at all; check-then-act; failure of a tick; a pool that nobody closes; partial results | one task; it uses its own pool; no counter ahead of the clock; counters never fall; a failure is reported; the flag never sticks |
| Exporter (`collector/exporter.go`) | context, wait group, result channel | `Collect`, `scrape`, one goroutine per scraper | instance, all scrapers, the registry | header timeout, query timeout and client disconnect race with answers; order of the defers; scrapers queue for connections | every started collector reports once, before `up`; the pool is closed, and after its last use; the request ends in time; a success is a complete result |
| Instance (`collector/instance.go`) | `*sql.DB` | `newInstance`, `Ping`, `Close` | Exporter, the background task | several error paths, double close | no path leaks the pool |
| Configuration (`config/config.go`) | current configuration, package variable `err`, gauges, TLS registry of the driver | `ReloadConfig`, `GetConfig`, `FormDSN`, `CustomizeTLS` | handlers | overlapping reloads and requests; bad sections; a name resolved later than it is registered | a usable configuration is always in force; it has the good sections of its file and no others; a reload is answered truthfully; requests do not disturb each other; TLS settings of the right section |
| Handlers (`mysqld_exporter.go`, `probe.go`) | `err` of `main` | `newHandler`, `handleProbe`, `/-/reload`, `filterScrapers`, `getScrapeTimeoutSeconds` | configuration, Exporter | two handlers with different error handling; float arithmetic of the timeout | a request is refused or served for the right reason |
| Fallback scrapers (`slave_status.go`, `slave_hosts.go`, `info_schema_replica_host.go`, and the checks of `info_schema_userstats.go`, `info_schema_query_response_time.go`, `binlog.go`) | open results | query variants in sequence, or a check before the query | the pool of the request, other scrapers | a variant that succeeds late, a result left open, an error taken for "not there" | what the server has is read; nil means read; lost results do not stop the pool |
| `ndbinfo_transporters.go` | package flag `ScrapeEncrypted` | query, fall back, scan | other scrapes, of all targets | flag flipped by any error, on any target, and read again | columns match the query in every scrape that the flag does not overtake; the column is not lost without a cause |
| Row carriers (`binlog.go`, `ndbinfo_files.go`) | variables outside the row loop | scan, send | | values carried over, results that break off, index after the loop | each row sends the values it names; what is sent together is of the same rows |
| Histograms (`ndbinfo.go`, the two `*_time_track_stats`, `info_schema_query_response_time.go`), `info_schema_processlist.go` | maps filled from rows | aggregate, send | | order dependence, 32-bit sums | buckets are cumulative; sums are sums |
| Other table scrapers | none | one query, one pass over its rows | pool | cut results, equal series | complete; series are unique |

No scraper reads `rows.Err` after its loop, which is why `Exporter`, `Fallbacks`,
`Rows`, `Server` and `DiskWriteSpeed` treat every prefix of a result as a possible success.

## Modules

| Module | What it is |
|---|---|
| `DiskWriteSpeed` | the background task, its variables and the `Scrape` calls |
| `Exporter` | one request from `Collect` to `up` |
| `ScrapeContract` | what one request promises to the registry; `Exporter` implements it |
| `Config` | configuration, reloads and requests up to the opening of the pool |
| `Tables` | the 60 scrapers: version, plans, key, labels, families and types of what each sends |
| `Server` | one request from its parameters to its HTTP status, with the scrapers of `Tables` |
| `Fallbacks` | the scrapers with several queries, side by side on the connections of their requests |
| `Rows` | the scrapers that compute over the rows of a result |
| `MCDiskWriteSpeed`, `MCExporter`, `MCConfig`, `MCServer`, `MCFallbacks`, `MCRows` | instances for TLC |
| `DiskWriteSpeedProofs`, `DiskWriteSpeedSlotProofs`, `ExporterProofs`, `ConfigProofs`, `ServerProofs`, `FallbacksProofs`, `RowsProofs` | theorems and proofs |
| `SumTheorems` | sums over finite sets, and induction in a form that the provers can use |

A definition named `X_Y` that stands before a definition `X` is `X` with a
plausible bug (a mutant). It is no part of a specification; it shows that a
property notices the bug.

### DiskWriteSpeed

One state variable per package variable (`running`, `conn`, `lastError`,
`counter`), the goroutines (`task`), the `Scrape` calls (`scrape`), the pools
opened and not closed, and how the process died. Every read or write of a
shared variable is an action, so the model has every interleaving of the
unlocked accesses. `error` values are the server whose tick failed. The two words
of a Go interface are taken to be written together: a torn read is left out.

Bytes are abstracted to samples. `ndbinfo.disk_write_speed_base` has one row per
thread and second, a tick adds at most `Interval` of them per thread, so the
number of rows added can be held against the seconds that have passed. Samples are
kept apart by the server they come from.

Time: a step in memory takes none, `Clock` moves only when every goroutine waits
for a timer or the network, and a network operation takes at least one unit. This
is what makes scrapes that do not overlap safe: the goroutine that a scrape starts
sets the flag before the next request (at least a unit later) reads it. The code
relies on exactly that. A request slot serves at most one request per unit.

Not modelled here: the query of the aggregate table beyond its outcome, and the
loss or double counting of up to one query delay between ticks that drift (the
window of 30 rows is read when the query runs, not when the ticker fires). So
`CounterNotInflated` bounds the total of a thread by the clock; it does not say that
each second is counted once.

### Exporter

`pc` is where `Collect` is, `sc` holds the scraper goroutines. A scraper is a
number of queries sent in sequence, a minimal version and two attributes: *slow*
(its queries may take any time) and *tolerant* (it goes on after a failed query,
as `slave_status` does). A tolerant scraper may go on, stop with success or
return the error, so that the fallback chains are all covered. `RowsCut` is a
result that breaks off: `rows.Next` returns false and the scraper goes on. The
pool is the number of goroutines that hold a connection against `MaxOpenConns`.
`database/sql` is assumed to return from a call when its context is done, and to
hand a free connection to some waiting goroutine.

### Config

`file` is the file on disk with a version; `Edit` changes it. A section is
reduced to what the code tells apart: absent, not mappable, rejected by
`validateConfig`, and valid with no, own or skipped TLS settings. A handler call
is a sequence of actions that splits at every access to something shared: the
configuration pointer (its critical sections are single accesses, so they are
single steps), the TLS registry, the `err` of package `config`, which `FormDSN`
assigns at line 235 and the deferred function of `ReloadConfig` reads at line 106
(the local `err` is declared after the function literal), and the `err` of
`main`, which the reload handler assigns and tests at line 354.

The initial state is that of a server whose first `ReloadConfig` succeeded; main
exits otherwise. The address of the flags parses in every reload, because it did
in the first. The timestamp gauge is left out: it is set with the success gauge.
Neither gauge is registered with a registry in this repository.

### Tables

A catalogue without state: `scrapers` is the map of `mysqld_exporter.go`. What is
kept of a scraper decides whether two of its rows, or rows of two scrapers, give
the same series: the columns that tell rows apart (those of `GROUP BY`, else the
columns that identify a row of the server's table, the one assumption here that
is not in the repository), the labels of a series, the columns that are a part of
the family's name, and the columns whose values the query or the program replaces
(`orElse`, `folded`). A flag that changes the query is another plan. Left out:
values and their parsing (`parseStatus`, `parsePrivilege`, states and phases as
numbers, dates), help texts, limits and exclusions in the text of a query.

### Server

One request. `Refuse` and `Accept` are the two handlers up to the choice of the
scrapers; `Connect` has a version of the server and drops the scrapers that are too
new; `Scrape` sends the rows of one scraper, all of them or some, and how it went;
`Gather` is the registry and `promhttp`, external code modelled from how it is used:
a series sent twice, or a family with two types, makes the whole answer an error.
Goroutines, connections and time inside a scrape are module `Exporter`'s; the
configuration is a set of sections here and module `Config`'s otherwise.

A header is absent, a number, no number, or a number that a `time.Duration` cannot
hold. The last is converted by a float-to-integer conversion whose result the
language leaves to the machine, so the deadline is then either passed at once or
none.

### Fallbacks

Scrapers of several requests run side by side. Each request has a server and a pool
of its own, since `/probe` names the target; `server` says what the server of a request
knows. A scraper of one of seven kinds is at a query (`at`: a statement and a suffix), waits
for a connection (`send`), for the answer (`sent`), or reads rows. `After` is
where each `Scrape` goes after an answer. `open` counts the results a scraper has
open, lost ones included: in `slave_status` a suffix that succeeds leaves the inner
loop only, and the next statement replaces the variable that held the result.
`InUse` is what the pool has given away. `encrypted` is the package flag of
`ndbinfo_transporters.go`, read when the query is chosen, when the list of
variables is made and when a row is sent; each of the reads is a step. It is one flag
for all targets: a server without the column turns it off for those that have it, with
no failure, and a scrape that has asked for nine columns by then scans eight variables
and errs. `overtaken` records the scrapers that were at work when another turned the
flag off. `Served` and `MixedOnlyAcross` say that only these can err or mix forms, and
`ColumnSent` that the column is missing only after some scrape gave a reason.

`faults` counts the failures that a scraper meets: queries that its server knows and
that fail, and rows that cannot be scanned. A result that breaks off is read as far as
it goes (`RowsEnd` after any number of rows), and is no failure to the code; what the
scrapers make of the rows is module `Rows`, and so is the panic of `binlog_size` when
its result breaks off before the first row.

The data race on that flag is taken as interleaved single accesses of a bool. Rows
that `ndbinfo.transporters` leaves out (links configured and not connected) are
counted as sent. The driver is external: a query ends by an answer, by one of the
two error codes that the code asks for, or by another error, and a context that is
done closes the results of its queries.

### Rows

A behaviour is one `Scrape` on one result: a step per row, then what comes after. A
result may break off after any row, or before the first: `rows.Next` is then false, nobody
reads `rows.Err`, and what comes after the rows is done with those read until then. This
is the same fact as `ExporterTruncated`, and the properties speak of the rows read, not
of those the server has. `var` holds the variables that live outside the loop. Sums of processlist have
`Width` bits as the code's have 32. `ArtificialSum` is doubled, since it is of halves.
The panic of `binlog_size` (no row read, or a name without a dot) ends the process; a
server that has binary logs gets there by a result that breaks off at once. What the
scraper has sent before goes with it.

Left out: rows of `SHOW SLAVE HOSTS` with five columns and an empty or malformed UUID,
which the code would take for rows of a server without UUIDs.

## Runs

| Run | Bounds | Result |
|---|---|---|
| `DiskWriteSpeedSequential` | one request slot, 2 servers, 2 goroutines, 2 threads, interval 3, history 4, time 12 | pass, 1.0 million states |
| `DiskWriteSpeedInflated` | 2 slots, time 8 | `CounterNotInflated` fails: two tasks |
| `ExporterTimeout` | 2 scrapers, one tolerant of up to three queries, 1 connection, query timeout 3, all faults, any query may be slow | pass, 50 thousand states |
| `ExporterFast` | 1 slow and 2 quick scrapers, 2 connections, no faults | pass, 52 thousand states |
| `ExporterTruncated` | a result may break off | `SuccessIsWhole` fails |
| `ConfigSequential` | 1 reload and 1 request at a time, 2 sections, all kinds of targets, 2 edits | pass, 2.1 million states |
| `ConfigConcurrent` | 2 requests and 1 reload, 2 sections, 1 edit | pass, 1.3 million states |
| `ConfigGauge` | 1 reload at a time | `GaugeTruthful` fails |
| `Server` | every scraper alone with each of its plans and two rows; each two scrapers together with one row each; both handlers with the targets, sections, headers and filters that matter; 2 versions | pass, 127 thousand states |
| `Fallbacks` | groups of two or three scrapers of one or two requests, a server of 5 kinds for each request, 2 connections, 1 failure for each scraper, 2 rows | pass, 524 thousand states |
| `FallbacksLockFree` | the same without failures | `LockFreeUsed` fails: the plain form is asked first |
| `Rows` | every result of up to three rows (two for `slave_hosts`) over two or three values in a column, three bounds, four lengths, sums of 3 bits, broken off anywhere | pass, 1.3 million states |

Why the bounds are enough: two slots and two or three goroutines give every
pairwise race on the unlocked variables; two generations of a task (a failed tick
and a restart) fit into the clock's bound, with a history longer than the
interval so that `sumLimit` matters; two scrapers on one connection and three on
two give queueing behind a slow one and behind a quick one; two versions of the file
give a reload between any two steps of a request. A run takes some of the kinds
of sections: `unmappable` and `invalid` are dropped in the same way, `skip`
differs from `plain` by a flag in the DSN, and each that matters is in one of the
two passing runs of `Config`. In `Server` a scraper can only meet itself or
another one, so one row for each of all and two rows for one alone are all the
ways to send a series twice. In `Fallbacks` the servers are those the code was
written for (MariaDB, Percona, two generations of MySQL Cluster, Aurora); two requests
have each pair of them, so that the flag falls by a failure, by the end of a request and
by a server without the column, at any step of another scrape. A failure of each scraper
falls at any query or row, and two connections are the default of the program;
the scrapers of a request that are not in a group only take connections, as
those in it do. Symmetry is used where the identities are
interchangeable and no liveness is checked.

`MaxTime` stops the clock, and `End` lets a behaviour stop there, so that a
deadlock anywhere else is found. `MaxEdits` bounds the edits of the file.

Fairness. `Exporter!FairSpec`: goroutines run, expired
contexts make the pending call return, and time passes. Nothing says that the
server ever answers, so a request ends because of its timeouts alone. Without any
timeout it need not end, and the program does not promise it.
`Fallbacks!FairSpec`: some goroutine that can run does (the scheduler of Go), and a
query that was sent is answered or fails. There is no fairness for the end of a
context, since without the header a request may have none; `Terminates` says that
the scrapers do not wait for connections that they have lost themselves. It needs
fewer failures of a scraper than connections, which is what `LostResultsNeedFaults`
says in another way: a lost result costs a failure of the scraper that loses it.

## What the violations show

Each run that fails is a statement of the repository that the code does not keep;
PROJECT.json quotes it.

* `DiskWriteSpeedInflated`: overlapping scrapes start two background tasks, and
  both add the same samples to the byte counters.
* `ExporterTruncated`: a result that breaks off is a success.
* `ConfigGauge`: the reload gauge ignores failed reloads.
* `FallbacksLockFree`: the lock-free form of `SHOW SLAVE STATUS` is tried only
  where the plain one fails.

Other properties hold in the runs above and fail when one constant is changed, or are
stated in a module and do not hold; no cfg is kept for these. Besides, with two
reloaders the one that read the older file can install it last, since the lock covers the
assignment only; nothing in the repository orders overlapping reloads, and there is no
property about it. `GoodSectionsInForce` speaks of each configuration by itself.

| Property | Change | What TLC then finds |
|---|---|---|
| `ShowsItsTarget` | as another invariant of `DiskWriteSpeedSequential` | the counters are those of the server whose request came first, for every target (`exporter.go:177` speaks of "the target") |
| `PoolsHaveTasks` | as another invariant of `DiskWriteSpeedSequential` | the pool of a task that ends after a failed tick stays open, one more for each restart (`README.md:187` of the repository: "The pool is per scrape request") |
| `SuccessShows` | `DiskWriteSpeedSequential` with 2 request slots | the last error is cleared between its test and its second read (line 239), and a scrape that sent nothing returns nil |
| `FastScrapersSucceed` | `ExporterFast` with `MaxOpenConns = 1` | quick scrapers spend their query timeout waiting for the connection of a slow one |
| `ReplyTruthful` | `ConfigSequential` with 2 reloaders | a failed reload is answered with ok: the handlers share `err` of `main` |
| `TargetJudged` | `ConfigSequential` with 2 requests | they share `err` of package `config` (line 235): a good target is refused or a bad one accepted |
| `SeriesUnique` | `Server` with `Aliases = TRUE` | a NULL and the literal that the query puts in its place, two file names that differ in a prefix, two variables that differ in punctuation: one series, and the answer is 500 |
| `OffsetIgnored` | as another invariant of `Server` | an offset that leaves no time takes the deadline away, where the comment at `mysqld_exporter.go:196` says that the offset is ignored |
| `Terminates` | `Fallbacks` with `MaxFaults = 2` | `slave_status` loses a result for each failed plain query, and waits for ever for the connections that it holds |

## Proofs

Every invariant and every action property that a passing run checks is also a
theorem. Each is proved for every value of the constants, under the named
assumptions of its module and, where the table below has one, a hypothesis of its
own. Sets that are summed over (scrapers of a request, servers of a counter, rows
and bounds) are finite; other sets of actors may be infinite.

| Hypothesis | Theorems | Why, and the run that meets it |
|---|---|---|
| `OneScraper`: at most one request slot | all of `DiskWriteSpeedSlotProofs` | nothing locks the variables of the task, and with two slots the properties are false (see above); `DiskWriteSpeedSequential` has one slot |
| `OneReloader` | `ReplyTruthfulHolds` | the same for two reloads; requests are not limited; `ConfigSequential` |
| `OneProbe` | `TargetJudgedHolds`, `TlsOfItsConfigHolds` | the same for two requests; reloads are not limited; `ConfigSequential` |
| `RoomForFast`: fewer slow scrapers than connections, fewer queries of fast ones than units in the query timeout, no failing server or client, no header | `FastScrapersSucceedHolds` | what must be so for a fast scraper not to wait too long; `ExporterFast` |
| `SuffixesAreExtra`: a server that knows a statement with a suffix knows the plain one | `LostResultsNeedFaultsHolds` | a suffix of `slave_status.go:84` is an extension of a statement of the server's; assumed of the servers of `MCFallbacks`, where TLC evaluates it |
| `CatalogueDistinct`: no two rows of a scraper, and no rows of two, send one series; a family has one type | `SeriesUniqueHolds` | facts about the 60 scrapers that are no matter of behaviour: `MCServer` assumes the part about two scrapers, which TLC evaluates, and each request of `Server` for one scraper compares its rows |

`Rows` also assumes what MySQL promises of a result (`ResultsAssumption`: the types of the
columns, each bound of a histogram at most once, response times in ascending order
and TOO LONG last). `MCRows` enumerates results of that kind.

Induction. The induction theorems of the library take an operator, which the
provers cannot instantiate. `SumTheorems` says the same of sets: a set of naturals
that has 0 and all successors is `Nat` (`SetInduction`, from the well-foundedness of
`<`), and a family with the empty set that grows by single elements has all parts of
a finite set (`SubsetInduction`). A proof defines the set of the values its claim holds
for. With these, the recursive function behind `SumFunctionOnSet` is shown to exist
and to be what its definition says (`SumsExist`, `SumsDefined`), and sums can be
taken apart, compared, updated, extended by zeros and reindexed. `CumExists` of `RowsProofs` is the same
for the loop of `MakeCumulative`.

* `ExporterProofs`: `IInv` is the conjunction of the types, of what is true at
  each `pc` of `Collect` (`Lifecycle`: goroutines exist only from the loop on, are
  over when the wait is over, the pool is open as long as they live), of what has
  been sent (`Outputs`) and of how old each pending context can be (`Timing`).
  None of the properties is inductive alone: that no goroutine uses a closed pool
  needs to know that the wait lies between the loop and the close; the bound of
  three query timeouts needs to know when each stage's context was made. The runs
  have a query timeout and no timeout in the header; `AnswersInTimeHolds` covers
  the header's, alone or together with the other. From
  `IInv` follow `NoUseAfterClose`, `PoolClosed`, `AnswersInTime` and the refinement
  `KeepsContract`. `FastScrapersSucceed` needs `OnTime`: the age of a fast scraper
  and the queries left to all of them, added up, are never more than the queries of
  all. The slow ones leave a connection free, so the clock cannot move while a fast
  scraper has a query to send and no other fast one has a query under way.
* `DiskWriteSpeedProofs`: types; `RunningHasTask`, inductive with the types, since
  only the reset of line 179 leaves the live part of the task; `TickEndsInTime`
  from `Timing`: a waiting task is not late, and a pending query's deadline is
  before the next tick.
* `DiskWriteSpeedSlotProofs`: `SlotInv` says what each task and the one scrape may assume of the
  variables at each step (`TaskOk`, `ScrapeOk`), and of two tasks that one is at its
  last steps or gone (`Apart`). It needs the clock: the task that a scrape starts has set the
  flag before the next request reads it. `AtMostOneTask`, `OwnPool`, `NoNilPool` and
  `SuccessShows` follow, and the action properties `CounterMonotone` and
  `FailureReported`. `CounterNotInflated` needs an account for each thread (`Accounts`):
  the samples that are counted or about to be added do not pass the last tick, over
  all servers and generations of the task.
* `ConfigProofs`: types, which include that what is in force passed validation;
  `ConfigUsable` from the same fact about configurations built and not yet
  installed; `GoodSectionsInForce`, for any number of reloads and requests, from `AllOfFile`:
  a configuration that carries the version on disk was made from what is there, wherever
  it is (built by a reload, in force, or held by a request), since an edit makes a new version; `TlsOfItsSection` from `RegistryInv`: a name is only ever bound to
  settings of the section of that name, and stays bound while a request that will
  look it up is on its way. `SoloReload` and `SoloProbes` say what the one reload and
  the one request have left in the two variables `err` and in the registry.
* `ServerProofs`: the status says nothing of how it came about, so `IInv` keeps what
  each phase has left behind: the deadline is one of those the header allows, and there is
  one where it leaves time (`DeadlineAllowed`), what is chosen is the result of the filter and, once there is
  a connection, the part of it that a version has, and nothing is left to scrape
  but what has reported. `EndsBeforePrometheus` and `AskedAnswer` follow, for any
  catalogue of requests, versions and any offset. `SeriesUnique` follows from
  `Unique`: what was sent came from scrapers that have reported, so that the next
  scraper meets none of its own. TLC has requests for one and for two scrapers; the
  theorem is why these are enough.
* `FallbacksProofs`: `IInv` has the types, the results read at each step
  (`ReadCounts`), the positions of `transporters`, the reasons for dropping the column, and
  `OneForm`: a scraper that the flag has not overtaken has asked for, scans and sends
  what the flag says. Lemmas say where each answer leads (`AfterTargets`) and what a
  step does to the scraper that takes it (`GoToEffect`). `NilMeansRead`,
  `ColumnSent` and `MixedOnlyAcross` follow for any servers, groups, limits
  and failures. `PInv` adds the pool: the sum of what the scrapers of a request
  hold is within the limit (`WithinPool`), and a step changes one term of it. That is the
  last part of `TypeOK`. `Accounted` charges each result that `slave_status` has
  lost to a failure of its own: `LostResultsNeedFaults`. `Serving` says of a scraper that
  has met no failure that the forms it has left behind are not known to its server, whatever
  the flag and the other requests do: `Served`.
* `RowsProofs`: an invariant for each kind of result says what the variables are
  after the rows so far (`FilesCarried`, `BinlogSoFar`, `ProcessesSoFar`,
  `ResponseTimesSoFar`, `HistogramSoFar`). `Conserved` says of a map that its numbers
  are the sum of what was added, less a multiple of the width: overflows are neither lost nor
  confused. For a helper's histogram, the loop of `MakeCumulative` is a sum over
  the bounds up to one (`CumulativeSoFar`), and that is a sum over the rows up to it,
  since each row has a bound of its own (`SumByBound`).

Only model-checked: both `Terminates` (liveness under fairness is out of reach of these
provers), and that the four properties of the violation runs fail.

## Plan

Done: `DiskWriteSpeed`, `Exporter` with `ScrapeContract`, `Config`, `Tables`, `Server`,
`Fallbacks` and `Rows`, and a proof of each safety property.

Left: proofs of weaker facts for overlapping requests, where the properties for one
slot fail: that two tasks inflate a counter by no more than their number, and that
each pool that the task opens belongs to a generation of it.

## Not modelled

* Parsing of values: `parseStatus`, `parsePrivilege`, the regular expressions of
  `global_status` and `engine_innodb`, states and phases as numbers. These are
  functions of one text; tests of the repository enumerate them.
* The version text and the flavor (`queryVersion`); sizes of results against the
  memory of the process.
* Flags, environment expansion, TLS version order, the landing page, log texts:
  plumbing without behaviour of its own.
* Sections whose names are those of TLS modes of the driver.
* Dashboards, alerts and build files: no behaviour of the program.
