------------------------------- MODULE Server -------------------------------
(***************************************************************************)
(* One request, from the parameters to the HTTP status: handleProbe and    *)
(* newHandler judge it, take a timeout from the header of Prometheus and   *)
(* choose scrapers; these send the series of module Tables; the registry   *)
(* gathers them, and one series sent twice turns the answer into an error. *)
(*                                                                         *)
(* What a request and its scrape share with others is in modules Config,   *)
(* DiskWriteSpeed and Fallbacks (the flag of the transporters), and here   *)
(* has no part, so one is enough.  What happens inside a scrape            *)
(* (goroutines, connections, time) is module Exporter's; here a scraper    *)
(* sends its rows in one step, all of them or some.                        *)
(***************************************************************************)
EXTENDS Tables, FiniteSets

CONSTANTS
  Requests,       \* the requests, and what they meet: the sections of the configuration
                  \* and the scrapers enabled
  Client,         \* authModule: the section of /metrics
  Offset,         \* the flag timeout-offset
  Versions,       \* versions of the server
  Aliases,        \* TRUE: columns hold values that are sent as one
  None            \* no deadline

ASSUME ServerAssumption ==
  /\ Offset \in Nat
  /\ None \notin Int
  /\ Requests \subseteq [handler : {"metrics", "probe"}, target : {"none", "good", "bad"},
                         section : STRING, sections : SUBSET STRING,
                         header : [kind : {"absent", "text", "huge", "number"}, seconds : Int],
                         filter : SUBSET STRING, enabled : SUBSET scrapers]

VARIABLES request, phase, deadline, chosen, up, sent, twice, reported, status

vars == <<request, phase, deadline, chosen, up, sent, twice, reported, status>>

-----------------------------------------------------------------------------
(* The parameters of a request *)

getScrapeTimeoutSeconds_Unchecked(header) ==
  CASE header.kind = "huge"   -> {None, 0}
    [] header.kind = "number" -> {header.seconds - Offset}
    [] OTHER                  -> {None}

getScrapeTimeoutSeconds_OffsetForgotten(header) ==
  CASE header.kind = "huge"                              -> {None, 0}
    [] header.kind = "number" /\ header.seconds > Offset -> {header.seconds}
    [] OTHER                                             -> {None}

\* A header that is no number gives an error and 0, NaN itself; so does one that leaves no time.
\* 0 is no deadline.  More seconds than a Duration holds overflow when they are
\* converted: what comes of it depends on the machine, at once or never.
getScrapeTimeoutSeconds(header) ==
  CASE header.kind = "huge"                              -> {None, 0}
    [] header.kind = "number" /\ header.seconds > Offset -> {header.seconds - Offset}
    [] OTHER                                             -> {None}

filterScrapers_KeepsAll(enabled, filter) ==
  LET named == {s \in enabled : s.name \in filter}
  IN  IF Cardinality(named) < Cardinality(filter) THEN enabled ELSE named

\* No filter, or none that is the name of a scraper: all.
filterScrapers(enabled, filter) ==
  LET named == {s \in enabled : s.name \in filter}
  IN  IF named = {} THEN enabled ELSE named

Section(r) == IF r.handler = "metrics" THEN Client ELSE r.section

\* FormDSN: a target needs a host and a port.  Without one the section's is taken.
FormDSN(r) == r.target # "bad"

-----------------------------------------------------------------------------
(* What a scraper sends *)

Cells == {"one", "two", "alias"}

\* A row differs from the first in some columns of the key.  Where the query or
\* the program replaces values, it may differ in the table and yet be sent alike.
OtherRows(res) ==
  {row \in [res.key -> Cells] :
     /\ \E c \in res.key : row[c] # "one"
     /\ \A c \in res.key :
          row[c] = "alias" => Aliases /\ c \in res.orElse \cup res.folded}

FirstRow(res) == [c \in res.key |-> "one"]

Shown(cell) == IF cell = "alias" THEN "one" ELSE cell

\* The series of a row.  Of a label outside the key nothing is assumed: the two
\* rows agree on it.  A row of alternatives is taken to send them all.
Series(res, row) ==
  LET value == [c \in res.labels \cup res.named |->
                  IF c \in res.key THEN Shown(row[c]) ELSE "one"]
  IN  {[family |-> <<s.family, [c \in res.named |-> value[c]]>>, type |-> s.type,
        labels |-> <<[c \in res.labels |-> value[c]], s.more>>] : s \in res.sends}

Row(res, row) == [result |-> res, row |-> row]

\* One row for each result, and a second one for one of them; the second only
\* when the scraper is alone: rows of two scrapers meet in their first ones.
Answers(plan) ==
  LET firsts == {Row(res, FirstRow(res)) : res \in plan}
  IN  {firsts} \cup
      (IF Cardinality(chosen) > 1 THEN {}
       ELSE UNION {{firsts \cup {Row(res, row)} : row \in OtherRows(res)} : res \in plan})

\* The metrics of Exporter itself, with the label collector.
Own(name, label) ==
  {[family |-> <<<<"exporter", name>>, <<>>>>, type |-> "gauge", labels |-> <<[collector |-> label], "">>]}

ScraperMetrics(s) ==
  {Own("collector_success", s.name), Own("collector_duration_seconds", s.name)}

AllSent(packets) == UNION packets

\* Some series of the packets come twice, among them or after what was sent.
Repeats(packets) ==
  \/ \E a, b \in packets : a # b /\ a \cap b # {}
  \/ AllSent(packets) \cap sent # {}

-----------------------------------------------------------------------------
(* The catalogue as a whole: with these, no request of any scrapers repeats a series *)

RowsOf(plan) == {Row(res, FirstRow(res)) : res \in plan}

SeriesOf(r) == Series(r.result, r.row)

PlansOf(s) == {s.plans[i] : i \in DOMAIN s.plans}

\* The rows of a scraper that is alone.
RowsDistinct ==
  \A s \in scrapers : \A plan \in PlansOf(s) : \A res \in plan :
    \A row \in {FirstRow(res)} \cup OtherRows(res) :
      \A q, r \in RowsOf(plan) \cup {Row(res, row)} :
        q # r => SeriesOf(q) \cap SeriesOf(r) = {}

\* The rows of two scrapers, whatever plans their flags choose.
ScrapersDistinct ==
  /\ \A s \in scrapers : s.name # "connection"
  /\ \A s, t \in scrapers : s # t =>
       /\ s.name # t.name
       /\ \A p \in PlansOf(s), o \in PlansOf(t) :
            \A q \in RowsOf(p), r \in RowsOf(o) : SeriesOf(q) \cap SeriesOf(r) = {}

SeriesOfAll ==
  UNION {UNION {SeriesOf(Row(res, row)) : row \in {FirstRow(res)} \cup OtherRows(res)} :
           res \in UNION UNION {PlansOf(s) : s \in scrapers}}

\* A family has one type, and none is of those of Exporter itself.
FamiliesTyped ==
  /\ \A a, b \in {<<x.family, x.type>> : x \in SeriesOfAll} : a[1] = b[1] => a[2] = b[2]
  /\ \A x \in SeriesOfAll : x.family[1][1] # "exporter"

-----------------------------------------------------------------------------

TypeOK ==
  /\ request \in Requests
  /\ phase \in {"judge", "connect", "scrape", "gather", "answered"}
  /\ deadline \in Nat \cup {None}
  /\ chosen \subseteq request.enabled
  /\ up \in {0, 1}
  /\ twice \in BOOLEAN
  /\ reported \subseteq {s.name : s \in chosen} \X {0, 1}
  /\ status \in {0, 200, 400, 500}

Init ==
  /\ request \in Requests
  /\ phase = "judge" /\ deadline = None /\ chosen = {} /\ up = 0
  /\ sent = {} /\ twice = FALSE /\ reported = {} /\ status = 0

\* handleProbe answers at once where it has no target, section or DSN.
Refusable ==
  \/ request.target = "none"
  \/ Section(request) \notin request.sections
  \/ ~FormDSN(request)

Refuse ==
  /\ phase = "judge" /\ request.handler = "probe" /\ Refusable
  /\ status' = 400 /\ phase' = "answered"
  /\ UNCHANGED <<request, deadline, chosen, up, sent, twice, reported>>

\* newHandler logs the same errors and goes on.
Accept ==
  /\ phase = "judge"
  /\ request.handler = "metrics" \/ ~Refusable
  /\ deadline' \in getScrapeTimeoutSeconds(request.header)
  /\ chosen' = filterScrapers(request.enabled, request.filter)
  /\ phase' = "connect"
  /\ UNCHANGED <<request, up, sent, twice, reported, status>>

Connect(version) ==
  /\ phase = "connect" /\ FormDSN(request) /\ deadline # 0
  /\ up' = 1 /\ phase' = "scrape"
  /\ chosen' = {s \in chosen : s.since <= version}
  /\ sent' = Own("collector_duration_seconds", "connection")
  /\ UNCHANGED <<request, deadline, twice, reported, status>>

\* The DSN of an error is empty; a deadline may pass; a server may be away.
ConnectFails ==
  /\ phase = "connect"
  /\ phase' = "gather" /\ chosen' = {}
  /\ UNCHANGED <<request, deadline, up, sent, twice, reported, status>>

Scrape(s, answer, success) ==
  LET packets == {Series(r.result, r.row) : r \in answer} \cup ScraperMetrics(s)
      same    == \E q, r \in answer :
                   q # r /\ Series(q.result, q.row) \cap Series(r.result, r.row) # {}
  IN  /\ phase = "scrape" /\ s \in chosen
      /\ <<s.name, 0>> \notin reported /\ <<s.name, 1>> \notin reported
      /\ sent' = sent \cup AllSent(packets)
      /\ twice' = (twice \/ same \/ Repeats(packets))
      /\ reported' = reported \cup {<<s.name, success>>}
      /\ UNCHANGED <<request, phase, deadline, chosen, up, status>>

Succeed(s) ==
  \E i \in DOMAIN s.plans : \E answer \in Answers(s.plans[i]) : Scrape(s, answer, 1)

\* An error ends a scraper after any of its rows.
Fail(s) ==
  \E i \in DOMAIN s.plans : \E answer \in Answers(s.plans[i]) :
    \E some \in SUBSET answer : Scrape(s, some, 0)

AllReported ==
  /\ phase = "scrape"
  /\ {r[1] : r \in reported} = {s.name : s \in chosen}
  /\ phase' = "gather"
  /\ UNCHANGED <<request, deadline, chosen, up, sent, twice, reported, status>>

\* Families of two types are an error of the registry as well.
MixedTypes ==
  \E a, b \in sent : a.family = b.family /\ a.type # b.type

\* promhttp with HandlerOpts{}: any error of Gather is the whole answer.
Gather ==
  /\ phase = "gather"
  /\ status' = IF twice \/ MixedTypes THEN 500 ELSE 200
  /\ phase' = "answered"
  /\ UNCHANGED <<request, deadline, chosen, up, sent, twice, reported>>

Done == phase = "answered" /\ UNCHANGED vars

Next ==
  \/ Refuse \/ Accept \/ ConnectFails \/ AllReported \/ Gather \/ Done
  \/ \E v \in Versions : Connect(v)
  \/ \E s \in chosen : Succeed(s) \/ Fail(s)

Spec == Init /\ [][Next]_vars

-----------------------------------------------------------------------------
(* Properties *)

\* Without aliases a request that is not refused is answered with its metrics: no two
\* rows of a scraper and no two scrapers send one series, whatever plans the flags
\* choose and wherever scrapers fail.  (Exporter.scrape, and every Scrape with its keys)
SeriesUnique == ~Aliases => status # 500

\* The metrics answered are those of the scrapers that were asked for, all enabled ones
\* if none was, and each that the server's version has says how it went.
\* (filterScrapers, and the version gate of Exporter.scrape)
AskedAnswer ==
  status = 200 =>
    /\ up = 1 => \E v \in Versions :
         LET hit   == {s \in request.enabled : s.name \in request.filter}
             asked == IF \E s \in request.enabled : s.name \in request.filter
                      THEN hit ELSE request.enabled
         IN  {r[1] : r \in reported} = {s.name : s \in {a \in asked : a.since <= v}}
    /\ up = 0 => sent = {}

\* A request whose header leaves time beside the offset has a deadline, and one that has a
\* deadline ends before Prometheus gives up, earlier by the offset.  Where the header
\* leaves no time there is none, and this says nothing of how long the request runs.
\* (getScrapeTimeoutSeconds)
EndsBeforePrometheus ==
  request.header.kind = "number" =>
    /\ phase \in {"connect", "scrape", "gather"} /\ request.header.seconds > Offset =>
         deadline # None
    /\ deadline # None => 0 < deadline /\ deadline + Offset <= request.header.seconds

\* "Ignore timeout offset if it doesn't leave time to scrape" (mysqld_exporter.go:196):
\* a request with a positive header has a deadline all the same.
OffsetIgnored ==
  phase = "connect" /\ request.header.kind = "number" /\ request.header.seconds > 0 =>
    deadline # None

=============================================================================
