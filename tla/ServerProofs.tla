---------------------------- MODULE ServerProofs ----------------------------
(***************************************************************************)
(* For any requests, sections, versions and offset: a deadline leaves the  *)
(* offset, and an answer is that of the scrapers asked for.  For any       *)
(* number of scrapers together: no series is sent twice, given what        *)
(* CatalogueDistinct says of their rows, one or two scrapers at a time.    *)
(*                                                                         *)
(* Neither invariant is inductive: the status says nothing of how it came  *)
(* about.  IInv adds what each phase has left behind: the deadline is one  *)
(* of those that the header allows, chosen is first what filterScrapers    *)
(* returned and then the part of it that a version has, and once there is  *)
(* nothing left to scrape those chosen are those that have reported.       *)
(***************************************************************************)
EXTENDS Server, FiniteSetTheorems, TLAPS

Asked == filterScrapers(request.enabled, request.filter)

Names(set) == {s.name : s \in set}

ReportedNames == {r[1] : r \in reported}

DeadlineAllowed ==
  /\ deadline = None \/ deadline \in getScrapeTimeoutSeconds(request.header)
  /\ phase \in {"connect", "scrape", "gather"} =>
       deadline \in getScrapeTimeoutSeconds(request.header)

BeforeScrape ==
  /\ phase \in {"judge", "connect"} => up = 0
  /\ phase = "connect" => chosen = Asked
  /\ phase = "scrape" => up = 1
  /\ up = 0 => sent = {}

ChosenOfVersion == up = 1 => \E v \in Versions : chosen = {s \in Asked : s.since <= v}

AllHaveReported ==
  up = 1 /\ phase \in {"gather", "answered"} => ReportedNames = Names(chosen)

IInv ==
  /\ request \in Requests
  /\ up \in {0, 1}
  /\ phase # "answered" => status = 0
  /\ DeadlineAllowed
  /\ BeforeScrape
  /\ ChosenOfVersion
  /\ AllHaveReported

\* The request starts without a deadline and without scrapers.
\* (the beginning of newHandler and handleProbe)
LEMMA InitEstablishes == Init => IInv
  BY DEF Init, IInv, DeadlineAllowed, BeforeScrape, ChosenOfVersion, AllHaveReported

\* Each step keeps the strengthened invariant.
\* (newHandler, handleProbe, Exporter.scrape)
LEMMA StepKeeps == IInv /\ [Next]_vars => IInv'
<1> SUFFICES ASSUME IInv, [Next]_vars PROVE IInv'
  OBVIOUS
<1> USE DEF IInv, DeadlineAllowed, BeforeScrape, ChosenOfVersion, AllHaveReported
<1>1. CASE Refuse
  BY <1>1 DEF Refuse, Asked, Names, ReportedNames
<1>2. CASE Accept
  BY <1>2 DEF Accept, Asked, Names, ReportedNames
<1>3. CASE ConnectFails
  BY <1>3 DEF ConnectFails, Asked, Names, ReportedNames
<1>4. CASE AllReported
  BY <1>4 DEF AllReported, Asked, Names, ReportedNames
<1>5. CASE Gather
  BY <1>5 DEF Gather, Asked, Names, ReportedNames
<1>6. ASSUME NEW v \in Versions, Connect(v) PROVE IInv'
  BY <1>6 DEF Connect, Asked, Names, ReportedNames
<1>7. ASSUME NEW s \in chosen, NEW answer, NEW success, Scrape(s, answer, success) PROVE IInv'
  <2>1. /\ phase = "scrape"
        /\ UNCHANGED <<request, phase, deadline, chosen, up, status>>
    BY <1>7 DEF Scrape
  <2> QED
    BY <2>1 DEF Asked, Names
<1>8. ASSUME NEW s \in chosen, Succeed(s) \/ Fail(s) PROVE IInv'
  BY <1>7, <1>8 DEF Succeed, Fail
<1>9. CASE UNCHANGED vars
  BY <1>9 DEF vars, Asked, Names, ReportedNames
<1> QED
  BY <1>1, <1>2, <1>3, <1>4, <1>5, <1>6, <1>8, <1>9 DEF Next, Done

\* The strengthened invariant holds in every reachable state.
\* (newHandler, handleProbe)
THEOREM Strengthened == Spec => []IInv
  BY InitEstablishes, StepKeeps, PTL DEF Spec

\* A request whose header leaves time has a deadline, and with it ends before Prometheus
\* gives up, whatever the offset.
\* (getScrapeTimeoutSeconds)
THEOREM EndsBeforePrometheusHolds == Spec => []EndsBeforePrometheus
<1>1. IInv => EndsBeforePrometheus
  <2> SUFFICES ASSUME IInv, request.header.kind = "number" PROVE EndsBeforePrometheus
    BY DEF EndsBeforePrometheus
  <2>1. request.header.seconds \in Int /\ Offset \in Nat /\ None \notin Int
    BY ServerAssumption DEF IInv
  <2>2. getScrapeTimeoutSeconds(request.header)
          = IF request.header.seconds > Offset THEN {request.header.seconds - Offset} ELSE {None}
    BY DEF getScrapeTimeoutSeconds
  <2>3. deadline # None => /\ deadline = request.header.seconds - Offset
                           /\ request.header.seconds > Offset
    BY <2>2 DEF IInv, DeadlineAllowed
  <2>4. phase \in {"connect", "scrape", "gather"} /\ request.header.seconds > Offset =>
          deadline # None
    BY <2>1, <2>2 DEF IInv, DeadlineAllowed
  <2> QED
    BY <2>1, <2>3, <2>4 DEF EndsBeforePrometheus
<1> QED
  BY Strengthened, <1>1, PTL

\* What is answered comes from the scrapers asked for, all enabled ones if none was, and
\* from each that the server's version has.
\* (filterScrapers, Exporter.scrape)
THEOREM AskedAnswerHolds == Spec => []AskedAnswer
<1>1. IInv => AskedAnswer
  <2> SUFFICES ASSUME IInv, status = 200 PROVE AskedAnswer
    BY DEF AskedAnswer
  <2>1. phase = "answered"
    BY DEF IInv
  <2>2. CASE up = 0
    BY <2>2 DEF AskedAnswer, IInv, BeforeScrape
  <2>3. CASE up = 1
    <3>1. PICK v \in Versions : chosen = {s \in Asked : s.since <= v}
      BY <2>3 DEF IInv, ChosenOfVersion
    <3>2. ReportedNames = Names({s \in Asked : s.since <= v})
      BY <2>1, <2>3, <3>1 DEF IInv, AllHaveReported
    <3>3. Asked = IF \E s \in request.enabled : s.name \in request.filter
                  THEN {s \in request.enabled : s.name \in request.filter}
                  ELSE request.enabled
      BY DEF Asked, filterScrapers
    <3> QED
      BY <2>3, <3>2, <3>3 DEF AskedAnswer, Names, ReportedNames
  <2> QED
    BY <2>2, <2>3 DEF IInv
<1> QED
  BY Strengthened, <1>1, PTL

-----------------------------------------------------------------------------
(* Types *)

\* A scraper reports while it is chosen.
ReportsOfChosen == phase \in {"judge", "connect"} => reported = {}

\* Every step keeps the types.
LEMMA TypeStep == IInv /\ TypeOK /\ ReportsOfChosen /\ [Next]_vars => TypeOK' /\ ReportsOfChosen'
<1> SUFFICES ASSUME IInv, TypeOK, ReportsOfChosen, [Next]_vars PROVE TypeOK' /\ ReportsOfChosen'
  OBVIOUS
<1> USE DEF TypeOK, ReportsOfChosen
<1>1. CASE Refuse
  BY <1>1 DEF Refuse
<1>2. CASE Accept
  <2>1. request.header.kind = "number" => request.header.seconds \in Int /\ Offset \in Nat
    BY ServerAssumption
  <2>2. /\ deadline' \in getScrapeTimeoutSeconds(request.header)
        /\ chosen' = filterScrapers(request.enabled, request.filter)
        /\ phase' = "connect" /\ phase = "judge"
        /\ UNCHANGED <<request, up, sent, twice, reported, status>>
    BY <1>2 DEF Accept
  <2>3. deadline' \in Nat \cup {None}
    BY <2>1, <2>2 DEF getScrapeTimeoutSeconds
  <2>4. chosen' \subseteq request.enabled
    BY <2>2 DEF filterScrapers
  <2> QED BY <2>2, <2>3, <2>4
<1>3. CASE ConnectFails
  BY <1>3 DEF ConnectFails
<1>4. CASE AllReported
  BY <1>4 DEF AllReported
<1>5. CASE Gather
  BY <1>5 DEF Gather
<1>6. ASSUME NEW v \in Versions, Connect(v) PROVE TypeOK' /\ ReportsOfChosen'
  BY <1>6 DEF Connect
<1>7. ASSUME NEW s \in chosen, NEW answer, NEW success \in {0, 1}, Scrape(s, answer, success)
      PROVE  TypeOK' /\ ReportsOfChosen'
  <2>1. /\ phase = "scrape" /\ reported' = reported \cup {<<s.name, success>>}
        /\ UNCHANGED <<request, phase, deadline, chosen, up, status>>
    BY <1>7 DEF Scrape
  <2>2. twice' \in BOOLEAN
    BY <1>7 DEF Scrape
  <2>3. reported' \subseteq {t.name : t \in chosen} \X {0, 1}
    BY <2>1
  <2> QED BY <2>1, <2>2, <2>3
<1>8. ASSUME NEW s \in chosen, Succeed(s) \/ Fail(s) PROVE TypeOK' /\ ReportsOfChosen'
  <2>1. PICK answer : Scrape(s, answer, 0) \/ Scrape(s, answer, 1)
    BY <1>8 DEF Succeed, Fail
  <2> QED BY <2>1, <1>7
<1>9. CASE UNCHANGED vars
  BY <1>9 DEF vars
<1> QED
  BY <1>1, <1>2, <1>3, <1>4, <1>5, <1>6, <1>8, <1>9 DEF Next, Done

\* Types: the deadline is a natural number or none, and no scraper reports that was not chosen.
\* (newHandler, handleProbe, Exporter.scrape)
THEOREM TypeOKHolds == Spec => []TypeOK
<1>1. Init => TypeOK /\ ReportsOfChosen
  BY DEF Init, TypeOK, ReportsOfChosen
<1>2. IInv /\ TypeOK /\ ReportsOfChosen /\ [Next]_vars => TypeOK' /\ ReportsOfChosen'
  BY TypeStep
<1> QED BY <1>1, <1>2, Strengthened, PTL DEF Spec

-----------------------------------------------------------------------------
(* No series twice *)

CatalogueDistinct ==
  /\ IsFiniteSet(scrapers)
  /\ RowsDistinct
  /\ ScrapersDistinct
  /\ FamiliesTyped

\* The rows that a scraper's answers are made of, when it is alone and when it is not.
RowsMet(plan, alone) ==
  RowsOf(plan) \cup
  (IF alone THEN UNION {{Row(res, row) : row \in OtherRows(res)} : res \in plan} ELSE {})

SentBy(s, x, alone) ==
  \/ \E o \in ScraperMetrics(s) : x \in o
  \/ \E plan \in PlansOf(s) : \E q \in RowsMet(plan, alone) : x \in SeriesOf(q)

Connection == Own("collector_duration_seconds", "connection")

Alone == Cardinality(chosen) <= 1

\* All that was sent is of the connection or of a scraper that has reported.
Unique ==
  /\ twice = FALSE /\ status # 500
  /\ phase \in {"judge", "connect"} => sent = {}
  /\ \A x \in sent :
       \/ x \in Connection
       \/ \E s \in chosen : s.name \in ReportedNames /\ SentBy(s, x, Alone)

\* The series of Exporter itself.
LEMMA OwnSeries ==
  ASSUME NEW name, NEW label, NEW x, x \in Own(name, label)
  PROVE  x.family[1][1] = "exporter" /\ x.type = "gauge" /\ x.family[1][2] = name
         /\ x.labels[1].collector = label
<1> DEFINE n == <<"exporter", name>>
           f == <<n, <<>>>>
           c == [collector |-> label]
           l == <<c, "">>
<1>1. x = [family |-> f, type |-> "gauge", labels |-> l]
  BY DEF Own
<1>2. n[1] = "exporter" /\ n[2] = name /\ f[1] = n /\ l[1] = c /\ c.collector = label
  OBVIOUS
<1> HIDE DEF n, f, c, l
<1>3. x.family = f /\ x.type = "gauge" /\ x.labels = l
  BY <1>1
<1> QED BY <1>2, <1>3

\* Those of a scraper are labelled with its name.
LEMMA MetricsOf ==
  ASSUME NEW s, NEW o \in ScraperMetrics(s), NEW x \in o
  PROVE  /\ x.family[1][1] = "exporter" /\ x.type = "gauge"
         /\ x.labels[1].collector = s.name
<1>1. PICK name, label : x \in Own(name, label) /\ label = s.name
  BY DEF ScraperMetrics
<1>2. x.family[1][1] = "exporter" /\ x.type = "gauge" /\ x.labels[1].collector = label
  BY <1>1, OwnSeries
<1> QED BY <1>1, <1>2

\* The rows met are in the catalogue.
LEMMA RowsInAll ==
  ASSUME NEW s \in scrapers, NEW plan \in PlansOf(s), NEW alone \in BOOLEAN,
         NEW q \in RowsMet(plan, alone)
  PROVE  /\ SeriesOf(q) \subseteq SeriesOfAll
         /\ \E res \in plan : \E row \in {FirstRow(res)} \cup OtherRows(res) :
              q = Row(res, row) /\ q \in RowsOf(plan) \cup {Row(res, row)}
<1>1. PICK res \in plan : \E row \in {FirstRow(res)} \cup OtherRows(res) : q = Row(res, row)
  <2>1. CASE q \in RowsOf(plan)
    BY <2>1 DEF RowsOf
  <2>2. CASE q \notin RowsOf(plan)
    <3>1. q \in UNION {{Row(res, row) : row \in OtherRows(res)} : res \in plan}
      BY <2>2 DEF RowsMet
    <3> QED BY <3>1
  <2> QED BY <2>1, <2>2
<1>2. plan \in UNION {PlansOf(t) : t \in scrapers}
  OBVIOUS
<1>3. res \in UNION UNION {PlansOf(t) : t \in scrapers}
  BY <1>2
<1>4. SeriesOf(q) \subseteq SeriesOfAll
  BY <1>1, <1>3 DEF SeriesOfAll
<1> QED BY <1>1, <1>4

\* Two packets of one answer share no series.
LEMMA RowsApart ==
  ASSUME CatalogueDistinct, NEW s \in scrapers, NEW plan \in PlansOf(s),
         NEW answer, answer \in Answers(plan), NEW q \in answer, NEW r \in answer, q # r
  PROVE  SeriesOf(q) \cap SeriesOf(r) = {}
<1>1. CASE answer = RowsOf(plan)
  <2>1. PICK res \in plan : q = Row(res, FirstRow(res))
    BY <1>1 DEF RowsOf
  <2> QED BY <1>1, <2>1 DEF CatalogueDistinct, RowsDistinct
<1>2. CASE answer # RowsOf(plan)
  <2>1. answer \in UNION {{RowsOf(plan) \cup {Row(res, row)} : row \in OtherRows(res)} : res \in plan}
    BY <1>2 DEF Answers, RowsOf
  <2>2. PICK res \in plan : \E row \in OtherRows(res) : answer = RowsOf(plan) \cup {Row(res, row)}
    BY <2>1
  <2> QED BY <2>2 DEF CatalogueDistinct, RowsDistinct
<1> QED BY <1>1, <1>2

\* An answer is made of the rows met.
LEMMA AnswersMet ==
  ASSUME TypeOK, CatalogueDistinct, NEW plan, NEW answer \in Answers(plan)
  PROVE  answer \subseteq RowsMet(plan, Alone)
<1>1. Cardinality(chosen) \in Nat
  <2>1. chosen \subseteq scrapers
    BY ServerAssumption DEF TypeOK
  <2> QED BY <2>1, FS_Subset, FS_CardinalityType DEF CatalogueDistinct
<1>2. CASE Cardinality(chosen) > 1
  BY <1>2 DEF Answers, RowsMet, RowsOf
<1>3. CASE ~(Cardinality(chosen) > 1)
  <2>1. \/ answer = RowsOf(plan)
        \/ answer \in UNION {{RowsOf(plan) \cup {Row(res, row)} : row \in OtherRows(res)} : res \in plan}
    BY <1>3 DEF Answers, RowsOf
  <2>2. Alone
    BY <1>1, <1>3 DEF Alone
  <2>3. CASE answer = RowsOf(plan)
    BY <2>3 DEF RowsMet
  <2>4. CASE answer # RowsOf(plan)
    <3>1. PICK res \in plan : \E row \in OtherRows(res) : answer = RowsOf(plan) \cup {Row(res, row)}
      BY <2>1, <2>4
    <3>2. PICK row \in OtherRows(res) : answer = RowsOf(plan) \cup {Row(res, row)}
      BY <3>1
    <3>3. Row(res, row) \in UNION {{Row(e, w) : w \in OtherRows(e)} : e \in plan}
      OBVIOUS
    <3> QED BY <2>2, <3>2, <3>3 DEF RowsMet
  <2> QED BY <2>3, <2>4
<1> QED BY <1>2, <1>3

\* What scrapers send is not the series of the connection.
LEMMA NotConnection ==
  ASSUME CatalogueDistinct, NEW s \in scrapers, NEW alone \in BOOLEAN, NEW x, SentBy(s, x, alone)
  PROVE  x \notin Connection
<1> SUFFICES ASSUME x \in Connection PROVE FALSE
  OBVIOUS
<1>1. x.family[1][1] = "exporter" /\ x.labels[1].collector = "connection"
  <2>1. PICK name, label : x \in Own(name, label) /\ label = "connection"
    BY DEF Connection
  <2>2. x.family[1][1] = "exporter" /\ x.labels[1].collector = label
    BY <2>1, OwnSeries
  <2> QED BY <2>1, <2>2
<1>2. CASE \E o \in ScraperMetrics(s) : x \in o
  <2>1. x.labels[1].collector = s.name
    BY <1>2, MetricsOf
  <2> QED BY <1>1, <2>1 DEF CatalogueDistinct, ScrapersDistinct
<1>3. CASE \E plan \in PlansOf(s) : \E q \in RowsMet(plan, alone) : x \in SeriesOf(q)
  <2>1. x \in SeriesOfAll
    BY <1>3, RowsInAll
  <2> QED BY <1>1, <2>1 DEF CatalogueDistinct, FamiliesTyped
<1> QED BY <1>2, <1>3 DEF SentBy

\* Two scrapers send no series both.
LEMMA ScrapersApart ==
  ASSUME CatalogueDistinct, NEW s \in scrapers, NEW t \in scrapers, s # t,
         NEW x, SentBy(s, x, FALSE), SentBy(t, x, FALSE)
  PROVE  FALSE
<1> DEFINE Its(u) == \E o \in ScraperMetrics(u) : x \in o
           OfRow(u) == \E plan \in PlansOf(u) : \E q \in RowsMet(plan, FALSE) : x \in SeriesOf(q)
<1>1. ASSUME NEW u \in scrapers, Its(u)
      PROVE  x.family[1][1] = "exporter" /\ x.labels[1].collector = u.name
  BY <1>1, MetricsOf
<1>2. ASSUME NEW u \in scrapers, OfRow(u) PROVE x.family[1][1] # "exporter"
  <2>1. x \in SeriesOfAll
    BY <1>2, RowsInAll
  <2> QED BY <2>1 DEF CatalogueDistinct, FamiliesTyped
<1>3. (Its(s) \/ OfRow(s)) /\ (Its(t) \/ OfRow(t))
  BY DEF SentBy
<1>4. ~(OfRow(s) /\ OfRow(t))
  <2> SUFFICES ASSUME OfRow(s), OfRow(t) PROVE FALSE
    OBVIOUS
  <2>1. PICK p \in PlansOf(s) : \E q \in RowsOf(p) : x \in SeriesOf(q)
    BY DEF RowsMet
  <2>2. PICK o \in PlansOf(t) : \E r \in RowsOf(o) : x \in SeriesOf(r)
    BY DEF RowsMet
  <2>3. \A q \in RowsOf(p), r \in RowsOf(o) : SeriesOf(q) \cap SeriesOf(r) = {}
    BY DEF CatalogueDistinct, ScrapersDistinct
  <2> QED BY <2>1, <2>2, <2>3
<1>5. s.name # t.name
  BY DEF CatalogueDistinct, ScrapersDistinct
<1> HIDE DEF Its, OfRow
<1> QED BY <1>1, <1>2, <1>3, <1>4, <1>5

\* Families of two packets have one type.
LEMMA OneType ==
  ASSUME CatalogueDistinct, NEW alone \in BOOLEAN,
         NEW a, NEW b, a.family = b.family,
         a \in Connection \/ \E s \in scrapers : SentBy(s, a, alone),
         b \in Connection \/ \E s \in scrapers : SentBy(s, b, alone)
  PROVE  a.type = b.type
<1> DEFINE Ours(x) == x.family[1][1] = "exporter" /\ x.type = "gauge"
<1>1. ASSUME NEW x, x \in Connection \/ \E s \in scrapers : SentBy(s, x, alone)
      PROVE  Ours(x) \/ x \in SeriesOfAll
  <2>1. CASE x \in Connection
    <3>1. PICK name, label : x \in Own(name, label)
      BY <2>1 DEF Connection
    <3> QED BY <3>1, OwnSeries
  <2>2. ASSUME NEW s \in scrapers, SentBy(s, x, alone) PROVE Ours(x) \/ x \in SeriesOfAll
    <3>1. CASE \E o \in ScraperMetrics(s) : x \in o
      BY <3>1, MetricsOf
    <3>2. CASE \E plan \in PlansOf(s) : \E q \in RowsMet(plan, alone) : x \in SeriesOf(q)
      BY <3>2, RowsInAll
    <3> QED BY <2>2, <3>1, <3>2 DEF SentBy
  <2> QED BY <1>1, <2>1, <2>2
<1>2. ASSUME NEW x \in SeriesOfAll PROVE x.family[1][1] # "exporter"
  BY DEF CatalogueDistinct, FamiliesTyped
<1>3. ASSUME NEW x \in SeriesOfAll, NEW y \in SeriesOfAll, x.family = y.family
      PROVE  x.type = y.type
  <2> DEFINE K == {<<z.family, z.type>> : z \in SeriesOfAll}
             k == <<x.family, x.type>>
             l == <<y.family, y.type>>
  <2>1. k \in K /\ l \in K
    OBVIOUS
  <2>2. \A c, d \in K : c[1] = d[1] => c[2] = d[2]
    BY DEF CatalogueDistinct, FamiliesTyped
  <2>3. k[1] = x.family /\ k[2] = x.type /\ l[1] = y.family /\ l[2] = y.type
    OBVIOUS
  <2> HIDE DEF K, k, l
  <2> QED BY <1>3, <2>1, <2>2, <2>3
<1>4. (Ours(a) \/ a \in SeriesOfAll) /\ (Ours(b) \/ b \in SeriesOfAll)
  BY <1>1
<1>5. Ours(a) /\ b \in SeriesOfAll => FALSE
  BY <1>2
<1>6. Ours(b) /\ a \in SeriesOfAll => FALSE
  BY <1>2
<1>7. Ours(a) /\ Ours(b) => a.type = b.type
  OBVIOUS
<1> HIDE DEF Ours
<1> QED BY <1>3, <1>4, <1>5, <1>6, <1>7

\* What a scraper sends repeats nothing: not among its own packets, and not what was sent.
LEMMA ScrapeUnique ==
  ASSUME CatalogueDistinct, TypeOK, Unique, NEW s \in chosen, NEW success \in {0, 1},
         NEW i \in DOMAIN s.plans, NEW all \in Answers(s.plans[i]), NEW answer \in SUBSET all,
         Scrape(s, answer, success)
  PROVE  Unique'
<1> DEFINE plan == s.plans[i]
           packets == {SeriesOf(r) : r \in answer} \cup ScraperMetrics(s)
           same == \E q, r \in answer : q # r /\ SeriesOf(q) \cap SeriesOf(r) # {}
<1>1. /\ phase = "scrape" /\ <<s.name, 0>> \notin reported /\ <<s.name, 1>> \notin reported
      /\ sent' = sent \cup AllSent(packets)
      /\ twice' = (twice \/ same \/ Repeats(packets))
      /\ reported' = reported \cup {<<s.name, success>>}
      /\ UNCHANGED <<request, phase, deadline, chosen, up, status>>
  BY DEF Scrape, SeriesOf
<1>2. chosen \subseteq scrapers /\ IsFiniteSet(chosen) /\ Cardinality(chosen) \in Nat
  <2>1. chosen \subseteq scrapers
    BY ServerAssumption DEF TypeOK
  <2> QED BY <2>1, FS_Subset, FS_CardinalityType DEF CatalogueDistinct
<1>3. plan \in PlansOf(s) /\ s \in scrapers /\ Alone \in BOOLEAN
  BY <1>2 DEF PlansOf, Alone
<1>4. answer \subseteq RowsMet(plan, Alone)
  BY AnswersMet
<1>5. \A q, r \in answer : q # r => SeriesOf(q) \cap SeriesOf(r) = {}
  BY <1>3, RowsApart
<1>6. s.name \notin ReportedNames
  <2> SUFFICES ASSUME NEW r \in reported, r[1] = s.name PROVE FALSE
    BY DEF ReportedNames
  <2>1. r = <<s.name, 0>> \/ r = <<s.name, 1>>
    BY DEF TypeOK
  <2> QED BY <1>1, <2>1
<1>7. \A x \in AllSent(packets) : SentBy(s, x, Alone)
  <2> SUFFICES ASSUME NEW x \in AllSent(packets) PROVE SentBy(s, x, Alone)
    OBVIOUS
  <2>1. PICK a \in packets : x \in a
    BY DEF AllSent
  <2>2. CASE a \in ScraperMetrics(s)
    BY <2>1, <2>2 DEF SentBy
  <2>3. CASE a \in {SeriesOf(r) : r \in answer}
    <3>1. PICK q \in answer : a = SeriesOf(q)
      BY <2>3
    <3> QED BY <1>3, <1>4, <2>1, <3>1 DEF SentBy
  <2> QED BY <2>1, <2>2, <2>3
<1>8. \A x \in sent : ~SentBy(s, x, Alone)
  <2> SUFFICES ASSUME NEW x \in sent, SentBy(s, x, Alone) PROVE FALSE
    OBVIOUS
  <2>1. x \notin Connection
    BY <1>3, NotConnection
  <2>2. PICK t \in chosen : t.name \in ReportedNames /\ SentBy(t, x, Alone)
    BY <2>1 DEF Unique
  <2>3. s # t /\ t \in scrapers
    BY <1>2, <1>6, <2>2
  <2>4. Cardinality(chosen) # 0
    BY <1>2, FS_EmptySet
  <2>5. Cardinality(chosen) # 1
    BY <1>2, <2>3, FS_Singleton
  <2>6. ~(Cardinality(chosen) <= 1)
    BY <1>2, <2>4, <2>5
  <2>7. Alone = FALSE
    BY <2>6 DEF Alone
  <2> QED BY <1>3, <2>2, <2>3, <2>7, ScrapersApart
<1>9. \A a, b \in packets : a # b => a \cap b = {}
  <2> SUFFICES ASSUME NEW a \in packets, NEW b \in packets, a # b, NEW x \in a, x \in b
               PROVE  FALSE
    OBVIOUS
  <2>1. ASSUME NEW c \in ScraperMetrics(s), NEW q \in answer, x \in c, x \in SeriesOf(q) PROVE FALSE
    <3>1. x.family[1][1] = "exporter"
      BY <2>1, MetricsOf
    <3>2. x \in SeriesOfAll
      BY <1>3, <1>4, <2>1, RowsInAll
    <3> QED BY <3>1, <3>2 DEF CatalogueDistinct, FamiliesTyped
  <2>2. CASE a \in {SeriesOf(r) : r \in answer} /\ b \in {SeriesOf(r) : r \in answer}
    BY <1>5, <2>2
  <2>3. CASE a \in ScraperMetrics(s) /\ b \in ScraperMetrics(s)
    <3>1. PICK n : a = Own(n, s.name) /\ n \in {"collector_success", "collector_duration_seconds"}
      BY <2>3 DEF ScraperMetrics
    <3>2. PICK m : b = Own(m, s.name)
      BY <2>3 DEF ScraperMetrics
    <3>3. x.family[1][2] = n /\ x.family[1][2] = m
      BY <3>1, <3>2, OwnSeries
    <3> QED BY <3>1, <3>2, <3>3
  <2> QED BY <2>1, <2>2, <2>3
<1>10. ~same /\ ~Repeats(packets)
  BY <1>5, <1>7, <1>8, <1>9 DEF Repeats
<1>11. twice' = FALSE /\ status' # 500
  BY <1>1, <1>10 DEF Unique
<1>12. ReportedNames' = ReportedNames \cup {s.name}
  <2>1. <<s.name, success>>[1] = s.name
    OBVIOUS
  <2> QED BY <1>1, <2>1 DEF ReportedNames
<1>13. Alone' = Alone
  BY <1>1 DEF Alone
<1>14. ASSUME NEW x \in sent'
       PROVE  \/ x \in Connection
              \/ \E t \in chosen' : t.name \in ReportedNames' /\ SentBy(t, x, Alone')
  <2>1. CASE x \in sent
    BY <1>1, <1>12, <1>13, <2>1 DEF Unique
  <2>2. CASE x \in AllSent(packets)
    BY <1>1, <1>7, <1>12, <1>13, <2>2
  <2> QED BY <1>1, <2>1, <2>2
<1>15. phase' = "scrape"
  BY <1>1
<1> QED BY <1>11, <1>14, <1>15 DEF Unique

\* Every step keeps the series apart.
LEMMA UniqueStep ==
  ASSUME CatalogueDistinct
  PROVE  TypeOK /\ Unique /\ [Next]_vars => Unique'
<1> SUFFICES ASSUME TypeOK, Unique, [Next]_vars PROVE Unique'
  OBVIOUS
<1>0. ASSUME UNCHANGED <<chosen, sent, twice, reported, status>>,
             phase' \in {"judge", "connect"} => sent = {}
      PROVE  Unique'
  BY <1>0 DEF Unique, Alone, ReportedNames
<1>1. CASE Refuse
  <2>1. phase' = "answered" /\ status' = 400 /\ UNCHANGED <<chosen, sent, twice, reported>>
    BY <1>1 DEF Refuse
  <2> QED BY <2>1 DEF Unique, Alone, ReportedNames
<1>2. CASE Accept
  <2>1. phase = "judge" /\ UNCHANGED <<sent, twice, status>>
    BY <1>2 DEF Accept
  <2> QED BY <2>1 DEF Unique
<1>3. CASE ConnectFails
  <2>1. phase = "connect" /\ UNCHANGED <<sent, twice, status>>
    BY <1>3 DEF ConnectFails
  <2> QED BY <2>1 DEF Unique
<1>4. CASE AllReported
  BY <1>0, <1>4 DEF AllReported
<1>5. CASE Gather
  <2>1. \A x \in sent : x \in Connection \/ \E s \in scrapers : SentBy(s, x, Alone)
    BY ServerAssumption DEF TypeOK, Unique
  <2>2. ~MixedTypes
    <3> SUFFICES ASSUME NEW a \in sent, NEW b \in sent, a.family = b.family
                 PROVE  a.type = b.type
      BY DEF MixedTypes
    <3>1. Alone \in BOOLEAN
      BY DEF Alone
    <3> QED BY <2>1, <3>1, OneType
  <2>3. phase' = "answered" /\ status' = 200 /\ UNCHANGED <<chosen, sent, twice, reported>>
    BY <1>5, <2>2 DEF Gather, Unique
  <2> QED BY <2>3 DEF Unique, Alone, ReportedNames
<1>6. ASSUME NEW v \in Versions, Connect(v) PROVE Unique'
  <2>1. phase' = "scrape" /\ sent' = Connection /\ UNCHANGED <<twice, status>>
    BY <1>6 DEF Connect, Connection
  <2> QED BY <2>1 DEF Unique
<1>7. ASSUME NEW s \in chosen, Succeed(s) \/ Fail(s) PROVE Unique'
  <2>1. PICK i \in DOMAIN s.plans :
          \E all \in Answers(s.plans[i]) : \E answer \in SUBSET all :
            Scrape(s, answer, 0) \/ Scrape(s, answer, 1)
    BY <1>7 DEF Succeed, Fail
  <2>2. PICK all \in Answers(s.plans[i]) : \E answer \in SUBSET all :
          Scrape(s, answer, 0) \/ Scrape(s, answer, 1)
    BY <2>1
  <2>3. PICK answer \in SUBSET all : Scrape(s, answer, 0) \/ Scrape(s, answer, 1)
    BY <2>2
  <2> QED BY <2>3, ScrapeUnique
<1>8. CASE UNCHANGED vars
  BY <1>0, <1>8 DEF vars, Unique
<1> QED
  BY <1>1, <1>2, <1>3, <1>4, <1>5, <1>6, <1>7, <1>8 DEF Next, Done

\* Where the rows of each scraper, and the first rows of each two, send different series of
\* one type for a family, no request of any number of scrapers sends one twice.
\* (Exporter.scrape, and every Scrape with its keys)
THEOREM SeriesUniqueHolds ==
  ASSUME CatalogueDistinct
  PROVE  Spec => []SeriesUnique
<1>1. Init => Unique
  BY DEF Init, Unique
<1>2. TypeOK /\ Unique /\ [Next]_vars => Unique'
  BY UniqueStep
<1>3. Unique => SeriesUnique
  BY DEF Unique, SeriesUnique
<1> QED BY <1>1, <1>2, <1>3, TypeOKHolds, PTL DEF Spec

=============================================================================
