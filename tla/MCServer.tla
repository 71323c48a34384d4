------------------------------ MODULE MCServer ------------------------------
(* Server for TLC: the parameters of requests with a few scrapers, each scraper *)
(* alone with two rows, and each two scrapers together with one.                *)
EXTENDS Server

ASSUME CatalogueAssumption ==
  ~Aliases => IsFiniteSet(scrapers) /\ ScrapersDistinct /\ FamiliesTyped

Headers ==
  [kind : {"absent", "text", "huge"}, seconds : {0}] \cup
  [kind : {"number"}, seconds : {-1, 0, 1, 2, 10}]

Handled ==
  [handler : {"metrics", "probe"}, target : {"none", "good", "bad"},
   section : {"client", "other"}, sections : {{"client"}, {"other"}}, header : Headers,
   filter : {{}, {"binlog_size"}, {"binlog_size", "no such"}, {"no such"}},
   enabled : {{BinlogSize, Certificates}}]

Scraped(enabled) ==
  [handler |-> "metrics", target |-> "none", section |-> "client",
   sections |-> {"client"}, header |-> [kind |-> "absent", seconds |-> 0], filter |-> {}, enabled |-> enabled]

Alone    == {Scraped({s}) : s \in scrapers}
Together == {Scraped({s, t}) : s, t \in scrapers}

MCRequests == Handled \cup Alone \cup Together
=============================================================================
