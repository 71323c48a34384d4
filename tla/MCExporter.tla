----------------------------- MODULE MCExporter -----------------------------
(* Exporter for TLC: one slow scraper of three queries, one quick scraper    *)
(* of two, one quick scraper of a newer server version.                      *)
EXTENDS Exporter, TLC

CONSTANTS slow, quick, recent

MCScrapers == {slow, quick, recent}
MCSince    == [s \in Scrapers |-> IF s = recent THEN 56 ELSE 51]
MCQueries  == [s \in Scrapers |-> CASE s = slow -> 3 [] s = quick -> 2 [] s = recent -> 1]
MCSlow     == {slow}
=============================================================================
