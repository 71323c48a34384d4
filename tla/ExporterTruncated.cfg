SPECIFICATION Spec
CONSTANTS
  slow = slow
  quick = quick
  recent = recent
  Scrapers <- MCScrapers
  Since <- MCSince
  Queries <- MCQueries
  Slow <- MCSlow
  Tolerant = {}
  Versions = {57}
  MaxOpenConns = 2
  QueryTimeout = 4
  RequestTimeout = 0
  Faults = {}
  MaxTime = 13
INVARIANTS
  SuccessIsWhole
