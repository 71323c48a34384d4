SPECIFICATION FairSpec
CONSTANTS
  slow = slow
  quick = quick
  recent = recent
  Scrapers = {slow, recent}
  Since <- MCSince
  Queries <- MCQueries
  Slow = {slow, recent}
  Tolerant = {slow}
  Versions = {51, 57}
  MaxOpenConns = 1
  QueryTimeout = 3
  RequestTimeout = 0
  Faults = {"dsn", "server", "rows", "client"}
  MaxTime = 10
INVARIANTS
  TypeOK
  NoUseAfterClose
  PoolClosed
  AnswersInTime
PROPERTIES
  KeepsContract
  Terminates
