SPECIFICATION Spec
CONSTANTS
  Scrapers = {s1}
  Targets = {a, b}
  Tasks = {t1, t2}
  Threads = 2
  Interval = 3
  History = 4
  Verbose = FALSE
  MaxTime = 12
  NULL = NULL
INVARIANTS
  TypeOK
  RunningHasTask
  AtMostOneTask
  OwnPool
  NoNilPool
  CounterNotInflated
  SuccessShows
  TickEndsInTime
PROPERTIES
  CounterMonotone
  FailureReported
