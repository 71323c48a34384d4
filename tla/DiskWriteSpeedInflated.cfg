SPECIFICATION Spec
CONSTANTS
  Scrapers = {s1, s2}
  Targets = {a}
  Tasks = {t1, t2, t3}
  Threads = 1
  Interval = 2
  History = 3
  Verbose = FALSE
  MaxTime = 8
  NULL = NULL
SYMMETRY Symmetry
INVARIANTS
  CounterNotInflated
