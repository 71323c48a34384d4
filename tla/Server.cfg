SPECIFICATION Spec
CONSTANTS
  Requests <- MCRequests
  Client = "client"
  Offset = 1
  Versions = {57, 84}
  Aliases = FALSE
  None = None
INVARIANTS
  TypeOK
  SeriesUnique
  AskedAnswer
  EndsBeforePrometheus
