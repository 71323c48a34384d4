SPECIFICATION FairSpec
CONSTANTS
  Mixes <- MCMixes
  Servers <- MCServers
  MaxOpenConns = 2
  MaxFaults = 1
  MaxRows = 2
  None = None
INVARIANTS
  TypeOK
  LostResultsNeedFaults
  NilMeansRead
  Served
  MixedOnlyAcross
  ColumnSent
PROPERTIES
  Terminates
