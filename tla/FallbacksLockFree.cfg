SPECIFICATION Spec
CONSTANTS
  Mixes <- MCMixes
  Servers <- MCServers
  MaxOpenConns = 2
  MaxFaults = 0
  MaxRows = 2
  None = None
INVARIANTS
  LockFreeUsed
