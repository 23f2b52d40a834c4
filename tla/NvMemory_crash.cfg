SPECIFICATION NvmSpec
CONSTANTS
  C1 = C1
  C2 = C2
  MaxBlk = 6
  PerPage = 3
  WrCycles = 2
  MaxStores = 2
  MaxFaults = 2
INVARIANTS
  SameDataStored
PROPERTIES
  StoreImplemented
  OperatesAgain
CHECK_DEADLOCK FALSE
