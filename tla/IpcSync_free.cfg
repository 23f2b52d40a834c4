SPECIFICATION IpcSyncFairSpec
CONSTANTS
  C1 = c1
  C2 = c2
  MaxWaits = 7
INVARIANTS
  IpcSyncTypeOK
  NoLevelMissed
PROPERTIES
  BarrierSpec
  MissedLevelIsFatal
\* both controllers may end in their safety handlers
CHECK_DEADLOCK FALSE
