SPECIFICATION IpcExchangeFairSpec
CONSTANTS
  c1 = c1
  c2 = c2
  C1 = c1
  C2 = c2
  MaxWaits = 20
  MaxFaults = 2
  Progs <- MCProgs
  IpcIds <- MCIpcIds
INVARIANTS
  ConsumesCurrentPeerData
PROPERTIES
  LaterSendsToArmedReceiver
  StopSpreads
\* both controllers may end in their safety handlers, and programs end
CHECK_DEADLOCK FALSE
