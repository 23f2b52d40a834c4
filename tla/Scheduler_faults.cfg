SPECIFICATION SchedSpec
CONSTANTS
  MainTimeout = 2
  MaxTask = 30
  MaxJitter = 4
  FaultJitter = 1
INVARIANTS
  CycleInOrder
  NoFalseAlarm
PROPERTIES
  StoppedIrqIsNoticed
CHECK_DEADLOCK FALSE
