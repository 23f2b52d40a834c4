SPECIFICATION Spec
CONSTANTS
  C1 = C1
  C2 = C2
  Rates = {13, 14, 15, 16, 17, 18, 19}
  Nominal = 16
  MinDiff = 14
  MaxDiff = 18
  TimeDiff = 40
  Deviation = 8
  Wrap = 128
  FilterSize = 5
  Threshold = 3
  MaxChanges = 1
INVARIANTS
  ConclusionsAgree
  NoFalseAlarm
PROPERTIES
  DriftStops
CHECK_DEADLOCK FALSE
