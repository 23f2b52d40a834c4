SPECIFICATION Spec
CONSTANTS
  C1 = C1
  C2 = C2
  NumPairs = 3
  Used = {0, 1}
  Dual = {0}
  Contact = {0, 1}
  DebFilter = 0
  ToTestParam = 1
  ConsFilter = 1
  CycWait = 10
  Steady = {1, 2}
  Moving = {0}
  Faulty = {1, 2}
  Faults = {"stuck", "fed"}
  MaxReaction = 8
  MaxChanges = 3
INVARIANTS
  CopiesAgree
  ReactsInTime
PROPERTIES
  SteadyStaysValid
  SteadyGetsValid
  FaultIsFound
