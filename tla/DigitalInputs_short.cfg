SPECIFICATION Spec
CONSTANTS
  C1 = C1
  C2 = C2
  NumPairs = 3
  Used = {0, 1, 2}
  Dual = {}
  Contact = {}
  DebFilter = 0
  ToTestParam = 1
  ConsFilter = 1
  CycWait = 12
  Steady = {0, 2, 4}
  Moving = {}
  Faulty = {2}
  Faults = {"short"}
  MaxReaction = 8
  MaxChanges = 1
PROPERTIES
  ShortIsFound
