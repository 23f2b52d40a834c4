SPECIFICATION Spec
CONSTANTS
  C1 = C1
  C2 = C2
  Wrap = 3
INVARIANTS
  SpduTypeOK
  HalvesMatch
  SentInTime
