SPECIFICATION Spec
CONSTANTS
  C1 = C1
  C2 = C2
  Requests = {"csal", "unsupported"}
  CssMessages = {2}
  RcqSize = 1
  UcqSize = 2
  TgmWrap = 3
  Numbers = 2
  MaxOpen = 2
  MaxFaults = 1
  MaxSplit = 1
INVARIANTS
  TypeOK
  InStep
  AnswersInOrder
PROPERTIES
  LinkWorks
  RequestsAnswered
CHECK_DEADLOCK FALSE
