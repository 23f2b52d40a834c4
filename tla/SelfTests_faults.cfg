SPECIFICATION TestSpec
CONSTANTS
  RomSize = 7
  RomChunk = 3
  RamSize = 4
  Step1Bytes = 2
  OcBytes = 2
  SfrRegs = 5
  RegsPerCycle = 2
  Limits = {10, 20, 21, 22, 23}
  Timeout = 24
  CrcCheckAlwaysTrue = TRUE
  Kinds = {"SAFECON", "ROM", "STACK", "OPCODE", "CORE", "STEP1", "STEP2", "jump", "stop"}
  Stride = 1
PROPERTIES
  LimitDecides
  RoundIsSound
  FaultIsNoticed
CHECK_DEADLOCK FALSE
