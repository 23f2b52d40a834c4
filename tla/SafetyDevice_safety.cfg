SPECIFICATION Spec

CONSTANTS
  Configs = {c1, c2}
  NoConfig = none
  MaxNumEvents = 4
  Originators = {o1, o2}
  ZeroUnid = zero
  ToolUnid = tool
INVARIANTS
  DeviceTypeOK
  StatesInStep
  SsoMatchesConnections
  RunModeNeedsConsumer
  ConfigurationInStep
PROPERTIES
  SafConGuardsParameters
  AppliesWhatWasStored
  RequestsEnd
\* the safety handler stops the controller for good
CHECK_DEADLOCK FALSE
