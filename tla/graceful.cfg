SPECIFICATION Spec
CONSTANTS
  Styles = {"serve", "wait"}
  Configured = {0, 1, 2}
  SdkDefault = 3
  DrainDefault = 1
  Grace = 1
  MaxCalls = 2
  MaxRequests = 2
INVARIANTS
  TypeOK
  LastWordStands
  HeldWhileWarming
  DrainHasItsBudget
PROPERTIES
  StopEnds
CHECK_DEADLOCK FALSE
