SPECIFICATION SafeSpec
CONSTANTS
  Stoppers = {s1, s2}
  Roles = {"keep", "clear", "delete", "scale", "drain", "abort"}
  Policies <- MCPolicies
  CrashLoopThreshold = 2
  MaxCrashes = 2
  MaxWipes = 1
SYMMETRY StopperSymmetry
INVARIANTS
  TypeOK
  OneProcess
  AtMostOneLateLaunch
  ReturnedStopLeavesNothing
  NoStalePid
  FailureIsSurfaced
  RestartBudget
CHECK_DEADLOCK FALSE
