SPECIFICATION Spec
CONSTANTS
  Ops = {"start", "stop", "restart", "reload"}
  StableTicks = 2
  MaxWrites = 3
  MaxWatchers = 2
  MaxRequests = 3
INVARIANTS
  TypeOK
  SettledOnWhole
  AcceptedRuns
PROPERTY
  SettledIsAccepted
CHECK_DEADLOCK FALSE
