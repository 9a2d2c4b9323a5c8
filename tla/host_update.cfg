SPECIFICATION Spec
CONSTANTS
  c1 = c1
  c2 = c2
  Clients = {c1, c2}
  Kinds = {"request", "start", "stop", "update"}
  MaxDaemons = 4
  MaxCrashes = 1
  DrainFits = FALSE
INVARIANTS
  UpdateApplied
CHECK_DEADLOCK FALSE
