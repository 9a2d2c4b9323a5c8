SPECIFICATION SafeSpec
CONSTANTS
  Clients = {c1, c2}
  Ops = {"start", "restart"}
  Counts = {1}
  Modes = {"reuseport"}
  Watch = FALSE
  MaxRequests = 3
SYMMETRY ClientSymmetry
INVARIANTS
  RestartStartsFresh
CHECK_DEADLOCK FALSE
