SPECIFICATION SafeSpec
CONSTANTS
  Clients = {c1, c2}
  Ops = {"start", "stop", "restart", "delete", "reload", "scale", "save", "resurrect", "shutdown"}
  Counts = {1, 2}
  Modes = {"proxy", "portless"}
  Watch = TRUE
  MaxRequests = 4
SYMMETRY ClientSymmetry
INVARIANTS
  TypeOK
  OneRolling
  ProxyTracksRunners
  NoLostRunner
  SlotsKept
  ListedExactly
CHECK_DEADLOCK FALSE
