SPECIFICATION Spec
CONSTANTS
  Clients = {c1, c2}
  Ops = {"start", "stop", "restart", "reload", "scale"}
  Counts = {1, 2}
  Modes = {"proxy"}
  Watch = FALSE
  MaxRequests = 3
PROPERTIES
  ReloadEnds
  RequestsAnswered
CHECK_DEADLOCK FALSE
