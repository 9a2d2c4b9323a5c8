SPECIFICATION Spec
CONSTANTS
  Conns = {c1}
  Modes = {"proxy"}
  Probes = {"http"}
  Slots = 1
  MaxInst = 2
INVARIANT NoDroppedConnection
CHECK_DEADLOCK FALSE
