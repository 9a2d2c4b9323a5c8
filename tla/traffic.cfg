SPECIFICATION Spec
CONSTANTS
  Conns = {c1, c2}
  Modes = {"proxy", "reuseport"}
  Probes = {"tcp", "http"}
  Slots = 2
  MaxInst = 5
SYMMETRY ConnSymmetry
INVARIANTS
  TypeOK
  AlwaysServed
  NoNeedlessRefusal
  AbortHarmless
CHECK_DEADLOCK FALSE
