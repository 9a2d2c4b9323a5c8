SPECIFICATION Spec
CONSTANTS
  Stoppers = {s1, s2}
  Roles = {"clear", "drain"}
  Policies <- Endless
  CrashLoopThreshold = 2
  MaxCrashes = 1
  MaxWipes = 1
PROPERTIES
  SeenStopTerminates
  CrashedComesBack
  Implements
CHECK_DEADLOCK FALSE
