SPECIFICATION Spec
CONSTANTS
  n1 = n1
  n2 = n2
  n3 = n3
  Names = {n1, n2, n3}
  MaxRequests = 6
  MaxLives = 3
SYMMETRY NameSymmetry
INVARIANTS
  TypeOK
  IdsUnique
  RegistryDurable
  RefusedOnlyIfCut
CHECK_DEADLOCK FALSE
