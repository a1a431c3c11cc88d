SPECIFICATION Spec
CONSTANTS
  k1 = k1
  k2 = k2
  a = a
  b = b
  Keys = {k1, k2}
  Contents = {a, b}
  Keep = Keep
  Overlap = 2
  MaxOps = 6
SYMMETRY Alike
INVARIANTS ServesLastVersion VersionsNumbered ServedWasTried
CHECK_DEADLOCK FALSE
