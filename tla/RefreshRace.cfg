SPECIFICATION Spec
CONSTANTS
  Tokens = {t1, t2, t3}
  Requests = {r1, r2}
  Volatile = {"tenant", "membership"}
SYMMETRY Symmetric
INVARIANTS OneLivePerFamily DeadFamilies IssuedWithAccess
