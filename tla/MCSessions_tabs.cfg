SPECIFICATION Spec
CONSTANTS
  Browsers = {b1, b2}
  Requests = {r1, r2}
  Tokens = {t1, t2}
  TTL = 1
  MaxTime = 3
  None = None
SYMMETRY Symmetry
INVARIANTS
  TypeOK
  LoggedOutStaysOut
  SignedInWhileActive
