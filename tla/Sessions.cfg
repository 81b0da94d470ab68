SPECIFICATION Spec
CONSTANTS
  None = None
  Client = {c1}
  Request = {r1, r2}
  RefreshToken = {k1, k2}
  MaxPassword = 2
SYMMETRY Symmetry
INVARIANTS
  TypeOK
  OldPasswordIsOut
  StoreIsWhole
