SPECIFICATION Spec
CONSTANTS
  u1 = u1 u2 = u2 t1 = t1 t2 = t2 t3 = t3
  None = None
  User = {u1, u2}
  Tab = {t1, t2, t3}
  Owner <- MCOwner
  Socket = {s1, s2, s3}
  Conversation = {c1, c2}
  MaxUnsent = 2
SYMMETRY Symmetry
INVARIANTS
  TypeOK
  ListFollowsSockets
  NoForeignRoom
