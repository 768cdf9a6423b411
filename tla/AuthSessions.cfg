SPECIFICATION Spec
CONSTANTS
  lower = lower
  mixed = mixed
  Request = {r1, r2, r3}
  User = {u1, u2}
  Address = {lower, mixed}
  Normal <- MCNormal
  Token = {t1, t2, t3}
  None = None
SYMMETRY MCSymmetry
INVARIANTS
  TypeOK
  OneUserPerAddress
  OneSessionPerLogin
  LoginLasts
PROPERTY
  ImplementsLoginStore
