SPECIFICATION Spec
CONSTANTS
  Request = {r1, r2}
  User = {u1, u2, u3}
  Project = {p1}
  Invite = {i1}
  None = None
PROPERTY
  OnlyRemovalRemoves
