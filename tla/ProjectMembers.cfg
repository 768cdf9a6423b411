SPECIFICATION Spec
CONSTANTS
  Request = {r1, r2, r3}
  User = {u1, u2, u3}
  Project = {p1}
  Invite = {i1}
  None = None
SYMMETRY MCSymmetry
INVARIANTS
  TypeOK
  ProjectKeepsMember
PROPERTIES
  SaveMakesOneChange
  ImplementsMemberLists
