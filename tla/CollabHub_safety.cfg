SPECIFICATION OverlapFairSpec
CONSTANTS
  c1 = c1
  c2 = c2
  c3 = c3
  u1 = u1
  u2 = u2
  p1 = p1
  Client = {c1, c2, c3}
  User = {u1, u2}
  Project = {p1}
  NoRoom = NoRoom
  UserOf <- MCUserOf
  ProjectOf <- MCOneProject
INVARIANTS
  TypeOK
  NoGhostPresence
  RegisteredRoomHasConnection
  OpenConnectionIsMember
PROPERTIES
  PartedOnlyByOverlap
  PresenceStays
  ClosedConnectionFinishes
