SPECIFICATION FairSpec
CONSTANTS
  Conn = {c1, c2}
  User = {c1, c2}
  UserOf <- MCOwnUser
  Cursor = {k1}
  None = None
  SendBufferSize = 2
INVARIANTS TypeOK SettledViewsAgree
PROPERTY BroadcastsEnd
