SPECIFICATION Spec
SYMMETRY MCSymmetry
CONSTANTS
  Conn = {c1, c2}
  Op = {o1, o2}
  SendBufferSize = 2
  TheFile = TheFile
  TheName = TheName
  NoRow = NoRow
  NoEntry = NoEntry
  NoVector = NoVector
  None = None
INVARIANTS
  TypeOK
  CurrentMembersHaveAll
  ShownWasSaved
PROPERTY
  ImplementsSyncService
