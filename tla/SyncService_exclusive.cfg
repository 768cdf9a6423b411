SPECIFICATION OverlapFairSpec
CONSTANTS
  a = a
  b = b
  f1 = f1
  f2 = f2
  f3 = f3
  n1 = n1
  n2 = n2
  Conn = {a, b}
  File = {f1, f2, f3}
  Name = {n1, n2}
  TypstName = {n1}
  Op = {o1, o2}
  NoRow = NoRow
  NoEntry = NoEntry
  NoVector = NoVector
  CanEdit <- Edits
  CanName <- Names
  CanUpload <- Uploads
  CanDelete <- Deletions
  CanSync = {b}
INVARIANTS
  TypeOK
  OwnedEditsSurvive
  NameAsAsked
  DeletedStaysDeleted
  LossTakesOverlap
PROPERTIES
  ImplementsFileStore
  RequestEnds
