SPECIFICATION OverlapSpec
CONSTANTS
  Request = {r1, r2, r3}
  File = {f1, f2}
  Name = {n1, n2}
  Content = {c1, c2}
  Empty = Empty
  None = None
  Deletable = {f2}
  Renamable = {f1}
  Serial = {f2}
SYMMETRY MCSymmetry
INVARIANTS
  TypeOK
  RowHasBlob
  AcknowledgedContentStays
  LoneUploadStays
PROPERTY
  ImplementsContentStore
