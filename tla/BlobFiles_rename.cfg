SPECIFICATION Spec
CONSTANTS
  Request = {r1}
  File = {f1}
  Name = {n1, n2}
  Content = {c1, c2}
  Empty = Empty
  None = None
  Deletable = {}
  Renamable = {f1}
  Serial = {f1}
INVARIANT
  AcknowledgedContentStays
