SPECIFICATION Spec
CONSTANTS
  File = {f1, f2}
  Name = {n1, n2}
  Op = {o1}
  NoRow = NoRow
  NoEntry = NoEntry
  NoVector = NoVector
INVARIANTS
  UpdateDoesIntended
  RetryCompletes
  SyncInitMutatesNothing
  ClientCatchesUp
