SPECIFICATION Spec
CONSTANTS
  NoMaxrec = NoMaxrec
  NoList = NoList
  Requests <- SomeRequests
  MaxUpload = 3
  MaxRows = 3
  JobMaxRows = 4
  Ceiling = 6
  Group = 2
  MaxBatch = 3
CHECK_DEADLOCK FALSE
INVARIANTS
  StatementInv
  ReadAsItsOwn
PROPERTIES
  KeepsThePromise
