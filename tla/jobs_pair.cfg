SPECIFICATION Spec
CONSTANTS
  Jobs = {j1, j2}
  Items = {}
  Tables = {}
  Sizes = {1}
  MaxRunning = 1
  MaxJobs = 2
  Quota = 1
  Timer = timer
SYMMETRY Symmetry
CHECK_DEADLOCK FALSE
INVARIANTS
  IInv
  ResultIsThere
  AnswerHasAnOwner
  WorkWithinSlots
  QuotaHolds
PROPERTIES
  ShedsOldestOnly
  ImplementsUws
