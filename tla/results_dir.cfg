SPECIFICATION FairDirsSpec
CONSTANTS
  Processes = {p1, p2, p3}
  Stuck = {p3}
  None = none
CHECK_DEADLOCK FALSE
INVARIANTS
  DirInv
  LiveDirectoryStays
PROPERTIES
  LockOutlivesDirectory
  DeadRunsReclaimed
