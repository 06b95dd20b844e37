SPECIFICATION FairSpec
CONSTANTS
  Jobs = {j1}
  Items = {t1, c1}
  Tables = {t1}
  Sizes = {1}
  MaxRunning = 1
  MaxJobs = 1
  Quota = 1
  Timer = timer
CHECK_DEADLOCK FALSE
INVARIANTS
  TablesStayForTheRun
  NothingHalfWritten
PROPERTIES
  SlotsComeBack
  OrphansGo
  OverdueGoes
