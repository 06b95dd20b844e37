SPECIFICATION TimelessSpec
CONSTANTS
  Jobs = {j1, j2}
  Items = {}
  Tables = {}
  Sizes = {1}
  MaxRunning = 1
  MaxJobs = 2
  Quota = 1
  Timer = timer
CHECK_DEADLOCK FALSE
PROPERTIES
  CommittedSettles
