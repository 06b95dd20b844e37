SPECIFICATION Spec
CONSTANTS
  Null = null
  NaN = nan
  Unstated = unstated
  AllNull = all_null
  Leaves <- MCLeaves
  NestedFirst = FALSE
  Width = 2
  MinPartitions = 2
  MaxBytes = 2
  Files <- MCFiles
  Requests <- MCRequests
  Tables <- MCTables
  Filters <- MCCatalogFilters
CHECK_DEADLOCK FALSE
INVARIANTS
  FileIsTheAnswer
  NoRowIsMissed
