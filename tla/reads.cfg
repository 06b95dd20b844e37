SPECIFICATION FairSpec
CONSTANTS
  NoLimit = NoLimit
  Catalogs <- SomeCatalogs
  Requests <- SomeRequests
  Bounds <- SomeBounds
CHECK_DEADLOCK FALSE
INVARIANTS
  CollectedAsAsked
  NothingQuietlyShort
  PlanIsTheAnswer
  ScanAsAsked
PROPERTIES
  AnswersEnd
