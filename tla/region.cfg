SPECIFICATION RegionSpec
CONSTANTS
  MaxOrder = 3
  Base = 1
  MaxDepth = 2
  Budget = 3
  BaseArea = 64
  RowsDetail = 1
  PartitionDetail = 1
  Turn = 8
  Ra <- SkyRa
  Dec <- SkyDec
  Regions <- SomeRegions
  Places <- SomePlaces
  MaxMetadataBytes = 1
CHECK_DEADLOCK FALSE
INVARIANTS
  RowsOfTheRegion
  ReachedOnce
