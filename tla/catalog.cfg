SPECIFICATION WarmSpec
CONSTANTS
  Handles = {w, r1}
  Warmer = w
  files = files
  schema = schema
  Parts <- AParts
  Needs <- SchemaNeedsFiles
  Walked = {files}
  Lifetime = 2
  Retry = 1
  LastFailure = 1
  LastEviction = 1
  LastTime = 2
  LastVersion = 1
  LastGeneration = 2
  Anchor = anchor
  None = none
CHECK_DEADLOCK FALSE
INVARIANTS
  CatalogInv
  NothingOlder
  StaysWarm
  NoCircle
