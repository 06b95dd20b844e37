SPECIFICATION FilesSpec
CONSTANTS
  query = query
  narrowed = narrowed
  streamed = streamed
  file = file
  Urls = {query, narrowed, streamed, file}
  Plain = {file}
  Streaming = {streamed}
  Whole <- MCWhole
  Requests = {r1, r2}
  Sizes = {1, 2, 3}
  Ttl = 2
  Capacity = 2
  Timeout = 1
  LastTime = 3
  LastVersion = 1
  File = bytes_of_the_file
  None = none
SYMMETRY Interchangeable
INVARIANTS
  FilesInv
  SlicesAgree
  NothingStaleForLong
