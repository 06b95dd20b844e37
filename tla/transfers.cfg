SPECIFICATION FairSpec
CONSTANTS
  q1 = q1
  q2 = q2
  o1 = o1
  o2 = o2
  r1 = r1
  r2 = r2
  r3 = r3
  Requests = {q1, q2}
  Objects = {o1, o2}
  Reads = {r1, r2, r3}
  RequestOf <- ARequestOf
  ObjectOf <- AnObjectOf
  Bodies = {2, 3}
  Chunks = {1}
  Limits <- SomeLimits
INVARIANTS
  TransfersInv
  NeverCutShort
PROPERTIES
  WaitersAreAnswered
  CopiesGo
