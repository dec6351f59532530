CONSTANTS
  Calls <- MCCalls
  Promises <- MCPromises
  Waiters <- MCWaiters
  MaxRequestDepth = 2
  MaxPipelineDepth = 2
  Upstream = FALSE
  a = a
  b = b
  c1 = c1
  c2 = c2
  v1 = v1
  v2 = v2
  None = None
  Empty = Empty
  NaN = NaN
  Invalid = Invalid
  AnyEtag = AnyEtag
  Callers <- MCCallers
  Keys <- MCKeys
  Values <- MCValues
  Above <- MCAbove
  MaxTime = 1
  MaxOps = 3
SPECIFICATION MCSpec
CHECK_DEADLOCK FALSE
INVARIANTS
  WaitedForAll
  RecursionBounded
  AloneHolds
  ListComplete
PROPERTY
  Answered
