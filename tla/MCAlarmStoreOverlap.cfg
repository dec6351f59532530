CONSTANTS
  Objects = {o1}
  Interval = 2
  Overlap = 1
  MaxDelay = 3
  MaxSets = 2
  MaxLeft = 1
  None = None
SPECIFICATION AlarmSpec
CHECK_DEADLOCK FALSE
INVARIANT StoreHoldsMap
