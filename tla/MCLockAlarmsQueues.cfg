CONSTANTS
  Clients = {c1, c2, c3, c4}
  Objects = {o1}
  Interval = 2
  Overlap = 1
  MaxDelay = 3
  MaxSets = 2
  MaxLeft = 1
  main = main
  letters = letters
  Queues = {main, letters}
  Messages = {m1, m2, m3}
  Consumer <- MCConsumer
  MaxReloads = 1
  None = None
SPECIFICATION MCSpec
INVARIANTS
  MutexTypeOK
  Bookkeeping
  Exclusion
  NoStrandedWaiter
  NeverLate
  OnlyScheduledAlarmsFire
  StoreFollowsMap
  NoneLostNoneTwice
  FlushToCome
PROPERTIES
  ImplementsRWLock
  WriterProgress
  AlarmRuns
  FlushReturns
  ImplementsDelivery
  EveryMessageSettles
