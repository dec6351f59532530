\* Three events: two that compete for a gate and one that comes in through the
\* child gate of another's block, or competes as well.
CONSTANTS
  Events = {e1, e2, e3}
  MaxOps = 2
SPECIFICATION FairSpec
CHECK_DEADLOCK FALSE
INVARIANTS
  LocksAccounted
  OneAtATime
  InnerFirst
PROPERTY EventsLetIn
