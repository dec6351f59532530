CONSTANTS
  Ops = {o1, o2}
  Requests = {r1}
  Settings = {s1, s2}
  Offered = {}
  MayFail = {}
  None = None
SPECIFICATION Spec
CHECK_DEADLOCK FALSE
INVARIANT MountsUpToDate

