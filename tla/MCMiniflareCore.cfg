CONSTANTS
  Ops = {o1, o2, o3}
  Requests = {r1}
  Settings = {s1, s2}
  Offered <- MCOffered
  MayFail = {"hook", "script"}
  None = None
SPECIFICATION Spec
SYMMETRY Symmetry
CHECK_DEADLOCK FALSE
INVARIANTS
  ConfigurationInForce
  UpToDate
  NobodyStranded
CONSTRAINT Telling
