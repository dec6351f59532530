CONSTANTS
  Calls = {c1, c2, c3}
  Keys = {k1, k2}
  AlarmKey = AlarmKey
  Times = {}
  InvalidTimes = {}
  Kinds = {"delete", "get", "sync", "transaction"}
  Initial = Initial
  Absent = Absent
  None = None
  Lost = Lost
  TxnWriteSetsMaxSize = 1
  AlarmExists = FALSE
  InnerMayFail = FALSE
SPECIFICATION Spec
SYMMETRY Symmetry
CHECK_DEADLOCK FALSE
INVARIANTS
  CopiesStableDuringFlush
PROPERTIES
  Serializable
  SyncIsDurable
