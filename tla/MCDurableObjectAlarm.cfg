CONSTANTS
  Calls = {c1, c2}
  Keys = {k1}
  AlarmKey = AlarmKey
  Times = {t1}
  InvalidTimes = {}
  Kinds = {"setAlarm", "transaction"}
  Initial = Initial
  Absent = Absent
  None = None
  Lost = Lost
  TxnWriteSetsMaxSize = 1
  AlarmExists = TRUE
  InnerMayFail = FALSE
SPECIFICATION Spec
CHECK_DEADLOCK FALSE
INVARIANT AlarmIsDurable
