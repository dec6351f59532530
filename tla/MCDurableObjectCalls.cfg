CONSTANTS
  Calls = {c1, c2}
  Keys = {k1}
  AlarmKey = AlarmKey
  Times = {t1}
  InvalidTimes = {bad}
  Kinds = {"put", "delete", "deleteAll", "transaction", "get", "sync", "setAlarm", "deleteAlarm"}
  Initial = Initial
  Absent = Absent
  None = None
  Lost = Lost
  TxnWriteSetsMaxSize = 1
  AlarmExists = TRUE
  InnerMayFail = TRUE
SPECIFICATION FairSpec
CHECK_DEADLOCK FALSE
INVARIANTS
  AssertionsHold
  ReturnedWriteIsDurable
PROPERTIES
  Serializable
  CallsReturn
