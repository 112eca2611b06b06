SPECIFICATION Spec
CONSTANTS
  Tasks = {c1}
  Heartbeat = 0
  Offline = 2
  Hwm = 2
  MaxBuff = 1
  MaxTime = 4
  MaxCrash = 1
INVARIANTS TypeOK AgeNeverWraps WatchedIsRecent
PROPERTIES AnswersNeverOlder
CHECK_DEADLOCK FALSE
