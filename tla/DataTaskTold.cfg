SPECIFICATION Spec
CONSTANTS
  Tasks = {c1}
  Heartbeat = 0
  Offline = 2
  Hwm = 2
  MaxBuff = 1
  MaxTime = 4
  MaxCrash = 0
INVARIANTS ToldStatus
CHECK_DEADLOCK FALSE
