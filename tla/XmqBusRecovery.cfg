SPECIFICATION BusFairSpec
CONSTANTS
  Tasks = {a}
  Links = {}
  Reliable = {}
  BrokerMayCrash = TRUE
  Heartbeat = 0
  Offline = 2
  Hwm = 1
  MaxBuff = 1
  MaxTime = 5
  MaxCrash = 2
INVARIANTS RecordIsRecent
PROPERTIES LossIsNoticed ServiceReturns DeadIsForgotten
CHECK_DEADLOCK FALSE
