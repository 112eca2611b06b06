SPECIFICATION BusSpec
CONSTANTS
  a = a
  b = b
  Tasks <- TwoTasks
  Links <- OneLink
  Reliable <- TwoTasks
  BrokerMayCrash = FALSE
  Heartbeat = 1
  Offline = 5
  Hwm = 1
  MaxBuff = 1
  MaxTime = 8
  MaxCrash = 0
INVARIANTS SourceIsTrue
PROPERTIES ImplementsTask ImplementsRegistry OnlineStays
CHECK_DEADLOCK FALSE
