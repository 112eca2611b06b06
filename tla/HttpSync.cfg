SPECIFICATION FairSpec
CONSTANTS
  Calls = {c1, c2}
  None = None
  Threads = 1
  Keep = 2
  Wait = 4
  Pause = 1
  MaxPause = 2
  MaxTime = 12
INVARIANTS TypeOK KeptIsReturned AnswerIsOwn
PROPERTIES CallsReturn
CHECK_DEADLOCK FALSE
