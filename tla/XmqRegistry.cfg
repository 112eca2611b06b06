SPECIFICATION FairSpec
CONSTANTS
  Names = {s1, s2}
  Steady = {s1}
  Offline = 3
  MaxGap = 2
  MaxLag = 1
  MaxLead = 1
  MaxScan = 2
  Boot = 1
  MaxTime = 6
INVARIANTS TypeOK SteadyStaysOnline ScannedKeysPresent
PROPERTIES RemovesOnlyAfterSilence DeadIsRemoved
CHECK_DEADLOCK FALSE
