SPECIFICATION FairSpec
CONSTANT MaxSets = 2
INVARIANTS TypeOK TaskHasItsCamera RemovedStaysRemoved EndedIsForgotten TaskIsRemovable
PROPERTIES SenderEnds
CHECK_DEADLOCK FALSE
