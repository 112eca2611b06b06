SPECIFICATION Spec
CONSTANTS
  W = 3
  MaxNodes = 3
  MaxChannel = 2
INVARIANTS TypeOK FramesAreNamed NameHasOneSource LibraryFollowsUse
PROPERTIES FreshIdIsFree
CHECK_DEADLOCK FALSE
