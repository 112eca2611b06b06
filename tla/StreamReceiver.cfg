CONSTANTS
  NFrames = 6
  Header = 2
  Flag = 2
  MaxPayload = 2
  MaxPiece = 5
  BufSize = 6
SPECIFICATION Spec
INVARIANTS TypeOK DeliveredInOrder NothingHeldBack
PROPERTIES WholeRequestIsServed
CHECK_DEADLOCK FALSE
