SPECIFICATION Spec
CONSTANTS
  Streams = {ch1, ch2}
  Conns = {p1, p2}
  Indices = {0, 1, 2}
  NoNode = NoNode
  MaxFrames = 1
INVARIANTS PlaysWhatItAskedFor
CHECK_DEADLOCK FALSE
