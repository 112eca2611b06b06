SPECIFICATION Spec
CONSTANTS
  Streams = {ch1, ch2}
  Conns = {p1, p2}
  Indices = {0, 1}
  NoNode = NoNode
  MaxFrames = 2
SYMMETRY Symmetry
INVARIANTS TypeOK FrameAtMostOnce RunawayNeedsRemoval
PROPERTIES FrameReachesAll
CHECK_DEADLOCK FALSE
