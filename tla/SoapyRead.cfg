SPECIFICATION Spec
CONSTANTS
  numBuffers = 3
  BlockElems = 2
  MaxBlocks = 8
  MaxSessions = 3
  RestartMidBuffer = FALSE

INVARIANTS
  TypeOK
  HeldStable
  NoLostWakeup
PROPERTIES
  FreshBlocks
  GapReported
