SPECIFICATION FairSpec
CONSTANTS
  N = 4
  SpinCount = 1
  MaxBlocks = 6
  LateWrites = 5

INVARIANTS
  TypeOK
  OverlapStable
  BlocksInOrder
  NoLostWakeup
PROPERTIES
  IsChannel
  StopReleases
  BlocksArrive
