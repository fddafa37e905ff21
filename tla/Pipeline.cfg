SPECIFICATION FairSpec
CONSTANTS
  Callers = {a, b}
  Starters = {a}
  Capacity = 1
  Decimations = {0, 1}
  MaxPackets = 7
  LiveModeSwitch = FALSE
  a = a
  b = b

INVARIANTS
  TypeOK
  StoppedOnReturn
  BlocksConverted
PROPERTIES
  RingsStartAlone
  SidebandUsed
  StopCompletes
  PacketsReachCallback
