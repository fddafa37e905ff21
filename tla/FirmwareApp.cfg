SPECIFICATION FairSpec
CONSTANTS
  QueueLen = 2
  BufLen = 2
  AdcFreqs = {0, 500, 64000}
  MaxCallbacks = 7

CHECK_DEADLOCK FALSE
INVARIANTS
  TypeOK
  StreamArmed
PROPERTIES
  CommandsArrive
