SPECIFICATION FairSpec
CONSTANTS
  NumFrames = 3

INVARIANTS
  TypeOK
  ActiveCount
  NoFreeInFlight
  NoCallbackAfterClose
  NoDataAfterJoin
  NoSilentLoss
PROPERTIES
  StopReturns
