SPECIFICATION Spec
CONSTANTS
  NumFrames = 2

PROPERTIES
  FailureCancelsAll
