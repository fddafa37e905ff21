SPECIFICATION Spec
CONSTANTS
  Models = {"RX888r2"}
  FrontEnds = {"ExtIO"}
  Freqs = {7000, 230000}
  Rates = {64000}
  AttIndices = {1}
  MgcIndices = {10}
  GainValues = {0}
  Flags = {"randout"}
  Factors = {1000000}
  MaxCalls = 4
  MaxFaults = 0

CHECK_DEADLOCK FALSE
INVARIANTS
  VgaRestored
