SPECIFICATION FairSpec
CONSTANTS
  Chips = {"R820T", "R828D"}
  Freqs = {0, 344000, 1790000}
  Gains = {28}
  VgaGains = {3, 9}
  MaxRequests = 3
  MaxFaults = 1

CHECK_DEADLOCK FALSE
INVARIANTS
  TypeOK
  DoneAsReported
  CalibrationEnds
  VcoCurrentKnown
PROPERTIES
  RequestsEnd
