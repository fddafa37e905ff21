SPECIFICATION Spec
CONSTANTS
  Models = {"BBRF103", "RX888r2", "RX888r3"}
  FrontEnds = {"ExtIO", "direct"}
  Freqs = {5, 31999, 40000, 230000}
  Rates = {64000, 128000}
  AttIndices = {1, 70}
  MgcIndices = {10, 20}
  GainValues = {0, 7, 30, 56}
  Flags = {"randout", "biasT_VHF"}
  Factors = {999900, 1000100}
  MaxCalls = 5
  MaxFaults = 1

CHECK_DEADLOCK FALSE
INVARIANTS
  TypeOK
  PinsFollow
  ModeAgrees
  SettingsOfMode
  TunedInBand
  RfGainAsAsked
