SPECIFICATION Spec
CONSTANTS
  Callers = {a}
  Starters = {a}
  Capacity = 2
  Decimations = {0}
  MaxPackets = 3
  LiveModeSwitch = TRUE
  a = a

PROPERTIES
  SidebandUsed
