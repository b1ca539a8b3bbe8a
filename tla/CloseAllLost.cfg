CONSTANTS
  Long = long
  Short = short
  Ids = {a}
  CloseAll = CloseAll
  None = None
  Qtys = {1}
  Caps = {0}
  OcaNames = {a}
  Groups <- NoGroups
  Allowed = {long, short}
  Pyramiding = 1
  MaxBars = 2
  MaxCalls = 2
  MaxHalts = 0
  MaxLost = 0
  MaxTicks = 0
SPECIFICATION EventsSpec
CHECK_DEADLOCK FALSE
INVARIANT
  CloseAllForwarded
