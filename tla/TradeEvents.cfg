CONSTANTS
  Long = long
  Short = short
  Ids = {a, b}
  CloseAll = CloseAll
  None = None
  Qtys = {1}
  Caps = {0}
  OcaNames = {a, b}
  Groups <- NoGroups
  Allowed = {long, short}
  Pyramiding = 1
  MaxBars = 2
  MaxCalls = 3
  MaxHalts = 1
  MaxLost = 1
  MaxTicks = 1
SPECIFICATION EventsSpec
SYMMETRY Interchangeable
CHECK_DEADLOCK FALSE
INVARIANTS
  EventsTypeOK
  FillsForwarded
