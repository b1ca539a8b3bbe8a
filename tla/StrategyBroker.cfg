CONSTANTS
  Long = long
  Short = short
  Ids = {a, b}
  CloseAll = CloseAll
  None = None
  Qtys = {1}
  Caps = {0}
  OcaNames <- WithGroup
  Groups <- NoGroups
  Allowed = {long, short}
  Pyramiding = 1
  MaxBars = 3
  MaxCalls = 4
  MaxHalts = 1
SPECIFICATION Spec
SYMMETRY Interchangeable
CHECK_DEADLOCK FALSE
INVARIANTS
  PyramidingCap
  OneLegFills
  OwnOrdersFillAtOpen
PROPERTIES
  EntriesAllowed
