CONSTANTS
  Long = long
  Short = short
  Ids = {a, b}
  CloseAll = CloseAll
  None = None
  Qtys = {1}
  Caps = {0}
  OcaNames <- WithGroup
  Groups <- NoGroups
  Allowed = {long, short}
  Pyramiding = 0
  MaxBars = 3
  MaxCalls = 4
  MaxHalts = 0
SPECIFICATION Spec
CHECK_DEADLOCK FALSE
PROPERTY
  ExitsReduce
