CONSTANTS
  Long = long
  Short = short
  Ids = {a, b}
  CloseAll = CloseAll
  None = None
  Qtys = {2}
  Caps = {0, 1}
  OcaNames <- WithGroup
  Groups <- Reducing
  Allowed = {long, short}
  Pyramiding = 1
  MaxBars = 2
  MaxCalls = 4
  MaxHalts = 0
SPECIFICATION Spec
SYMMETRY Interchangeable
CHECK_DEADLOCK FALSE
INVARIANTS
  TypeOK
  PositionIsLegs
  ContractsAccounted
