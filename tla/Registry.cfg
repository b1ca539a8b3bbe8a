CONSTANTS
  Clients = {c1, c2, c3}
  Scripts = {s1, s2}
  Contents = {on, off}
  Enabled = {on}
  None = None
  Stub = Stub
  MaxCalls = 4
  MaxFailures = 1
SPECIFICATION Spec
SYMMETRY Interchangeable
CHECK_DEADLOCK FALSE
INVARIANTS
  TypeOK
  ListComplete
  DeletedStaysDeleted
PROPERTIES
  ImplementsMap
