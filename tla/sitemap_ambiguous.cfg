SPECIFICATION MCSpec
CONSTANTS
  Name = {n1}
  Address = {a1}
  Call = {c1}
  MaxRows = 2
  MaxMoves = 1
  None = None
PROPERTIES HealthyRowIsUsed
SYMMETRY Symmetry
CHECK_DEADLOCK FALSE
