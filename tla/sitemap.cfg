SPECIFICATION MCSpec
CONSTANTS
  Name = {n1, n2}
  Address = {a1, a2}
  Call = {c1, c2}
  MaxRows = 3
  MaxMoves = 1
  None = None
INVARIANTS NamesUnique HistoryOwned DuplicatesBounded
PROPERTIES FailureKeepsIdentity
SYMMETRY Symmetry
CHECK_DEADLOCK FALSE
