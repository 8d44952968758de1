SPECIFICATION MCSpec
CONSTANTS
  Name = {n1, n2}
  Credential = {e1, e2}
  Process = {p1, p2}
  MaxSeen = 3
  None = None
INVARIANTS LegacyKept StoredKept OpeningsSucceed
SYMMETRY Symmetry
