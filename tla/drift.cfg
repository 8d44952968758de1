SPECIFICATION MCSpec
CONSTANTS
  Host = {h1, h2}
  Cluster = {h2, c1}
  None = None
  Vm = {v1, v2}
  Key = {k1, k2}
  Value = {a, b}
  MaxCalls = 1
  MaxChanges = 1
INVARIANTS EligibleIsProbed UnknownComplete DriftIsReal
CHECK_DEADLOCK FALSE
PROPERTY ScanEnds
