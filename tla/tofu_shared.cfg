SPECIFICATION FairSpec
CONSTANTS
  Host = {h1}
  Key = {k1, k2, k3}
  Attempt = {a1, a2}
  Process = {p1, p2}
  IOFails = TRUE
  MaxRekeys = 2
  None = None
INVARIANTS OneKeyPerProcess AcceptedIsRecorded KnownHostAccepted
PROPERTY CallsEnd
