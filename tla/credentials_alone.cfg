SPECIFICATION MCSpec
CONSTANTS
  Hosts = {h1, h2}
  Clusters = {c1}
  Users = {u1, u2}
  Ids = {i1, i2}
  RowIds = {r1, r2}
  Operators = {p1}
  Discoveries = {d1}
  CredTypes = {"ssh", "proxmox"}
  MayCrash = TRUE
  KeyringMayFail = TRUE
  None = None
  Torn = {None}
  NoRow = NoRow
  Gone = Gone
SYMMETRY Symmetry
INVARIANTS
  ConsistentAtRest StaleOnlyByRotation
  SecretlessEntriesWereBeingRemoved StaleHasCause
PROPERTIES AutoBindNeverOverwrites ImplementsAccountRegistry
CHECK_DEADLOCK FALSE
