SPECIFICATION FairSpec
CONSTANTS
  Hosts = {h1}
  Clusters = {}
  Users = {u1}
  Ids = {i1, i2}
  RowIds = {r1}
  Operators = {p1, p2}
  Discoveries = {}
  CredTypes = {"ssh", "proxmox"}
  MayCrash = FALSE
  KeyringMayFail = TRUE
  None = None
  Torn = {None}
  NoRow = NoRow
  Gone = Gone
INVARIANTS RegistryWellFormed BindingTypeSafe
PROPERTY CommandsEnd
CHECK_DEADLOCK FALSE
