SPECIFICATION Spec
CONSTANTS
  Hosts = {h1}
  Clusters = {}
  Users = {u1}
  Ids = {i1}
  RowIds = {r1}
  Operators = {p1}
  Discoveries = {d1}
  CredTypes = {"ssh"}
  MayCrash = FALSE
  KeyringMayFail = FALSE
  None = None
  Torn = {None}
  NoRow = NoRow
  Gone = Gone
INVARIANT RemovedStaysUnbound
CHECK_DEADLOCK FALSE
