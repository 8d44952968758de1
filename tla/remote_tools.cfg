SPECIFICATION MCSpec
CONSTANTS
  MaxStray = 2
  Host = {h1, h2, h3}
  Call = {c1, c2}
  Caller = {c1, c2}
  Earlier = Old
  Local = Local
  Fresh = Fresh
  Old = Old
  None = None
  NoOne = NoOne
INVARIANTS MigrationLosesNothing DestroyedStaysGone
PROPERTIES MigrationBringsContents SuccessIsReal SuccessIsAsked
SYMMETRY Symmetry
CHECK_DEADLOCK FALSE
