SPECIFICATION FairSpec
CONSTANTS
  Session = {s1, s2, s3}
  Client = {c1}
  Commanded = {s1}
  Hung = {}
  Timeout = 1
  Period = 1
  Failures = TRUE
  NoSession = NoSession
INVARIANTS TableIsLive ConnectionsOwned
PROPERTIES IdleSessionsClose
