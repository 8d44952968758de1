SPECIFICATION FairSpec
CONSTANTS
  Session = {s1, s2}
  Client = {c1}
  Commanded = {}
  Hung = {s1}
  Timeout = 1
  Period = 1
  Failures = FALSE
  NoSession = NoSession
PROPERTIES IdleSessionsClose
