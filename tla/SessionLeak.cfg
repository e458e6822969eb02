SPECIFICATION Spec
CONSTANTS
  Launches = {l1}
  Sessions = {s1}
  NoSession = NoSession
  NoLaunch = NoLaunch
  SessionLimit = 1
  MaxSends = 1
  MaxPolls = 1
INVARIANTS
  ExitCancelsSession
