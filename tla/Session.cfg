\* Two launches, so one may be detached while the next one runs; three
\* sessions, so that an eviction and both launches can each use one up.
SPECIFICATION FairSpec
CONSTANTS
  Launches = {l1, l2}
  Sessions = {s1, s2, s3}
  NoSession = NoSession
  NoLaunch = NoLaunch
  SessionLimit = 1
  MaxSends = 1
  MaxPolls = 1
INVARIANTS
  AdoptedIsHeldOrStopped
  StoppedIsNeverHeld
PROPERTIES
  LaunchScreenSettles
  StopFreesSeat
  ImplementsCloudMatch
