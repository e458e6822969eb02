\* A limit of two seats, so that a limit answer lists more than one session,
\* and room for more than one attempt in each retry loop.
\* Launch tasks end and are never started again: the client stops by itself.
SPECIFICATION CMFairSpec
CONSTANTS
  Launches = {l1, l2}
  Sessions = {s1, s2}
  NoSession = NoSession
  SessionLimit = 2
  MaxSends = 2
  MaxPolls = 2
INVARIANTS
  OneOwnerPerSession
  EvictionFreesSeats
PROPERTIES
  LaunchTerminates
CHECK_DEADLOCK FALSE
