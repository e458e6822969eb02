\* More events than one tick reads, candidates before, in and behind the
\* offer's batch, and every way a task can end.  App may leave while everything
\* is in flight, after which the tasks wind down and nothing happens any more.
SPECIFICATION FairSpec
CONSTANTS
  MaxOffers = 2
  MaxIce = 3
  MaxNoise = 1
  MaxEventsPerTick = 2
INVARIANTS
  IceInOrder
  AnswerBeforeIce
  ClosedExplicitly
PROPERTIES
  StepsOfLifecycle
  AnswerReachesServer
  TeardownCompletes
  SocketCloseNoticed
  PeerDeathNoticed
CHECK_DEADLOCK FALSE
