\* A websocket error while App is in either of the two arms.
SPECIFICATION FairSpec
CONSTANTS
  MaxOffers = 1
  MaxIce = 1
  MaxNoise = 0
  MaxEventsPerTick = 2
PROPERTIES
  SocketLossNoticed
CHECK_DEADLOCK FALSE
