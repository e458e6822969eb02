SPECIFICATION FairSpec
CONSTANTS
  MaxPackets = 5
  MaxDeaths = 1
  PeerCap = 2
  PacketCap = 2
  SampleCap = 1
  StartAt = 2
  MaxQueued = 3
  MaxFrame = 4
INVARIANTS
  PlaysInOrder
  BufferedIsPlaying
PROPERTIES
  PacketsMoveOn
CHECK_DEADLOCK FALSE
