SPECIFICATION FairSpec
CONSTANTS
  MaxPackets = 5
  Markers = {2, 3, 5}
  MaxUnits = 2
  MaxInputs = 2
INVARIANTS
  Resyncs
PROPERTIES
  LastInputArrives
  ThreadsEnd
CHECK_DEADLOCK FALSE
