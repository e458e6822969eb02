\* Two sessions one after the other, the first one's decode thread possibly
\* still running, two pictures each, and a wait that times out.
SPECIFICATION FairSpec
CONSTANTS
  Outputs = {o1, o2}
  NoOutput = NoOutput
  MaxFrames = 2
  MaxStalls = 1
INVARIANTS
  NoWriteToFreed
  WholeFrames
  OneStallIsHarmless
  MarkNeverBlocks
PROPERTIES
  PictureReachesScreen
  WaitEnds
  FramesMoveForward
