SPECIFICATION FairSpec
CONSTANTS
  Covers = {c1, c2, c3}
  MaxStores = 2
  Permits = 2
INVARIANTS
  LoadingHasOneTask
PROPERTIES
  CoverSettles
CHECK_DEADLOCK FALSE
