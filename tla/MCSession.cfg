CONSTANTS
  d1 = d1
  d2 = d2
  d3 = d3
  p1 = p1
  p2 = p2
  Managers <- const_Managers
  ProcessOf <- const_ProcessOf
  Scenarios <- const_Scenarios
  Regions = {1, 2}
  FirstCounted = 2
  MaxGens = 2
  MaxBeats = 2
SPECIFICATION FairSpec
INVARIANTS
  InUseKeepsFiles
  LeavesNothing
  CachedRegionIsLive
PROPERTIES
  FollowsEvents
  CatchesUp
  DeadIsCleaned
CHECK_DEADLOCK FALSE
