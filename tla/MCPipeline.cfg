CONSTANTS
  Threads <- const_Threads
  Pipes <- const_Pipes
  Scenes <- const_Scenes
  SNDHWM = 1
  SocketTimeout = 2
  MaxMade <- const_MaxMade
  MaxRegions = 3
SPECIFICATION FairSpec
INVARIANTS
  WholeMessages
  NothingLost
  TimesOutInTime
  OneInputAtATime
PROPERTIES
  StoppedLeaves
  ZmqFollowsEvents
CHECK_DEADLOCK FALSE
