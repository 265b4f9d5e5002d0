SPECIFICATION FairSpec
CONSTANTS
  Controller = "controller"
  Viewers = {"viewer"}
  Blocks = {b1, b2, b3}
  fAckBunchSize = 2
  QueueSize = 1
  MaxLends = 4
INVARIANTS
  RegionTypeOK
  OnePlace
  NothingDropped
PROPERTIES
  KeepsBlockLife
  ReleasedReturns
  StopTerminates
CHECK_DEADLOCK FALSE
