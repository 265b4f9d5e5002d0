SPECIFICATION ControlFairSpec
CONSTANTS
  Worker = "worker"
  None = "nobody"
  Controllers = {"controller", "signal"}
  Requests = {}
  DeviceKinds <- MCKinds
  Modes = {"static", "gui", "interactive"}
  MaxKeys = 4
INVARIANTS
  ControlTypeOK
  ControllerInLockstep
  OneShutdownSequence
  RoleHeldWhileAlive
PROPERTIES
  StaticModeEnds
  FailureEndsThreads
CHECK_DEADLOCK FALSE
