SPECIFICATION ControlFairSpec
CONSTANTS
  Worker = "worker"
  None = "nobody"
  Controllers = {"controller", "signal"}
  Requests = {}
  DeviceKinds <- PollingOnly
  Modes = {"static"}
  MaxKeys = 4
PROPERTIES SignalEndsProcess
CHECK_DEADLOCK FALSE
