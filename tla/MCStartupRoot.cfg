SPECIFICATION Spec
CONSTANTS
  Threads = {"worker", "p", "q"}
  Worker = "worker"
  Subscribers = {"device-runner", "plugin"}
  AsString = {"plugin"}
  Runner = "device-runner"
  Listener = "plugin"
  MaxAttempts = 1
  PortRange = {7, 8}
  Privileged = TRUE
  MaxWrites = 2
  Scenes <- RootScenes
INVARIANT AddressPublished
CHECK_DEADLOCK FALSE
