SPECIFICATION FairSpec
CONSTANTS
  Threads = {"worker", "p", "q"}
  Worker = "worker"
  Subscribers = {"device-runner", "plugin"}
  AsString = {"plugin"}
  Runner = "device-runner"
  Listener = "plugin"
  MaxAttempts = 1
  PortRange = {7, 8}
  Privileged = FALSE
  MaxWrites = 2
  Scenes <- StartupScenes
INVARIANTS ReadyIsAttached ToldPresentValues
PROPERTY AttachingEnds
CHECK_DEADLOCK FALSE
