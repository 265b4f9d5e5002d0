SPECIFICATION FairSpec
CONSTANTS
  Worker = Worker
  None = None
  Controllers = {c1}
  Requests <- MCRequests
  DeviceKinds <- Receivers
PROPERTIES ReceiveIsInterrupted
