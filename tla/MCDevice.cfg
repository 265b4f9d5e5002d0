SPECIFICATION FairSpec
CONSTANTS
  Worker = Worker
  None = None
  Controllers = {c1}
  Requests <- MCRequests
  DeviceKinds <- MCKinds
INVARIANTS
  TypeOK
  DestructorNeverThrows
  RateLoggerReleased
  NoStaleInterrupt
  ExitsWithoutTransports
  ErrorHasCause
PROPERTIES
  FollowsLifecycle
  AcceptedIsCarriedOut
