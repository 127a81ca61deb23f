SPECIFICATION FairSpec
CONSTANTS
  Modes = {"service"}
  WorkerThreads <- MCWorkerThreads
  StartMayFail = TRUE
  DriverMayFail = TRUE
PROPERTY StopEndsEngine
