SPECIFICATION FairSpec
CONSTANTS
  Modes = {"service", "console"}
  WorkerThreads <- MCWorkerThreads
  StartMayFail = TRUE
  DriverMayFail = TRUE
INVARIANT TypeOK
INVARIANT ThreadsEndBeforeTeardown
INVARIANT KilledAfterUnload
INVARIANT CleanExitMeansUnloaded
PROPERTY EngineEnds
PROPERTY ConsoleStopEndsEngine
