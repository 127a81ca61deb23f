SPECIFICATION FairSpec
CONSTANTS
  w1 = w1
  w2 = w2
  Workers <- MCWorkers
  ReceivesPerWorker = 2
  BackoffMin = 500
  BackoffMax = 15000
  DisconnectError = "deletingObject"
  SetupMayFail = TRUE
  CallsMayFail = TRUE
INVARIANT TypeOK
INVARIANT CapacityKept
INVARIANT LossNoticed
INVARIANT WorkersWithinConnection
PROPERTY Reconnects
PROPERTY ShutdownEnds
