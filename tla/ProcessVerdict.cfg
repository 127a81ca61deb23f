SPECIFICATION Spec
CONSTANTS
  r1 = r1
  r2 = r2
  r3 = r3
  tool = tool
  cBlock = cBlock
  cAllow = cAllow
  Empty = Empty
  Unknown = Unknown
  Disabled = Disabled
  Requests <- MCRequests
  Configs <- MCConfigs
  Inputs <- MCInputs
  Messages <- MCMessages
  AllowList <- MCAllowList
  BlockList <- MCBlockList
  WorkerCount = 2
  ReplyMayFail = TRUE
  PortMayDrop = TRUE
SYMMETRY SameMessage
INVARIANT TypeOK
INVARIANT EventsMatchOutcome
PROPERTY OneConfigDecides
