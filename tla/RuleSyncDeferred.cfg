SPECIFICATION Spec
CONSTANTS
  c0 = c0
  c1 = c1
  c2 = c2
  long = long
  r1 = r1
  r2 = r2
  Configs <- MCConfigs
  Default = c0
  Rules <- MCRules
  BlockRules <- MCBlockRules
  AllowRules <- MCAllowRules
  Oversized <- MCOversized
  Malformed = Malformed
  Absent = Absent
  NoConfig = NoConfig
  Hosts <- Failing
  BatchSupport <- MCBatchSupport
  IoctlMayFail <- MCIoctlMayFail
  DriverMayStop <- MCDriverMayStop
  PortMayDrop <- MCPortMayDrop
  MaxWrites <- MCMaxWrites
PROPERTY DeferredUpdateIsSynced
