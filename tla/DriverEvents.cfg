SPECIFICATION FairSpec
CONSTANTS
  p1 = p1
  p2 = p2
  self = self
  free = free
  long = long
  off = off
  Pids <- MCPids
  ExemptPids <- MCExemptPids
  p3 = p3
  Events <- MCEvents
  Configs <- MCConfigs
  TerminateOn <- MCTerminateOn
  MinSeverity <- MCMinSeverity
  CooldownMs <- MCCooldownMs
  RuleSeverity <- MCRuleSeverity
  Retention = 1
  MaxHistory = 1
  AgeCap = 2
  BackoffMin = 1
  BackoffMax = 3
  NoEvent = NoEvent
INVARIANT TypeOK
INVARIANT NoEventLost
INVARIANT HistoryBounded
INVARIANT OneSlipAfterOff
PROPERTY CooldownKept
PROPERTY ChannelReturns
PROPERTY ThreadEnds
PROPERTY OffenderAnswered
