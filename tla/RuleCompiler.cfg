SPECIFICATION Spec
CONSTANTS
  a = a
  b = b
  long = long
  blank = blank
  known = known
  other = other
  empty = empty
  invalid = invalid
  Documents <- MCDocuments
  Texts <- MCTexts
  Absent = Absent
  Mistyped = Mistyped
  Blank = blank
  TooLong <- MCTooLong
  Invalid = invalid
  Inputs <- MCInputs
  Empty = empty
  Accepted <- MCAccepted
  Defaults <- MCDefaults
  MaxContains = 3
  Operations <- MCOperations
  Creations <- MCCreations
INVARIANT TypeOK
INVARIANT RegistryRulesAsDeclared
INVARIANT ProcessRulesAsDeclared
INVARIANT ContainsLimited
INVARIANT EveryRuleCounts
