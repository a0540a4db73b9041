\* Relayed recall system messages of one or two records of 0, 1 or 8
\* bytes; every text carries a well-formed mention, so the parser cannot
\* trap.
CONSTANTS
  IdWidth = 4
  NonAsciiDigits <- MCNonAsciiDigits
  UserIds = {5}
  Texts <- SafeTexts
  RecordCounts = {0, 1, 2}
  RecordSizes = {0, 1, 8}
  MaxListeners = 1
  MaxRelayed = 1
  MaxCalls = 0
SPECIFICATION Spec
INVARIANT NoTrap
CHECK_DEADLOCK FALSE
