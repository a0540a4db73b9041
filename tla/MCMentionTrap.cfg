\* Relayed messages without records whose text mentions an id above
\* Int64.max (9 > 7 at 4 bits) or an id in Arabic-Indic digits.
CONSTANTS
  IdWidth = 4
  NonAsciiDigits <- MCNonAsciiDigits
  UserIds = {5}
  Texts <- ParseTrapTexts
  RecordCounts = {0}
  RecordSizes = {8}
  MaxListeners = 1
  MaxRelayed = 1
  MaxCalls = 0
SPECIFICATION Spec
INVARIANT NoTrap
CHECK_DEADLOCK FALSE
