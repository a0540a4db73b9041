\* The request builders only; no relayed message.
CONSTANTS
  IdWidth = 4
  NonAsciiDigits <- MCNonAsciiDigits
  UserIds = {5}
  Texts <- SafeTexts
  RecordCounts = {0}
  RecordSizes = {8}
  MaxListeners = 1
  MaxRelayed = 0
  MaxCalls = 1
SPECIFICATION Spec
INVARIANT NoEmptyContentRequest
CHECK_DEADLOCK FALSE
