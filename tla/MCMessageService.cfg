\* Every builder, enableMention with nil and a custom parser, one listener,
\* one relayed message of up to three records of 0, 1 or 8 bytes, with
\* every text of MCMessageService.  A trap is final, so the process may stop.
CONSTANTS
  IdWidth = 4
  NonAsciiDigits <- MCNonAsciiDigits
  UserIds = {5}
  Texts <- AllTexts
  RecordCounts = {0, 1, 2, 3}
  RecordSizes = {0, 1, 8}
  MaxListeners = 1
  MaxRelayed = 1
  MaxCalls = 1
SPECIFICATION Spec
INVARIANT MentionedMatchesText
CHECK_DEADLOCK FALSE
