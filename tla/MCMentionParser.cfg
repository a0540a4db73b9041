\* Every text of up to 8 characters (two mentions fit) over @ { } 1 9 and
\* one non-ASCII decimal digit; "@" stands for every other non-digit.
CONSTANTS
  MaxTextLen = 8
  OtherChars = {}
  IdWidth = 4
  NonAsciiDigits <- MCNonAsciiDigits
SPECIFICATION Spec
INVARIANTS
  ScannerAgreesWithFormat
CHECK_DEADLOCK FALSE
