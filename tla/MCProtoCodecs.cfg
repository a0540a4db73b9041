\* Widths scaled to 12 and 8 bits: -1 and -2048 wrap to multi-byte varints,
\* 300 needs two bytes, and a negative int32 is sign-extended past 32 bits.
CONSTANTS
  Int64Width = 12
  Int32Width = 8
  Int64Samples <- MCInt64Samples
  Int32Samples <- MCInt32Samples
  StringSamples <- MCStringSamples
  MemberSamples <- MCMemberSamples
  MaxRepeated = 2

SPECIFICATION Spec
INVARIANTS RoundTrip UnknownFieldsSkipped PackedAndUnpackedAgree
  UnknownFieldsRetained
