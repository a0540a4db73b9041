---------------------------- MODULE ProtobufWire ----------------------------
(***************************************************************************)
(* The protobufjs/minimal Writer and Reader calls the generated codecs     *)
(* make (writer.uint32/int64/int32/string/fork/ldelim, reader.uint32/      *)
(* int64/int32/string/skipType), on byte sequences.  Widths are scaled:   *)
(* Int64Width stands for 64 and Int32Width for 32; a Long is its           *)
(* Int64Width-bit pattern.  A read past the end is ReadError (protobufjs   *)
(* throws RangeError "index out of range").                                *)
(***************************************************************************)
EXTENDS Integers, Sequences

CONSTANTS
  Int64Width,   \* bits of a Long (64)
  Int32Width    \* bits of a uint32/int32 read (32)

ASSUME Int32Width \in Nat /\ Int64Width \in Nat /\ 7 < Int32Width /\ Int32Width < Int64Width

\* A failed read; every successful read is a record [val, pos].
ReadError == [error |-> "index out of range"]
Ok(v, p) == [val |-> v, pos |-> p]

\* Base-128 varint, least significant group first, continuation bit 128.
RECURSIVE Varint(_)
Varint(n) == IF n < 128 THEN <<n>> ELSE <<(n % 128) + 128>> \o Varint(n \div 128)

\* writer.uint32(tag): field number and wire type.
Tag(num, wireType) == Varint(num * 8 + wireType)

\* writer.int64(v): Long.fromString keeps the low 64 bits, written unsigned.
WriteInt64(v) == Varint(v % 2^Int64Width)

\* writer.int32(v): a negative value is sign-extended to 64 bits.
WriteInt32(v) == IF v < 0 THEN Varint(v % 2^Int64Width) ELSE Varint(v)

\* writer.string(s) and writer.fork() ... ldelim(): length, then the bytes.
LengthDelimited(bytes) == Varint(Len(bytes)) \o bytes

\* Reading a varint at pos: its full value and the position after it.
RECURSIVE ReadVarint(_, _)
ReadVarint(b, pos) ==
  IF pos > Len(b) THEN ReadError
  ELSE IF b[pos] < 128 THEN Ok(b[pos], pos + 1)
  ELSE LET rest == ReadVarint(b, pos + 1) IN
       IF rest = ReadError THEN ReadError
       ELSE Ok((b[pos] - 128) + 128 * rest.val, rest.pos)

\* Keep the low w bits of a read, as unsigned or as two's complement.
Low(r, w) == IF r = ReadError THEN r ELSE Ok(r.val % 2^w, r.pos)
Signed(r, w) ==
  IF r = ReadError THEN r
  ELSE Ok(IF r.val >= 2^(w - 1) THEN r.val - 2^w ELSE r.val, r.pos)

\* reader.uint32(): the low 32 bits, unsigned.
ReadUint32(b, pos) == Low(ReadVarint(b, pos), Int32Width)
\* reader.int64(): a Long holding the low 64 bits.
ReadLong(b, pos) == Low(ReadVarint(b, pos), Int64Width)
\* reader.int32(): uint32() | 0.
ReadInt32(b, pos) == Signed(ReadUint32(b, pos), Int32Width)

\* reader.bytes()/string(): a length, then that many bytes.
ReadLengthDelimited(b, pos) ==
  LET n == ReadUint32(b, pos) IN
  IF n = ReadError THEN ReadError
  ELSE IF n.pos + n.val - 1 > Len(b) THEN ReadError
  ELSE Ok(SubSeq(b, n.pos, n.pos + n.val - 1), n.pos + n.val)

\* reader.skip(n): n bytes, or to the end of a varint when n is 0.
Skip(b, pos, n) ==
  IF n = 0 THEN ReadVarint(b, pos)
  ELSE IF pos + n - 1 > Len(b) THEN ReadError ELSE Ok(0, pos + n)

\* Mutant of SkipType: wire types 1 (fixed64) and 5 (fixed32) swapped.
RECURSIVE SkipTypeSwapped(_, _, _)
SkipTypeSwapped(b, pos, wireType) ==
  CASE wireType = 0 -> Skip(b, pos, 0)
    [] wireType = 1 -> Skip(b, pos, 4)
    [] wireType = 2 -> ReadLengthDelimited(b, pos)
    [] wireType = 3 ->
         LET t == ReadUint32(b, pos) IN
         IF t = ReadError THEN t
         ELSE IF t.val % 8 = 4 THEN t
         ELSE LET p == SkipTypeSwapped(b, t.pos, t.val % 8) IN
              IF p = ReadError THEN p ELSE SkipTypeSwapped(b, p.pos, 3)
    [] wireType = 5 -> Skip(b, pos, 8)
    [] OTHER -> ReadError

\* reader.skipType(wireType): the position after a field of that wire type
\* (in .pos); a group (3) is skipped field by field up to its end-group tag (4).
RECURSIVE SkipType(_, _, _)
SkipType(b, pos, wireType) ==
  CASE wireType = 0 -> Skip(b, pos, 0)
    [] wireType = 1 -> Skip(b, pos, 8)
    [] wireType = 2 -> ReadLengthDelimited(b, pos)
    [] wireType = 3 ->
         LET t == ReadUint32(b, pos) IN
         IF t = ReadError THEN t
         ELSE IF t.val % 8 = 4 THEN t
         ELSE LET p == SkipType(b, t.pos, t.val % 8) IN
              IF p = ReadError THEN p ELSE SkipType(b, p.pos, 3)
    [] wireType = 5 -> Skip(b, pos, 4)
    [] OTHER -> ReadError
=============================================================================
