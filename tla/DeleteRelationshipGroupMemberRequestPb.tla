------------------ MODULE DeleteRelationshipGroupMemberRequestPb ------------------
(***************************************************************************)
(* The SwiftProtobuf generated message DeleteRelationshipGroupMemberRequest *)
(* (turms-client-swift .../delete_relationship_group_member_request.pb.swift): *)
(* its storage, traverse (serialisation) and decodeMessage.  The runtime    *)
(* calls it makes behave as SwiftProtobuf's BinaryEncodingVisitor and       *)
(* BinaryDecoder do: a decodeSingular...Field call consumes the field only  *)
(* when its wire type is varint; a field the switch does not consume       *)
(* (unknown number, or known number with another wire type) is kept, bytes *)
(* as received, in unknownFields, which traverse writes back last.  A tag  *)
(* with field number 0 or an invalid wire type, and a truncated field, make *)
(* decoding throw (ReadError).                                             *)
(***************************************************************************)
EXTENDS ProtobufWire

\* init(): userID and groupIndex 0, _targetGroupIndex nil, no unknown fields.
NewDeleteRelationshipGroupMemberRequest ==
  [userID |-> 0, groupIndex |-> 0, targetGroupIndex |-> <<>>, unknownFields |-> <<>>]

\* Mutant of Traverse: unknownFields.traverse(visitor:) left out.
TraverseDropsUnknown(m) ==
  (IF m.userID # 0 THEN Tag(1, 0) \o WriteInt64(m.userID) ELSE <<>>)
  \o (IF m.groupIndex # 0 THEN Tag(2, 0) \o WriteInt32(m.groupIndex) ELSE <<>>)
  \o (IF m.targetGroupIndex = <<>> THEN <<>> ELSE Tag(3, 0) \o WriteInt32(m.targetGroupIndex[1]))

\* traverse(visitor:) with the binary encoding visitor: implicit fields
\* when non-zero, the optional one when set, then the unknown fields.
Traverse(m) ==
  (IF m.userID # 0 THEN Tag(1, 0) \o WriteInt64(m.userID) ELSE <<>>)
  \o (IF m.groupIndex # 0 THEN Tag(2, 0) \o WriteInt32(m.groupIndex) ELSE <<>>)
  \o (IF m.targetGroupIndex = <<>> THEN <<>> ELSE Tag(3, 0) \o WriteInt32(m.targetGroupIndex[1]))
  \o m.unknownFields

\* What a decodeSingular...Field call returns when it leaves the field to
\* the decoder.
Unconsumed == [unconsumed |-> TRUE]

\* decodeSingularInt64Field: only a varint is consumed, as
\* Int64(bitPattern:) of its value.
DecodeInt64(b, pos, wireType) ==
  IF wireType # 0 THEN Unconsumed ELSE Signed(ReadLong(b, pos), Int64Width)

\* decodeSingularInt32Field: only a varint is consumed, as
\* Int32(truncatingIfNeeded:) of its value.
DecodeInt32(b, pos, wireType) ==
  IF wireType # 0 THEN Unconsumed ELSE ReadInt32(b, pos)

\* Cases 1 to 3 of the switch on fieldNumber: the field's value stored, or
\* the runtime's answer (an error, or the field left unconsumed).
DecodeKnown(m, num, wireType, b, pos) ==
  LET r == IF num = 1 THEN DecodeInt64(b, pos, wireType) ELSE DecodeInt32(b, pos, wireType)
      field == CASE num = 1 -> "userID" [] num = 2 -> "groupIndex" [] num = 3 -> "targetGroupIndex"
      v == IF num = 3 THEN <<r.val>> ELSE r.val IN
  IF r \in {ReadError, Unconsumed} THEN r ELSE Ok([m EXCEPT ![field] = v], r.pos)

\* nextFieldNumber(): the tag, rejected when malformed.
NextTag(b, pos) ==
  LET t == ReadUint32(b, pos) IN
  IF t = ReadError \/ t.val \div 8 = 0 \/ t.val % 8 \in {4, 6, 7} THEN ReadError ELSE t

\* nextFieldNumber() on a field the switch left unconsumed: skipped, and
\* its raw bytes, tag included, appended to unknownFields.
KeepUnknown(m, b, start, tagEnd, wireType) ==
  LET p == SkipType(b, tagEnd, wireType) IN
  IF p = ReadError THEN p
  ELSE Ok([m EXCEPT !.unknownFields = @ \o SubSeq(b, start, p.pos - 1)], p.pos)

\* while let fieldNumber = try decoder.nextFieldNumber() { switch ... }:
\* cases 1 to 3 call the runtime, default breaks.
RECURSIVE DecodeMessageFrom(_, _, _)
DecodeMessageFrom(b, pos, m) ==
  IF pos > Len(b) THEN m
  ELSE LET t == NextTag(b, pos) IN
  IF t = ReadError THEN t
  ELSE LET num == t.val \div 8
           wt == t.val % 8
           c == IF num \in {1, 2, 3} THEN DecodeKnown(m, num, wt, b, t.pos) ELSE Unconsumed
           r == IF c = Unconsumed THEN KeepUnknown(m, b, pos, t.pos, wt) ELSE c IN
       IF r = ReadError THEN r ELSE DecodeMessageFrom(b, r.pos, r.val)

\* DeleteRelationshipGroupMemberRequest(serializedData:): decodeMessage on a
\* fresh message.
DecodeMessage(b) == DecodeMessageFrom(b, 1, NewDeleteRelationshipGroupMemberRequest)
====
