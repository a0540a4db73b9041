--------------------------- MODULE TurmsProtoCodecs ---------------------------
(***************************************************************************)
(* The ts-proto generated codecs under src/turms-client-js/src/model/proto *)
(* (protobufjs/minimal).  Every generated encode is the same control: for  *)
(* each field in order, an optional field (`x?:`) is written when it is not *)
(* undefined, an implicit one when it differs from its default, a repeated *)
(* one always (int64 lists packed with fork/ldelim, message lists one      *)
(* length-delimited record per element).  Every generated decode starts    *)
(* from createBase...(), loops while pos < end on a tag, dispatches on      *)
(* tag >>> 3 without checking the wire type, and skipType(tag & 7) for an *)
(* unknown number.  A message is a record: an optional field is <<>>       *)
(* (undefined) or <<v>>; an int64 (a decimal string in TS) is its integer;  *)
(* a string is its UTF-8 bytes; a nested GroupMember is its encoded bytes. *)
(***************************************************************************)
EXTENDS ProtobufWire
LOCAL INSTANCE SequencesExt

\* One field of a generated message.
Field(name, num, type, presence, default) ==
  [name |-> name, num |-> num, type |-> type, presence |-> presence, default |-> default]

WireTypeOf(type) == IF type \in {"int64", "int32"} THEN 0 ELSE 2

WriteValue(type, v) ==
  CASE type = "int64" -> WriteInt64(v)
    [] type = "int32" -> WriteInt32(v)
    [] type \in {"string", "message"} -> LengthDelimited(v)

\* The statement of encode for one field.
EncodeField(f, v) ==
  CASE f.presence = "optional" ->
         IF v = <<>> THEN <<>> ELSE Tag(f.num, WireTypeOf(f.type)) \o WriteValue(f.type, v[1])
    [] f.presence = "implicit" ->
         IF v = f.default THEN <<>> ELSE Tag(f.num, WireTypeOf(f.type)) \o WriteValue(f.type, v)
    [] f.presence = "repeated" /\ f.type = "int64" ->
         Tag(f.num, 2) \o LengthDelimited(FoldLeft(LAMBDA acc, x : acc \o WriteInt64(x), <<>>, v))
    [] f.presence = "repeated" /\ f.type = "message" ->
         FoldLeft(LAMBDA acc, x : acc \o Tag(f.num, 2) \o LengthDelimited(x), <<>>, v)

Encode(fields, m) == FoldLeft(LAMBDA acc, f : acc \o EncodeField(f, m[f.name]), <<>>, fields)

\* Mutant of LongToString: the Long printed as unsigned.
LongToUnsignedString(r) == r

\* longToString(reader.int64() as Long): Long.toString is signed decimal.
LongToString(r) == Signed(r, Int64Width)

\* The read of one field's value (for a packed list, see ReadRepeatedInt64).
ReadValue(type, b, pos) ==
  CASE type = "int64" -> LongToString(ReadLong(b, pos))
    [] type = "int32" -> ReadInt32(b, pos)
    [] type \in {"string", "message"} -> ReadLengthDelimited(b, pos)

\* while (reader.pos < end2) values.push(longToString(reader.int64()))
RECURSIVE ReadInt64sUntil(_, _, _, _)
ReadInt64sUntil(b, pos, end, acc) ==
  IF pos >= end THEN Ok(acc, pos)
  ELSE LET r == LongToString(ReadLong(b, pos)) IN
       IF r = ReadError THEN r ELSE ReadInt64sUntil(b, r.pos, end, Append(acc, r.val))

\* Mutant of ReadRepeatedInt64: only the packed form is read; an unpacked
\* element is taken as a zero-length packed run.
ReadRepeatedInt64PackedOnly(b, pos, wireType) ==
  IF wireType = 2
  THEN LET n == ReadUint32(b, pos) IN
       IF n = ReadError THEN n ELSE ReadInt64sUntil(b, n.pos, n.pos + n.val, <<>>)
  ELSE LET r == ReadLong(b, pos) IN IF r = ReadError THEN r ELSE Ok(<<>>, r.pos)

\* A repeated int64: packed ((tag & 7) === 2) or a single element.
ReadRepeatedInt64(b, pos, wireType) ==
  IF wireType = 2
  THEN LET n == ReadUint32(b, pos) IN
       IF n = ReadError THEN n ELSE ReadInt64sUntil(b, n.pos, n.pos + n.val, <<>>)
  ELSE LET r == LongToString(ReadLong(b, pos)) IN
       IF r = ReadError THEN r ELSE Ok(<<r.val>>, r.pos)

\* The read of a field and how its value is stored in the message.
ReadField(f, b, pos, wireType) ==
  IF f.presence = "repeated" /\ f.type = "int64" THEN ReadRepeatedInt64(b, pos, wireType)
  ELSE ReadValue(f.type, b, pos)
Store(f, old, v) ==
  CASE f.presence = "optional" -> <<v>>
    [] f.presence = "implicit" -> v
    [] f.presence = "repeated" /\ f.type = "int64" -> old \o v
    [] f.presence = "repeated" /\ f.type = "message" -> Append(old, v)

\* createBase...(): undefined, the default, or an empty list.
CreateBase(fields) ==
  [n \in {fields[k].name : k \in DOMAIN fields} |->
     LET f == CHOOSE f \in ToSet(fields) : f.name = n IN
     CASE f.presence = "optional" -> <<>>
       [] f.presence = "implicit" -> f.default
       [] f.presence = "repeated" -> <<>>]

\* The decode loop from pos to the end of b.
RECURSIVE DecodeFrom(_, _, _, _)
DecodeFrom(fields, b, pos, msg) ==
  IF pos > Len(b) THEN msg
  ELSE LET t == ReadUint32(b, pos) IN
  IF t = ReadError THEN ReadError
  ELSE LET known == {f \in ToSet(fields) : f.num = t.val \div 8} IN
  IF known = {}
  THEN LET p == SkipType(b, t.pos, t.val % 8) IN
       IF p = ReadError THEN p ELSE DecodeFrom(fields, b, p.pos, msg)
  ELSE LET f == CHOOSE f \in known : TRUE
           r == ReadField(f, b, t.pos, t.val % 8) IN
       IF r = ReadError THEN r
       ELSE DecodeFrom(fields, b, r.pos, [msg EXCEPT ![f.name] = Store(f, @, r.val)])

Decode(fields, b) == DecodeFrom(fields, b, 1, CreateBase(fields))

(* The generated messages: interface + createBase (the field table), encode *)
(* and decode of each file.                                                *)
Int64ValuesWithVersionFields ==
  << Field("values", 1, "int64", "repeated", <<>>),
     Field("lastUpdatedDate", 2, "int64", "optional", <<>>) >>
Int64ValuesWithVersionEncode(m) == Encode(Int64ValuesWithVersionFields, m)
Int64ValuesWithVersionDecode(b) == Decode(Int64ValuesWithVersionFields, b)

GroupInvitationFields ==
  << Field("id", 1, "int64", "optional", <<>>),
     Field("creationDate", 2, "int64", "optional", <<>>),
     Field("content", 3, "string", "optional", <<>>),
     Field("status", 4, "int32", "optional", <<>>),
     Field("expirationDate", 5, "int64", "optional", <<>>),
     Field("groupId", 6, "int64", "optional", <<>>),
     Field("inviterId", 7, "int64", "optional", <<>>),
     Field("inviteeId", 8, "int64", "optional", <<>>) >>
GroupInvitationEncode(m) == Encode(GroupInvitationFields, m)
GroupInvitationDecode(b) == Decode(GroupInvitationFields, b)

GroupMembersWithVersionFields ==
  << Field("groupMembers", 1, "message", "repeated", <<>>),
     Field("lastUpdatedDate", 2, "int64", "optional", <<>>) >>
GroupMembersWithVersionEncode(m) == Encode(GroupMembersWithVersionFields, m)
GroupMembersWithVersionDecode(b) == Decode(GroupMembersWithVersionFields, b)

UpdateConversationRequestFields ==
  << Field("targetId", 1, "int64", "optional", <<>>),
     Field("groupId", 2, "int64", "optional", <<>>),
     Field("readDate", 3, "int64", "implicit", 0) >>
UpdateConversationRequestEncode(m) == Encode(UpdateConversationRequestFields, m)
UpdateConversationRequestDecode(b) == Decode(UpdateConversationRequestFields, b)

CreateGroupMemberRequestFields ==
  << Field("groupId", 1, "int64", "implicit", 0),
     Field("userId", 2, "int64", "implicit", 0),
     Field("name", 3, "string", "optional", <<>>),
     Field("role", 4, "int32", "implicit", 0),
     Field("muteEndDate", 5, "int64", "optional", <<>>) >>
CreateGroupMemberRequestEncode(m) == Encode(CreateGroupMemberRequestFields, m)
CreateGroupMemberRequestDecode(b) == Decode(CreateGroupMemberRequestFields, b)

DeleteGroupBlockedUserRequestFields ==
  << Field("groupId", 1, "int64", "implicit", 0),
     Field("userId", 2, "int64", "implicit", 0) >>
DeleteGroupBlockedUserRequestEncode(m) == Encode(DeleteGroupBlockedUserRequestFields, m)
DeleteGroupBlockedUserRequestDecode(b) == Decode(DeleteGroupBlockedUserRequestFields, b)

DeleteGroupJoinQuestionRequestFields ==
  << Field("questionId", 1, "int64", "implicit", 0) >>
DeleteGroupJoinQuestionRequestEncode(m) == Encode(DeleteGroupJoinQuestionRequestFields, m)
DeleteGroupJoinQuestionRequestDecode(b) == Decode(DeleteGroupJoinQuestionRequestFields, b)
=============================================================================
