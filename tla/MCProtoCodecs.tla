---------------------------- MODULE MCProtoCodecs ----------------------------
(***************************************************************************)
(* Model-checking harness for TurmsProtoCodecs and the Swift              *)
(* DeleteRelationshipGroupMemberRequestPb: each step picks one of the     *)
(* eight generated messages and a value of it built from small samples;   *)
(* the invariants encode and decode that value.                            *)
(***************************************************************************)
EXTENDS TurmsProtoCodecs, DeleteRelationshipGroupMemberRequestPb, FiniteSets
LOCAL INSTANCE SequencesExt

CONSTANTS
  Int64Samples,     \* int64 field values (decimal strings in TS)
  Int32Samples,     \* int32 / enum field values
  StringSamples,    \* UTF-8 encodings of string fields
  MemberSamples,    \* encoded GroupMember records
  MaxRepeated       \* bound on the length of a repeated field

\* Samples a .cfg cannot write (negative numbers, byte sequences).
MCInt64Samples == {0, -1, 300}
MCInt32Samples == {0, -1, 3}
MCStringSamples == {<<>>, <<97>>}
MCMemberSamples == {<<>>, <<8, 1>>}

VARIABLES kind, msg
vars == <<kind, msg>>

Opt(S) == {<<>>} \cup {<<v>> : v \in S}
Lists(S) == UNION {[1..n -> S] : n \in 0..MaxRepeated}

\* The Swift message, and its stored fields as a table to sample from.
SwiftKind == "DeleteRelationshipGroupMemberRequest"
SwiftFields ==
  << Field("userID", 1, "int64", "implicit", 0),
     Field("groupIndex", 2, "int32", "implicit", 0),
     Field("targetGroupIndex", 3, "int32", "optional", <<>>) >>

Kinds == {"Int64ValuesWithVersion", "GroupInvitation", "GroupMembersWithVersion",
          "UpdateConversationRequest", "CreateGroupMemberRequest",
          "DeleteGroupBlockedUserRequest", "DeleteGroupJoinQuestionRequest", SwiftKind}

FieldsOf(k) ==
  CASE k = "Int64ValuesWithVersion" -> Int64ValuesWithVersionFields
    [] k = "GroupInvitation" -> GroupInvitationFields
    [] k = "GroupMembersWithVersion" -> GroupMembersWithVersionFields
    [] k = "UpdateConversationRequest" -> UpdateConversationRequestFields
    [] k = "CreateGroupMemberRequest" -> CreateGroupMemberRequestFields
    [] k = "DeleteGroupBlockedUserRequest" -> DeleteGroupBlockedUserRequestFields
    [] k = "DeleteGroupJoinQuestionRequest" -> DeleteGroupJoinQuestionRequestFields
    [] k = SwiftKind -> SwiftFields

\* The sample values of a field of the given type and presence.
Samples(type) ==
  CASE type = "int64" -> Int64Samples
    [] type = "int32" -> Int32Samples
    [] type = "string" -> StringSamples
    [] type = "message" -> MemberSamples
FieldRange(f) ==
  CASE f.presence = "optional" -> Opt(Samples(f.type))
    [] f.presence = "implicit" -> Samples(f.type)
    [] f.presence = "repeated" -> Lists(Samples(f.type))

EncodeOf(k, m) ==
  CASE k = "Int64ValuesWithVersion" -> Int64ValuesWithVersionEncode(m)
    [] k = "GroupInvitation" -> GroupInvitationEncode(m)
    [] k = "GroupMembersWithVersion" -> GroupMembersWithVersionEncode(m)
    [] k = "UpdateConversationRequest" -> UpdateConversationRequestEncode(m)
    [] k = "CreateGroupMemberRequest" -> CreateGroupMemberRequestEncode(m)
    [] k = "DeleteGroupBlockedUserRequest" -> DeleteGroupBlockedUserRequestEncode(m)
    [] k = "DeleteGroupJoinQuestionRequest" -> DeleteGroupJoinQuestionRequestEncode(m)
    [] k = SwiftKind -> Traverse(m)

DecodeOf(k, b) ==
  CASE k = "Int64ValuesWithVersion" -> Int64ValuesWithVersionDecode(b)
    [] k = "GroupInvitation" -> GroupInvitationDecode(b)
    [] k = "GroupMembersWithVersion" -> GroupMembersWithVersionDecode(b)
    [] k = "UpdateConversationRequest" -> UpdateConversationRequestDecode(b)
    [] k = "CreateGroupMemberRequest" -> CreateGroupMemberRequestDecode(b)
    [] k = "DeleteGroupBlockedUserRequest" -> DeleteGroupBlockedUserRequestDecode(b)
    [] k = "DeleteGroupJoinQuestionRequest" -> DeleteGroupJoinQuestionRequestDecode(b)
    [] k = SwiftKind -> DecodeMessage(b)

\* Fields a newer schema may add (number 15, absent from every message
\* here), one per wire type: varint, fixed64, length-delimited, fixed32, and a
\* group whose body holds a field numbered 1.
UnknownFields ==
  { Tag(15, 0) \o Varint(300),
    Tag(15, 1) \o <<1, 2, 3, 4, 5, 6, 7, 8>>,
    Tag(15, 2) \o LengthDelimited(<<8, 1>>),
    Tag(15, 5) \o <<1, 2, 3, 4>>,
    Tag(15, 3) \o Tag(1, 0) \o <<5>> \o Tag(15, 4) }

\* The Swift message's field numbers sent with another wire type, as a
\* schema that changed their types would: length-delimited, fixed32, fixed64.
RetypedFields ==
  { Tag(1, 2) \o LengthDelimited(<<1>>),
    Tag(2, 5) \o <<1, 2, 3, 4>>,
    Tag(3, 1) \o <<1, 2, 3, 4, 5, 6, 7, 8>> }

\* The encoding another protobuf writer (proto2, or a non-packing one) may
\* send for Int64ValuesWithVersion: one varint record per element.
UnpackedInt64ValuesWithVersion(m) ==
  FoldLeft(LAMBDA acc, v : acc \o Tag(1, 0) \o WriteInt64(v), <<>>, m.values)
    \o EncodeField(Int64ValuesWithVersionFields[2], m.lastUpdatedDate)

\* A message starts as createBase...(), which is what decode of no bytes returns.
Init ==
  /\ kind = "DeleteGroupJoinQuestionRequest"
  /\ msg = DecodeOf(kind, <<>>)

\* Start a message of another kind.
SelectKind ==
  \E k \in Kinds \ {kind} : kind' = k /\ msg' = DecodeOf(k, <<>>)

\* Give one field of the message one of its sample values.
SetField ==
  \E i \in DOMAIN FieldsOf(kind) :
    \E v \in FieldRange(FieldsOf(kind)[i]) :
      /\ msg' = [msg EXCEPT ![FieldsOf(kind)[i].name] = v]
      /\ UNCHANGED kind

Next == SelectKind \/ SetField
Spec == Init /\ [][Next]_vars

\* Round trip of every generated codec: decode(encode(m)) gives m back,
\* through the varint, the 64-bit wrap of writer.int64, the sign extension
\* of writer.int32 and longToString of the Long read back.
RoundTrip == DecodeOf(kind, EncodeOf(kind, msg)) = msg

\* Forward compatibility: a field unknown to the generated decode, of any
\* wire type, before or after the known ones, is passed over by
\* reader.skipType and leaves the decoded message unchanged.
UnknownFieldsSkipped ==
  kind # SwiftKind =>
  \A u \in UnknownFields :
    /\ DecodeOf(kind, EncodeOf(kind, msg) \o u) = msg
    /\ DecodeOf(kind, u \o EncodeOf(kind, msg)) = msg

\* Int64ValuesWithVersion.decode accepts values both packed (what its own
\* encode writes) and one record per element, with the same result.
PackedAndUnpackedAgree ==
  kind = "Int64ValuesWithVersion" =>
    Int64ValuesWithVersionDecode(UnpackedInt64ValuesWithVersion(msg)) = msg

(* SwiftProtobuf keeps what it does not understand: a field of a newer     *)
(* schema, of any wire type, or one of the message's own numbers sent with *)
(* another wire type, before or after the known ones, is stored in         *)
(* unknownFields exactly as received, and traverse writes it back, so a    *)
(* decoded DeleteRelationshipGroupMemberRequest re-serialises without      *)
(* losing it.                                                              *)
UnknownFieldsRetained ==
  kind = SwiftKind =>
    \A u \in UnknownFields \cup RetypedFields :
      \A b \in {EncodeOf(kind, msg) \o u, u \o EncodeOf(kind, msg)} :
        LET d == DecodeMessage(b) IN
        /\ d = [msg EXCEPT !.unknownFields = u]
        /\ DecodeMessage(Traverse(d)) = d
=============================================================================
