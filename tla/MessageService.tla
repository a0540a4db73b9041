---------------------------- MODULE MessageService ----------------------------
(***************************************************************************)
(* The Swift MessageService (MessageService.swift): the request builders   *)
(* that hand requests to the driver, the listener list, enableMention, and *)
(* the notification listener registered in init that turns a relayed       *)
(* CreateMessageRequest into a Message and a MessageAddition.              *)
(*                                                                         *)
(* Data is abstract: a record (Data) is its size class and whether its     *)
(* first byte is BuiltinSystemMessageType.recallMessage; loading an Int64  *)
(* from a full record yields the record itself; a text is a sequence of   *)
(* characters (MentionParser).  A trap (force unwrap of nil, an invalid   *)
(* range, an out-of-bounds load) stops the process: crashed.               *)
(***************************************************************************)
EXTENDS MentionParser
LOCAL INSTANCE SequencesExt

CONSTANTS
  UserIds,        \* ids the logged-in user may have
  Texts,          \* texts a relayed message may carry
  RecordCounts,   \* numbers of records a relayed message may carry
  RecordSizes,    \* byte sizes of a record: 0, short (1) or full (8)
  MaxListeners,   \* bound on addMessageListener calls
  MaxRelayed,     \* bound on relayed messages handled
  MaxCalls        \* bound on request-builder calls

VARIABLES
  listeners,      \* messageListeners.count
  parser,         \* mentionedUserIdsParser: "none", "default" or "custom"
  userId,         \* turmsClient.userService.userInfo?.userId
  handled,        \* relayed CreateMessageRequests handled
  lastMessage,    \* the Message built for the last one
  lastParser,     \* the parser that message was parsed with
  lastAddition,   \* the MessageAddition passed to every listener
  crashed,        \* a trap stopped the process
  calls,          \* request-builder calls made
  outbox          \* requests handed to turmsClient.driver.send

vars == <<listeners, parser, userId, handled, lastMessage, lastParser,
          lastAddition, crashed, calls, outbox>>

NoText == <<>>
\* A trap in the mention parser (an Int64 list) and in a record load (a
\* record list), and the bytes an out-of-bounds load returns in a release build.
ParseTrap == -2
LoadTrap == [size |-> -1, first |-> "trap"]
Garbage == [size |-> -1, first |-> "garbage"]
NoMessage == [text |-> NoText, isSystemMessage |-> FALSE, records |-> <<>>]
NoAddition == [isMentioned |-> FALSE, mentionedUserIds |-> <<>>, recalledMessageIds |-> <<>>]

Records == {r \in [size : RecordSizes, first : {"recall", "other"}] : r.size = 0 => r.first = "other"}
RelayedRequests ==
  [text : Texts \cup {NoText}, isSystemMessage : BOOLEAN,
   records : UNION {[1..n -> Records] : n \in RecordCounts}]

\* A request record handed to the driver.
Req(type, msgId, text, records, recall, withTotal) ==
  [type |-> type, hasMessageId |-> msgId, hasText |-> text, hasRecords |-> records,
   hasRecallDate |-> recall, withTotal |-> withTotal]

\* Optional String and [Data] arguments: nil, or present ([Data] may be []).
TextArgs == {"nil", "some"}
RecordsArgs == {"nil", "empty", "nonEmpty"}

Init ==
  /\ listeners = 0
  /\ parser = "none"
  /\ userId \in UserIds \cup {Nil}
  /\ handled = 0
  /\ lastMessage = NoMessage
  /\ lastParser = "none"
  /\ lastAddition = NoAddition
  /\ crashed = FALSE
  /\ calls = 0
  /\ outbox = <<>>

\* A request builder call: the request goes to the driver, or the call
\* returns at once (a failed or resolved promise) without one.
Call(req) ==
  /\ ~crashed /\ calls < MaxCalls
  /\ calls' = calls + 1
  /\ outbox' = Append(outbox, req)
  /\ UNCHANGED <<listeners, parser, userId, handled, lastMessage, lastParser, lastAddition, crashed>>
CallWithoutRequest ==
  /\ ~crashed /\ calls < MaxCalls
  /\ calls' = calls + 1
  /\ UNCHANGED <<listeners, parser, userId, handled, lastMessage, lastParser, lastAddition, crashed, outbox>>

\* Validator.areAllNil(text, records): nil-ness only, an empty array is not nil.
AreAllNil(text, records) == text = "nil" /\ records = "nil"

(* sendMessage: fails with illegalArgument when text and records are both *)
(* nil, else sends a CreateMessageRequest.                                 *)
SendMessage ==
  \E text \in TextArgs, records \in RecordsArgs :
    IF AreAllNil(text, records) THEN CallWithoutRequest
    ELSE Call(Req("create", FALSE, text = "some", records = "nonEmpty", FALSE, FALSE))

(* forwardMessage: a CreateMessageRequest carrying the message id.         *)
ForwardMessage == Call(Req("create", TRUE, FALSE, FALSE, FALSE, FALSE))

(* updateSentMessage: resolves at once when text and records are both nil. *)
UpdateSentMessage ==
  \E text \in TextArgs, records \in RecordsArgs :
    IF AreAllNil(text, records) THEN CallWithoutRequest
    ELSE Call(Req("update", TRUE, text = "some", records = "nonEmpty", FALSE, FALSE))

(* queryMessages / queryMessagesWithTotal: a QueryMessagesRequest.         *)
QueryMessages(withTotal) == Call(Req("query", FALSE, FALSE, FALSE, FALSE, withTotal))

(* recallMessage: an UpdateMessageRequest with the recall date.            *)
RecallMessage == Call(Req("update", TRUE, FALSE, FALSE, TRUE, FALSE))

(* addMessageListener: messageListeners.append.                            *)
AddMessageListener ==
  /\ ~crashed /\ listeners < MaxListeners
  /\ listeners' = listeners + 1
  /\ UNCHANGED <<parser, userId, handled, lastMessage, lastParser, lastAddition, crashed, calls, outbox>>

(* enableMention(p): a non-nil p replaces the parser; nil installs the    *)
(* default parser only when none is set.                                   *)
EnableMention ==
  /\ ~crashed
  /\ \E p \in {"nil", "custom"} :
       \/ p # "nil" /\ parser' = p
       \/ p = "nil" /\ parser' = IF parser = "none" THEN "default" ELSE parser
  /\ UNCHANGED <<listeners, userId, handled, lastMessage, lastParser, lastAddition, crashed, calls, outbox>>

\* createMessage2Message: the Message copies the request's text, records
\* and isSystemMessage (ids, dates and the sender are not modelled).
CreateMessage2Message(r) ==
  [text |-> r.text, isSystemMessage |-> r.isSystemMessage, records |-> r.records]

\* mentionedUserIdsParser?(message) ?? []: the possible results, ParseTrap when
\* DEFAULT_MENTIONED_USER_IDS_PARSER force-unwraps nil; a custom parser is
\* application code and may return any ids.
MentionOutcomes(m) ==
  CASE parser = "none" -> {<<>>}
    [] parser = "default" ->
         IF m.text = NoText THEN {<<>>}
         ELSE IF ParserTraps(m.text) THEN {<<ParseTrap>>} ELSE {DefaultMentionedUserIds(m.text)}
    [] parser = "custom" -> {<<>>} \cup {<<u>> : u \in UserIds}

\* BuiltinSystemMessageType(rawValue: Int(records[0][0])) for a system
\* message whose first record is not empty.
IsRecall(m) ==
  /\ m.isSystemMessage
  /\ m.records # <<>>
  /\ m.records[1].size > 0
  /\ m.records[1].first = "recall"

\* records[i].withUnsafeBytes { $0.load(as: Int64.self) }: a full record
\* yields its id; fewer than 8 bytes is an out-of-bounds load, which traps
\* (debug precondition) or reads bytes past the record (release).
Load(rec) == IF rec.size >= 8 THEN {rec} ELSE {LoadTrap, Garbage}

\* for i in 1 ... (size - 1): traps when size = 1 (lowerBound > upperBound).
RecallOutcomes(m) ==
  IF ~IsRecall(m) THEN {<<>>}
  ELSE IF Len(m.records) = 1 THEN {<<LoadTrap>>}
  ELSE {f \in [1..(Len(m.records) - 1) -> Records \cup {LoadTrap, Garbage}] :
          \A k \in DOMAIN f : f[k] \in Load(m.records[k + 1])}

Traps(mentioned, recalled) == ParseTrap \in ToSet(mentioned) \/ LoadTrap \in ToSet(recalled)

(* The notification listener registered in init: when there are listeners *)
(* and the notification relays a CreateMessageRequest, build the Message, *)
(* parseMessageAddition, and call every listener with both.                *)
OnRelayedCreateMessage ==
  /\ ~crashed /\ handled < MaxRelayed
  /\ listeners # 0
  /\ \E r \in RelayedRequests :
       LET m == CreateMessage2Message(r) IN
       \E mentioned \in MentionOutcomes(m), recalled \in RecallOutcomes(m) :
         /\ handled' = handled + 1
         /\ \/ /\ Traps(mentioned, recalled)
               /\ crashed' = TRUE
               /\ UNCHANGED <<lastMessage, lastParser, lastAddition>>
            \/ /\ ~Traps(mentioned, recalled)
               /\ lastMessage' = m
               /\ lastParser' = parser
               /\ lastAddition' =
                    [isMentioned |-> userId # Nil /\ userId \in ToSet(mentioned),
                     mentionedUserIds |-> mentioned, recalledMessageIds |-> recalled]
               /\ UNCHANGED crashed
  /\ UNCHANGED <<listeners, parser, userId, calls, outbox>>

Next ==
  \/ SendMessage
  \/ ForwardMessage
  \/ UpdateSentMessage
  \/ \E withTotal \in BOOLEAN : QueryMessages(withTotal)
  \/ RecallMessage
  \/ AddMessageListener
  \/ EnableMention
  \/ OnRelayedCreateMessage

Spec == Init /\ [][Next]_vars

-----------------------------------------------------------------------------
(* With the default parser, a listener is told isMentioned exactly when   *)
(* the message text holds "@{d}" whose digits d are the decimal form of    *)
(* the logged-in user's id (the documented "@{userId}" format), whether   *)
(* it is the first mention or a later one.                                 *)
MentionedMatchesText ==
  lastParser = "default" /\ userId # Nil =>
    (lastAddition.isMentioned <=>
       \E sp \in MentionSpansOf(lastMessage.text) :
         LET d == Capture(lastMessage.text, sp) IN
         (\A j \in 1..Len(d) : d[j] \in AsciiDigits) /\ DecimalValue(d) = userId)

(* No relayed message stops the process: the comment documents the       *)
(* "@{userId}" format the regex accepts, and parseMessageAddition is      *)
(* called on every relayed CreateMessageRequest.                           *)
NoTrap == ~crashed

(* sendMessage rejects a call with "text and records must not all be      *)
(* null": no CreateMessageRequest without a message id reaches the driver *)
(* with neither text nor records on the wire.                              *)
NoEmptyContentRequest ==
  \A k \in 1..Len(outbox) :
    outbox[k].type = "create" /\ ~outbox[k].hasMessageId =>
      outbox[k].hasText \/ outbox[k].hasRecords
=============================================================================
