# TLA+ models of the turms client: shared connection, message service and protobuf codecs

This directory holds TLA+ models of the parts of this repository that have
state and concurrency, the TLC configurations that check them, and the
results. `PROJECT.json` lists the components, runs, mutants, findings and
hazards, and maps every modelled definition to the source lines it
translates.

## 1. Inventory

### Components

| Component | Source | State | Operations |
|---|---|---|---|
| Logical connection proxy (`WorkerWebSocketClient`) | `src/turms-client-js/src/transport/worker-websocket-client.ts` | `_isConnecting`, `_isConnected`, `_metrics`, the closure variable `connectStart`, and four listeners registered on the tab's `SharedContextService` | constructor (registers listeners and sends CONNECT), the four notification listeners, the CONNECT promise callbacks, `send` and its callback, `close` (a no-op), the getters |
| Connection-ownership broker (shared worker behind `SharedContextService`) | not in `src/`, so modelled from `spec.md` §4.1, §5 and §7 | the real socket's state (Idle/Connecting/Connected/Closed), the request that created the socket, the request queue | `connect`, `sendData`, the socket's open, error, close and message events |
| Notification/request protocol (`SharedContextService`) | not in `src/`; the proxy uses it at lines 2, 16–54 and 74 | request queue to the owner; one FIFO port per tab | `request`, `addNotificationListener`, dispatching a port message to the tab's listeners |
| Metrics (`WebSocketMetrics`) | class not in `src/`; used at worker-websocket-client.ts 11, 24, 30, 38, 78 | `connectTime`, `dataSent`, `dataReceived` | reset (new instance) and increments |
| Message service (Swift `MessageService`) | `src/turms-client-swift/Sources/TurmsClient/Service/MessageService.swift` | `messageListeners`, `mentionedUserIdsParser` | request builders (send, forward, update, query, recall), `addMessageListener`, `enableMention`, the relayed-message notification handler with `parseMessageAddition`, and static record generators |
| Generated protobuf codecs | 7 files under `src/turms-client-js/src/model/proto/` | none (pure functions over protobufjs `Writer`/`Reader`) | `createBase...`, `encode`, `decode`, `longToString` |
| Swift generated message | one `.pb.swift` under `src/turms-client-swift/` | SwiftProtobuf storage | SwiftProtobuf visitor calls |
| Admin console string table | `src/turms-admin/client/src/i18n/langs/zh_CN.js` | constant table | none |
| Lint configuration | `src/turms-client-js/.eslintrc.js` | constant | none |

### How the components interact

Each browser tab owns a `SharedContextService` connected to one shared
context (the broker), which owns the only real WebSocket. A tab's Driver
constructs a `WorkerWebSocketClient`. The constructor:

1. registers listeners for `WEBSOCKET_CONNECTING`, `WEBSOCKET_CONNECTED`,
   `WEBSOCKET_CLOSED` and `WEBSOCKET_MESSAGE_RECEIVED` on the tab's
   service;
2. sends a `CONNECT` request.

The broker takes requests one at a time. For `CONNECT`:

- If no socket is alive, it creates one and broadcasts `Connecting`. It
  later broadcasts `Connected` and resolves the request with
  `reusedExisting = false`. If the socket fails instead, it broadcasts
  `Closed{1006}` and rejects the request.
- If a socket is alive, it resolves the request with
  `reusedExisting = true` at once.

`SEND_DATA` requests are written to the socket or rejected. Socket
messages and closes are broadcast to every tab.

The listeners are never removed. So every client a tab has ever
constructed keeps reacting to every notification that reaches the tab.
This includes clients the Driver has abandoned after a close.

The Swift `MessageService` is separate. It registers a notification
listener on its driver. It turns relayed `CreateMessageRequest`s into
`Message`s and computes a `MessageAddition` (mentions and recalled ids)
with `parseMessageAddition`.

### Hard behaviours

- **Interleaving.** Tabs construct clients, send and consume their ports
  independently. The broker's answer to a later tab's `CONNECT` can
  arrive before, between or after the `Connecting`/`Connected`
  notifications of the socket it joins.
- **Failure.** The socket can fail to open or close at any time.
- **Ordering.** Responses and notifications share each tab's FIFO port.
  Messages already queued on a port are dispatched to whatever listeners
  are registered when they are taken, including those of a client
  constructed after the message was sent.
- **Stale state.** Abandoned clients keep their own `_isConnected` and
  `_metrics`, and these keep being updated.
- **Swift side.** `parseMessageAddition` force-unwraps `Int64(...)` and
  builds the range `1...(size-1)`. Both trap at the edges. The listener
  array and the parser are written on the caller's thread and read on
  the driver's callback thread.

### What makes each component correct

- **Proxy.** After its own connect resolves successfully, `isConnected` is
  true (spec §8). Its owner is told open once per connection and closed
  once per closure (spec §4.2, §8), and every client eventually tells
  its owner something. The cached flags and metrics agree
  with the real socket once notifications are delivered, and metrics
  count only the current connection's traffic (spec §3, §8).
  `connectTime` is a real duration.
- **Broker.** There is one socket per endpoint. Exactly one request
  creates it. Every request is answered exactly once (spec §3, §4.1).
  The broker is the environment of the client code here: these are
  assumptions the model builds in, not properties it checks.
- **Message service.** Parsing a relayed message never traps. Mentions
  are the `@{id}` occurrences of the text. Every registered listener gets
  every relayed message once.
- **Codecs.** `decode(encode(m)) = m`, unknown fields are skipped, and
  default values are elided on encode.

## 2. Modules

| Module | Models | State ↔ code |
|---|---|---|
| `SharedContextProtocol` | message envelopes, notification/request types, the 1006 failure code | constants and record constructors |
| `SharedContextBroker` | the broker, written from the spec | `ws` = ConnectionState; `waiter` = the creating request; `toBroker` = request queue; `inbox[c]` = tab c's port; `gen`, `received`, `wireSent`, `wireRecv` record the socket's traffic so that properties can compare it with the clients' metrics |
| `WorkerWebSocketClient` | the proxy, translated from the code | `isConnecting`, `isConnected`, `connectStart`, `metrics` are the fields and closure variable per instance; `told[i]` is the sequence of `notifyOnOpen`/`notifyOnClose` calls made to the owner; `clients[c]` counts the constructions in tab c |
| `SharedConnection` | the composition: each step is a broker step or one tab's client step | shares `toBroker` and `inbox`; the history variable `missed[i]` records the bytes the current socket had received when instance i's constructor subscribed (0 once that socket closes), and never constrains a step |
| `MCSharedConnection` | two tabs as model values; tab symmetry for the violation runs | — |
| `MentionParser` | `DEFAULT_MENTIONED_USER_IDS_REGEX` and `DEFAULT_MENTIONED_USER_IDS_PARSER` (MessageService.swift 5–19) | pure operators: `MatchEnd`/`MatchSpansFrom` are the regex scan (leftmost match, resume after it), `Int64Of` is `Int64(String)` with the width scaled by `IdWidth`; `MentionSpansOf` and `DecimalValue` are the reference definitions they are checked against |
| `MessageService` | the Swift `MessageService` | `listeners` = `messageListeners.count`; `parser` = `mentionedUserIdsParser` (none/default/custom); `outbox` = requests handed to `driver.send`; `lastMessage`/`lastAddition` = the `Message` and `MessageAddition` passed to listeners for the last relayed request; `crashed` = a trap stopped the process |
| `MCMentionParser` | the parser over every short text | `text` grows one character per step |
| `MCMessageService` | user id 5, the relayed texts that matter | — |
| `ProtobufWire` | the protobufjs/minimal calls the codecs make: `writer.uint32/int64/int32/string/fork/ldelim`, `reader.uint32/int64/int32/string/skipType` | pure operators on byte sequences; a Long is its `Int64Width`-bit pattern; a read past the end is `ReadError` (protobufjs throws) |
| `TurmsProtoCodecs` | the seven generated TS codecs | each file is a field table `XFields` (its interface and `createBase`), `XEncode` and `XDecode`; the generic `Encode`/`Decode` follow the generated control: optional fields written when defined, implicit ones when not the default, the packed int64 list always; decode loops on tags, dispatches on the field number, reads a repeated int64 packed or single, and calls `skipType` for an unknown number |
| `DeleteRelationshipGroupMemberRequestPb` | the SwiftProtobuf generated `DeleteRelationshipGroupMemberRequest` (`.pb.swift`) | the struct is a record with `unknownFields` bytes; `Traverse` is `traverse(visitor:)` (non-zero implicit fields, the set optional one, then the unknown fields); `DecodeMessageFrom` is the `decodeMessage` loop and switch (cases 1–3, `default: break`); `DecodeInt64`/`DecodeInt32` are SwiftProtobuf's `decodeSingular...Field`, which consume a field only when its wire type is varint; `KeepUnknown` is what `nextFieldNumber()` does with a field left unconsumed (by `default` or by a case): skip it and keep its bytes, as received, in `unknownFields`; a tag with number 0 or wire type 4, 6 or 7 throws |
| `MCProtoCodecs` | the codecs over sample values | `kind` = the message type; `msg` = a message value; a step sets one field or starts another message from `createBase` |

Each action models one handler as a whole:

- **Construct** models the constructor: listeners plus the CONNECT
  request.
- **OnConnecting, OnConnected, OnClosed, OnMessageReceived** each model
  one listener, run for all live instances of the tab in one step. This
  is one JS task.
- **OnConnectResult, OnSendResult** model the promise callbacks.
- **Send** models `send`.
- `close()` changes nothing, so it is not an action.
- In `MessageService`, each request builder is one action: a validation
  failure (`sendMessage`) or an early resolve (`updateSentMessage`) sends
  nothing, otherwise an abstract request record goes to `outbox`.
  `OnRelayedCreateMessage` is the whole notification listener:
  `createMessage2Message`, `parseMessageAddition` and the loop over the
  listeners. A trap (force unwrap of nil, the range `1...0`, an
  out-of-bounds `load(as: Int64.self)`) sets `crashed` and stops the
  process. The out-of-bounds load is undefined in release builds, so it
  either traps or returns bytes past the record (`Garbage`).
- Records are abstracted to their size (0, 1 or 8 bytes) and whether the
  first byte is the recall type; a full record loads as itself, so order
  is visible. A custom mention parser is application code and may return
  any ids.
- Time is abstracted. `connectStart` is either `"undefined"` or `"set"`.
  `connectTime` is `"zero"`, `"measured"` or `"NaN"`. `connectTime` is
  `now - connectStart`, which is `NaN` when `connectStart` was never
  assigned.

The Driver is out of scope. The model gives it the weakest behaviour that
keeps the run finite: it constructs the first client of a tab, and a new
one only after its current client told it the connection closed. It may
call `send` at any time.

## 3. Runs

| Run | Config | Expect | What it shows |
|---|---|---|---|
| `shared_connection` | `MCSharedConnection.cfg` | pass | `NoStaleConnected`: once a tab has taken its messages, no client of it (abandoned ones included) reports connecting or connected for a socket not in that state; `MetricsMatchTransport`: once drained, each client's `dataSent` equals the bytes written for it on the current socket, and `dataReceived` is at most what that socket received; `OwnerEventuallyTold`: every constructed client eventually tells its owner open or close, including one that joins an already open socket, for which only the reused answer's `notifyOnOpen` (line 47) does. Checked with fairness and without tab symmetry, because of the temporal property |
| `reuse_not_connected` | `MCOpenImpliesConnected.cfg` | violation | `OpenImpliesConnected` (once a tab has taken its messages while the socket is open, a client whose owner was last told "open" reports `isConnected`): a tab that took `Connecting`/`Connected` before constructing its client joins the open socket, is told "open" by the reused answer, and `isConnected` stays false (line 46) |
| `connect_failure_double_close` | `MCCloseReportedOnce.cfg` | violation | a failed connect is reported closed twice: by the `Closed` listener and by the rejection handler |
| `reuse_while_connecting_double_open` | `MCOpenReportedOnce.cfg` | violation | a tab joining while the socket is still connecting is told "open" before the socket opens, and again on `Connected` |
| `connect_time_nan` | `MCConnectTimeDefined.cfg` | violation | a client that missed `Connecting` computes `connectTime` from an undefined start: NaN |
| `data_before_subscribe` | `MCDataBeforeSubscribe.cfg` | violation | `NoDataBeforeSubscribe`: a tab constructs a client while a `DataReceived` the broker emitted earlier is still queued on its port; in TLC's trace the new client takes the queued `Connecting`, `Connected` and `DataReceived` and counts the message, though spec §3 and §5 fan out only to the subscribers current at emission (line 37) |
| `mention_parser` | `MCMentionParser.cfg` | pass | `ScannerAgreesWithFormat`: over every text of up to 8 characters, the scan finds exactly the `@{digits}` spans in order |
| `message_service` | `MCMessageService.cfg` | pass | `MentionedMatchesText`: with the default parser, `isMentioned` holds exactly when the text holds `@{userId}`, first or later |
| `recall_record_trap` | `MCRelayedTrap.cfg` | violation | `NoTrap`: one relayed recall message crashes the client: only its type record (`1...0`, line 337), or an id record shorter than 8 bytes (line 339); the texts carry only well-formed mentions |
| `mention_id_trap` | `MCMentionTrap.cfg` | violation | `NoTrap`: once mention is enabled, one relayed text with an `@{id}` above Int64.max or in Arabic-Indic digits crashes the client (force unwrap, line 15); the messages carry no records |
| `send_empty_records` | `MCSendEmptyRecords.cfg` | violation | `sendMessage(records: [])` passes the nil check and sends a `CreateMessageRequest` with no content (line 50) |
| `proto_codecs` | `MCProtoCodecs.cfg` | pass | `RoundTrip`: `decode(encode(m)) = m` for every sampled value of the seven TS messages and the Swift one; `UnknownFieldsSkipped`: an unknown field of wire type 0, 1, 2, 5 or a group, appended or prepended, leaves a decoded TS message unchanged; `PackedAndUnpackedAgree`: `Int64ValuesWithVersion.decode` gives the same values for the packed and the one-record-per-element encoding; `UnknownFieldsRetained`: the Swift message stores an unknown field of any wire type, or one of its own numbers sent with a non-varint wire type, before or after the known ones, as received, and re-serialises it through `unknownFields.traverse` (line 85) |

### Bounds

- **Shared connection.** Two tabs. Up to two clients per tab and two in
  all, so a tab can construct a second client after a close (leaving an
  abandoned one), or the other tab's client can reuse the socket, while
  it is connecting or once it is open. One server message per socket.
  One send in all, written or refused. Payload length 1. About 90,000
  states, a little over a minute with the temporal property; a third
  construction makes the temporal check take over fifteen minutes
  without symmetry.
- **Mention parser.** Every text of up to 8 characters over `@ { } 1 9`
  and one non-ASCII digit: two mentions fit, and with `IdWidth = 4`
  (max 7) "9" overflows. Any other non-digit behaves like `@` for the
  regex. About 2 million texts, one minute.
- **Message service.** One listener, one relayed message (up to three
  records, enough for two recalled ids in order), one builder call. A
  second relayed message only repeats the first with another parser,
  which the first already reaches by `enableMention` before it.

- **Codecs.** Widths scaled to 12 bits (Long) and 8 bits (uint32/int32),
  so the same wrap and sign handling happen on short varints. int64
  samples 0, -1 (the all-ones pattern) and 300 (a two-byte varint); int32
  samples 0, -1 (sign-extended past 32 bits) and 3; strings of 0 and 1
  bytes; GroupMember records of 0 and 2 bytes; lists of up to two
  elements. Every message value over these samples is reached (about
  50,000 states, under two minutes).

Every mechanism in the findings needs at most two tabs and two clients.
The `shared_connection` run reaches every action and every branch:
creating, reusing, failing, closing and re-creating a socket; sends
written, refused by the socket and refused because it is not connected.
Tab symmetry is used only in the violation runs. `CHECK_DEADLOCK FALSE`: when
every bounded environment event has happened, the real system is idle,
and an idle state is not an error.

### Fairness

`shared_connection` assumes weak fairness for:

- the broker's handling of queued CONNECT and SEND_DATA requests (the
  shared context's event loop takes every port message);
- each tab taking its port messages (the browser delivers them);
- a socket being opened eventually opening or failing (the browser fires
  `open` or `error`/`close`).

The environment gets no fairness: the server's messages and closes,
constructions and sends.

## 4. Not modelled, and why

- **The broker's and `SharedContextService`'s code** are not in the
  repository. Their behaviour comes from the spec and is marked
  `spec_modelled` in the map.
- **The growth of the listener list.** Listeners are never removed, so
  the list grows by four per construction. The model bounds
  constructions instead of checking the growth.
- **Duplicate owner notifications from abandoned clients.** These
  reach the owner only if the Driver passes the same `EventListener` to
  every client it constructs, and the Driver is not in the sources.
- **String tables and lint configuration** have no behaviour.
- **Properties of the broker.** That every request is eventually
  answered, and that a CONNECT creates a socket only when none is alive,
  hold in the model by construction of the spec-modelled broker; no code
  of this repository decides them, so no run checks them.
- **Type invariants.** No run checks one: the variables' types follow
  from the actions, and no plausible bug in the modelled code changes a
  type.
- **The SwiftProtobuf runtime** is not in the sources. The calls the
  `.pb.swift` message makes are modelled by the library's documented
  behaviour, as the protobufjs calls are for the TS codecs.
- **Codec inputs the model cannot write**: TS strings are modelled by
  their integer value, so non-canonical zeros ("00", "-0") and decimal
  strings beyond the int64 range, which `Long.fromString` silently wraps,
  are not generated (listed as a hazard). The nested `GroupMember` codec
  is not in the sources and is opaque bytes.
- **`MessageService`'s static record generators** (lines 228–320) only
  serialise protobuf values.
- **The data race in `MessageService`.** `messageListeners` and
  `mentionedUserIdsParser` are written on the caller's thread and read
  on the driver's callback thread. The model makes each step atomic, so
  it does not explore the race (listed as a hazard).

## 5. Plan

1. **Done in this sitting.** Protocol, broker, proxy, composition, the
   safety and liveness runs, and the four violations above.
2. **Done.** `MessageService` and its mention parser, with the two
   passing runs and two violation runs above. Left open: the data race
   between the caller and callback threads, as a two-thread variant
   whose reads of `messageListeners` may see a torn value.
3. **Done.** The seven TS codecs over the protobufjs wire format, and the
   Swift `DeleteRelationshipGroupMemberRequest` (unknown fields kept and
   written back), with
   the round trip, unknown-field and packed/unpacked checks (`proto_codecs`).
4. **Open: an abstract "private connection" specification.** What each
   tab's owner should see is an Idle → Connecting → Open → Closed cycle
   of its own. A refinement mapping from `told`, `isConnected` and
   `isConnecting` would show where the proxy fails to implement it; it
   fails today for the reasons in the findings, so it would be stated
   against a corrected variant of the proxy, to record what a fix must
   do. A refinement of the broker alone was dropped: both sides were
   written from the spec, so it held by their shape.
5. **Done.** Data queued on a port before a client subscribed
   (`data_before_subscribe`, with the `missed` history variable).
