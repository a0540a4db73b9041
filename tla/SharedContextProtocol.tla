------------------------ MODULE SharedContextProtocol ------------------------
(***************************************************************************)
(* The messages exchanged between the per-tab WorkerWebSocketClient        *)
(* proxies and the shared context that owns the one real WebSocket:        *)
(* requests (CONNECT, SEND_DATA) travel from a tab to the owner over one   *)
(* serialised queue; notifications (broadcast) and responses (addressed)   *)
(* travel back over each tab's own port, in FIFO order.                    *)
(***************************************************************************)
EXTENDS Naturals, Sequences

CONSTANTS
  Ctx,              \* execution contexts (browser tabs) sharing the owner
  MaxClients,       \* WorkerWebSocketClient instances a tab may construct
  Sizes,            \* byte lengths of payloads (ArrayBufferLike.byteLength)
  ServerCloseCodes  \* close codes the real socket may report

ASSUME MaxClients \in Nat \ {0}
ASSUME Sizes \subseteq Nat /\ Sizes # {}
ASSUME ServerCloseCodes \subseteq Nat

\* Abnormal-closure code used for failed connects (worker-websocket-client.ts:51).
ConnectFailureCode == 1006

\* A client instance is the k-th WorkerWebSocketClient constructed in tab c.
Inst == Ctx \X (1..MaxClients)
CtxOf(i) == i[1]

\* NotificationType and RequestType of shared-context-service.
NotificationTypes == {"WEBSOCKET_CONNECTING", "WEBSOCKET_CONNECTED",
                      "WEBSOCKET_CLOSED", "WEBSOCKET_MESSAGE_RECEIVED"}
RequestTypes == {"CONNECT", "SEND_DATA"}

Notification(t) == [kind |-> "notification", type |-> t, size |-> 0, code |-> 0]
ClosedNotification(code) ==
  [kind |-> "notification", type |-> "WEBSOCKET_CLOSED", size |-> 0, code |-> code]
DataNotification(n) ==
  [kind |-> "notification", type |-> "WEBSOCKET_MESSAGE_RECEIVED", size |-> n, code |-> 0]

\* A request carries its sender and, for SEND_DATA, the payload length.
Request(i, t, n) == [from |-> i, type |-> t, size |-> n]

\* A response resolves (ok) or rejects one request of instance "to"; the
\* correlation table of the shared context is abstracted by carrying the
\* request's type and payload length back with the answer.
Response(i, t, ok, reused, n) ==
  [kind |-> "response", to |-> i, type |-> t, ok |-> ok, reused |-> reused, size |-> n]

Codes == {0, ConnectFailureCode} \cup ServerCloseCodes
NotificationMsgs ==
  [kind: {"notification"}, type: NotificationTypes, size: Sizes \cup {0}, code: Codes]
ResponseMsgs ==
  [kind: {"response"}, to: Inst, type: RequestTypes, ok: BOOLEAN,
   reused: BOOLEAN, size: Sizes \cup {0}]
RequestMsgs == [from: Inst, type: RequestTypes, size: Sizes \cup {0}]
=============================================================================
