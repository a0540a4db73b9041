------------------------- MODULE SharedContextBroker -------------------------
(***************************************************************************)
(* The connection-ownership broker: the shared context that owns the only  *)
(* real WebSocket.  Its code (the shared worker behind                     *)
(* SharedContextService) is not part of the sources, so this module is     *)
(* written from the specification (sections 4.1, 5 and 7): a single        *)
(* serialised actor that takes requests in arrival order, reacts to the    *)
(* real socket's events, broadcasts notifications to every tab's port and  *)
(* answers each request on its sender's port.                              *)
(***************************************************************************)
EXTENDS SharedContextProtocol

CONSTANTS
  MaxReceived       \* messages the server may push on one real socket

ASSUME MaxReceived \in Nat

VARIABLES
  ws,        \* ConnectionState of the real socket: Idle, Connecting, Connected, Closed
  gen,       \* number of real sockets created so far
  waiter,    \* the instance whose CONNECT created the socket and awaits its outcome
  toBroker,  \* FIFO queue of requests from all tabs
  inbox,     \* inbox[c]: FIFO port from the broker to tab c
  received,  \* messages received on the current real socket
  wireSent,  \* wireSent[i]: bytes written for instance i on the current socket
  wireRecv   \* bytes received on the current socket

NoInst == <<"none", 0>>

\* Fan-out of a notification to every tab, optionally followed on the
\* requester's port by the answer to its request.
Broadcast(m) == [c \in Ctx |-> Append(inbox[c], m)]
BroadcastThenReply(m, i, r) ==
  [c \in Ctx |-> IF c = CtxOf(i) THEN inbox[c] \o <<m, r>> ELSE Append(inbox[c], m)]
Reply(i, r) == [inbox EXCEPT ![CtxOf(i)] = Append(@, r)]

NoTraffic == [i \in Inst |-> 0]

Init ==
  /\ ws = "Idle"
  /\ gen = 0
  /\ waiter = NoInst
  /\ toBroker = <<>>
  /\ inbox = [c \in Ctx |-> <<>>]
  /\ received = 0
  /\ wireSent = NoTraffic
  /\ wireRecv = 0

(* connect(address): create a socket when none is alive, else answer      *)
(* reusedExisting = TRUE at once.                                          *)
HandleConnect ==
  /\ toBroker # <<>>
  /\ Head(toBroker).type = "CONNECT"
  /\ LET i == Head(toBroker).from IN
       \/ /\ ws \in {"Idle", "Closed"}
          /\ ws' = "Connecting"
          /\ gen' = gen + 1
          /\ waiter' = i
          /\ inbox' = Broadcast(Notification("WEBSOCKET_CONNECTING"))
       \/ /\ ws \in {"Connecting", "Connected"}
          /\ inbox' = Reply(i, Response(i, "CONNECT", TRUE, TRUE, 0))
          /\ UNCHANGED <<ws, gen, waiter>>
  /\ toBroker' = Tail(toBroker)
  /\ UNCHANGED <<received, wireSent, wireRecv>>

(* sendData(payload): write when Connected (the write itself may fail),   *)
(* reject otherwise.                                                       *)
HandleSendData ==
  /\ toBroker # <<>>
  /\ Head(toBroker).type = "SEND_DATA"
  /\ LET r == Head(toBroker) IN
       \/ /\ ws = "Connected"
          /\ wireSent' = [wireSent EXCEPT ![r.from] = @ + r.size]
          /\ inbox' = Reply(r.from, Response(r.from, "SEND_DATA", TRUE, FALSE, r.size))
       \/ /\ inbox' = Reply(r.from, Response(r.from, "SEND_DATA", FALSE, FALSE, r.size))
          /\ UNCHANGED wireSent
  /\ toBroker' = Tail(toBroker)
  /\ UNCHANGED <<ws, gen, waiter, received, wireRecv>>

(* The real socket opens: Connected is broadcast, then the creating       *)
(* request resolves with reusedExisting = FALSE.                           *)
TransportOpened ==
  /\ ws = "Connecting"
  /\ ws' = "Connected"
  /\ inbox' = BroadcastThenReply(Notification("WEBSOCKET_CONNECTED"), waiter,
                                 Response(waiter, "CONNECT", TRUE, FALSE, 0))
  /\ waiter' = NoInst
  /\ UNCHANGED <<gen, toBroker, received, wireSent, wireRecv>>

(* The real socket cannot be established: Closed{1006} is broadcast and   *)
(* the creating request is rejected.                                       *)
TransportFailed ==
  /\ ws = "Connecting"
  /\ ws' = "Closed"
  /\ inbox' = BroadcastThenReply(ClosedNotification(ConnectFailureCode), waiter,
                                 Response(waiter, "CONNECT", FALSE, FALSE, 0))
  /\ waiter' = NoInst
  /\ UNCHANGED <<gen, toBroker, received, wireSent, wireRecv>>

(* onTransportClosed(code, reason): broadcast Closed and release the      *)
(* socket so that the next CONNECT creates a new one.                      *)
TransportClosed ==
  /\ ws = "Connected"
  /\ \E code \in ServerCloseCodes :
       inbox' = Broadcast(ClosedNotification(code))
  /\ ws' = "Closed"
  /\ received' = 0
  /\ wireSent' = NoTraffic
  /\ wireRecv' = 0
  /\ UNCHANGED <<gen, waiter, toBroker>>

(* onTransportMessage(payload): broadcast DataReceived.                    *)
TransportMessage ==
  /\ ws = "Connected"
  /\ received < MaxReceived
  /\ \E n \in Sizes :
       /\ inbox' = Broadcast(DataNotification(n))
       /\ wireRecv' = wireRecv + n
  /\ received' = received + 1
  /\ UNCHANGED <<ws, gen, waiter, toBroker, wireSent>>

Next ==
  \/ HandleConnect
  \/ HandleSendData
  \/ TransportOpened
  \/ TransportFailed
  \/ TransportClosed
  \/ TransportMessage
=============================================================================
