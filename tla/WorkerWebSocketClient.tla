------------------------ MODULE WorkerWebSocketClient ------------------------
(***************************************************************************)
(* The logical connection proxy: WorkerWebSocketClient                     *)
(* (turms-client-js/src/transport/worker-websocket-client.ts).  Every      *)
(* instance a tab constructs registers four notification listeners on the *)
(* tab's SharedContextService and sends a CONNECT request; listeners are   *)
(* never removed, so every instance a tab ever constructed keeps reacting  *)
(* to the notifications that arrive on the tab's port.  Delivering one     *)
(* port message runs the listeners of all of them, and the promise         *)
(* callbacks of a response, before the next message (one JS task).         *)
(*                                                                         *)
(* told[i] records the lifecycle events instance i passed to its owner    *)
(* (notifyOnOpen, notifyOnClose; notifyOnMessage is left out); timestamps  *)
(* are abstracted to whether connectStart was ever assigned.               *)
(***************************************************************************)
EXTENDS SharedContextProtocol
LOCAL INSTANCE Functions

CONSTANTS
  MaxSends,         \* send() calls over the whole run
  MaxConstructs     \* clients constructed over the whole run, all tabs

ASSUME MaxSends \in Nat /\ MaxConstructs \in Nat

VARIABLES
  clients,          \* clients[c]: instances constructed in tab c so far
  isConnecting,     \* _isConnecting (undefined, i.e. falsy, until set)
  isConnected,      \* _isConnected  (undefined, i.e. falsy, until set)
  connectStart,     \* closure variable connectStart: "undefined" or "set"
  metrics,          \* _metrics: WebSocketMetrics
  told,             \* events passed to the owner's EventListener
  sends,            \* send() calls made so far
  toBroker,         \* shared with the broker
  inbox             \* shared with the broker

ConnectTimes == {"zero", "measured", "NaN"}
Events == {"open", "close"}

\* new WebSocketMetrics()
NewMetrics == [connectTime |-> "zero", dataSent |-> 0, dataReceived |-> 0]

\* The instances of tab c whose listeners are registered.
Live(c) == {<<c, k>> : k \in 1..clients[c]}

Constructed == SumFunction(clients)

\* Every live instance of tab c runs its listener and assigns v to field f.
SetLive(f, c, v) == [i \in Inst |-> IF i \in Live(c) THEN v ELSE f[i]]

\* Append event e to what every instance in S told its owner.
Tell(S, e) == [i \in Inst |-> IF i \in S THEN Append(told[i], e) ELSE told[i]]

\* Every instance is in its just-constructed state until it is constructed.
Init ==
  /\ clients = [c \in Ctx |-> 0]
  /\ isConnecting = [i \in Inst |-> FALSE]
  /\ isConnected = [i \in Inst |-> FALSE]
  /\ connectStart = [i \in Inst |-> "undefined"]
  /\ metrics = [i \in Inst |-> NewMetrics]
  /\ told = [i \in Inst |-> <<>>]
  /\ sends = 0

\* The Driver (out of scope) holds at most one current client per tab and
\* replaces it only after that client reported the connection closed.
DriverMayConnect(c) ==
  IF clients[c] = 0 THEN TRUE
  ELSE LET s == told[<<c, clients[c]>>] IN s # <<>> /\ s[Len(s)] = "close"

(* The Driver constructs a client in tab c: the first one, or a new one   *)
(* after its current client told it the connection closed.  The           *)
(* constructor registers its listeners and sends CONNECT.                  *)
Construct(c) ==
  LET k == clients[c] + 1 IN
  /\ k <= MaxClients
  /\ Constructed < MaxConstructs
  /\ DriverMayConnect(c)
  /\ clients' = [clients EXCEPT ![c] = k]
  /\ toBroker' = Append(toBroker, Request(<<c, k>>, "CONNECT", 0))
  /\ UNCHANGED <<isConnecting, isConnected, connectStart, metrics, told, sends, inbox>>

(* send(data) on the tab's current client: a SEND_DATA request.           *)
Send(c) ==
  /\ clients[c] > 0
  /\ sends < MaxSends
  /\ \E n \in Sizes : toBroker' = Append(toBroker, Request(<<c, clients[c]>>, "SEND_DATA", n))
  /\ sends' = sends + 1
  /\ UNCHANGED <<clients, isConnecting, isConnected, connectStart, metrics, told,
                 inbox>>

Pending(c, t) == inbox[c] # <<>> /\ Head(inbox[c]).type = t
Consume(c) == inbox' = [inbox EXCEPT ![c] = Tail(@)]

(* WEBSOCKET_CONNECTING listener, run for every live instance of tab c.   *)
OnConnecting(c) ==
  /\ Pending(c, "WEBSOCKET_CONNECTING")
  /\ connectStart' = SetLive(connectStart, c, "set")
  /\ isConnecting' = SetLive(isConnecting, c, TRUE)
  /\ isConnected' = SetLive(isConnected, c, FALSE)
  /\ Consume(c)
  /\ UNCHANGED <<clients, metrics, told, sends, toBroker>>

(* WEBSOCKET_CONNECTED listener: connectTime = now - connectStart, which  *)
(* is NaN when connectStart was never assigned; then notifyOnOpen.        *)
OnConnected(c) ==
  /\ Pending(c, "WEBSOCKET_CONNECTED")
  /\ isConnecting' = SetLive(isConnecting, c, FALSE)
  /\ isConnected' = SetLive(isConnected, c, TRUE)
  /\ metrics' = [i \in Inst |->
                   IF i \in Live(c)
                   THEN [metrics[i] EXCEPT !.connectTime =
                           IF connectStart[i] = "set" THEN "measured" ELSE "NaN"]
                   ELSE metrics[i]]
  /\ told' = Tell(Live(c), "open")
  /\ Consume(c)
  /\ UNCHANGED <<clients, connectStart, sends, toBroker>>

\* Mutant of OnClosed: the listener forgets to clear _isConnected.
OnClosedKeepsConnected(c) ==
  /\ Pending(c, "WEBSOCKET_CLOSED")
  /\ isConnecting' = SetLive(isConnecting, c, FALSE)
  /\ metrics' = SetLive(metrics, c, NewMetrics)
  /\ told' = Tell(Live(c), "close")
  /\ Consume(c)
  /\ UNCHANGED <<clients, isConnected, connectStart, sends, toBroker>>

(* WEBSOCKET_CLOSED listener: reset state and metrics, notifyOnClose.     *)
OnClosed(c) ==
  /\ Pending(c, "WEBSOCKET_CLOSED")
  /\ isConnecting' = SetLive(isConnecting, c, FALSE)
  /\ isConnected' = SetLive(isConnected, c, FALSE)
  /\ metrics' = SetLive(metrics, c, NewMetrics)
  /\ told' = Tell(Live(c), "close")
  /\ Consume(c)
  /\ UNCHANGED <<clients, connectStart, sends, toBroker>>

(* WEBSOCKET_MESSAGE_RECEIVED listener: count the bytes (the payload is   *)
(* then passed on by notifyOnMessage).                                      *)
OnMessageReceived(c) ==
  /\ Pending(c, "WEBSOCKET_MESSAGE_RECEIVED")
  /\ metrics' = [i \in Inst |->
                   IF i \in Live(c)
                   THEN [metrics[i] EXCEPT !.dataReceived = @ + Head(inbox[c]).size]
                   ELSE metrics[i]]
  /\ Consume(c)
  /\ UNCHANGED <<clients, isConnecting, isConnected, connectStart, told,
                 sends, toBroker>>

\* Mutant of OnConnectResult: a reused answer is taken as a plain success
\* and notifyOnOpen is left to the Connected listener.
OnConnectResultSilentOnReuse(c) ==
  /\ Pending(c, "CONNECT")
  /\ LET r == Head(inbox[c]) IN
       told' = IF r.ok THEN told ELSE Tell({r.to}, "close")
  /\ Consume(c)
  /\ UNCHANGED <<clients, isConnecting, isConnected, connectStart, metrics, sends, toBroker>>

(* The CONNECT promise settles: notifyOnOpen when the socket already      *)
(* existed, notifyOnClose(1006) when the request failed.                   *)
OnConnectResult(c) ==
  /\ Pending(c, "CONNECT")
  /\ LET r == Head(inbox[c]) IN
       told' = CASE r.ok /\ r.reused -> Tell({r.to}, "open")
                    [] r.ok /\ ~r.reused -> told
                    [] ~r.ok -> Tell({r.to}, "close")
  /\ Consume(c)
  /\ UNCHANGED <<clients, isConnecting, isConnected, connectStart, metrics, sends, toBroker>>

\* Mutant of OnSendResult: dataSent is added in finally() instead of then().
OnSendResultCountsFailures(c) ==
  /\ Pending(c, "SEND_DATA")
  /\ LET r == Head(inbox[c]) IN
       metrics' = [metrics EXCEPT ![r.to].dataSent = @ + r.size]
  /\ Consume(c)
  /\ UNCHANGED <<clients, isConnecting, isConnected, connectStart, told,
                 sends, toBroker>>

(* The send() promise settles: on success add the payload length to      *)
(* dataSent; a rejection leaves the metrics alone.                         *)
OnSendResult(c) ==
  /\ Pending(c, "SEND_DATA")
  /\ LET r == Head(inbox[c]) IN
       metrics' = IF r.ok
                  THEN [metrics EXCEPT ![r.to].dataSent = @ + r.size]
                  ELSE metrics
  /\ Consume(c)
  /\ UNCHANGED <<clients, isConnecting, isConnected, connectStart, told,
                 sends, toBroker>>

Receive(c) ==
  \/ OnConnecting(c)
  \/ OnConnected(c)
  \/ OnClosed(c)
  \/ OnMessageReceived(c)
  \/ OnConnectResult(c)
  \/ OnSendResult(c)

Next == \E c \in Ctx : Construct(c) \/ Send(c) \/ Receive(c)
=============================================================================
