--------------------------- MODULE SharedConnection ---------------------------
(***************************************************************************)
(* Several tabs share one real WebSocket: the broker (SharedContextBroker) *)
(* owns it and every tab's WorkerWebSocketClient instances act through     *)
(* requests and notifications (WorkerWebSocketClient).  The two components *)
(* share the request queue and the per-tab ports; each step is a step of  *)
(* exactly one of them.                                                    *)
(***************************************************************************)
EXTENDS SharedContextProtocol

CONSTANTS MaxReceived, MaxSends, MaxConstructs

VARIABLES ws, gen, waiter, toBroker, inbox, received, wireSent, wireRecv,
          clients, isConnecting, isConnected, connectStart, metrics, told,
          sends, missed

B == INSTANCE SharedContextBroker
P == INSTANCE WorkerWebSocketClient

brokerVars == <<ws, gen, waiter, received, wireSent, wireRecv>>
clientVars == <<clients, isConnecting, isConnected, connectStart, metrics, told, sends>>
vars == <<brokerVars, clientVars, toBroker, inbox, missed>>

(* History variable: missed[i] is how many bytes the current real socket  *)
(* had received when instance i subscribed (its constructor registered    *)
(* its listeners); it drops to 0 when that socket is closed.  It only     *)
(* records the past and never constrains a step.                          *)
Init == B!Init /\ P!Init /\ missed = [i \in Inst |-> 0]

BrokerStep ==
  /\ B!Next
  /\ UNCHANGED clientVars
  /\ missed' = [i \in Inst |-> IF ws' = "Closed" THEN 0 ELSE missed[i]]
ClientStep(c) ==
  \/ P!Construct(c) /\ missed' = [missed EXCEPT ![<<c, clients[c] + 1>>] = wireRecv]
  \/ (P!Send(c) \/ P!Receive(c)) /\ UNCHANGED missed

Next ==
  \/ BrokerStep
  \/ \E c \in Ctx : ClientStep(c) /\ UNCHANGED brokerVars

(* The broker's event loop takes every queued request, the browser        *)
(* delivers every port message, and a socket being opened eventually      *)
(* either opens or fails.  Server pushes, server closes, constructing      *)
(* clients and sending are up to the environment and get no fairness.    *)
Fairness ==
  /\ WF_vars(BrokerStep /\ B!HandleConnect)
  /\ WF_vars(BrokerStep /\ B!HandleSendData)
  /\ WF_vars(BrokerStep /\ (B!TransportOpened \/ B!TransportFailed))
  /\ \A c \in Ctx : WF_vars(P!Receive(c) /\ UNCHANGED <<brokerVars, missed>>)

Spec == Init /\ [][Next]_vars /\ Fairness

-----------------------------------------------------------------------------
\* Tab c has taken every message the broker sent it.
Drained(c) == inbox[c] = <<>>

(* Once a tab has taken every notification, no client of it reports      *)
(* isConnecting or isConnected for a real socket that is not in that      *)
(* state: the Closed listener must clear the cached flags of every        *)
(* instance, including the ones the Driver abandoned.                      *)
NoStaleConnected ==
  \A c \in Ctx : Drained(c) =>
    \A i \in P!Live(c) :
      /\ isConnected[i] => ws = "Connected"
      /\ isConnecting[i] => ws = "Connecting"

(* Once a tab has taken every message, each client's dataSent is exactly  *)
(* the bytes the owner wrote for it on the current real socket, and its    *)
(* dataReceived at most the bytes that socket received: the metrics count *)
(* only the current connection's traffic, and a failed send counts none.  *)
MetricsMatchTransport ==
  \A c \in Ctx : Drained(c) =>
    \A i \in P!Live(c) :
      /\ metrics[i].dataSent = wireSent[i]
      /\ metrics[i].dataReceived <= wireRecv

(* Spec 3 and 5: a DataReceived is fanned out to the subscribers of the  *)
(* moment it is emitted.  So once a tab has taken every message, no       *)
(* client's dataReceived counts bytes the socket received before the      *)
(* client's constructor subscribed: it is at most what arrived since.     *)
(* The WEBSOCKET_MESSAGE_RECEIVED listener counts every notification the *)
(* tab's port delivers after registration, queued before it or not.      *)
NoDataBeforeSubscribe ==
  \A c \in Ctx : Drained(c) =>
    \A i \in P!Live(c) : metrics[i].dataReceived <= wireRecv - missed[i]

\* Instance i's constructor has run.
IsConstructed(i) == i[2] <= clients[CtxOf(i)]

(* Every client a tab constructs eventually tells its owner that the     *)
(* connection opened or closed, so the Driver waiting on it (and allowed  *)
(* to reconnect only after a close) is never stuck.  A client that joins  *)
(* a socket which is already open gets no Connecting or Connected         *)
(* broadcast: only the then() of its CONNECT, notifyOnOpen on a reused    *)
(* answer, tells its owner anything.                                        *)
OwnerEventuallyTold ==
  \A i \in Inst : IsConstructed(i) ~> told[i] # <<>>

-----------------------------------------------------------------------------
\* The last lifecycle event instance i passed to its owner was "open".
OwnerSeesOpen(i) == told[i] # <<>> /\ told[i][Len(told[i])] = "open"
\* Sequence s holds e twice in a row.
Repeats(s, e) == \E k \in 1..(Len(s) - 1) : s[k] = e /\ s[k + 1] = e

(* Spec 8: isConnected is true for a proxy once its connect has resolved  *)
(* successfully.  So once a tab has taken every message while the real    *)
(* socket is open, each of its clients whose owner was last told "open"   *)
(* reports isConnected.  The CONNECT then() notifies open on a reused     *)
(* answer without setting _isConnected.                                     *)
OpenImpliesConnected ==
  \A c \in Ctx : Drained(c) /\ ws = "Connected" =>
    \A i \in P!Live(c) : OwnerSeesOpen(i) => isConnected[i]

(* Spec 8: a failed connect surfaces Closed{1006} to the owner exactly    *)
(* once: no client tells its owner "closed" twice in a row.                *)
CloseReportedOnce ==
  \A i \in Inst : ~Repeats(told[i], "close")

ConnectTimeDefined ==
  \A i \in Inst : metrics[i].connectTime # "NaN"
=============================================================================
