\* The shared connection under the fairness of SharedConnection: two tabs,
\* up to two clients per tab and two in all (so a tab may hold an
\* abandoned client, and a second client either reuses the socket or
\* creates a new one after a close), one pushed message and one send.
\* No symmetry: it is not sound for liveness checking.  The run stops
\* once every bounded event has happened.
CONSTANTS
  t1 = t1
  t2 = t2
  Ctx <- MCCtx
  MaxClients = 2
  Sizes = {1}
  ServerCloseCodes = {1000}
  MaxReceived = 1
  MaxSends = 1
  MaxConstructs = 2
SPECIFICATION Spec
INVARIANTS
  NoStaleConnected
  MetricsMatchTransport
PROPERTIES
  OwnerEventuallyTold
CHECK_DEADLOCK FALSE
