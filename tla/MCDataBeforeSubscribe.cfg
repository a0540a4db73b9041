\* Looks for a behaviour violating NoDataBeforeSubscribe: two tabs, a
\* client in each, one pushed message.
CONSTANTS
  t1 = t1
  t2 = t2
  Ctx <- MCCtx
  MaxClients = 1
  Sizes = {1}
  ServerCloseCodes = {1000}
  MaxReceived = 1
  MaxSends = 0
  MaxConstructs = 2
SPECIFICATION Spec
INVARIANTS
  NoDataBeforeSubscribe
SYMMETRY TabSymmetry
CHECK_DEADLOCK FALSE
