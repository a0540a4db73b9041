\* Looks for a behaviour violating OpenImpliesConnected: two tabs, two clients in all.
CONSTANTS
  t1 = t1
  t2 = t2
  Ctx <- MCCtx
  MaxClients = 2
  Sizes = {1}
  ServerCloseCodes = {1000}
  MaxReceived = 0
  MaxSends = 0
  MaxConstructs = 2
SPECIFICATION Spec
INVARIANTS
  OpenImpliesConnected
SYMMETRY TabSymmetry
CHECK_DEADLOCK FALSE
