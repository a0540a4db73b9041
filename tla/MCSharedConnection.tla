------------------------- MODULE MCSharedConnection -------------------------
(* Model-checking instance of SharedConnection: two tabs.                   *)
EXTENDS SharedConnection, TLC

CONSTANTS t1, t2

MCCtx == {t1, t2}

\* Tabs are interchangeable: nothing in the model depends on their identity.
TabSymmetry == Permutations(MCCtx)
=============================================================================
