------------------------- MODULE MCPendingResources -------------------------
(* An instance of PendingResources for TLC: three readers, so that a dropped  *)
(* call passes its wakeup on beside one that sleeps and one that is served,   *)
(* and items enough to find each in any state.                                *)
EXTENDS PendingResources

CONSTANTS i1, i2, i3, r1, r2, r3

MCItems == {i1, i2, i3}

MCReaders == {r1, r2, r3}
=============================================================================
