---------------------------- MODULE MCAssetStore ----------------------------
(* Instances of AssetStore for TLC: two uploads of different sizes, and a  *)
(* key (k2) that the Ambient server cannot load.                           *)
EXTENDS AssetStore, TLC

CONSTANTS k1, k2, u1, u2, r1, r2

MCSize == u1 :> 2 @@ u2 :> 1

Symmetry == Permutations(Requests)

(* With liveness the whole instance is too large.  Players and the Ambient  *)
(* server decide which requests are made and which keys are used, so any    *)
(* part of their choices makes a sound instance: here two requests compete  *)
(* for one key, or one request lives beside two keys.  Only actions without *)
(* fairness are restricted.                                                *)
SecondKeyUsed == k2 \in entries \/ \E r \in Requests : reqKey[r] = k2
                                \/ \E u \in Uploads : upKey[u] = k2

FewActors == ~(SecondKeyUsed /\ reqPc[r2] # "idle")

MCSpec == Init /\ [][Next /\ FewActors']_vars /\ Fairness
=============================================================================
