------------------------------ MODULE MCPreCache ------------------------------
(* Instances of PreCache for TLC: d1 holds the file f1 and the directory d2,  *)
(* d2, which may be unreadable, holds the file f2.                            *)
EXTENDS PreCache, TLC

CONSTANTS d1, d2, f1, f2

MCEntries == d1 :> {d2, f1} @@ d2 :> {f2}
=============================================================================
