---------------------------- MODULE MCProxyServer ----------------------------
(* An instance of ProxyServer for TLC.  The Ambient server decides what it  *)
(* sends; to keep the instance small with liveness, it sends either a second *)
(* AllocateEndpoint or up to two streams and datagrams.  No fairness is     *)
(* assumed of these actions, so that every behaviour is one of ProxyServer. *)
EXTENDS ProxyServer

CONSTANTS p1, p2, s1, s2, d1

Used == {i \in Items : itemPc[i] # "unused"}

FewSent == /\ 2 * sentRequests + Cardinality(Used) <= 4
           /\ s2 \in Used => s1 \in Used

MCSpec == Init /\ [][Next /\ FewSent']_vars /\ Fairness /\ Cooperation
=============================================================================
