--------------------------- MODULE TunnelService ---------------------------
(***************************************************************************)
(* What the proxy and the client library together promise the Ambient       *)
(* server's application: the streams a player opens come out of that        *)
(* player's ProxiedConnection, once each and in the order in which the      *)
(* player opened them.  None is missing as long as the player and the       *)
(* Ambient server are connected; afterwards any of those still on their way *)
(* may be.                                                                 *)
(***************************************************************************)
EXTENDS Integers, Sequences, Functions

CONSTANTS Players,
          Streams   \* naturals, in the order in which the streams are opened

VARIABLES link,       \* link[p]: "new", "up", "down"
          underway,   \* underway[p]: streams p has opened that are on their way
          accepted    \* accepted[p]: streams the application has got from p

vars == <<link, underway, accepted>>

Init ==
    /\ link = [p \in Players |-> "new"]
    /\ underway = [p \in Players |-> {}]
    /\ accepted = [p \in Players |-> <<>>]

Connect(p) ==
    /\ link[p] = "new"
    /\ link' = [link EXCEPT ![p] = "up"]
    /\ UNCHANGED <<underway, accepted>>

\* A stream is opened once; an Ambient server may leave before its players know.
Open(p, s) ==
    /\ link[p] # "new"
    /\ \A q \in Players : \A t \in underway[q] \cup Range(accepted[q]) : t < s
    /\ underway' = [underway EXCEPT ![p] = @ \cup {s}]
    /\ UNCHANGED <<link, accepted>>

\* The application gets the stream that was opened first.
Accept(p, s) ==
    /\ s \in underway[p] /\ \A t \in underway[p] : s <= t
    /\ accepted' = [accepted EXCEPT ![p] = Append(@, s)]
    /\ underway' = [underway EXCEPT ![p] = @ \ {s}]
    /\ UNCHANGED link

\* One player leaves, or the Ambient server does, which ends all links.
Break(S) ==
    /\ link' = [p \in Players |->
                   IF p \in S /\ link[p] = "up" THEN "down" ELSE link[p]]
    /\ UNCHANGED <<underway, accepted>>

Lose(kept) ==
    /\ underway' = [p \in Players |->
                       IF link[p] = "down" THEN underway[p] \cap kept ELSE underway[p]]
    /\ UNCHANGED <<link, accepted>>

Next == \/ \E p \in Players : \/ Connect(p)
                              \/ \E s \in Streams : Open(p, s) \/ Accept(p, s)
        \/ \E S \in SUBSET Players : Break(S)
        \/ \E kept \in SUBSET Streams : Lose(kept)

Spec == Init /\ [][Next]_vars
=============================================================================
