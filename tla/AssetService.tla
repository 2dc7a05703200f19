---------------------------- MODULE AssetService ----------------------------
(***************************************************************************)
(* What the asset cache of one allocation promises the players who fetch   *)
(* assets over HTTP, without saying how.                                   *)
(*                                                                         *)
(* An asset is provided by the Ambient server and, once provided, is never *)
(* taken away (a later upload may replace it).  A request is answered at   *)
(* most once: with the asset its key holds at that moment, or with an      *)
(* error, and an error is only allowed to a request that has found its     *)
(* asset missing.  A request can also be refused before it is admitted     *)
(* (malformed or unknown allocation id), and whoever asked can give up.    *)
(***************************************************************************)
CONSTANTS Keys,       \* asset keys
          Requests,   \* HTTP requests
          Assets,     \* the contents an upload may carry
          NoData,     \* no asset under this key
          NoKey       \* a request that has not been admitted

VARIABLES cache,      \* cache[k]: the asset provided for key k, or NoData
          key,        \* key[r]: what request r asks for, or NoKey
          missed,     \* missed[r]: r has found its asset missing
          answer      \* answer[r]: an asset, a refusal, or "none"

vars == <<cache, key, missed, answer>>

Pending(r) == key[r] # NoKey /\ answer[r] = "none"

Available(r) == cache[key[r]] # NoData

Init ==
    /\ cache = [k \in Keys |-> NoData]
    /\ key = [r \in Requests |-> NoKey]
    /\ missed = [r \in Requests |-> FALSE]
    /\ answer = [r \in Requests |-> "none"]

Ask(r, k) ==
    /\ key[r] = NoKey /\ answer[r] = "none"
    /\ key' = [key EXCEPT ![r] = k]
    /\ UNCHANGED <<cache, missed, answer>>

Refuse(r) ==
    /\ key[r] = NoKey /\ answer[r] = "none"
    /\ answer' \in {[answer EXCEPT ![r] = a] : a \in {"malformed", "unknown"}}
    /\ UNCHANGED <<cache, key, missed>>

Miss(r) ==
    /\ Pending(r) /\ ~Available(r)
    /\ missed' = [missed EXCEPT ![r] = TRUE]
    /\ UNCHANGED <<cache, key, answer>>

Succeed(r) ==
    /\ Pending(r) /\ Available(r)
    /\ answer' = [answer EXCEPT ![r] = cache[key[r]]]
    /\ UNCHANGED <<cache, key, missed>>

Fail(r) ==
    /\ Pending(r)
    /\ missed[r] \/ ~Available(r)
    /\ missed' = [missed EXCEPT ![r] = TRUE]
    /\ answer' = [answer EXCEPT ![r] = "error"]
    /\ UNCHANGED <<cache, key>>

Abandon(r) ==
    /\ Pending(r)
    /\ answer' = [answer EXCEPT ![r] = "abandoned"]
    /\ UNCHANGED <<cache, key, missed>>

Provide(k, a) ==
    /\ cache' = [cache EXCEPT ![k] = a]
    /\ UNCHANGED <<key, missed, answer>>

Next ==
    \/ \E r \in Requests : \/ \E k \in Keys : Ask(r, k)
                           \/ Refuse(r)
                           \/ Miss(r)
                           \/ Succeed(r)
                           \/ Fail(r)
                           \/ Abandon(r)
    \/ \E k \in Keys, a \in Assets : Provide(k, a)

Spec == Init /\ [][Next]_vars
=============================================================================
