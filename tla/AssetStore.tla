----------------------------- MODULE AssetStore -----------------------------
(***************************************************************************)
(* The asset cache of one allocation: the HTTP handler get_asset and       *)
(* ProxyServer::get_asset (one task per HTTP request), the tasks spawned   *)
(* by handle_uni for StoreAsset streams, Asset::store, and the Ambient     *)
(* server's answer to RequestAsset, all running on a multi-threaded        *)
(* runtime.  A step is what a task does between two points at which        *)
(* another thread can interleave: an await, or the release of the lock of  *)
(* a DashMap entry.                                                        *)
(*                                                                         *)
(* An upload stands for its contents: data[k] is the upload whose bytes    *)
(* key k holds, and Size gives their length after decompression.           *)
(***************************************************************************)
EXTENDS Integers, Sequences, FiniteSets, Functions

CONSTANTS Keys,       \* asset keys
          Requests,   \* HTTP requests for assets of this allocation
          Uploads,    \* StoreAsset streams opened by the Ambient server
          Size,       \* Size[u]: bytes stored by upload u
          OnDisk,     \* keys the Ambient server can load (load_asset_data)
          NoData,     \* Asset::data is None
          NoKey       \* a request or upload that is not under way

Refusals == {"none", "malformed", "unknown", "error", "abandoned"}

ASSUME AssetStoreAssumption ==
    /\ OnDisk \subseteq Keys
    /\ Size \in [Uploads -> Nat]
    /\ NoData \notin Uploads
    /\ NoKey \notin Keys
    /\ Refusals \cap Uploads = {}

VARIABLES
    connected,      \* ambient_server_conn is open
    listed,         \* the proxy is in ProxyStore
    running,        \* the task of ProxyServer::start holds its Arc
    receiverAlive,  \* the message task holds server_message_receiver
    messages,       \* RequestAsset messages on their way to the Ambient server
    entries,        \* keys with an entry in asset_store
    data,           \* data[k]: Asset::data
    totalSize,      \* total_assets_size
    reqPc,          \* where the task of request r is in get_asset
    reqKey,         \* the asset it was asked for
    requested,      \* requested_from_server
    expired,        \* the deadline of r has passed
    woken,          \* r's Notified future has been notified
    answer,         \* the HTTP answer: an upload's bytes or a status
    upPc,           \* where upload u is in handle_uni
    upKey           \* the key of its StoreAsset header

proxyVars == <<connected, listed, running, receiverAlive>>
storeVars == <<entries, data, totalSize>>
reqVars == <<reqPc, reqKey, requested, expired, woken, answer>>
upVars == <<upPc, upKey>>
vars == <<proxyVars, messages, storeVars, reqVars, upVars>>

-----------------------------------------------------------------------------
(* The Arcs that keep the ProxyServer: ProxyStore, the start task, every   *)
(* get_asset under way, every upload that upgraded its Weak.               *)
InGetAsset(r) == reqPc[r] \in {"loop", "grabbed", "waiting"}

HoldsUpgraded(u) == upPc[u] \in {"holding", "counted"}

ProxyAlive == \/ listed \/ running
              \/ \E r \in Requests : InGetAsset(r)
              \/ \E u \in Uploads : HoldsUpgraded(u)

Init ==
    /\ connected = TRUE /\ listed = TRUE /\ running = TRUE
    /\ receiverAlive = TRUE
    /\ messages = <<>>
    /\ entries = {}
    /\ data = [k \in Keys |-> NoData]
    /\ totalSize = 0
    /\ reqPc = [r \in Requests |-> "idle"]
    /\ reqKey = [r \in Requests |-> NoKey]
    /\ requested = [r \in Requests |-> FALSE]
    /\ expired = [r \in Requests |-> FALSE]
    /\ woken = [r \in Requests |-> FALSE]
    /\ answer = [r \in Requests |-> "none"]
    /\ upPc = [u \in Uploads |-> "unused"]
    /\ upKey = [u \in Uploads |-> NoKey]

-----------------------------------------------------------------------------
(* HTTP requests.                                                          *)

Answer(r, a) ==
    /\ reqPc' = [reqPc EXCEPT ![r] = "done"]
    /\ answer' = [answer EXCEPT ![r] = a]

\* get_asset: the id does not parse, or names no proxy.
RefuseRequest(r) ==
    /\ reqPc[r] = "idle"
    /\ \/ Answer(r, "malformed")
       \/ ~listed /\ Answer(r, "unknown")
    /\ UNCHANGED <<proxyVars, messages, storeVars, reqKey, requested, expired,
                   woken, upVars>>

\* get_asset clones the proxy's Arc out of the store and sets its deadline.
AdmitRequest(r, k) ==
    /\ reqPc[r] = "idle" /\ listed
    /\ reqPc' = [reqPc EXCEPT ![r] = "loop"]
    /\ reqKey' = [reqKey EXCEPT ![r] = k]
    /\ UNCHANGED <<proxyVars, messages, storeVars, requested, expired, woken,
                   answer, upVars>>

\* Every pass through the loop creates the entry it locks.
LockEntry(r) ==
    /\ reqPc[r] = "loop" /\ ~expired[r]
    /\ entries' = entries \cup {reqKey[r]}

FoundInStore(r) ==
    /\ LockEntry(r)
    /\ data[reqKey[r]] # NoData
    /\ Answer(r, data[reqKey[r]])
    /\ UNCHANGED <<proxyVars, messages, data, totalSize, reqKey, requested,
                   expired, woken, upVars>>

SendFails(r) ==
    /\ LockEntry(r)
    /\ data[reqKey[r]] = NoData
    /\ ~requested[r] /\ ~receiverAlive
    /\ requested' = [requested EXCEPT ![r] = TRUE]
    /\ Answer(r, "error")
    /\ UNCHANGED <<proxyVars, messages, data, totalSize, reqKey, expired, woken,
                   upVars>>

\* The asset is missing: ask for it once, keep its Notify, unlock the entry.
GrabNotify(r) ==
    /\ LockEntry(r)
    /\ data[reqKey[r]] = NoData
    /\ IF requested[r]
       THEN UNCHANGED <<messages, requested>>
       ELSE /\ receiverAlive
            /\ messages' = Append(messages, reqKey[r])
            /\ requested' = [requested EXCEPT ![r] = TRUE]
    /\ reqPc' = [reqPc EXCEPT ![r] = "grabbed"]
    /\ UNCHANGED <<proxyVars, data, totalSize, reqKey, expired, woken, answer,
                   upVars>>

\* Only now, with the entry unlocked, is the Notified future created: a
\* notify_waiters before this step does not reach it.
AwaitNotify(r) ==
    /\ reqPc[r] = "grabbed"
    /\ reqPc' = [reqPc EXCEPT ![r] = "waiting"]
    /\ woken' = [woken EXCEPT ![r] = FALSE]
    /\ UNCHANGED <<proxyVars, messages, storeVars, reqKey, requested, expired,
                   answer, upVars>>

\* Mutant: the select without its sleep_until branch.
WakeOnNotifyOnly(r) ==
    /\ reqPc[r] = "waiting"
    /\ woken[r]
    /\ reqPc' = [reqPc EXCEPT ![r] = "loop"]
    /\ UNCHANGED <<proxyVars, messages, storeVars, reqKey, requested, expired,
                   woken, answer, upVars>>

\* Either branch of the select leads back to the loop test.
Wake(r) ==
    /\ reqPc[r] = "waiting"
    /\ woken[r] \/ expired[r]
    /\ reqPc' = [reqPc EXCEPT ![r] = "loop"]
    /\ UNCHANGED <<proxyVars, messages, storeVars, reqKey, requested, expired,
                   woken, answer, upVars>>

\* The player closes the HTTP connection: the handler is dropped at its await.
Abandon(r) ==
    /\ reqPc[r] = "waiting"
    /\ Answer(r, "abandoned")
    /\ UNCHANGED <<proxyVars, messages, storeVars, reqKey, requested, expired,
                   woken, upVars>>

TimedOut(r) ==
    /\ reqPc[r] = "loop" /\ expired[r]
    /\ Answer(r, "error")
    /\ UNCHANGED <<proxyVars, messages, storeVars, reqKey, requested, expired,
                   woken, upVars>>

\* Mutant: a timeout of zero: the deadline may pass before the first pass.
ExpireBeforeLooking(r) ==
    /\ InGetAsset(r)
    /\ ~expired[r]
    /\ expired' = [expired EXCEPT ![r] = TRUE]
    /\ UNCHANGED <<proxyVars, messages, storeVars, reqPc, reqKey, requested,
                   woken, answer, upVars>>

\* Time passes.  assets_download_timeout is at least a second, and the first
\* pass through the loop starts within microseconds of computing the deadline:
\* a deadline never passes before the request has looked into the store once.
Expire(r) ==
    /\ InGetAsset(r)
    /\ requested[r] /\ ~expired[r]
    /\ expired' = [expired EXCEPT ![r] = TRUE]
    /\ UNCHANGED <<proxyVars, messages, storeVars, reqPc, reqKey, requested,
                   woken, answer, upVars>>

-----------------------------------------------------------------------------
(* Uploads.                                                                *)

OpenUpload(u, k) ==
    /\ upPc[u] = "unused" /\ connected
    /\ upPc' = [upPc EXCEPT ![u] = "sent"]
    /\ upKey' = [upKey EXCEPT ![u] = k]

\* The Ambient server stores an asset unasked: store_asset or pre-caching.
PushAsset(u, k) ==
    /\ OpenUpload(u, k)
    /\ UNCHANGED <<proxyVars, messages, storeVars, reqVars>>

\* The Ambient server's loop takes a RequestAsset: it uploads the asset if it
\* can load it and otherwise drops the request without an answer.
ServeRequest(u) ==
    /\ messages # <<>> /\ connected
    /\ messages' = Tail(messages)
    /\ IF Head(messages) \in OnDisk
       THEN OpenUpload(u, Head(messages))
       ELSE UNCHANGED upVars
    /\ UNCHANGED <<proxyVars, storeVars, reqVars>>

\* handle_uni has read the StoreAsset header and spawns the task that reads.
HandleStoreAsset(u) ==
    /\ upPc[u] = "sent" /\ running
    /\ upPc' = [upPc EXCEPT ![u] = "reading"]
    /\ UNCHANGED <<proxyVars, messages, storeVars, reqVars, upKey>>

\* All the data has been read: upgrade the Weak or give up.
UpgradeProxy(u) ==
    /\ upPc[u] = "reading"
    /\ upPc' = [upPc EXCEPT ![u] = IF ProxyAlive THEN "holding" ELSE "failed"]
    /\ UNCHANGED <<proxyVars, messages, storeVars, reqVars, upKey>>

\* Mutant: store in place of fetch_add.
CountAssetOverwriting(u) ==
    /\ upPc[u] = "holding"
    /\ totalSize' = Size[u]
    /\ upPc' = [upPc EXCEPT ![u] = "counted"]
    /\ UNCHANGED <<proxyVars, messages, entries, data, reqVars, upKey>>

CountAsset(u) ==
    /\ upPc[u] = "holding"
    /\ totalSize' = totalSize + Size[u]
    /\ upPc' = [upPc EXCEPT ![u] = "counted"]
    /\ UNCHANGED <<proxyVars, messages, entries, data, reqVars, upKey>>

\* Mutant: one Notify for the whole store.
StoreAssetWakingAll(u) ==
    /\ upPc[u] = "counted"
    /\ entries' = entries \cup {upKey[u]}
    /\ data' = [data EXCEPT ![upKey[u]] = u]
    /\ woken' = [r \in Requests |-> woken[r] \/ reqPc[r] = "waiting"]
    /\ upPc' = [upPc EXCEPT ![u] = "stored"]
    /\ UNCHANGED <<proxyVars, messages, totalSize, reqPc, reqKey, requested,
                   expired, answer, upKey>>

\* Asset::store under the lock of the entry: set the data, then wake every
\* Notified future that exists by now.
StoreAsset(u) ==
    /\ upPc[u] = "counted"
    /\ entries' = entries \cup {upKey[u]}
    /\ data' = [data EXCEPT ![upKey[u]] = u]
    /\ woken' = [r \in Requests |->
                    woken[r] \/ (reqPc[r] = "waiting" /\ reqKey[r] = upKey[u])]
    /\ upPc' = [upPc EXCEPT ![u] = "stored"]
    /\ UNCHANGED <<proxyVars, messages, totalSize, reqPc, reqKey, requested,
                   expired, answer, upKey>>

\* Mutant: a failed upload takes back a size that was never added.
FailUploadRefunding(u) ==
    /\ upPc[u] \in {"sent", "reading", "holding"}
    /\ upPc' = [upPc EXCEPT ![u] = "failed"]
    /\ totalSize' = totalSize - Size[u]
    /\ UNCHANGED <<proxyVars, messages, entries, data, reqVars, upKey>>

\* A bad header, compression or length, a broken stream, data that does not
\* decompress: the upload is dropped and nobody is told.
FailUpload(u) ==
    /\ upPc[u] \in {"sent", "reading", "holding"}
    /\ upPc' = [upPc EXCEPT ![u] = "failed"]
    /\ UNCHANGED <<proxyVars, messages, storeVars, reqVars, upKey>>

-----------------------------------------------------------------------------
(* The end of the allocation.                                              *)

Disconnect ==
    /\ connected
    /\ connected' = FALSE
    /\ UNCHANGED <<listed, running, receiverAlive, messages, storeVars, reqVars,
                   upVars>>

\* The message task sees the connection closed: its receiver goes, and with it
\* the messages nobody has taken.
MessageTaskEnds ==
    /\ receiverAlive /\ ~connected
    /\ receiverAlive' = FALSE
    /\ messages' = <<>>
    /\ UNCHANGED <<connected, listed, running, storeVars, reqVars, upVars>>

\* The loop of ProxyServer::start sees the connection closed.  This is no step
\* that must come: the task may wait for its flag, or a handler for a player, for
\* good (ManagementServer has both).
StartTaskEnds ==
    /\ running /\ ~connected
    /\ running' = FALSE
    /\ UNCHANGED <<connected, listed, receiverAlive, messages, storeVars, reqVars,
                   upVars>>

\* ManagementServer handles the Stopped event.
RemoveProxy ==
    /\ listed /\ ~running
    /\ listed' = FALSE
    /\ UNCHANGED <<connected, running, receiverAlive, messages, storeVars, reqVars,
                   upVars>>

-----------------------------------------------------------------------------
RequestSteps(r) == \/ FoundInStore(r) \/ SendFails(r) \/ GrabNotify(r)
                   \/ AwaitNotify(r) \/ Wake(r) \/ TimedOut(r) \/ Expire(r)

Shutdown == MessageTaskEnds \/ StartTaskEnds \/ RemoveProxy

Next ==
    \/ \E r \in Requests : \/ RefuseRequest(r)
                           \/ \E k \in Keys : AdmitRequest(r, k)
                           \/ RequestSteps(r)
                           \/ Abandon(r)
    \/ \E u \in Uploads : \/ \E k \in Keys : PushAsset(u, k)
                          \/ ServeRequest(u) \/ HandleStoreAsset(u)
                          \/ UpgradeProxy(u) \/ CountAsset(u) \/ StoreAsset(u)
                          \/ FailUpload(u)
    \/ Disconnect
    \/ Shutdown

Spec == Init /\ [][Next]_vars

(* Every spawned task keeps running and every timer fires, the message task *)
(* sees the end of the connection in its select, and ManagementServer       *)
(* handles the Stopped event (its handshakes end by their timeout).  Nothing *)
(* is assumed of players, of the Ambient server or of the network, nor that *)
(* the start task ends.                                                    *)
Fairness ==
    /\ \A r \in Requests : WF_vars(RequestSteps(r)) /\ WF_vars(Expire(r))
    /\ \A u \in Uploads : WF_vars(CountAsset(u)) /\ WF_vars(StoreAsset(u))
    /\ WF_vars(MessageTaskEnds) /\ WF_vars(RemoveProxy)

FairSpec == Spec /\ Fairness

-----------------------------------------------------------------------------
(* Properties.                                                             *)

\* The value of every variable: a request that is under way has a key and no
\* answer, one that has not been admitted has neither, total_assets_size is a
\* natural number.
TypeOK ==
    /\ connected \in BOOLEAN /\ listed \in BOOLEAN
    /\ running \in BOOLEAN /\ receiverAlive \in BOOLEAN
    /\ messages \in Seq(Keys)
    /\ entries \subseteq Keys
    /\ data \in [Keys -> Uploads \cup {NoData}]
    /\ totalSize \in Nat
    /\ reqPc \in [Requests -> {"idle", "loop", "grabbed", "waiting", "done"}]
    /\ reqKey \in [Requests -> Keys \cup {NoKey}]
    /\ requested \in [Requests -> BOOLEAN]
    /\ expired \in [Requests -> BOOLEAN]
    /\ woken \in [Requests -> BOOLEAN]
    /\ answer \in [Requests -> Uploads \cup Refusals]
    /\ \A r \in Requests :
          /\ InGetAsset(r) => reqKey[r] \in Keys /\ answer[r] = "none"
          /\ reqPc[r] = "idle" => reqKey[r] = NoKey /\ answer[r] = "none"
    /\ upPc \in [Uploads -> {"unused", "sent", "reading", "holding", "counted",
                            "stored", "failed"}]
    /\ upKey \in [Uploads -> Keys \cup {NoKey}]

Service == INSTANCE AssetService WITH
    Assets <- Uploads, cache <- data, key <- reqKey, missed <- requested,
    answer <- answer

\* get_asset, the upload tasks and the shutdown of the allocation together keep
\* what the asset cache promises: a request is answered once, with what its key
\* holds at that moment, and fails only if it found the asset missing, however
\* deadlines, uploads and the end of the allocation interleave.
RefinesAssetService == Service!Spec

\* A wakeup is for the asset that was waited for, and that stays in the store: a
\* request comes back to look only to find it or because its deadline has
\* passed, and so has no reason to ask the Ambient server again.
WakeupMeansAsset ==
    \A r \in Requests :
        \/ reqPc[r] = "waiting" /\ woken[r]
        \/ reqPc[r] = "loop" /\ requested[r] /\ ~expired[r]
        => data[reqKey[r]] # NoData

StoredKeys == {k \in Keys : data[k] # NoData}

StoredSize == FoldFunction(+, 0, [k \in StoredKeys |-> Size[data[k]]])

\* total_assets_size is raised before the data is visible in asset_store, by
\* concurrent tasks: at no point between does /stats or /metrics report less
\* than what the store holds.
SizeNeverUnderReported == totalSize >= StoredSize

\* /stats: "Total number of assets", which the code reads from the number of
\* entries of asset_store.
CountExact == Cardinality(entries) = Cardinality(StoredKeys)

\* get_asset waits "for the asset to be available (or timeout)": a request does
\* not sleep through the arrival of its asset.
NoLostWakeup ==
    \A r \in Requests :
        reqPc[r] = "waiting" /\ ~woken[r] => data[reqKey[r]] = NoData

\* Every admitted request ends, with an asset, an error or because the player
\* gave up, even when its wakeup is lost and whatever happens to the allocation.
EveryRequestEnds ==
    \A r \in Requests : InGetAsset(r) ~> reqPc[r] = "done"

\* Neither a player that waits for an asset nor an upload under way holds up the
\* end of the allocation for good: once the start task has ended, and whatever
\* requests and uploads come before the proxy is removed, the ProxyServer is
\* dropped.  That the start task ends is not a matter of the cache:
\* ServedProxyDropped of ManagementServer says when it does.
StoppedProxyReleased == ~running ~> ~ProxyAlive
=============================================================================
