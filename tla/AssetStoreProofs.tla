-------------------------- MODULE AssetStoreProofs --------------------------
(***************************************************************************)
(* For any number of keys, requests and uploads: the type invariant of     *)
(* AssetStore, and that it implements AssetService.                        *)
(***************************************************************************)
EXTENDS AssetStore, Induction, SequenceTheorems, TLAPS

(* What the type invariant does not say and the refinement rests on: a      *)
(* request can only have run out of time after its first look into the     *)
(* store, and an upload has its key from its first step on.                *)
RequestInv(r) == expired[r] => requested[r]

UploadInv(u) == upPc[u] # "unused" => upKey[u] \in Keys

IInv == /\ TypeOK
        /\ \A r \in Requests : RequestInv(r)
        /\ \A u \in Uploads : UploadInv(u)

-----------------------------------------------------------------------------
LEMMA InitIInv == Init => IInv
BY AssetStoreAssumption
DEF Init, IInv, TypeOK, RequestInv, UploadInv, InGetAsset, Refusals

(* The steps of requests.                                                  *)
LEMMA RequestStepIInv ==
    ASSUME IInv, NEW r \in Requests,
           \/ RefuseRequest(r)
           \/ \E k \in Keys : AdmitRequest(r, k)
           \/ RequestSteps(r)
           \/ Abandon(r)
    PROVE  IInv'
<1> USE DEF IInv, TypeOK, RequestInv, UploadInv, InGetAsset, Refusals,
            proxyVars, storeVars, upVars
<1>1. CASE RefuseRequest(r)
  BY <1>1 DEF RefuseRequest, Answer
<1>2. ASSUME NEW k \in Keys, AdmitRequest(r, k) PROVE IInv'
  BY <1>2 DEF AdmitRequest
<1>3. CASE FoundInStore(r)
  BY <1>3 DEF FoundInStore, LockEntry, Answer
<1>4. CASE SendFails(r)
  BY <1>4 DEF SendFails, LockEntry, Answer
<1>5. CASE GrabNotify(r)
  <2>1. Append(messages, reqKey[r]) \in Seq(Keys)
    BY <1>5 DEF GrabNotify, LockEntry
  <2>2. messages' \in Seq(Keys)
    BY <1>5, <2>1 DEF GrabNotify
  <2> QED BY <1>5, <2>2 DEF GrabNotify, LockEntry
<1>6. CASE AwaitNotify(r)
  BY <1>6 DEF AwaitNotify
<1>7. CASE Wake(r)
  BY <1>7 DEF Wake
<1>8. CASE TimedOut(r)
  BY <1>8 DEF TimedOut, Answer
<1>9. CASE Expire(r)
  BY <1>9 DEF Expire
<1>10. CASE Abandon(r)
  BY <1>10 DEF Abandon, Answer
<1> QED
  BY <1>1, <1>2, <1>3, <1>4, <1>5, <1>6, <1>7, <1>8, <1>9, <1>10
  DEF RequestSteps

(* The steps of uploads.                                                   *)
LEMMA UploadStepIInv ==
    ASSUME IInv, NEW u \in Uploads,
           \/ \E k \in Keys : PushAsset(u, k)
           \/ ServeRequest(u) \/ HandleStoreAsset(u) \/ UpgradeProxy(u)
           \/ CountAsset(u) \/ StoreAsset(u) \/ FailUpload(u)
    PROVE  IInv'
<1> USE DEF IInv, TypeOK, RequestInv, UploadInv, InGetAsset,
            proxyVars, storeVars, reqVars
<1>1. ASSUME NEW k \in Keys, PushAsset(u, k) PROVE IInv'
  BY <1>1 DEF PushAsset, OpenUpload
<1>2. CASE ServeRequest(u)
  <2>1. messages' \in Seq(Keys) /\ Head(messages) \in Keys
    BY <1>2 DEF ServeRequest
  <2> QED BY <1>2, <2>1 DEF ServeRequest, OpenUpload, upVars
<1>3. CASE HandleStoreAsset(u)
  BY <1>3 DEF HandleStoreAsset
<1>4. CASE UpgradeProxy(u)
  BY <1>4 DEF UpgradeProxy
<1>5. CASE CountAsset(u)
  <2>1. Size[u] \in Nat
    BY AssetStoreAssumption DEF AssetStoreAssumption
  <2>2. totalSize' \in Nat
    BY <1>5, <2>1 DEF CountAsset
  <2> QED BY <1>5, <2>2 DEF CountAsset
<1>6. CASE StoreAsset(u)
  <2>1. woken' \in [Requests -> BOOLEAN]
    BY <1>6, Zenon DEF StoreAsset
  <2>2. data' \in [Keys -> Uploads \cup {NoData}] /\ entries' \subseteq Keys
    BY <1>6 DEF StoreAsset
  <2>3. TypeOK'
    BY <1>6, <2>1, <2>2 DEF StoreAsset
  <2>4. (\A r \in Requests : RequestInv(r)') /\ (\A v \in Uploads : UploadInv(v)')
    BY <1>6 DEF StoreAsset
  <2> QED BY <2>3, <2>4
<1>7. CASE FailUpload(u)
  BY <1>7 DEF FailUpload
<1> QED
  BY <1>1, <1>2, <1>3, <1>4, <1>5, <1>6, <1>7

LEMMA NextIInv == IInv /\ [Next]_vars => IInv'
<1> SUFFICES ASSUME IInv, [Next]_vars PROVE IInv'
  OBVIOUS
<1>1. CASE Disconnect \/ StartTaskEnds \/ RemoveProxy
  BY <1>1 DEF Disconnect, StartTaskEnds, RemoveProxy, IInv, TypeOK, RequestInv,
      UploadInv, InGetAsset, storeVars, reqVars, upVars
<1>2. CASE MessageTaskEnds
  <2>1. messages' \in Seq(Keys)
    BY <1>2, EmptySeq DEF MessageTaskEnds
  <2> QED
    BY <1>2, <2>1 DEF MessageTaskEnds, IInv, TypeOK, RequestInv, UploadInv,
        InGetAsset, storeVars, reqVars, upVars
<1>3. CASE UNCHANGED vars
  BY <1>3 DEF vars, proxyVars, storeVars, reqVars, upVars,
      IInv, TypeOK, RequestInv, UploadInv, InGetAsset
<1> QED
  BY <1>1, <1>2, <1>3, RequestStepIInv, UploadStepIInv DEF Next, Shutdown

LEMMA Invariance == Spec => []IInv
BY InitIInv, NextIInv, PTL DEF Spec

(* The variables of AssetStore keep their types, total_assets_size among    *)
(* them (lines 717-719): no failed or repeated upload takes it below zero. *)
THEOREM Typing == Spec => []TypeOK
BY Invariance, PTL DEF IInv

-----------------------------------------------------------------------------
(* Wakeups.  Data never leaves the store, and AwaitNotify forgets what woke *)
(* a request before; that a request that has just been admitted cannot have *)
(* asked already is what WakeupMeansAsset lacks to be inductive.            *)
WakeupInv(r) ==
    /\ reqPc[r] = "idle" => ~requested[r]
    /\ \/ reqPc[r] = "waiting" /\ woken[r]
       \/ reqPc[r] = "loop" /\ requested[r] /\ ~expired[r]
       => data[reqKey[r]] # NoData

LEMMA RequestStepWakeup ==
    ASSUME IInv, NEW q \in Requests, WakeupInv(q), NEW r \in Requests,
           \/ RefuseRequest(r)
           \/ \E k \in Keys : AdmitRequest(r, k)
           \/ RequestSteps(r)
           \/ Abandon(r)
    PROVE  WakeupInv(q)'
<1> USE DEF IInv, TypeOK, WakeupInv, storeVars
<1>1. CASE RefuseRequest(r) \/ Abandon(r)
  BY <1>1 DEF RefuseRequest, Abandon, Answer
<1>2. ASSUME NEW k \in Keys, AdmitRequest(r, k) PROVE WakeupInv(q)'
  BY <1>2 DEF AdmitRequest
<1>3. CASE FoundInStore(r) \/ SendFails(r) \/ TimedOut(r)
  BY <1>3 DEF FoundInStore, SendFails, TimedOut, LockEntry, Answer
<1>4. CASE GrabNotify(r)
  BY <1>4 DEF GrabNotify, LockEntry
<1>5. CASE AwaitNotify(r)
  BY <1>5 DEF AwaitNotify
<1>6. CASE Wake(r)
  BY <1>6 DEF Wake
<1>7. CASE Expire(r)
  BY <1>7 DEF Expire, InGetAsset
<1> QED
  BY <1>1, <1>2, <1>3, <1>4, <1>5, <1>6, <1>7 DEF RequestSteps

LEMMA StoreAssetWakeup ==
    ASSUME IInv, NEW q \in Requests, WakeupInv(q), NEW u \in Uploads,
           StoreAsset(u)
    PROVE  WakeupInv(q)'
<1>1. upKey[u] \in Keys /\ u # NoData
  BY AssetStoreAssumption DEF StoreAsset, IInv, UploadInv, AssetStoreAssumption
<1>2. data' = [data EXCEPT ![upKey[u]] = u]
  BY DEF StoreAsset
<1>3. \A k \in Keys : data[k] # NoData \/ k = upKey[u] => data'[k] # NoData
  BY <1>1, <1>2 DEF IInv, TypeOK
<1>4. /\ woken'[q] <=> woken[q] \/ (reqPc[q] = "waiting" /\ reqKey[q] = upKey[u])
      /\ UNCHANGED <<reqPc, reqKey, requested, expired>>
  BY DEF StoreAsset
<1>5. reqPc[q] \in {"waiting", "loop"} => reqKey[q] \in Keys
  BY DEF IInv, TypeOK, InGetAsset
<1> QED
  BY <1>3, <1>4, <1>5, Zenon DEF WakeupInv

LEMMA NextWakeup ==
    ASSUME IInv, [Next]_vars, NEW q \in Requests, WakeupInv(q)
    PROVE  WakeupInv(q)'
<1>1. CASE Disconnect \/ Shutdown \/ UNCHANGED vars
  BY <1>1 DEF Disconnect, Shutdown, MessageTaskEnds, StartTaskEnds, RemoveProxy,
      vars, storeVars, reqVars, WakeupInv
<1>2. ASSUME NEW u \in Uploads,
             \/ \E k \in Keys : PushAsset(u, k)
             \/ ServeRequest(u) \/ HandleStoreAsset(u) \/ UpgradeProxy(u)
             \/ CountAsset(u) \/ FailUpload(u)
      PROVE  WakeupInv(q)'
  BY <1>2 DEF PushAsset, OpenUpload, ServeRequest, HandleStoreAsset, UpgradeProxy,
      CountAsset, FailUpload, storeVars, reqVars, WakeupInv
<1> QED
  BY <1>1, <1>2, RequestStepWakeup, StoreAssetWakeup DEF Next

(* A request that a store has woken finds its asset (lines 808-812): no      *)
(* wakeup is for another key, and no data is taken out of the store again.   *)
THEOREM WakeupSound == Spec => []WakeupMeansAsset
<1> DEFINE W == \A r \in Requests : WakeupInv(r)
<1>1. Init => W
  BY DEF Init, WakeupInv
<1>2. IInv /\ W /\ [Next]_vars => W'
  BY NextWakeup
<1>3. W => WakeupMeansAsset
  BY DEF WakeupInv, WakeupMeansAsset
<1> QED
  BY <1>1, <1>2, <1>3, Invariance, PTL DEF Spec

-----------------------------------------------------------------------------
(* total_assets_size is the sum over the uploads that have been counted,    *)
(* and what the store holds was brought by uploads that have been counted, *)
(* a different one for each key: an upload has only one key.               *)
CountedUploads == {u \in Uploads : upPc[u] \in {"counted", "stored"}}

SizeInv == /\ IsFiniteSet(CountedUploads)
           /\ totalSize = SumOver(Size, CountedUploads)
           /\ \A k \in Keys :
                data[k] # NoData => /\ upPc[data[k]] = "stored"
                                    /\ upKey[data[k]] = k

LEMMA InitSize == Init => SizeInv
<1> SUFFICES ASSUME Init PROVE SizeInv
  OBVIOUS
<1>1. CountedUploads = {}
  BY DEF Init, CountedUploads
<1> QED BY <1>1, SumEmpty, FS_EmptySet DEF Init, SizeInv

LEMMA CountAssetSize ==
    ASSUME IInv, SizeInv, NEW u \in Uploads, CountAsset(u)
    PROVE  SizeInv'
<1>1. /\ u \notin CountedUploads
      /\ CountedUploads' = CountedUploads \cup {u}
  BY DEF CountAsset, CountedUploads, IInv, TypeOK
<1>2. IsFiniteSet(CountedUploads')
  BY <1>1, FS_AddElement DEF SizeInv
<1>3. \A v \in CountedUploads' : Size[v] \in Nat
  BY AssetStoreAssumption DEF AssetStoreAssumption, CountedUploads
<1>4. SumOver(Size, CountedUploads') = Size[u] + SumOver(Size, CountedUploads)
  <2>1. CountedUploads' \ {u} = CountedUploads
    BY <1>1
  <2> QED BY <1>1, <1>2, <1>3, <2>1, SumOut
<1>5. totalSize' = totalSize + Size[u]
  BY DEF CountAsset
<1>6. totalSize' = SumOver(Size, CountedUploads')
  BY <1>1, <1>3, <1>4, <1>5, AssetStoreAssumption
  DEF SizeInv, AssetStoreAssumption, IInv, TypeOK
<1>7. \A k \in Keys : data'[k] # NoData => upPc'[data'[k]] = "stored"
                                          /\ upKey'[data'[k]] = k
  BY DEF CountAsset, SizeInv, IInv, TypeOK
<1> QED BY <1>2, <1>6, <1>7 DEF SizeInv

LEMMA StoreAssetSize ==
    ASSUME IInv, SizeInv, NEW u \in Uploads, StoreAsset(u)
    PROVE  SizeInv'
<1>1. CountedUploads' = CountedUploads
  BY DEF StoreAsset, CountedUploads, IInv, TypeOK
<1>2. \A k \in Keys : data'[k] # NoData => upPc'[data'[k]] = "stored"
                                          /\ upKey'[data'[k]] = k
  BY DEF StoreAsset, SizeInv, IInv, TypeOK
<1> QED BY <1>1, <1>2 DEF SizeInv, StoreAsset

(* The other steps count no upload and store none.                         *)
LEMMA NextSize == IInv /\ SizeInv /\ [Next]_vars => SizeInv'
<1> SUFFICES ASSUME IInv, SizeInv, [Next]_vars PROVE SizeInv'
  OBVIOUS
<1>1. ASSUME UNCHANGED <<data, totalSize, upPc, upKey>> PROVE SizeInv'
  <2>1. CountedUploads' = CountedUploads
    BY <1>1 DEF CountedUploads
  <2> QED BY <1>1, <2>1 DEF SizeInv
<1>2. ASSUME NEW u \in Uploads,
             \/ \E k \in Keys : PushAsset(u, k)
             \/ ServeRequest(u) \/ HandleStoreAsset(u) \/ UpgradeProxy(u)
             \/ FailUpload(u)
      PROVE  SizeInv'
  <2>1. /\ UNCHANGED <<data, totalSize>>
        /\ upPc[u] \notin {"counted", "stored"} \/ UNCHANGED upVars
        /\ \A v \in Uploads : v # u => upPc'[v] = upPc[v] /\ upKey'[v] = upKey[v]
        /\ upPc'[u] \notin {"counted", "stored"} \/ UNCHANGED upVars
    BY <1>2 DEF PushAsset, ServeRequest, OpenUpload, HandleStoreAsset, UpgradeProxy,
       FailUpload, storeVars, upVars, IInv, TypeOK
  <2>2. CountedUploads' = CountedUploads
    BY <2>1 DEF CountedUploads, upVars
  <2>3. \A k \in Keys : data'[k] # NoData => upPc'[data'[k]] = "stored"
                                            /\ upKey'[data'[k]] = k
    BY <2>1 DEF SizeInv, IInv, TypeOK, upVars
  <2> QED BY <2>1, <2>2, <2>3 DEF SizeInv
<1>3. CASE \E u \in Uploads : CountAsset(u) \/ StoreAsset(u)
  BY <1>3, CountAssetSize, StoreAssetSize
<1>4. CASE \E r \in Requests : \/ RefuseRequest(r)
                               \/ \E k \in Keys : AdmitRequest(r, k)
                               \/ RequestSteps(r)
                               \/ Abandon(r)
  BY <1>1, <1>4 DEF RefuseRequest, AdmitRequest, RequestSteps, Abandon, FoundInStore,
     SendFails, GrabNotify, AwaitNotify, Wake, TimedOut, Expire, storeVars, upVars
<1>5. CASE Disconnect \/ Shutdown \/ UNCHANGED vars
  BY <1>1, <1>5 DEF Disconnect, Shutdown, MessageTaskEnds, StartTaskEnds, RemoveProxy,
     vars, storeVars, upVars
<1> QED
  BY <1>2, <1>3, <1>4, <1>5 DEF Next

LEMMA SizeBound == IInv /\ SizeInv => SizeNeverUnderReported
<1> SUFFICES ASSUME IInv, SizeInv PROVE totalSize >= StoredSize
  BY DEF SizeNeverUnderReported
<1> DEFINE bringers == {data[k] : k \in StoredKeys}
           sizes == [k \in StoredKeys |-> Size[data[k]]]
<1>1. \A k \in StoredKeys : data[k] \in CountedUploads /\ upKey[data[k]] = k
  BY DEF StoredKeys, SizeInv, CountedUploads, IInv, TypeOK
<1>2. \A u \in CountedUploads : Size[u] \in Nat
  BY AssetStoreAssumption DEF AssetStoreAssumption, CountedUploads
<1>3. IsFiniteSet(StoredKeys)
  <2>1. IsFiniteSet({upKey[u] : u \in CountedUploads})
    BY FiniteImage DEF SizeInv
  <2>2. StoredKeys \subseteq {upKey[u] : u \in CountedUploads}
    BY <1>1
  <2> QED BY <2>1, <2>2, FS_Subset
<1>4. SumOver(sizes, StoredKeys) = SumOver(Size, bringers)
  <2>1. \A k \in StoredKeys : sizes[k] \in Nat /\ sizes[k] = Size[data[k]]
    BY <1>1, <1>2
  <2>2. \A k, l \in StoredKeys : data[k] = data[l] => k = l
    BY <1>1
  <2> HIDE DEF sizes
  <2> QED BY <1>3, <2>1, <2>2, SumInjection
<1>5. SumOver(Size, bringers) <= SumOver(Size, CountedUploads)
  <2>1. bringers \subseteq CountedUploads
    BY <1>1
  <2> HIDE DEF bringers
  <2> QED BY <1>2, <2>1, SumMonotone DEF SizeInv
<1>6. StoredSize = SumOver(sizes, StoredKeys)
  <2>1. DOMAIN sizes = StoredKeys
    OBVIOUS
  <2>2. StoredSize = FoldFunction(+, 0, sizes)
    BY DEF StoredSize
  <2> HIDE DEF sizes
  <2> QED BY <2>1, <2>2, FoldIsSum
<1>7. SumOver(Size, bringers) \in Nat /\ SumOver(Size, CountedUploads) \in Nat
  <2>1. IsFiniteSet(bringers) /\ \A u \in bringers : Size[u] \in Nat
    BY <1>1, <1>2, <1>3, FiniteImage
  <2> HIDE DEF bringers
  <2> QED BY <1>2, <2>1, SumNat DEF SizeInv
<1> HIDE DEF sizes, bringers
<1> QED BY <1>4, <1>5, <1>6, <1>7 DEF SizeInv

(* total_assets_size never falls below the bytes that the store holds, for *)
(* any number of concurrent uploads (lines 717-725): each adds its size    *)
(* before it touches the entry, and replaces at most one asset.            *)
THEOREM SizeReported == Spec => []SizeNeverUnderReported
BY InitSize, NextSize, SizeBound, Invariance, PTL DEF Spec

-----------------------------------------------------------------------------
(* Every step of the cache is a step of the service it promises.           *)

LEMMA InitRefines == Init => Service!Init
BY DEF Init, Service!Init

LEMMA RequestStepRefines ==
    ASSUME IInv, NEW r \in Requests,
           \/ RefuseRequest(r)
           \/ \E k \in Keys : AdmitRequest(r, k)
           \/ RequestSteps(r)
           \/ Abandon(r)
    PROVE  [Service!Next]_(Service!vars)
<1> USE AssetStoreAssumption
    DEF IInv, TypeOK, RequestInv, InGetAsset, Service!vars, Service!Pending,
        Service!Available, storeVars
<1>1. CASE RefuseRequest(r)
  <2>1. Service!Refuse(r)
    BY <1>1 DEF RefuseRequest, Answer, Service!Refuse
  <2> QED BY <2>1 DEF Service!Next
<1>2. ASSUME NEW k \in Keys, AdmitRequest(r, k) PROVE Service!Next
  <2>1. Service!Ask(r, k)
    BY <1>2 DEF AdmitRequest, Service!Ask
  <2> QED BY <2>1 DEF Service!Next
<1>3. CASE FoundInStore(r)
  <2>1. Service!Succeed(r)
    BY <1>3 DEF FoundInStore, LockEntry, Answer, Service!Succeed
  <2> QED BY <2>1 DEF Service!Next
<1>4. CASE SendFails(r)
  <2>1. Service!Fail(r)
    BY <1>4 DEF SendFails, LockEntry, Answer, Service!Fail
  <2> QED BY <2>1 DEF Service!Next
<1>5. CASE GrabNotify(r)
  <2>1. CASE requested[r]
    BY <1>5, <2>1 DEF GrabNotify
  <2>2. CASE ~requested[r]
    <3>1. Service!Miss(r)
      BY <1>5, <2>2 DEF GrabNotify, LockEntry, Service!Miss
    <3> QED BY <3>1 DEF Service!Next
  <2> QED BY <2>1, <2>2
<1>6. CASE AwaitNotify(r) \/ Wake(r) \/ Expire(r)
  BY <1>6 DEF AwaitNotify, Wake, Expire
<1>7. CASE TimedOut(r)
  <2>1. requested' = [requested EXCEPT ![r] = TRUE]
    BY <1>7 DEF TimedOut
  <2>2. Service!Fail(r)
    BY <1>7, <2>1 DEF TimedOut, Answer, Service!Fail
  <2> QED BY <2>2 DEF Service!Next
<1>8. CASE Abandon(r)
  <2>1. Service!Abandon(r)
    BY <1>8 DEF Abandon, Answer, Service!Abandon
  <2> QED BY <2>1 DEF Service!Next
<1> QED
  BY <1>1, <1>2, <1>3, <1>4, <1>5, <1>6, <1>7, <1>8 DEF RequestSteps

LEMMA UploadStepRefines ==
    ASSUME IInv, NEW u \in Uploads,
           \/ \E k \in Keys : PushAsset(u, k)
           \/ ServeRequest(u) \/ HandleStoreAsset(u) \/ UpgradeProxy(u)
           \/ CountAsset(u) \/ StoreAsset(u) \/ FailUpload(u)
    PROVE  [Service!Next]_(Service!vars)
<1>1. CASE StoreAsset(u)
  <2>1. Service!Provide(upKey[u], u)
    BY <1>1 DEF StoreAsset, Service!Provide
  <2>2. upKey[u] \in Keys
    BY <1>1 DEF StoreAsset, IInv, UploadInv
  <2> QED BY <2>1, <2>2 DEF Service!Next
<1>2. CASE ~StoreAsset(u)
  BY <1>2 DEF PushAsset, OpenUpload, ServeRequest, HandleStoreAsset, UpgradeProxy,
      CountAsset, FailUpload, Service!vars, storeVars, reqVars
<1> QED BY <1>1, <1>2

LEMMA NextRefines == IInv /\ [Next]_vars => [Service!Next]_(Service!vars)
<1> SUFFICES ASSUME IInv, [Next]_vars PROVE [Service!Next]_(Service!vars)
  OBVIOUS
<1>1. CASE Disconnect \/ Shutdown
  BY <1>1 DEF Disconnect, Shutdown, MessageTaskEnds, StartTaskEnds, RemoveProxy,
      Service!vars, storeVars, reqVars
<1>2. CASE UNCHANGED vars
  BY <1>2 DEF vars, storeVars, reqVars, Service!vars
<1> QED
  BY <1>1, <1>2, RequestStepRefines, UploadStepRefines DEF Next

(* get_asset, the upload tasks and the shutdown implement the promise of    *)
(* the asset cache, whatever the numbers of keys, requests and uploads.    *)
THEOREM Refinement == Spec => RefinesAssetService
<1>1. Init => Service!Init
  BY InitRefines
<1>2. IInv /\ [Next]_vars => [Service!Next]_(Service!vars)
  BY NextRefines
<1> QED
  BY <1>1, <1>2, Invariance, PTL DEF Spec, RefinesAssetService, Service!Spec
=============================================================================
