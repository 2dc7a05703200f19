--------------------------- MODULE PreCacheProofs ---------------------------
(***************************************************************************)
(* For any directory tree and number of tasks and calls: the type          *)
(* invariant of PreCache, that tasks exclude each other, that none uploads *)
(* before the allocation, and that no file is uploaded more often than a   *)
(* directory above it was handed to pre_cache_assets.                      *)
(***************************************************************************)
EXTENDS PreCache, Induction, SequenceTheorems, TLAPS

(* A task that works on the stack has seen the allocation.                 *)
Draining(t) == taskPc[t] \in {"drain", "reading"}

AllocationInv ==
    /\ \A t \in Tasks : Draining(t) => allocated
    /\ uploads # <<>> => allocated

IInv == TypeOK /\ OneTaskAtATime /\ AllocationInv

-----------------------------------------------------------------------------
LEMMA InitIInv == Init => IInv
<1> SUFFICES ASSUME Init PROVE IInv
  OBVIOUS
<1>1. stack \in Seq(Dirs) /\ uploads \in Seq(Files)
  BY EmptySeq DEF Init
<1>2. asked \in Seq(Dirs) /\ Len(asked) \in 0..MaxCalls
  BY EmptySeq, PreCacheAssumption DEF PreCacheAssumption, Init
<1>3. TypeOK
  BY <1>1, <1>2 DEF Init, TypeOK
<1>4. OneTaskAtATime /\ AllocationInv
  BY DEF Init, OneTaskAtATime, AllocationInv, Draining, Active
<1> QED
  BY <1>3, <1>4 DEF IInv

(* Pushing and popping keep a stack of directories.                        *)
LEMMA PushTyped ==
    ASSUME stack \in Seq(Dirs), NEW d \in Dirs, Push(d)
    PROVE  stack' \in Seq(Dirs)
BY DEF Push

LEMMA PopTyped ==
    ASSUME stack \in Seq(Dirs), stack # <<>>
    PROVE  Top \in Dirs /\ (Pop => stack' \in Seq(Dirs))
<1>1. Len(stack) \in Nat \ {0}
  BY EmptySeq, LenProperties
<1>2. Top \in Dirs
  BY <1>1, ElementOfSeq DEF Top
<1>3. SubSeq(stack, 1, Len(stack) - 1) \in Seq(Dirs)
  BY <1>1, SubSeqProperties
<1> QED
  BY <1>2, <1>3 DEF Pop

(* The steps of the application and of the client's loop.                  *)
LEMMA ApplicationStep ==
    ASSUME IInv, Application \/ ClientLoop
    PROVE  IInv'
<1> USE PreCacheAssumption
    DEF PreCacheAssumption, IInv, TypeOK, OneTaskAtATime, AllocationInv, Draining,
        Active, appVars, loopVars, taskVars
<1>1. CASE AllocateEndpoint \/ StartNotNeeded
  <2>1. CASE AllocateEndpoint
    BY <2>1 DEF AllocateEndpoint
  <2>2. CASE StartNotNeeded
    BY <2>2 DEF StartNotNeeded
  <2> QED BY <1>1, <2>1, <2>2
<1>2. ASSUME NEW d \in Dirs, PreCacheAssets(d) PROVE IInv'
  <2>1. stack' \in Seq(Dirs)
    BY <1>2, PushTyped DEF PreCacheAssets
  <2>2. asked' \in Seq(Dirs) /\ Len(asked') \in 0..MaxCalls
    BY <1>2, AppendProperties, LenProperties DEF PreCacheAssets
  <2> QED BY <1>2, <2>1, <2>2 DEF PreCacheAssets
<1>3. ASSUME NEW t \in Tasks, StartTask(t) PROVE IInv'
  BY <1>3 DEF StartTask
<1>4. CASE ReceiveAllocation
  BY <1>4 DEF ReceiveAllocation
<1>5. CASE NotifyAllocated
  <2>1. woken' \in [Tasks -> BOOLEAN]
    BY <1>5, Zenon DEF NotifyAllocated
  <2> QED BY <1>5, <2>1 DEF NotifyAllocated
<1>6. CASE LoopEnds
  BY <1>6 DEF LoopEnds
<1> QED
  BY <1>1, <1>2, <1>3, <1>4, <1>5, <1>6 DEF Application, ClientLoop

(* The steps of a task.                                                    *)
LEMMA WaitStep ==
    ASSUME IInv, NEW t \in Tasks,
           \/ CheckAllocated(t) \/ AwaitAllocated(t) \/ Wake(t) \/ TooLate(t)
           \/ Expire(t)
    PROVE  IInv'
<1> USE DEF IInv, TypeOK, OneTaskAtATime, AllocationInv, Draining, Active,
            appVars, loopVars, taskVars
<1>1. CASE CheckAllocated(t)
  BY <1>1 DEF CheckAllocated
<1>2. CASE AwaitAllocated(t) \/ TooLate(t)
  BY <1>2 DEF AwaitAllocated, TooLate
<1>3. CASE Wake(t)
  BY <1>3 DEF Wake
<1>4. CASE Expire(t)
  BY <1>4 DEF Expire
<1> QED
  BY <1>1, <1>2, <1>3, <1>4

LEMMA DrainStep ==
    ASSUME IInv, NEW t \in Tasks,
           \/ PopDirectory(t) \/ StackEmpty(t) \/ LeaveDirectory(t) \/ ReadFails(t)
           \/ Finish(t)
           \/ \E e \in Dirs \cup Files : HandleEntry(t, e)
    PROVE  IInv'
<1> USE DEF IInv, TypeOK, OneTaskAtATime, AllocationInv, Draining, Active,
            appVars, loopVars, taskVars
<1>1. CASE PopDirectory(t)
  <2>1. Top \in Dirs /\ stack' \in Seq(Dirs)
    BY <1>1, PopTyped DEF PopDirectory
  <2>2. Entries[Top] \in SUBSET (Dirs \cup Files)
    BY <2>1, PreCacheAssumption DEF PreCacheAssumption
  <2> QED BY <1>1, <2>1, <2>2 DEF PopDirectory
<1>2. CASE StackEmpty(t) \/ LeaveDirectory(t)
  BY <1>2 DEF StackEmpty, LeaveDirectory
<1>3. CASE ReadFails(t)
  BY <1>3 DEF ReadFails
<1>4. CASE Finish(t)
  BY <1>4 DEF Finish
<1>5. ASSUME NEW e \in Dirs \cup Files, HandleEntry(t, e) PROVE IInv'
  <2>1. stack' \in Seq(Dirs) /\ uploads' \in Seq(Files)
    <3>1. CASE e \in Dirs /\ Push(e) /\ UNCHANGED uploads
      BY <3>1, PushTyped
    <3>2. CASE e \in Files /\ loopPc # "ended" /\ uploads' = Append(uploads, e) /\ UNCHANGED stack
      BY <3>2
    <3>3. CASE UNCHANGED <<stack, uploads>>
      BY <3>3
    <3> QED BY <1>5, <3>1, <3>2, <3>3 DEF HandleEntry
  <2>2. allocated
    BY <1>5 DEF HandleEntry
  <2>3. entries' \in [Tasks -> SUBSET (Dirs \cup Files)]
    BY <1>5 DEF HandleEntry
  <2>4. \A u \in Tasks : entries'[u] # {} => taskPc'[u] = "reading"
    BY <1>5 DEF HandleEntry
  <2>5. UNCHANGED <<appVars, loopVars, running, taskPc, expired, woken, reading>>
    BY <1>5 DEF HandleEntry
  <2>6. TypeOK'
    BY <2>1, <2>3, <2>4, <2>5
  <2> QED BY <2>2, <2>5, <2>6
<1> QED
  BY <1>1, <1>2, <1>3, <1>4, <1>5

LEMMA NextIInv == IInv /\ [Next]_vars => IInv'
<1> SUFFICES ASSUME IInv, [Next]_vars PROVE IInv'
  OBVIOUS
<1>1. CASE UNCHANGED vars
  BY <1>1 DEF vars, appVars, loopVars, taskVars, IInv, TypeOK, OneTaskAtATime,
      AllocationInv, Draining, Active
<1> QED
  BY <1>1, ApplicationStep, WaitStep, DrainStep DEF Next, TaskSteps

LEMMA Invariance == Spec => []IInv
BY InitIInv, NextIInv, PTL DEF Spec

-----------------------------------------------------------------------------
(* The variables keep their types: the stack holds directories, and a task  *)
(* that is not reading one has no entries left (lines 572-606).            *)
THEOREM Typing == Spec => []TypeOK
BY Invariance, PTL DEF IInv

(* "make sure we only start one task" (line 524), although the flag is set  *)
(* by the caller and cleared by the task (529, 563).                       *)
THEOREM MutualExclusion == Spec => []OneTaskAtATime
BY Invariance, PTL DEF IInv

(* Nothing is uploaded before the proxy has allocated (lines 541-547).      *)
THEOREM AllocationFirst == Spec => []NoUploadBeforeAllocation
<1>1. IInv => NoUploadBeforeAllocation
  BY DEF IInv, AllocationInv, NoUploadBeforeAllocation
<1> QED
  BY <1>1, Invariance, PTL

-----------------------------------------------------------------------------
LEMMA WayIsClosed ==
    ASSUME NEW f \in Files
    PROVE  Closed(f, WayTo(f)) /\ WayTo(f) \cap Files = {f}
<1>1. f \in WayTo(f)
  BY DEF WayTo, Closed
<1>2. ASSUME NEW d \in Dirs, NEW e \in Entries[d] \cap WayTo(f) PROVE d \in WayTo(f)
  BY DEF WayTo, Closed
<1>3. Closed(f, {f} \cup Dirs)
  BY DEF Closed
<1>4. WayTo(f) \subseteq {f} \cup Dirs
  BY <1>3 DEF WayTo
<1> QED
  BY <1>1, <1>2, <1>4, PreCacheAssumption DEF Closed, PreCacheAssumption

(* What is on the way to f, other than f, has an entry on the way.         *)
LEMMA WayGoesOn ==
    ASSUME NEW f \in Files, NEW d \in WayTo(f), d # f
    PROVE  d \in Dirs /\ \E e \in Entries[d] : e \in WayTo(f)
<1>1. d \in Dirs
  BY WayIsClosed DEF WayTo
<1>2. ASSUME Entries[d] \cap WayTo(f) = {} PROVE FALSE
  <2>1. Closed(f, WayTo(f) \ {d})
    BY <1>2, WayIsClosed DEF Closed
  <2>2. WayTo(f) \ {d} \in SUBSET (Dirs \cup Files)
    BY DEF WayTo
  <2>3. d \in WayTo(f) \ {d}
    BY <2>1, <2>2 DEF WayTo
  <2> QED BY <2>3
<1> QED BY <1>1, <1>2

(* There is one way down to a file: by depth, from the file upwards, no two *)
(* of its steps are equally deep.                                          *)
LEMMA OneWay ==
    ASSUME NEW f \in Files, NEW d \in Dirs,
           NEW x \in Entries[d], NEW y \in Entries[d], x \in WayTo(f), y \in WayTo(f)
    PROVE  x = y
<1>1. PICK depth \in [Dirs \cup Files -> 0 .. Cardinality(Dirs)] :
         \A c \in Dirs : \A e \in Entries[c] : depth[e] = depth[c] + 1
  BY PreCacheAssumption DEF PreCacheAssumption, DirectoryTree
<1>2. \A z \in Dirs \cup Files : depth[z] \in Nat
  BY PreCacheAssumption, FS_CardinalityType DEF PreCacheAssumption, DirectoryTree
<1>3. WayTo(f) \subseteq Dirs \cup Files
  BY DEF WayTo
<1>4. \A z \in WayTo(f) : depth[z] <= depth[f]
  <2> DEFINE S == {z \in Dirs \cup Files : depth[z] <= depth[f]}
  <2>1. ASSUME NEW c \in Dirs, NEW e \in Entries[c] \cap S PROVE c \in S
    BY <1>1, <1>2
  <2>2. Closed(f, S)
    BY <1>2, <2>1 DEF Closed
  <2> HIDE DEF S
  <2>3. S \in SUBSET (Dirs \cup Files)
    BY DEF S
  <2>4. WayTo(f) \subseteq S
    BY <2>2, <2>3 DEF WayTo
  <2> QED BY <2>4 DEF S
<1> DEFINE Twins(n) == \E v, w \in WayTo(f) :
                          v # w /\ depth[v] = depth[w] /\ depth[f] = depth[v] + n
           T == {n \in Nat : Twins(n)}
<1>5. T = {}
  <2>1. SUFFICES ASSUME T # {} PROVE FALSE
    OBVIOUS
  <2>2. PICK n \in T : \A m \in T : n <= m
    <3>1. T \subseteq Nat
      OBVIOUS
    <3> HIDE DEF T
    <3> QED BY <2>1, <3>1, MinimalNatural
  <2>3. n \in Nat /\ \A m \in Nat : Twins(m) => n <= m
    BY <2>2
  <2>4. PICK v, w \in WayTo(f) : v # w /\ depth[v] = depth[w] /\ depth[f] = depth[v] + n
    OBVIOUS
  <2> HIDE DEF T
  <2>5. ASSUME NEW z \in WayTo(f), depth[z] = depth[v], z # f
        PROVE  /\ z \in Dirs /\ n - 1 \in Nat
               /\ \E e \in Entries[z] : /\ e \in WayTo(f) /\ depth[e] = depth[v] + 1
                                        /\ depth[f] = depth[e] + (n - 1)
    <3>1. z \in Dirs /\ \E e \in Entries[z] : e \in WayTo(f)
      BY <2>5, WayGoesOn
    <3>2. PICK e \in Entries[z] : e \in WayTo(f)
      BY <3>1
    <3>3. /\ depth[e] = depth[z] + 1 /\ depth[e] <= depth[f]
          /\ depth[e] \in Nat /\ depth[f] \in Nat /\ depth[v] \in Nat
      BY <1>1, <1>2, <1>3, <1>4, <3>1, <3>2
    <3>4. n - 1 \in Nat /\ depth[f] = depth[e] + (n - 1)
      BY <2>3, <2>4, <2>5, <3>3
    <3> QED BY <2>5, <3>1, <3>2, <3>3, <3>4
  <2>6. v # f /\ w # f
    <3>1. depth[v] \in Nat /\ depth[f] \in Nat /\ depth[w] \in Nat
      BY <1>2, <1>3
    <3>2. v = f \/ w = f => n = 0
      BY <2>3, <2>4, <3>1
    <3>3. n # 0
      <4>1. v # f \/ w # f
        BY <2>4
      <4>2. n - 1 \in Nat
        BY <2>4, <2>5, <4>1
      <4> QED BY <4>2
    <3> QED BY <3>2, <3>3
  <2>7. PICK a \in Entries[v] : /\ a \in WayTo(f) /\ depth[a] = depth[v] + 1
                               /\ depth[f] = depth[a] + (n - 1)
    BY <2>5, <2>6
  <2>8. PICK b \in Entries[w] : /\ b \in WayTo(f) /\ depth[b] = depth[v] + 1
                               /\ depth[f] = depth[b] + (n - 1)
    BY <2>4, <2>5, <2>6
  <2>9. n - 1 \in Nat /\ v \in Dirs /\ w \in Dirs
    BY <2>4, <2>5, <2>6
  <2>10. a # b
    BY <2>4, <2>7, <2>8, <2>9, PreCacheAssumption DEF PreCacheAssumption, DirectoryTree
  <2>11. Twins(n - 1)
    BY <2>7, <2>8, <2>10
  <2> HIDE DEF Twins
  <2>12. n <= n - 1
    BY <2>3, <2>9, <2>11
  <2> QED BY <2>3, <2>12
<1>6. depth[x] = depth[y] /\ depth[x] \in Nat /\ depth[f] \in Nat /\ depth[x] <= depth[f]
  BY <1>1, <1>2, <1>3, <1>4
<1>7. depth[f] - depth[x] \in Nat /\ depth[f] = depth[x] + (depth[f] - depth[x])
  BY <1>6
<1>8. ~Twins(depth[f] - depth[x])
  BY <1>5, <1>7
<1> QED BY <1>6, <1>7, <1>8

-----------------------------------------------------------------------------
(* How often an element of U is in the sequence q.                         *)
Places(q, U) == {i \in DOMAIN q : q[i] \in U}

Count(q, U) == Cardinality(Places(q, U))

LEMMA CountIsNatural ==
    ASSUME NEW R, NEW q \in Seq(R), NEW U
    PROVE  IsFiniteSet(Places(q, U)) /\ Count(q, U) \in Nat
<1>1. DOMAIN q = 1 .. Len(q) /\ Len(q) \in Nat
  BY LenProperties
<1>2. IsFiniteSet(1 .. Len(q))
  BY <1>1, FS_Interval
<1>3. Places(q, U) \subseteq 1 .. Len(q)
  BY <1>1 DEF Places
<1>4. IsFiniteSet(Places(q, U))
  BY <1>2, <1>3, FS_Subset
<1> QED BY <1>4, FS_CardinalityType DEF Count

LEMMA CountEmpty == ASSUME NEW U PROVE Count(<<>>, U) = 0
<1>1. Places(<<>>, U) = {}
  BY EmptySeq DEF Places
<1> QED BY <1>1, FS_EmptySet DEF Count

LEMMA CountAppend ==
    ASSUME NEW R, NEW q \in Seq(R), NEW x \in R, NEW U
    PROVE  Count(Append(q, x), U) = Count(q, U) + (IF x \in U THEN 1 ELSE 0)
<1> DEFINE n == Len(q) + 1
<1>1. /\ Len(q) \in Nat /\ DOMAIN q = 1 .. Len(q) /\ DOMAIN Append(q, x) = 1 .. n
      /\ Append(q, x)[n] = x /\ \A i \in 1 .. Len(q) : Append(q, x)[i] = q[i]
  BY AppendProperties, LenProperties
<1>2. 1 .. n = (1 .. Len(q)) \cup {n} /\ n \notin 1 .. Len(q)
  BY <1>1
<1> HIDE DEF n
<1>3. Places(Append(q, x), U) = IF x \in U THEN Places(q, U) \cup {n} ELSE Places(q, U)
  BY <1>1, <1>2 DEF Places
<1>4. n \notin Places(q, U)
  BY <1>1, <1>2 DEF Places
<1>5. IsFiniteSet(Places(q, U)) /\ Count(q, U) \in Nat
  BY CountIsNatural
<1>6. x \in U => Cardinality(Places(q, U) \cup {n}) = Cardinality(Places(q, U)) + 1
  BY <1>4, <1>5, FS_AddElement
<1> QED BY <1>3, <1>5, <1>6 DEF Count

LEMMA CountFront ==
    ASSUME NEW R, NEW q \in Seq(R), q # <<>>, NEW U
    PROVE  Count(q, U) = Count(SubSeq(q, 1, Len(q) - 1), U)
                         + (IF q[Len(q)] \in U THEN 1 ELSE 0)
<1> DEFINE r == SubSeq(q, 1, Len(q) - 1)
<1>1. Len(q) \in Nat \ {0}
  BY EmptySeq, LenProperties
<1>2. r \in Seq(R) /\ Len(r) = Len(q) - 1 /\ \A i \in 1 .. Len(r) : r[i] = q[i]
  <2>1. /\ \A i \in 1 .. Len(q) - 1 : q[i] \in R
        /\ Len(q) - 1 \in Int /\ 1 \in Int
    BY <1>1, ElementOfSeq
  <2>2. r \in Seq(R) /\ Len(r) = (IF 1 <= Len(q) - 1 THEN Len(q) - 1 - 1 + 1 ELSE 0)
    BY <2>1, SubSeqProperties
  <2>3. \A i \in 1 .. Len(q) - 1 - 1 + 1 : r[i] = q[1 + i - 1]
    BY <2>1, SubSeqProperties
  <2> HIDE DEF r
  <2>4. Len(r) = Len(q) - 1
    <3>1. \A n \in Nat \ {0} : (IF 1 <= n - 1 THEN n - 1 - 1 + 1 ELSE 0) = n - 1
      OBVIOUS
    <3> QED BY <1>1, <2>2, <3>1
  <2>5. \A i \in 1 .. Len(r) : i \in 1 .. Len(q) - 1 - 1 + 1 /\ 1 + i - 1 = i
    BY <1>1, <2>4
  <2> QED BY <2>2, <2>3, <2>4, <2>5
<1>3. q[Len(q)] \in R
  BY <1>1, ElementOfSeq
<1> HIDE DEF r
<1>4. Append(r, q[Len(q)]) = q
  <2>1. /\ Append(r, q[Len(q)]) \in Seq(R) /\ Len(Append(r, q[Len(q)])) = Len(q)
        /\ \A i \in 1 .. Len(q) : Append(r, q[Len(q)])[i] = q[i]
    BY <1>1, <1>2, <1>3, AppendProperties
  <2> QED BY <2>1, SeqEqual
<1>5. Count(Append(r, q[Len(q)]), U) = Count(r, U) + (IF q[Len(q)] \in U THEN 1 ELSE 0)
  BY <1>2, <1>3, CountAppend
<1> QED BY <1>4, <1>5 DEF r

-----------------------------------------------------------------------------
(* A call of pre_cache_assets pays for one upload of each file below its    *)
(* directory.  What it pays for is in one place: an upload, a directory on  *)
(* the stack that is on the way to the file, or what the one task that      *)
(* reads has yet to see.                                                    *)
InHand(f) == \E t \in Tasks : entries[t] \cap WayTo(f) # {}

Hand(f) == IF InHand(f) THEN 1 ELSE 0

PaidFor(f) ==
    Count(uploads, {f}) + Count(stack, WayTo(f)) + Hand(f) <= Count(asked, WayTo(f))

ReadingInv ==
    \A t \in Tasks : entries[t] # {} => /\ reading[t] \in Dirs
                                        /\ entries[t] \subseteq Entries[reading[t]]

PaidInv == ReadingInv /\ \A f \in Files : PaidFor(f)

LEMMA InitPaid == Init => PaidInv
<1> SUFFICES ASSUME Init PROVE PaidInv
  OBVIOUS
<1>1. ReadingInv
  BY DEF Init, ReadingInv
<1>2. ASSUME NEW f \in Files PROVE PaidFor(f)
  <2>1. Hand(f) = 0
    BY DEF Init, Hand, InHand
  <2>2. Count(uploads, {f}) = 0 /\ Count(stack, WayTo(f)) = 0 /\ Count(asked, WayTo(f)) = 0
    BY CountEmpty DEF Init
  <2> QED BY <2>1, <2>2 DEF PaidFor, Init
<1> QED BY <1>1, <1>2 DEF PaidInv

(* A call pays for one upload more if its directory is on the way.         *)
LEMMA CallPays ==
    ASSUME IInv, PaidInv, NEW d \in Dirs, PreCacheAssets(d)
    PROVE  PaidInv'
<1>1. /\ UNCHANGED <<entries, reading, uploads>> /\ asked' = Append(asked, d)
      /\ stack' = Append(stack, d)
  BY DEF PreCacheAssets, Push, taskVars
<1>2. ReadingInv'
  BY <1>1 DEF PaidInv, ReadingInv
<1>3. ASSUME NEW f \in Files PROVE PaidFor(f)'
  <2>1. stack \in Seq(Dirs) /\ uploads \in Seq(Files) /\ asked \in Seq(Dirs)
    BY DEF IInv, TypeOK
  <2>2. Count(stack', WayTo(f)) = Count(stack, WayTo(f)) + (IF d \in WayTo(f) THEN 1 ELSE 0)
    BY <1>1, <2>1, CountAppend
  <2>3. Count(asked', WayTo(f)) = Count(asked, WayTo(f)) + (IF d \in WayTo(f) THEN 1 ELSE 0)
    BY <1>1, <2>1, CountAppend
  <2>4. Hand(f)' = Hand(f) /\ Hand(f) \in {0, 1}
    BY <1>1 DEF Hand, InHand
  <2>5. Count(stack, WayTo(f)) \in Nat /\ Count(uploads, {f}) \in Nat
        /\ Count(asked, WayTo(f)) \in Nat
    BY <2>1, CountIsNatural
  <2>6. Count(uploads, {f}) + Count(stack, WayTo(f)) + Hand(f) <= Count(asked, WayTo(f))
    BY DEF PaidInv, PaidFor
  <2>7. Count(uploads, {f}) + Count(stack', WayTo(f)) + Hand(f) <= Count(asked', WayTo(f))
    BY <2>2, <2>4, <2>5, <2>6, <2>3
  <2> QED BY <1>1, <2>4, <2>7 DEF PaidFor
<1> QED BY <1>2, <1>3 DEF PaidInv

(* Nobody else reads when a task takes a directory, and there is something *)
(* on the way to f in it only if it is on the way itself.                  *)
LEMMA PopPays ==
    ASSUME IInv, PaidInv, NEW t \in Tasks, PopDirectory(t)
    PROVE  PaidInv'
<1>1. /\ UNCHANGED <<asked, uploads>> /\ stack # <<>> /\ taskPc[t] = "drain"
      /\ stack' = SubSeq(stack, 1, Len(stack) - 1)
      /\ reading' = [reading EXCEPT ![t] = Top]
      /\ entries' = [entries EXCEPT ![t] = Entries[Top]]
  BY DEF PopDirectory, Pop, appVars
<1>2. /\ stack \in Seq(Dirs) /\ uploads \in Seq(Files) /\ asked \in Seq(Dirs)
      /\ reading \in [Tasks -> Dirs \cup {NoDir}]
      /\ entries \in [Tasks -> SUBSET (Dirs \cup Files)]
  BY DEF IInv, TypeOK
<1>3. Top \in Dirs
  BY <1>1, <1>2, PopTyped
<1>4. \A u \in Tasks : entries[u] = {}
  BY <1>1 DEF IInv, TypeOK, OneTaskAtATime, Active
<1>5. ReadingInv'
  BY <1>1, <1>2, <1>3, <1>4 DEF ReadingInv
<1>6. ASSUME NEW f \in Files PROVE PaidFor(f)'
  <2>1. Hand(f) = 0
    BY <1>4 DEF Hand, InHand
  <2>2. InHand(f)' => Top \in WayTo(f)
    <3>1. ASSUME NEW u \in Tasks, entries'[u] \cap WayTo(f) # {} PROVE Top \in WayTo(f)
      <4>1. u = t /\ Entries[Top] \cap WayTo(f) # {}
        BY <1>1, <1>2, <1>4, <3>1
      <4> QED BY <1>3, <4>1, WayIsClosed DEF Closed
    <3> QED BY <3>1 DEF InHand
  <2>3. Count(stack, WayTo(f)) = Count(stack', WayTo(f)) + (IF Top \in WayTo(f) THEN 1 ELSE 0)
    BY <1>1, <1>2, CountFront DEF Top
  <2>4. Hand(f)' <= (IF Top \in WayTo(f) THEN 1 ELSE 0) /\ Hand(f)' \in {0, 1}
    BY <2>2 DEF Hand
  <2>5. /\ Count(stack, WayTo(f)) \in Nat /\ Count(uploads, {f}) \in Nat
        /\ Count(asked, WayTo(f)) \in Nat
        /\ Count(stack', WayTo(f)) \in Nat
    <3>1. stack' \in Seq(Dirs)
      BY <1>1, <1>2, PopTyped DEF Pop
    <3> QED BY <1>2, <3>1, CountIsNatural
  <2>6. Count(uploads, {f}) + Count(stack, WayTo(f)) + Hand(f) <= Count(asked, WayTo(f))
    BY DEF PaidInv, PaidFor
  <2>7. Count(uploads, {f}) + Count(stack', WayTo(f)) + Hand(f)' <= Count(asked, WayTo(f))
    BY <1>2, <2>1, <2>3, <2>4, <2>5, <2>6
  <2> QED BY <1>1, <2>7 DEF PaidFor
<1> QED BY <1>5, <1>6 DEF PaidInv

(* An entry on the way to f is the only one of its directory, so what the   *)
(* task had in hand is now on the stack, uploaded or given up.              *)
LEMMA EntryPays ==
    ASSUME IInv, PaidInv, NEW t \in Tasks, NEW e \in Dirs \cup Files, HandleEntry(t, e)
    PROVE  PaidInv'
<1>1. /\ UNCHANGED <<asked, reading>> /\ taskPc[t] = "reading" /\ e \in entries[t]
      /\ entries' = [entries EXCEPT ![t] = entries[t] \ {e}]
  BY DEF HandleEntry, appVars
<1>2. /\ stack \in Seq(Dirs) /\ uploads \in Seq(Files) /\ asked \in Seq(Dirs)
      /\ entries \in [Tasks -> SUBSET (Dirs \cup Files)]
  BY DEF IInv, TypeOK
<1>3. \A u \in Tasks : u # t => entries[u] = {}
  BY <1>1 DEF IInv, TypeOK, OneTaskAtATime, Active
<1>4. ReadingInv'
  BY <1>1, <1>2 DEF PaidInv, ReadingInv
<1>5. ASSUME NEW f \in Files PROVE PaidFor(f)'
  <2>1. InHand(f)' => InHand(f)
    BY <1>1, <1>2 DEF InHand
  <2>2. e \in WayTo(f) => InHand(f) /\ ~InHand(f)'
    <3>1. HAVE e \in WayTo(f)
    <3>2. reading[t] \in Dirs /\ entries[t] \subseteq Entries[reading[t]]
      BY <1>1 DEF PaidInv, ReadingInv
    <3>3. \A x \in entries[t] : x \in WayTo(f) => x = e
      BY <1>1, <3>1, <3>2, OneWay
    <3>4. \A u \in Tasks : entries'[u] \cap WayTo(f) = {}
      BY <1>1, <1>2, <1>3, <3>3
    <3> QED BY <1>1, <3>1, <3>4 DEF InHand
  <2>3. Hand(f)' + (IF e \in WayTo(f) THEN 1 ELSE 0) <= Hand(f)
        /\ Hand(f)' \in {0, 1} /\ Hand(f) \in {0, 1}
    BY <2>1, <2>2 DEF Hand
  <2>4. Count(stack, WayTo(f)) \in Nat /\ Count(uploads, {f}) \in Nat
        /\ Count(asked, WayTo(f)) \in Nat
    BY <1>2, CountIsNatural
  <2>5. Count(uploads, {f}) + Count(stack, WayTo(f)) + Hand(f) <= Count(asked, WayTo(f))
    BY DEF PaidInv, PaidFor
  <2>6. Count(uploads', {f}) + Count(stack', WayTo(f))
        <= Count(uploads, {f}) + Count(stack, WayTo(f)) + (IF e \in WayTo(f) THEN 1 ELSE 0)
        /\ Count(uploads', {f}) \in Nat /\ Count(stack', WayTo(f)) \in Nat
    <3>1. CASE e \in Dirs /\ Push(e) /\ UNCHANGED uploads
      <4>1. Count(stack', WayTo(f))
            = Count(stack, WayTo(f)) + (IF e \in WayTo(f) THEN 1 ELSE 0)
        BY <1>2, <3>1, CountAppend DEF Push
      <4> QED BY <2>4, <3>1, <4>1
    <3>2. CASE e \in Files /\ loopPc # "ended" /\ uploads' = Append(uploads, e) /\ UNCHANGED stack
      <4>1. Count(uploads', {f}) = Count(uploads, {f}) + (IF e \in {f} THEN 1 ELSE 0)
        BY <1>2, <3>2, CountAppend
      <4>2. e \in {f} <=> e \in WayTo(f)
        BY <3>2, WayIsClosed
      <4> QED BY <2>4, <3>2, <4>1, <4>2
    <3>3. CASE UNCHANGED <<stack, uploads>>
      BY <2>4, <3>3
    <3> QED BY <3>1, <3>2, <3>3 DEF HandleEntry
  <2>7. Count(uploads', {f}) + Count(stack', WayTo(f)) + Hand(f)' <= Count(asked, WayTo(f))
    BY <1>2, <2>3, <2>4, <2>5, <2>6
  <2> QED BY <1>1, <2>7 DEF PaidFor
<1> QED BY <1>4, <1>5 DEF PaidInv

(* A task that cannot read on gives up what it had in hand.                *)
LEMMA FailurePays ==
    ASSUME IInv, PaidInv, NEW t \in Tasks, ReadFails(t)
    PROVE  PaidInv'
<1>1. /\ UNCHANGED <<asked, reading, stack, uploads>>
      /\ entries' = [entries EXCEPT ![t] = {}]
  BY DEF ReadFails, appVars
<1>2. /\ stack \in Seq(Dirs) /\ uploads \in Seq(Files) /\ asked \in Seq(Dirs)
      /\ entries \in [Tasks -> SUBSET (Dirs \cup Files)]
  BY DEF IInv, TypeOK
<1>3. ReadingInv'
  BY <1>1, <1>2 DEF PaidInv, ReadingInv
<1>4. ASSUME NEW f \in Files PROVE PaidFor(f)'
  <2>1. InHand(f)' => InHand(f)
    BY <1>1, <1>2 DEF InHand
  <2>2. Hand(f)' <= Hand(f) /\ Hand(f)' \in {0, 1} /\ Hand(f) \in {0, 1}
    BY <2>1 DEF Hand
  <2>3. Count(stack, WayTo(f)) \in Nat /\ Count(uploads, {f}) \in Nat
        /\ Count(asked, WayTo(f)) \in Nat
    BY <1>2, CountIsNatural
  <2>4. Count(uploads, {f}) + Count(stack, WayTo(f)) + Hand(f) <= Count(asked, WayTo(f))
    BY DEF PaidInv, PaidFor
  <2>5. Count(uploads, {f}) + Count(stack, WayTo(f)) + Hand(f)' <= Count(asked, WayTo(f))
    BY <1>2, <2>2, <2>3, <2>4
  <2> QED BY <1>1, <2>5 DEF PaidFor
<1> QED BY <1>3, <1>4 DEF PaidInv

LEMMA NextPaid == IInv /\ PaidInv /\ [Next]_vars => PaidInv'
<1> SUFFICES ASSUME IInv, PaidInv, [Next]_vars PROVE PaidInv'
  OBVIOUS
<1>1. ASSUME UNCHANGED <<asked, stack, uploads, reading, entries>> PROVE PaidInv'
  BY <1>1 DEF PaidInv, PaidFor, ReadingInv, Hand, InHand
<1>2. CASE Application \/ ClientLoop \/ UNCHANGED vars
  <2> USE DEF appVars, loopVars, taskVars
  <2>1. CASE AllocateEndpoint \/ StartNotNeeded
    BY <1>1, <2>1 DEF AllocateEndpoint, StartNotNeeded
  <2>2. ASSUME NEW d \in Dirs, PreCacheAssets(d) PROVE PaidInv'
    BY <2>2, CallPays
  <2>3. ASSUME NEW t \in Tasks, StartTask(t) PROVE PaidInv'
    BY <1>1, <2>3 DEF StartTask
  <2>4. CASE ReceiveAllocation \/ NotifyAllocated \/ LoopEnds
    BY <1>1, <2>4 DEF ReceiveAllocation, NotifyAllocated, LoopEnds
  <2>5. CASE UNCHANGED vars
    BY <1>1, <2>5 DEF vars
  <2> QED BY <1>2, <2>1, <2>2, <2>3, <2>4, <2>5 DEF Application, ClientLoop
<1>3. ASSUME NEW t \in Tasks, TaskSteps(t) \/ Expire(t) PROVE PaidInv'
  <2> USE DEF appVars, loopVars, taskVars
  <2>1. CASE CheckAllocated(t) \/ AwaitAllocated(t) \/ Wake(t) \/ TooLate(t) \/ Expire(t)
    BY <1>1, <2>1 DEF CheckAllocated, AwaitAllocated, Wake, TooLate, Expire
  <2>2. CASE StackEmpty(t) \/ LeaveDirectory(t) \/ Finish(t)
    BY <1>1, <2>2 DEF StackEmpty, LeaveDirectory, Finish
  <2> QED BY <1>3, <2>1, <2>2, PopPays, EntryPays, FailurePays DEF TaskSteps
<1> QED BY <1>2, <1>3 DEF Next

(* No file is uploaded more often than a directory above it was handed to   *)
(* pre_cache_assets, however these directories overlap: a call pushes one   *)
(* directory (lines 495-514), there is at most one way from it to a file,   *)
(* and the one task takes each step of the way once (572-606).              *)
THEOREM UploadBound == Spec => []UploadedAsOftenAsAsked
<1>1. IInv /\ PaidInv => UploadedAsOftenAsAsked
  <2> SUFFICES ASSUME IInv, PaidInv, NEW f \in Files
               PROVE  Cardinality({i \in DOMAIN uploads : uploads[i] = f})
                          <= Cardinality({i \in DOMAIN asked : asked[i] \in WayTo(f)})
    BY DEF UploadedAsOftenAsAsked
  <2>1. /\ Count(uploads, {f}) \in Nat /\ Count(stack, WayTo(f)) \in Nat
        /\ Count(asked, WayTo(f)) \in Nat
    BY CountIsNatural DEF IInv, TypeOK
  <2>2. Hand(f) \in {0, 1} /\ PaidFor(f)
    BY DEF Hand, PaidInv
  <2>3. Count(uploads, {f}) <= Count(asked, WayTo(f))
    BY <2>1, <2>2 DEF PaidFor
  <2>4. Places(uploads, {f}) = {i \in DOMAIN uploads : uploads[i] = f}
    BY DEF Places
  <2> QED BY <2>3, <2>4 DEF Count, Places
<1>2. Spec => []PaidInv
  BY InitPaid, NextPaid, Invariance, PTL DEF Spec
<1> QED
  BY <1>1, <1>2, Invariance, PTL
=============================================================================
