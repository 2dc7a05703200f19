------------------------ MODULE PendingResourcesProofs ------------------------
(***************************************************************************)
(* For any items and readers: no item is left to sleeping readers alone, and *)
(* so a reader that is alone never sleeps beside one.                       *)
(***************************************************************************)
EXTENDS PendingResources, SequenceTheorems, TLAPS

(* w holds the members of S, each once.                                     *)
Waiters(w, S) ==
    /\ w \in Seq(Readers)
    /\ \A i, j \in DOMAIN w : w[i] = w[j] => i = j
    /\ \A r : r \in S <=> \E i \in DOMAIN w : w[i] = r

Waiting == {r \in Readers : readerPc[r] = "waiting"}

(* An item is attended to: by the permit, which the next reader to wait     *)
(* takes, or by a reader that will look at the queue when it goes on.       *)
Attends(r) == readerPc[r] \in {"check", "woken", "served"}

AttendedInv == queue # <<>> => permit \/ \E r \in Readers : Attends(r)

(* A permit is kept only while nobody waits.                                *)
PermitInv == permit => waiting = <<>>

IInv == /\ arrived \subseteq Items
        /\ queue \in Seq(Items)
        /\ permit \in BOOLEAN
        /\ readerPc \in [Readers -> {"unused", "served", "dropped",
                                     "check", "empty", "waiting", "woken"}]
        /\ Waiters(waiting, Waiting)
        /\ AttendedInv
        /\ PermitInv

-----------------------------------------------------------------------------
(* What each step does to the sequence of waiters.                          *)
LEMMA NoWaiters == Waiters(<<>>, {})
<1>1. <<>> \in Seq(Readers) /\ DOMAIN << >> = {}
  BY EmptySeq
<1> QED
  BY <1>1 DEF Waiters

LEMMA MoreWaiters ==
    ASSUME NEW w, NEW S, Waiters(w, S), NEW r \in Readers \ S
    PROVE  Waiters(Append(w, r), S \cup {r})
<1> DEFINE new == Append(w, r)
<1>1. w \in Seq(Readers)
  BY DEF Waiters
<1>2. /\ new \in Seq(Readers) /\ Len(new) = Len(w) + 1 /\ Len(w) \in Nat
      /\ \A i \in 1..Len(w) : new[i] = w[i]
      /\ new[Len(w) + 1] = r
      /\ DOMAIN new = 1..Len(w) + 1 /\ DOMAIN w = 1..Len(w)
  BY <1>1, AppendProperties, LenProperties
<1>3. \A i, j \in DOMAIN new : new[i] = new[j] => i = j
  BY <1>2 DEF Waiters
<1>4. \A x : x \in S \cup {r} <=> \E i \in DOMAIN new : new[i] = x
  BY <1>2 DEF Waiters
<1> QED
  BY <1>2, <1>3, <1>4 DEF Waiters

LEMMA FewerWaiters ==
    ASSUME NEW w, NEW S, Waiters(w, S), NEW k \in DOMAIN w
    PROVE  /\ w[k] \in S
           /\ Waiters(RemoveAt(w, k), S \ {w[k]})
<1> DEFINE new == RemoveAt(w, k)
           n == Len(w)
<1>1. w \in Seq(Readers) /\ n \in Nat /\ DOMAIN w = 1..n /\ k \in 1..n
  BY LenProperties DEF Waiters
<1>2. /\ SubSeq(w, 1, k - 1) \in Seq(Readers) /\ Len(SubSeq(w, 1, k - 1)) = k - 1
      /\ \A i \in 1..(k - 1) : SubSeq(w, 1, k - 1)[i] = w[i]
  BY <1>1, SubSeqProperties
<1>3. /\ SubSeq(w, k + 1, n) \in Seq(Readers) /\ Len(SubSeq(w, k + 1, n)) = n - k
      /\ \A i \in 1..(n - k) : SubSeq(w, k + 1, n)[i] = w[k + i]
  BY <1>1, SubSeqProperties
<1>4. /\ new \in Seq(Readers) /\ Len(new) = n - 1
      /\ \A i \in 1..(n - 1) : new[i] = IF i < k THEN w[i] ELSE w[i + 1]
  <2> DEFINE front == SubSeq(w, 1, k - 1)
             back == SubSeq(w, k + 1, n)
  <2>1. new = front \o back
    BY DEF RemoveAt
  <2>2. /\ front \o back \in Seq(Readers)
        /\ Len(front \o back) = Len(front) + Len(back)
        /\ \A i \in 1..(Len(front) + Len(back)) :
              (front \o back)[i] = IF i <= Len(front) THEN front[i] ELSE back[i - Len(front)]
    BY <1>2, <1>3, ConcatProperties
  <2>3. Len(front) = k - 1 /\ Len(back) = n - k /\ Len(front) + Len(back) = n - 1
    BY <1>1, <1>2, <1>3
  <2>4. ASSUME NEW i \in 1..(n - 1)
        PROVE  new[i] = IF i < k THEN w[i] ELSE w[i + 1]
    <3>1. new[i] = IF i <= k - 1 THEN front[i] ELSE back[i - (k - 1)]
      BY <2>1, <2>2, <2>3
    <3>2. CASE i < k
      <4>1. i \in 1..(k - 1)
        BY <1>1, <3>2
      <4> QED
        BY <1>1, <1>2, <3>1, <3>2, <4>1
    <3>3. CASE ~(i < k)
      <4>1. i - (k - 1) \in 1..(n - k) /\ k + (i - (k - 1)) = i + 1 /\ ~(i <= k - 1)
        BY <1>1, <3>3
      <4> QED
        BY <1>3, <3>1, <3>3, <4>1
    <3> QED
      BY <3>2, <3>3
  <2> QED
    BY <2>1, <2>2, <2>3, <2>4
<1>5. DOMAIN new = 1..(n - 1)
  BY <1>4, LenProperties
<1>6. \A i, j \in DOMAIN new : new[i] = new[j] => i = j
  <2> DEFINE At(i) == IF i < k THEN i ELSE i + 1
  <2>1. \A i \in DOMAIN new : At(i) \in DOMAIN w /\ new[i] = w[At(i)]
    BY <1>1, <1>4, <1>5
  <2>2. \A i, j \in DOMAIN new : At(i) = At(j) => i = j
    BY <1>1, <1>5
  <2> HIDE DEF At, new
  <2> QED
    BY <2>1, <2>2 DEF Waiters
<1>7. ASSUME NEW x PROVE x \in S \ {w[k]} <=> \E i \in DOMAIN new : new[i] = x
  <2>1. ASSUME NEW i \in DOMAIN new, new[i] = x PROVE x \in S \ {w[k]}
    BY <1>1, <1>4, <1>5, <2>1 DEF Waiters
  <2>2. ASSUME x \in S, x # w[k] PROVE \E i \in DOMAIN new : new[i] = x
    <3>1. PICK j \in 1..n : w[j] = x
      BY <1>1, <2>2 DEF Waiters
    <3>2. CASE j < k
      BY <1>1, <1>4, <1>5, <3>1, <3>2
    <3>3. CASE j > k
      <4>1. j - 1 \in DOMAIN new /\ new[j - 1] = x
        BY <1>1, <1>4, <1>5, <3>1, <3>3
      <4> QED
        BY <4>1
    <3> QED
      BY <1>1, <2>2, <3>1, <3>2, <3>3
  <2> QED
    BY <2>1, <2>2
<1> QED
  BY <1>1, <1>4, <1>6, <1>7 DEF Waiters

LEMMA NextWaiter ==
    ASSUME NEW w, NEW S, Waiters(w, S), w # <<>>
    PROVE  Head(w) \in S /\ Waiters(Tail(w), S \ {Head(w)})
<1>1. w \in Seq(Readers) /\ Len(w) \in Nat /\ Len(w) > 0 /\ DOMAIN w = 1..Len(w)
  BY LenProperties, EmptySeq DEF Waiters
<1>2. Head(w) = w[1] /\ 1 \in DOMAIN w
  BY <1>1, HeadTailProperties
<1>3. Tail(w) = RemoveAt(w, 1)
  <2>1. SubSeq(w, 1, 0) = <<>> /\ SubSeq(w, 2, Len(w)) = Tail(w)
    BY <1>1, TailIsSubSeq, SubSeqEmpty
  <2>2. <<>> \o Tail(w) = Tail(w)
    BY <1>1, HeadTailProperties, ConcatEmptySeq
  <2> QED
    BY <2>1, <2>2 DEF RemoveAt
<1>4. w[1] \in S /\ Waiters(RemoveAt(w, 1), S \ {w[1]})
  BY <1>2, FewerWaiters
<1> QED
  BY <1>2, <1>3, <1>4

-----------------------------------------------------------------------------
LEMMA InitIInv == Init => IInv
<1> SUFFICES ASSUME Init PROVE IInv
  OBVIOUS
<1>1. Waiting = {} /\ <<>> \in Seq(Items)
  BY EmptySeq DEF Init, Waiting
<1> QED
  BY <1>1, NoWaiters DEF Init, IInv, AttendedInv, PermitInv

(* Steps of a reader that leave the sequence of waiters alone: whoever finds *)
(* the queue empty need not attend to it, all others do.                    *)
LEMMA ReaderStep ==
    ASSUME IInv, NEW r \in Readers, Call(r) \/ PopItem(r) \/ FindEmpty(r) \/ Wake(r)
    PROVE  IInv'
<1>1. Waiting' = Waiting /\ waiting' = waiting /\ permit' = permit
  BY DEF IInv, Waiting, InCall, SetPc, Call, PopItem, FindEmpty, Wake
<1>2. queue' \in Seq(Items)
  <2>1. CASE PopItem(r)
    BY <2>1, HeadTailProperties DEF PopItem, IInv
  <2> QED
    BY <2>1 DEF IInv, Call, FindEmpty, Wake
<1>3. AttendedInv'
  <2>1. CASE FindEmpty(r)
    BY <2>1 DEF FindEmpty, AttendedInv
  <2>2. CASE Call(r) \/ PopItem(r) \/ Wake(r)
    <3>1. Attends(r)'
      BY <2>2 DEF IInv, Attends, SetPc, Call, PopItem, Wake
    <3> QED
      BY <3>1 DEF AttendedInv
  <2> QED
    BY <2>1, <2>2
<1> QED
  BY <1>1, <1>2, <1>3 DEF IInv, PermitInv, SetPc, Call, PopItem, FindEmpty, Wake

(* A reader that takes the permit attends in its place; one that comes to    *)
(* wait has not attended before.                                           *)
LEMMA AwaitStep ==
    ASSUME IInv, NEW r \in Readers, AwaitNotified(r)
    PROVE  IInv'
<1>1. CASE permit
  <2>1. Waiting' = Waiting /\ waiting' = waiting
    BY <1>1 DEF IInv, Waiting, SetPc, AwaitNotified
  <2>2. Attends(r)'
    BY <1>1 DEF IInv, Attends, SetPc, AwaitNotified
  <2> QED
    BY <1>1, <2>1, <2>2 DEF IInv, AttendedInv, PermitInv, SetPc, AwaitNotified
<1>2. CASE ~permit
  <2>1. Waiting' = Waiting \cup {r} /\ r \notin Waiting
    BY <1>2 DEF IInv, Waiting, SetPc, AwaitNotified
  <2>2. Waiters(waiting', Waiting')
    <3>1. waiting' = Append(waiting, r)
      BY <1>2 DEF AwaitNotified
    <3>2. Waiters(waiting, Waiting) /\ r \in Readers \ Waiting
      BY <2>1 DEF IInv
    <3>3. Waiters(Append(waiting, r), Waiting \cup {r})
      BY <3>2, MoreWaiters
    <3> QED
      BY <2>1, <3>1, <3>3
  <2>3. AttendedInv'
    <3>1. \A q \in Readers : Attends(q) => Attends(q)'
      BY <1>2 DEF IInv, Attends, SetPc, AwaitNotified
    <3> QED
      BY <1>2, <3>1 DEF IInv, AttendedInv, AwaitNotified
  <2> QED
    BY <1>2, <2>2, <2>3 DEF IInv, PermitInv, SetPc, AwaitNotified
<1> QED
  BY <1>1, <1>2

(* A push wakes the reader that has waited longest, or leaves the permit.   *)
LEMMA PushStep ==
    ASSUME IInv, NEW i \in Items, PushItem(i)
    PROVE  IInv'
<1>1. queue' \in Seq(Items) /\ arrived' \subseteq Items
  BY AppendProperties DEF IInv, PushItem
<1>2. CASE waiting = <<>>
  <2>1. permit' = TRUE /\ waiting' = waiting /\ readerPc' = readerPc
    BY <1>2 DEF PushItem, NotifyOne
  <2> QED
    BY <1>1, <1>2, <2>1 DEF IInv, AttendedInv, PermitInv, Waiting
<1>3. CASE waiting # <<>>
  <2> DEFINE h == Head(waiting)
  <2>1. /\ waiting' = Tail(waiting) /\ permit' = permit
        /\ readerPc' = [readerPc EXCEPT ![h] = "woken"]
    BY <1>3 DEF PushItem, NotifyOne, SetPc
  <2>2. h \in Waiting /\ Waiters(Tail(waiting), Waiting \ {h})
    BY <1>3, NextWaiter DEF IInv
  <2>3. Waiting' = Waiting \ {h}
    BY <2>1, <2>2 DEF IInv, Waiting
  <2>4. AttendedInv'
    BY <2>1, <2>2 DEF IInv, AttendedInv, Attends, Waiting
  <2>5. PermitInv'
    BY <1>3, <2>1 DEF IInv, PermitInv
  <2> QED
    BY <1>1, <2>1, <2>2, <2>3, <2>4, <2>5 DEF IInv, Waiting
<1> QED
  BY <1>2, <1>3

(* A dropped call leaves the sequence, or passes on what woke it.           *)
LEMMA CancelStep ==
    ASSUME IInv, NEW r \in Readers, Cancel(r)
    PROVE  IInv'
<1>0. queue' = queue /\ arrived' = arrived
  BY DEF Cancel
<1>1. ASSUME NEW k \in DOMAIN waiting, waiting[k] = r, waiting' = RemoveAt(waiting, k),
             SetPc(r, "dropped"), permit' = permit
      PROVE  IInv'
  <2>1. r \in Waiting /\ Waiters(waiting', Waiting \ {r})
    BY <1>1, FewerWaiters DEF IInv
  <2>2. Waiting' = Waiting \ {r}
    BY <1>1, <2>1 DEF IInv, Waiting, SetPc
  <2>3. \A q \in Readers : Attends(q) => Attends(q)'
    BY <1>1, <2>1 DEF IInv, Attends, Waiting, SetPc
  <2>4. ~permit
    BY <1>1, EmptySeq DEF IInv, PermitInv
  <2>5. AttendedInv' /\ PermitInv'
    BY <1>0, <1>1, <2>3, <2>4 DEF IInv, AttendedInv, PermitInv
  <2> QED
    BY <1>0, <1>1, <2>1, <2>2, <2>5 DEF IInv, SetPc
<1>2. ASSUME readerPc[r] = "woken", waiting = <<>>, SetPc(r, "dropped"), permit' = TRUE,
             waiting' = waiting
      PROVE  IInv'
  <2>1. Waiting' = Waiting
    BY <1>2 DEF IInv, Waiting, SetPc
  <2> QED
    BY <1>0, <1>2, <2>1 DEF IInv, AttendedInv, PermitInv, SetPc
<1>3. ASSUME readerPc[r] = "woken", waiting # <<>>,
             readerPc' = [readerPc EXCEPT ![r] = "dropped", ![Head(waiting)] = "woken"],
             waiting' = Tail(waiting), permit' = permit
      PROVE  IInv'
  <2> DEFINE h == Head(waiting)
  <2>1. h \in Waiting /\ Waiters(Tail(waiting), Waiting \ {h})
    BY <1>3, NextWaiter DEF IInv
  <2>2. h \in Readers /\ h # r
    BY <1>3, <2>1 DEF Waiting
  <2>3. Waiting' = Waiting \ {h}
    BY <1>3, <2>1, <2>2 DEF IInv, Waiting
  <2>4. AttendedInv' /\ PermitInv'
    BY <1>3, <2>2 DEF IInv, AttendedInv, Attends, PermitInv
  <2> QED
    BY <1>0, <1>3, <2>1, <2>2, <2>3, <2>4 DEF IInv
<1> QED
  BY <1>1, <1>2, <1>3 DEF Cancel

LEMMA NextIInv == IInv /\ [Next]_vars => IInv'
<1> SUFFICES ASSUME IInv, [Next]_vars PROVE IInv'
  OBVIOUS
<1>1. CASE UNCHANGED vars
  BY <1>1 DEF vars, IInv, AttendedInv, Attends, PermitInv, Waiting
<1> QED
  BY <1>1, PushStep, ReaderStep, AwaitStep, CancelStep DEF Next, ReaderSteps

LEMMA Invariance == Spec => []IInv
BY InitIInv, NextIInv, PTL DEF Spec

-----------------------------------------------------------------------------
(* The variables keep their types, and the Notify's waiters are the calls    *)
(* that wait at lines 654, 668 and 682, each once.                         *)
THEOREM Typing == Spec => []TypeOK
<1>1. IInv => TypeOK
  BY DEF IInv, Waiters, Waiting, TypeOK, Range, IsInjective
<1> QED
  BY <1>1, Invariance, PTL

(* A reader sleeps beside an item (line 654) only while another one is about *)
(* to look at the queue (line 649) or has just been given an item (650),    *)
(* although pushes share one permit (114) and calls are dropped.            *)
THEOREM Sleepers == Spec => []SleepersNotLeftAlone
<1>1. IInv => SleepersNotLeftAlone
  BY DEF IInv, AttendedInv, Attends, PermitInv, SleepersNotLeftAlone
<1> QED
  BY <1>1, Invariance, PTL

(* A push between a lone reader's look at the queue (line 649) and its wait  *)
(* (line 654) is not missed, nor one whose wakeup went to another task that *)
(* dropped its call: whoever is left alone does not sleep beside an item.   *)
THEOREM LoneReader == Spec => []LoneReaderNotified
<1>1. IInv => LoneReaderNotified
  <2> SUFFICES ASSUME IInv, NEW r \in Readers, readerPc[r] = "waiting", Alone(r),
                      queue # <<>>
               PROVE  FALSE
    BY DEF LoneReaderNotified
  <2>1. waiting # <<>>
    BY EmptySeq DEF IInv, Waiters, Waiting
  <2>2. PICK q \in Readers : Attends(q)
    BY <2>1 DEF IInv, AttendedInv, PermitInv
  <2> QED
    BY <2>2 DEF Alone, Attends
<1> QED
  BY <1>1, Invariance, PTL
=============================================================================
