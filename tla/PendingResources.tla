-------------------------- MODULE PendingResources --------------------------
(***************************************************************************)
(* One QueuedResource of the client library: the streams or datagrams of    *)
(* one player, pushed by the client's loop and popped by whoever calls      *)
(* accept_uni, accept_bi or read_datagram on the ProxiedConnection, which   *)
(* can be cloned and called by several tasks.  A caller looks at the queue  *)
(* under the lock of the map, releases it, and only then creates and awaits *)
(* the Notified future of the queue's Notify.                               *)
(*                                                                         *)
(* Notify::notify_one (external, as documented by tokio) wakes the future   *)
(* that has waited longest, or keeps one permit for the next that comes; a  *)
(* future that is dropped after it was woken passes that on.               *)
(***************************************************************************)
EXTENDS Integers, SequencesExt

CONSTANTS Items,      \* streams or datagrams
          Readers     \* tasks that read this resource of the player

VARIABLES
    arrived,    \* items the client's loop has accepted
    queue,      \* QueuedResource::queue
    permit,     \* the Notify holds a permit
    waiting,    \* the readers whose Notified futures wait, oldest first
    readerPc    \* "check", "empty", "waiting" or "woken" in a call, and between
                \* calls "unused", "served" (an item) or "dropped" (the last call)

vars == <<arrived, queue, permit, waiting, readerPc>>

Init ==
    /\ arrived = {}
    /\ queue = <<>>
    /\ permit = FALSE /\ waiting = <<>>
    /\ readerPc = [r \in Readers |-> "unused"]

SetPc(r, pc) == readerPc' = [readerPc EXCEPT ![r] = pc]

\* Mutant: notify_waiters in place of notify_one: it leaves no permit.
NotifyWaiters ==
    /\ readerPc' = [r \in Readers |-> IF readerPc[r] = "waiting" THEN "woken"
                                      ELSE readerPc[r]]
    /\ waiting' = <<>>
    /\ UNCHANGED permit

NotifyOne ==
    IF waiting = <<>>
    THEN permit' = TRUE /\ UNCHANGED <<waiting, readerPc>>
    ELSE /\ SetPc(Head(waiting), "woken")
         /\ waiting' = Tail(waiting)
         /\ UNCHANGED permit

-----------------------------------------------------------------------------
\* The client's loop has read the header: QueuedResource::push under the lock.
PushItem(i) ==
    /\ i \notin arrived
    /\ arrived' = arrived \cup {i}
    /\ queue' = Append(queue, i)
    /\ NotifyOne

InCall(r) == readerPc[r] \in {"check", "empty", "waiting", "woken"}

Call(r) ==
    /\ ~InCall(r)
    /\ SetPc(r, "check")
    /\ UNCHANGED <<arrived, queue, permit, waiting>>

PopItem(r) ==
    /\ readerPc[r] = "check" /\ queue # <<>>
    /\ queue' = Tail(queue)
    /\ SetPc(r, "served")
    /\ UNCHANGED <<arrived, permit, waiting>>

\* The queue is empty: clone its Notify and unlock.
FindEmpty(r) ==
    /\ readerPc[r] = "check" /\ queue = <<>>
    /\ SetPc(r, "empty")
    /\ UNCHANGED <<arrived, queue, permit, waiting>>

\* notified().await takes the permit, or waits.
AwaitNotified(r) ==
    /\ readerPc[r] = "empty"
    /\ IF permit
       THEN SetPc(r, "check") /\ permit' = FALSE /\ UNCHANGED waiting
       ELSE SetPc(r, "waiting") /\ waiting' = Append(waiting, r) /\ UNCHANGED permit
    /\ UNCHANGED <<arrived, queue>>

Wake(r) ==
    /\ readerPc[r] = "woken"
    /\ SetPc(r, "check")
    /\ UNCHANGED <<arrived, queue, permit, waiting>>

\* Mutant: a dropped future that was waiting stays in the list.
CancelStaying(r) ==
    /\ readerPc[r] = "waiting"
    /\ SetPc(r, "dropped")
    /\ UNCHANGED <<arrived, queue, permit, waiting>>

\* Mutant: what woke a dropped call is not passed on.
CancelSilently(r) ==
    /\ SetPc(r, "dropped")
    /\ \/ \E i \in DOMAIN waiting : /\ waiting[i] = r
                                   /\ waiting' = RemoveAt(waiting, i)
       \/ readerPc[r] = "woken" /\ UNCHANGED waiting
    /\ UNCHANGED <<arrived, queue, permit>>

\* The caller drops the call at its await, as the other branch of a select does.
Cancel(r) ==
    /\ \/ /\ SetPc(r, "dropped")
          /\ \E i \in DOMAIN waiting : /\ waiting[i] = r
                                       /\ waiting' = RemoveAt(waiting, i)
          /\ UNCHANGED permit
       \/ /\ readerPc[r] = "woken" /\ waiting = <<>>
          /\ SetPc(r, "dropped")
          /\ permit' = TRUE /\ UNCHANGED waiting
       \/ /\ readerPc[r] = "woken" /\ waiting # <<>>
          /\ readerPc' = [readerPc EXCEPT ![r] = "dropped", ![Head(waiting)] = "woken"]
          /\ waiting' = Tail(waiting) /\ UNCHANGED permit
    /\ UNCHANGED <<arrived, queue>>

-----------------------------------------------------------------------------
ReaderSteps(r) == PopItem(r) \/ FindEmpty(r) \/ AwaitNotified(r) \/ Wake(r)

Next == \/ \E i \in Items : PushItem(i)
        \/ \E r \in Readers : Call(r) \/ ReaderSteps(r) \/ Cancel(r)

Spec == Init /\ [][Next]_vars

(* A call goes on when it can.  Nobody needs to call.                        *)
Fairness == \A r \in Readers : WF_vars(ReaderSteps(r))

FairSpec == Spec /\ Fairness

-----------------------------------------------------------------------------
(* Properties.                                                             *)

\* The value of every variable; the waiters of the Notify are the readers that
\* wait, each once.
TypeOK ==
    /\ arrived \subseteq Items
    /\ queue \in Seq(Items)
    /\ permit \in BOOLEAN
    /\ readerPc \in [Readers -> {"unused", "served", "dropped",
                                "check", "empty", "waiting", "woken"}]
    /\ waiting \in Seq(Readers) /\ IsInjective(waiting)
    /\ Range(waiting) = {r \in Readers : readerPc[r] = "waiting"}

\* notify_one leaves one permit for any number of pushes, so readers that both come
\* to wait may have one wakeup for two items, and one of them sleeps beside an item.
\* That never happens without a reader that is about to look at the queue or has
\* just been given an item, and so finds the rest when it calls again: pushes,
\* calls and dropped calls do not leave an item to sleepers alone.
SleepersNotLeftAlone ==
    queue # <<>> /\ waiting # <<>> =>
        \E r \in Readers : readerPc[r] \in {"check", "woken", "served"}

\* No other task reads this resource: none has called, or its last call was
\* dropped.
Alone(r) == \A q \in Readers \ {r} : readerPc[q] \in {"unused", "dropped"}

\* A reader that is alone never waits beside an item: a push between its look at
\* the queue and its wait leaves a permit, and a call that is dropped, by itself or
\* by another task after it was woken, passes its wakeup on.
LoneReaderNotified ==
    \A r \in Readers : readerPc[r] = "waiting" /\ Alone(r) => queue = <<>>

\* A reader that is left alone and keeps its call gets an item that is there,
\* wherever in its loop the item, or the end of the others' calls, finds it.
LoneReaderServed ==
    \A r \in Readers :
        InCall(r) /\ queue # <<>> ~> ~InCall(r) \/ ~Alone(r)
=============================================================================
