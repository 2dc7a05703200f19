------------------------------ MODULE PreCache ------------------------------
(***************************************************************************)
(* Pre-caching of assets by the client library that runs in the Ambient    *)
(* server: ClientController::allocate_endpoint and pre_cache_assets, called *)
(* by the application one after the other, the client's loop, which learns *)
(* of the allocation, and the pre-caching tasks, which wait for it and     *)
(* then upload what is in the directories on pre_cache_assets_stack.       *)
(***************************************************************************)
EXTENDS Integers, Sequences, FiniteSets

CONSTANTS Dirs,      \* directories inside the assets directory
          Files,     \* files in them
          Entries,   \* Entries[d]: what is in directory d
          Unreadable, \* directories whose reading may fail
          Tasks,     \* bound: pre-caching tasks that can be started
          NoDir,     \* no directory
          MaxCalls   \* bound: calls of pre_cache_assets

\* What read_dir and file_type see is a finite tree: an entry has the path of its
\* directory and one name more, and a link is neither a file nor a directory.
DirectoryTree ==
    /\ IsFiniteSet(Dirs)
    /\ \A c, d \in Dirs : Entries[c] \cap Entries[d] # {} => c = d
    /\ \E depth \in [Dirs \cup Files -> 0 .. Cardinality(Dirs)] :
          \A d \in Dirs : \A e \in Entries[d] : depth[e] = depth[d] + 1

ASSUME PreCacheAssumption ==
    /\ Dirs \cap Files = {}
    /\ Entries \in [Dirs -> SUBSET (Dirs \cup Files)]
    /\ DirectoryTree
    /\ Unreadable \subseteq Dirs
    /\ MaxCalls \in Nat

VARIABLES
    appPc,       \* where the application is in a call of ClientController
    asked,       \* directories handed to pre_cache_assets, in order
    requested,   \* allocation_requested
    allocated,   \* endpoint_allocated
    loopPc,      \* the client's loop: "waiting", "allocated", "notified", "ended"
    stack,       \* pre_cache_assets_stack
    running,     \* pre_caching_task_running
    taskPc,      \* where each pre-caching task is
    expired,     \* its deadline has passed
    woken,       \* its Notified future has been notified
    reading,     \* the directory it is reading
    entries,     \* what it has yet to see of that directory
    uploads      \* StoreAsset streams opened, in order

appVars == <<appPc, asked, requested>>
loopVars == <<allocated, loopPc>>
taskVars == <<taskPc, expired, woken, reading, entries>>
vars == <<appVars, loopVars, stack, running, taskVars, uploads>>

Init ==
    /\ appPc = "idle" /\ asked = <<>> /\ requested = FALSE
    /\ allocated = FALSE /\ loopPc = "waiting"
    /\ stack = <<>> /\ running = FALSE
    /\ taskPc = [t \in Tasks |-> "none"]
    /\ expired = [t \in Tasks |-> FALSE]
    /\ woken = [t \in Tasks |-> FALSE]
    /\ reading = [t \in Tasks |-> NoDir]
    /\ entries = [t \in Tasks |-> {}]
    /\ uploads = <<>>

Push(d) == stack' = Append(stack, d)

Top == stack[Len(stack)]

Pop == stack' = SubSeq(stack, 1, Len(stack) - 1)

Active(t) == taskPc[t] \notin {"none", "ended"}

-----------------------------------------------------------------------------
(* The application.                                                        *)

\* allocate_endpoint: the message is queued for the client's loop, which is there
\* to receive it unless it has ended, and a task is wanted if there is something
\* to pre-cache.  Once the loop has ended the call fails before it changes anything.
AllocateEndpoint ==
    /\ appPc = "idle" /\ loopPc # "ended"
    /\ requested' = TRUE
    /\ appPc' = IF stack = <<>> THEN "idle" ELSE "starting"
    /\ UNCHANGED <<asked, loopVars, stack, running, taskVars, uploads>>

\* pre_cache_assets: directories outside of the assets directory are refused.
PreCacheAssets(d) ==
    /\ appPc = "idle" /\ Len(asked) < MaxCalls
    /\ asked' = Append(asked, d)
    /\ Push(d)
    /\ appPc' = IF requested THEN "starting" ELSE "idle"
    /\ UNCHANGED <<requested, loopVars, running, taskVars, uploads>>

\* Mutant: pre_caching_task_running is not looked at.
StartTaskAlways(t) ==
    /\ appPc = "starting" /\ appPc' = "idle"
    /\ taskPc[t] = "none"
    /\ running' = TRUE
    /\ taskPc' = [taskPc EXCEPT ![t] = "check"]
    /\ UNCHANGED <<asked, requested, loopVars, stack, expired, woken, reading, entries,
                   uploads>>

\* start_pre_caching_task_if_needed
StartTask(t) ==
    /\ appPc = "starting" /\ appPc' = "idle"
    /\ ~running /\ taskPc[t] = "none"
    /\ running' = TRUE
    /\ taskPc' = [taskPc EXCEPT ![t] = "check"]
    /\ UNCHANGED <<asked, requested, loopVars, stack, expired, woken, reading, entries,
                   uploads>>

StartNotNeeded ==
    /\ appPc = "starting" /\ appPc' = "idle"
    /\ running
    /\ UNCHANGED <<asked, requested, loopVars, stack, running, taskVars, uploads>>

-----------------------------------------------------------------------------
(* The client's loop.                                                      *)

ReceiveAllocation ==
    /\ requested /\ loopPc = "waiting"
    /\ allocated' = TRUE /\ loopPc' = "allocated"
    /\ UNCHANGED <<appVars, stack, running, taskVars, uploads>>

\* notify_waiters reaches the Notified futures that exist by now.
NotifyAllocated ==
    /\ loopPc = "allocated" /\ loopPc' = "notified"
    /\ woken' = [t \in Tasks |-> woken[t] \/ taskPc[t] = "parked"]
    /\ UNCHANGED <<appVars, allocated, stack, running, taskPc, expired, reading, entries,
                   uploads>>

\* The connection to the proxy is closed; no stream can be opened on it any more.
LoopEnds ==
    /\ loopPc \in {"waiting", "notified"} /\ loopPc' = "ended"
    /\ UNCHANGED <<appVars, allocated, stack, running, taskVars, uploads>>

-----------------------------------------------------------------------------
(* A pre-caching task: waiting for the allocation.                         *)

\* Mutant: the task does not look at endpoint_allocated.
CheckAllocatedBlindly(t) ==
    /\ taskPc[t] = "check" /\ ~expired[t]
    /\ taskPc' = [taskPc EXCEPT ![t] = "drain"]
    /\ UNCHANGED <<appVars, loopVars, stack, running, expired, woken, reading, entries,
                   uploads>>

CheckAllocated(t) ==
    /\ taskPc[t] = "check" /\ ~expired[t]
    /\ taskPc' = [taskPc EXCEPT ![t] = IF allocated THEN "drain" ELSE "unallocated"]
    /\ UNCHANGED <<appVars, loopVars, stack, running, expired, woken, reading, entries,
                   uploads>>

\* Only now is the Notified future created.
AwaitAllocated(t) ==
    /\ taskPc[t] = "unallocated"
    /\ taskPc' = [taskPc EXCEPT ![t] = "parked"]
    /\ UNCHANGED <<appVars, loopVars, stack, running, expired, woken, reading, entries,
                   uploads>>

\* Mutant: the select without its sleep_until branch.
WakeOnNotifyOnly(t) ==
    /\ taskPc[t] = "parked" /\ woken[t]
    /\ taskPc' = [taskPc EXCEPT ![t] = "check"]
    /\ UNCHANGED <<appVars, loopVars, stack, running, expired, woken, reading, entries,
                   uploads>>

\* Either branch of the select: a timeout ends the task, and so does the test
\* of the deadline after a notification.
Wake(t) ==
    /\ taskPc[t] = "parked"
    /\ \/ woken[t] /\ taskPc' = [taskPc EXCEPT ![t] = "check"]
       \/ expired[t] /\ taskPc' = [taskPc EXCEPT ![t] = "finishing"]
    /\ UNCHANGED <<appVars, loopVars, stack, running, expired, woken, reading, entries,
                   uploads>>

TooLate(t) ==
    /\ taskPc[t] = "check" /\ expired[t]
    /\ taskPc' = [taskPc EXCEPT ![t] = "finishing"]
    /\ UNCHANGED <<appVars, loopVars, stack, running, expired, woken, reading, entries,
                   uploads>>

\* 30 seconds pass.
Expire(t) ==
    /\ taskPc[t] \in {"check", "unallocated", "parked"} /\ ~expired[t]
    /\ expired' = [expired EXCEPT ![t] = TRUE]
    /\ UNCHANGED <<appVars, loopVars, stack, running, taskPc, woken, reading, entries,
                   uploads>>

-----------------------------------------------------------------------------
(* A pre-caching task: drain_pre_cache_assets_stack.                       *)

\* The stack is locked only for the pop.
PopDirectory(t) ==
    /\ taskPc[t] = "drain" /\ stack # <<>>
    /\ Pop
    /\ taskPc' = [taskPc EXCEPT ![t] = "reading"]
    /\ reading' = [reading EXCEPT ![t] = Top]
    /\ entries' = [entries EXCEPT ![t] = Entries[Top]]
    /\ UNCHANGED <<appVars, loopVars, running, expired, woken, uploads>>

StackEmpty(t) ==
    /\ taskPc[t] = "drain" /\ stack = <<>>
    /\ taskPc' = [taskPc EXCEPT ![t] = "finishing"]
    /\ UNCHANGED <<appVars, loopVars, stack, running, expired, woken, reading, entries,
                   uploads>>

\* Mutant: the entry of a file that has been uploaded is looked at again.
HandleEntryAgain(t, e) ==
    /\ taskPc[t] = "reading" /\ e \in entries[t]
    /\ \/ e \in Dirs /\ Push(e) /\ UNCHANGED uploads
       \/ e \in Files /\ uploads' = Append(uploads, e) /\ UNCHANGED stack
    /\ entries' = [entries EXCEPT ![t] = @ \ Dirs]
    /\ UNCHANGED <<appVars, loopVars, running, taskPc, expired, woken, reading>>

\* A directory is pushed.  A file is read and uploaded, unless its type, key or
\* contents cannot be had, or the connection is closed, which the client's loop
\* may have yet to see.
HandleEntry(t, e) ==
    /\ taskPc[t] = "reading" /\ e \in entries[t]
    /\ entries' = [entries EXCEPT ![t] = @ \ {e}]
    /\ \/ e \in Dirs /\ Push(e) /\ UNCHANGED uploads
       \/ /\ e \in Files /\ loopPc # "ended"
          /\ uploads' = Append(uploads, e) /\ UNCHANGED stack
       \/ UNCHANGED <<stack, uploads>>
    /\ UNCHANGED <<appVars, loopVars, running, taskPc, expired, woken, reading>>

\* Mutant: the task goes back to the stack after the first entry.
LeaveDirectoryEarly(t) ==
    /\ taskPc[t] = "reading"
    /\ taskPc' = [taskPc EXCEPT ![t] = "drain"]
    /\ UNCHANGED <<appVars, loopVars, stack, running, expired, woken, reading, entries,
                   uploads>>

LeaveDirectory(t) ==
    /\ taskPc[t] = "reading" /\ entries[t] = {}
    /\ taskPc' = [taskPc EXCEPT ![t] = "drain"]
    /\ UNCHANGED <<appVars, loopVars, stack, running, expired, woken, reading, entries,
                   uploads>>

\* Mutant: a directory that cannot be read ends the task, not just the drain.
ReadFailsForGood(t) ==
    /\ taskPc[t] = "reading" /\ reading[t] \in Unreadable
    /\ taskPc' = [taskPc EXCEPT ![t] = "ended"]
    /\ entries' = [entries EXCEPT ![t] = {}]
    /\ UNCHANGED <<appVars, loopVars, stack, running, expired, woken, reading, uploads>>

\* read_dir or next_entry fails: the drain ends, whatever is on the stack.
ReadFails(t) ==
    /\ taskPc[t] = "reading" /\ reading[t] \in Unreadable
    /\ taskPc' = [taskPc EXCEPT ![t] = "finishing"]
    /\ entries' = [entries EXCEPT ![t] = {}]
    /\ UNCHANGED <<appVars, loopVars, stack, running, expired, woken, reading, uploads>>

Finish(t) ==
    /\ taskPc[t] = "finishing"
    /\ running' = FALSE
    /\ taskPc' = [taskPc EXCEPT ![t] = "ended"]
    /\ UNCHANGED <<appVars, loopVars, stack, expired, woken, reading, entries, uploads>>

-----------------------------------------------------------------------------
Application == \/ AllocateEndpoint \/ StartNotNeeded
               \/ \E d \in Dirs : PreCacheAssets(d)
               \/ \E t \in Tasks : StartTask(t)

ClientLoop == ReceiveAllocation \/ NotifyAllocated \/ LoopEnds

TaskSteps(t) ==
    \/ CheckAllocated(t) \/ AwaitAllocated(t) \/ Wake(t) \/ TooLate(t)
    \/ PopDirectory(t) \/ StackEmpty(t) \/ LeaveDirectory(t) \/ ReadFails(t)
    \/ Finish(t)
    \/ \E e \in Dirs \cup Files : HandleEntry(t, e)

Next == \/ Application \/ ClientLoop
        \/ \E t \in Tasks : TaskSteps(t) \/ Expire(t)

Spec == Init /\ [][Next]_vars

(* Tasks run and timers fire, the client's loop goes on with a message it has *)
(* received, and a call that the application has begun goes on.  The proxy  *)
(* need never allocate, nor the connection ever end, but the proxy does read *)
(* the streams opened to it, or the connection ends.                        *)
Fairness ==
    /\ WF_vars(StartNotNeeded \/ \E t \in Tasks : StartTask(t))
    /\ WF_vars(NotifyAllocated)
    /\ \A t \in Tasks : WF_vars(TaskSteps(t)) /\ WF_vars(Expire(t))

FairSpec == Spec /\ Fairness

-----------------------------------------------------------------------------
(* Properties.                                                             *)

\* The value of every variable.
TypeOK ==
    /\ appPc \in {"idle", "starting"}
    /\ asked \in Seq(Dirs) /\ Len(asked) \in 0..MaxCalls
    /\ requested \in BOOLEAN /\ allocated \in BOOLEAN
    /\ loopPc \in {"waiting", "allocated", "notified", "ended"}
    /\ stack \in Seq(Dirs) /\ running \in BOOLEAN
    /\ taskPc \in [Tasks -> {"none", "check", "unallocated", "parked", "drain",
                             "reading", "finishing", "ended"}]
    /\ expired \in [Tasks -> BOOLEAN] /\ woken \in [Tasks -> BOOLEAN]
    /\ reading \in [Tasks -> Dirs \cup {NoDir}]
    /\ entries \in [Tasks -> SUBSET (Dirs \cup Files)]
    /\ \A t \in Tasks : entries[t] # {} => taskPc[t] = "reading"
    /\ uploads \in Seq(Files)

\* "make sure we only start one task": two tasks never share the stack, and the
\* flag says whether there is one, although it is cleared by the task and not by
\* whoever sees the task end.
OneTaskAtATime ==
    /\ \A t, u \in Tasks : Active(t) /\ Active(u) => t = u
    /\ running <=> \E t \in Tasks : Active(t)

\* Nothing is uploaded to a proxy that has not allocated an endpoint, whichever
\* way the wait for it ends.
NoUploadBeforeAllocation == uploads # <<>> => allocated

\* A task does not keep the flag for good and so rule out every later one,
\* whether the allocation comes, is missed or never comes.
TaskEnds == running ~> ~running

\* The way down to a file.  A set that holds f is closed if it holds, with an
\* entry, the directory of the entry; the least such set is f and the directories
\* above it.
Closed(f, S) == f \in S /\ \A d \in Dirs : Entries[d] \cap S # {} => d \in S

WayTo(f) == {x \in Dirs \cup Files : \A S \in SUBSET (Dirs \cup Files) : Closed(f, S) => x \in S}

\* No file is uploaded more often than a directory above it was handed to
\* pre_cache_assets, however these directories overlap and whatever fails; so files
\* of directories that were never handed over are not uploaded.
UploadedAsOftenAsAsked ==
    \A f \in Files :
        Cardinality({i \in DOMAIN uploads : uploads[i] = f})
            <= Cardinality({i \in DOMAIN asked : asked[i] \in WayTo(f)})

\* A directory is pushed "onto the stack for later processing", and the task is
\* started because "allocation has already been requested": when the endpoint is
\* allocated in time and every directory can be read, no directory stays on the
\* stack without a task to take it off.
NoStrandedDirectory ==
    /\ allocated /\ appPc = "idle" /\ ~running
    /\ \A t \in Tasks : ~expired[t]
    /\ Unreadable = {}
    => stack = <<>>
=============================================================================
