-------------------------- MODULE ManagementServer --------------------------
(***************************************************************************)
(* The life of the allocations: ManagementServer::start accepts Ambient    *)
(* servers, creates a ProxyServer for each, lists it in ProxyStore and     *)
(* removes it when its Stopped event arrives.  Every ProxyServer runs two  *)
(* tasks: the message task, which accepts the first bi stream, raises      *)
(* message_processing_started and then carries messages, and the task of   *)
(* ProxyServer::start, which waits for that flag and then runs the loop    *)
(* that notices the end of the connection.  HTTP handlers clone the        *)
(* ProxyServer's Arc out of ProxyStore while they work.                    *)
(*                                                                         *)
(* What the loop of ProxyServer::start does with players and assets is in  *)
(* ProxyServer and AssetStore.                                             *)
(***************************************************************************)
EXTENDS Integers, FiniteSets

CONSTANTS Servers,    \* connections of Ambient servers, each with its proxy
          Handlers,   \* HTTP handlers (get_asset, get_stats)
          Players,    \* players of any of them
          None        \* no server

ASSUME ManagementAssumption == None \notin Servers /\ IsFiniteSet(Players)

VARIABLES
    conn,       \* the connection to the Ambient server
    biOpened,   \* the Ambient server has written to its first bi stream
    manager,    \* where ManagementServer::start is
    current,    \* the connection it is handling
    proxies,    \* the proxies in ProxyStore (the Server role's gauge is their number)
    stopped,    \* Stopped events on their way (each proxy sends one)
    msgPc,      \* where the message task is
    started,    \* message_processing_started
    startPc,    \* where the task of ProxyServer::start is
    woken,      \* its Notified future has been notified
    holding,    \* the proxy whose Arc a handler holds
    dropped,    \* ProxyServer::drop has run
    playerOf,   \* the proxy that has a player in its player_conns
    clientGauge \* current_connections of the Client role

connVars == <<conn, biOpened>>
managerVars == <<manager, current, proxies>>
taskVars == <<msgPc, started, startPc, woken>>
playerVars == <<playerOf, clientGauge>>
vars == <<connVars, managerVars, stopped, taskVars, holding, dropped,
                   playerVars>>

Init ==
    /\ conn = [s \in Servers |-> "none"]
    /\ biOpened = [s \in Servers |-> FALSE]
    /\ manager = "select" /\ current = None
    /\ proxies = {}
    /\ stopped = {}
    /\ msgPc = [s \in Servers |-> "none"]
    /\ started = [s \in Servers |-> FALSE]
    /\ startPc = [s \in Servers |-> "none"]
    /\ woken = [s \in Servers |-> FALSE]
    /\ holding = [h \in Handlers |-> None]
    /\ dropped = [s \in Servers |-> FALSE]
    /\ playerOf = [p \in Players |-> None] /\ clientGauge = 0

-----------------------------------------------------------------------------
(* Ambient servers and the network.                                        *)

Connect(s) ==
    /\ conn[s] = "none"
    /\ conn' = [conn EXCEPT ![s] = "connecting"]
    /\ UNCHANGED <<biOpened, managerVars, stopped, taskVars, holding, dropped,
                   playerVars>>

\* A stream that has been opened but not written to is not visible to the
\* proxy: the client's first write is its AllocateEndpoint message.
WriteFirstMessage(s) ==
    /\ conn[s] = "open" /\ ~biOpened[s]
    /\ biOpened' = [biOpened EXCEPT ![s] = TRUE]
    /\ UNCHANGED <<conn, managerVars, stopped, taskVars, holding, dropped,
                   playerVars>>

\* The peer closes the connection, or it is idle for IDLE_TIMEOUT.
CloseConnection(s) ==
    /\ conn[s] = "open"
    /\ conn' = [conn EXCEPT ![s] = "closed"]
    /\ UNCHANGED <<biOpened, managerVars, stopped, taskVars, holding, dropped,
                   playerVars>>

-----------------------------------------------------------------------------
(* ManagementServer::start.                                                *)

Accept(s) ==
    /\ manager = "select" /\ conn[s] = "connecting"
    /\ manager' = "handshake" /\ current' = s
    /\ UNCHANGED <<connVars, proxies, stopped, taskVars, holding, dropped,
                   playerVars>>

HandshakeFails ==
    /\ manager = "handshake"
    /\ conn' = [conn EXCEPT ![current] = "closed"]
    /\ manager' = "select" /\ current' = None
    /\ UNCHANGED <<biOpened, proxies, stopped, taskVars, holding, dropped,
                   playerVars>>

\* ProxyServer::new spawns the message task, handle_connection the start task:
\* both run before the proxy is listed.
HandshakeSucceeds ==
    /\ manager = "handshake"
    /\ conn' = [conn EXCEPT ![current] = "open"]
    /\ msgPc' = [msgPc EXCEPT ![current] = "accepting"]
    /\ startPc' = [startPc EXCEPT ![current] = "check"]
    /\ manager' = "created"
    /\ UNCHANGED <<biOpened, current, proxies, stopped, started, woken,
                   holding, dropped, playerVars>>

\* Mutant: the connection is not forgotten once its proxy is listed.
InsertProxyKeepingCurrent ==
    /\ manager = "created"
    /\ proxies' = proxies \cup {current}
    /\ manager' = "select"
    /\ UNCHANGED <<connVars, current, stopped, taskVars, holding, dropped,
                   playerVars>>

InsertProxy ==
    /\ manager = "created"
    /\ proxies' = proxies \cup {current}
    /\ manager' = "select" /\ current' = None
    /\ UNCHANGED <<connVars, stopped, taskVars, holding, dropped, playerVars>>

\* Mutant: the event is handled by a task of its own, not between two inserts.
HandleStoppedAnytime(s) ==
    /\ s \in stopped
    /\ stopped' = stopped \ {s}
    /\ proxies' = proxies \ {s}
    /\ UNCHANGED <<connVars, manager, current, taskVars, holding, dropped,
                   playerVars>>

\* The start task that sent the event is aborted: it has nothing left to do.
HandleStopped(s) ==
    /\ manager = "select" /\ s \in stopped
    /\ stopped' = stopped \ {s}
    /\ proxies' = proxies \ {s}
    /\ UNCHANGED <<connVars, manager, current, taskVars, holding, dropped,
                   playerVars>>

-----------------------------------------------------------------------------
(* The message task.                                                       *)

SetMsgPc(s, pc) == msgPc' = [msgPc EXCEPT ![s] = pc]

AcceptBi(s) ==
    /\ msgPc[s] = "accepting" /\ biOpened[s]
    /\ SetMsgPc(s, "accepted")
    /\ UNCHANGED <<connVars, managerVars, stopped, started, startPc, woken,
                   holding, dropped, playerVars>>

\* The connection has ended first: the task returns and tells nobody.
AcceptBiFails(s) ==
    /\ msgPc[s] = "accepting" /\ conn[s] = "closed"
    /\ SetMsgPc(s, "ended")
    /\ UNCHANGED <<connVars, managerVars, stopped, started, startPc, woken,
                   holding, dropped, playerVars>>

SetStarted(s) ==
    /\ msgPc[s] = "accepted"
    /\ started' = [started EXCEPT ![s] = TRUE]
    /\ SetMsgPc(s, "notifying")
    /\ UNCHANGED <<connVars, managerVars, stopped, startPc, woken, holding,
                   dropped, playerVars>>

\* notify_waiters reaches a Notified future that exists by now, and no other.
NotifyStarted(s) ==
    /\ msgPc[s] = "notifying"
    /\ woken' = [woken EXCEPT ![s] = startPc[s] = "parked"]
    /\ SetMsgPc(s, "running")
    /\ UNCHANGED <<connVars, managerVars, stopped, started, startPc, holding,
                   dropped, playerVars>>

MessageTaskEnds(s) ==
    /\ msgPc[s] = "running" /\ conn[s] = "closed"
    /\ SetMsgPc(s, "ended")
    /\ UNCHANGED <<connVars, managerVars, stopped, started, startPc, woken,
                   holding, dropped, playerVars>>

-----------------------------------------------------------------------------
(* The task of ProxyServer::start.                                         *)

SetStartPc(s, pc) == startPc' = [startPc EXCEPT ![s] = pc]

CheckStarted(s) ==
    /\ startPc[s] = "check"
    /\ SetStartPc(s, IF started[s] THEN "loop" ELSE "unstarted")
    /\ UNCHANGED <<connVars, managerVars, stopped, msgPc, started, woken, holding,
                   dropped, playerVars>>

\* The Notified future is created after the flag has been read and released.
AwaitStarted(s) ==
    /\ startPc[s] = "unstarted"
    /\ SetStartPc(s, "parked")
    /\ UNCHANGED <<connVars, managerVars, stopped, msgPc, started, woken, holding,
                   dropped, playerVars>>

WakeUp(s) ==
    /\ startPc[s] = "parked" /\ woken[s]
    /\ SetStartPc(s, "check")
    /\ UNCHANGED <<connVars, managerVars, stopped, msgPc, started, woken, holding,
                   dropped, playerVars>>

\* A player's handshake, or the opening of a stream to a player: the handler
\* awaits it, and no branch of the select is looked at meanwhile.  The other
\* branches run through and are left out, but for ForgetPlayer.
EnterHandler(s) ==
    /\ startPc[s] = "loop"
    /\ SetStartPc(s, "handling")
    /\ UNCHANGED <<connVars, managerVars, stopped, msgPc, started, woken, holding,
                   dropped, playerVars>>

\* The handshake fails by its timeout; a stream is opened when the player gives
\* credit for it, or fails when the player's connection ends.
HandlerReturns(s) ==
    /\ startPc[s] = "handling"
    /\ SetStartPc(s, "loop")
    /\ UNCHANGED <<connVars, managerVars, stopped, msgPc, started, woken, holding,
                   dropped, playerVars>>

\* Mutant: a branch of the select that fails ends the loop.
LoopEndsEarly(s) ==
    /\ startPc[s] = "loop"
    /\ stopped' = stopped \cup {s}
    /\ SetStartPc(s, "sent")
    /\ UNCHANGED <<connVars, managerVars, msgPc, started, woken, holding, dropped,
                   playerVars>>

\* Mutant: the loop ends without sending Stopped.
LoopEndsSilently(s) ==
    /\ startPc[s] = "loop" /\ conn[s] = "closed"
    /\ SetStartPc(s, "sent")
    /\ UNCHANGED <<connVars, managerVars, stopped, msgPc, started, woken, holding,
                   dropped, playerVars>>

\* The branch of the select that waits for closed(): not while a handler runs.
LoopEnds(s) ==
    /\ startPc[s] = "loop" /\ conn[s] = "closed"
    /\ stopped' = stopped \cup {s}
    /\ SetStartPc(s, "sent")
    /\ UNCHANGED <<connVars, managerVars, msgPc, started, woken, holding, dropped,
                   playerVars>>

\* The task's future is dropped, and its Arc with it.
StartReturns(s) ==
    /\ startPc[s] = "sent"
    /\ SetStartPc(s, "ended")
    /\ UNCHANGED <<connVars, managerVars, stopped, msgPc, started, woken, holding,
                   dropped, playerVars>>

-----------------------------------------------------------------------------
(* HTTP handlers, and the end of a proxy.                                  *)

TakeProxy(h, s) ==
    /\ holding[h] = None /\ s \in proxies
    /\ holding' = [holding EXCEPT ![h] = s]
    /\ UNCHANGED <<connVars, managerVars, stopped, taskVars, dropped,
                   playerVars>>

ReleaseProxy(h) ==
    /\ holding[h] # None
    /\ holding' = [holding EXCEPT ![h] = None]
    /\ UNCHANGED <<connVars, managerVars, stopped, taskVars, dropped,
                   playerVars>>

\* The Arcs of a proxy: ProxyStore, the start task, handle_connection's result
\* on its way into ProxyStore, HTTP handlers.
StartTaskAlive(s) == startPc[s] \notin {"none", "ended"}

Referenced(s) ==
    \/ s \in proxies
    \/ StartTaskAlive(s)
    \/ manager = "created" /\ current = s
    \/ \E h \in Handlers : holding[h] = s

\* ProxyServer::drop aborts the message task and closes the players' endpoint.
DropProxy(s) ==
    /\ startPc[s] # "none" /\ ~dropped[s] /\ ~Referenced(s)
    /\ dropped' = [dropped EXCEPT ![s] = TRUE]
    /\ SetMsgPc(s, "ended")
    /\ UNCHANGED <<connVars, managerVars, stopped, started, startPc, woken, holding,
                   playerVars>>

-----------------------------------------------------------------------------
(* Players, as the metrics tick sees them.                                  *)

\* The loop of ProxyServer::start lists a player at the end of its handler, or
\* forgets one; nobody does once the loop has ended.
ListPlayer(p, s) ==
    /\ startPc[s] = "handling" /\ playerOf[p] = None
    /\ playerOf' = [playerOf EXCEPT ![p] = s]
    /\ SetStartPc(s, "loop")
    /\ UNCHANGED <<connVars, managerVars, stopped, msgPc, started, woken, holding,
                   dropped, clientGauge>>

ForgetPlayer(p) ==
    /\ playerOf[p] # None /\ startPc[playerOf[p]] = "loop"
    /\ playerOf' = [playerOf EXCEPT ![p] = None]
    /\ UNCHANGED <<connVars, managerVars, stopped, taskVars, holding, dropped,
                   clientGauge>>

\* Mutant: no proxies, nothing to report.
MetricsTickOfSome ==
    /\ manager = "select" /\ proxies # {}
    /\ clientGauge' = Cardinality({p \in Players : playerOf[p] \in proxies})
    /\ UNCHANGED <<connVars, managerVars, stopped, taskVars, holding, dropped,
                   playerOf>>

\* The players of all listed proxies.  Their counts are read one by one; a player
\* that comes or goes meanwhile counts as if it did before or after.
MetricsTick ==
    /\ manager = "select"
    /\ clientGauge' = Cardinality({p \in Players : playerOf[p] \in proxies})
    /\ UNCHANGED <<connVars, managerVars, stopped, taskVars, holding, dropped,
                   playerOf>>

-----------------------------------------------------------------------------
Environment(s) == Connect(s) \/ WriteFirstMessage(s) \/ CloseConnection(s)

Manager == \/ HandshakeSucceeds \/ HandshakeFails \/ InsertProxy
           \/ MetricsTick
           \/ \E s \in Servers : Accept(s) \/ HandleStopped(s)

MessageTask(s) == \/ AcceptBi(s) \/ AcceptBiFails(s) \/ SetStarted(s)
                  \/ NotifyStarted(s) \/ MessageTaskEnds(s)

StartTask(s) == \/ CheckStarted(s) \/ AwaitStarted(s) \/ WakeUp(s)
                \/ EnterHandler(s) \/ HandlerReturns(s)
                \/ LoopEnds(s) \/ StartReturns(s)

Next ==
    \/ Manager
    \/ \E s \in Servers : \/ Environment(s)
                          \/ MessageTask(s)
                          \/ StartTask(s)
                          \/ DropProxy(s)
                          \/ \E h \in Handlers : TakeProxy(h, s)
    \/ \E h \in Handlers : ReleaseProxy(h)
    \/ \E p \in Players : ForgetPlayer(p) \/ \E s \in Servers : ListPlayer(p, s)

Spec == Init /\ [][Next]_vars

(* The runtime runs every task that can run.  A handshake with an Ambient    *)
(* server that makes no progress fails after IDLE_TIMEOUT; an HTTP handler   *)
(* ends by its own deadline; the branches of a select are polled in random   *)
(* order, so an event, or the end of the connection, is not passed over      *)
(* forever by a loop that keeps coming back to its select.  Nothing is       *)
(* assumed of Ambient servers, nor that a loop does come back: a start task   *)
(* that waits for the flag may wait for good, and a handler may await its    *)
(* player for good.                                                        *)
Fairness ==
    /\ WF_vars(HandshakeSucceeds \/ HandshakeFails)
    /\ WF_vars(InsertProxy) /\ WF_vars(MetricsTick)
    /\ \A s \in Servers : /\ SF_vars(HandleStopped(s)) /\ SF_vars(LoopEnds(s))
                          /\ WF_vars(MessageTask(s))
                          /\ WF_vars(\/ CheckStarted(s) \/ AwaitStarted(s)
                                     \/ WakeUp(s) \/ StartReturns(s))
                          /\ WF_vars(DropProxy(s))
    /\ \A h \in Handlers : WF_vars(ReleaseProxy(h))

FairSpec == Spec /\ Fairness

(* Players that read their streams give credit for new ones in time, so that *)
(* every handler ends: an assumption, and the same as Cooperation in         *)
(* ProxyServer, where streams and their credit are modelled.                *)
Cooperation ==
    \A s \in Servers :
        WF_vars(HandlerReturns(s) \/ \E p \in Players : ListPlayer(p, s))

CooperativeSpec == FairSpec /\ Cooperation

-----------------------------------------------------------------------------
(* Properties.                                                             *)

\* The value of every variable; current is the connection being handled.
TypeOK ==
    /\ conn \in [Servers -> {"none", "connecting", "open", "closed"}]
    /\ biOpened \in [Servers -> BOOLEAN]
    /\ manager \in {"select", "handshake", "created"}
    /\ current \in Servers \cup {None}
    /\ (current = None) = (manager = "select")
    /\ proxies \subseteq Servers
    /\ stopped \subseteq Servers
    /\ msgPc \in [Servers -> {"none", "accepting", "accepted", "notifying",
                              "running", "ended"}]
    /\ started \in [Servers -> BOOLEAN]
    /\ startPc \in [Servers -> {"none", "check", "unstarted", "parked", "loop",
                                "handling", "sent", "ended"}]
    /\ woken \in [Servers -> BOOLEAN]
    /\ holding \in [Handlers -> Servers \cup {None}]
    /\ dropped \in [Servers -> BOOLEAN]
    /\ playerOf \in [Players -> Servers \cup {None}] /\ clientGauge \in Nat

\* A Stopped event is neither lost nor handled too early: the loop of a proxy
\* may end, and its event be queued, before ManagementServer::start has listed
\* the proxy, and still a proxy that has stopped is listed only as long as its
\* event is queued.
StoppedProxyWillBeRemoved ==
    \A s \in Servers :
        /\ startPc[s] \in {"sent", "ended"}
        /\ s \in proxies \/ (manager = "created" /\ current = s)
        => s \in stopped

\* Removing a proxy aborts its start task: that never hits a task that still
\* serves, and the allocation of an open connection stays reachable over HTTP
\* and is not dropped.
ConnectedProxyServes ==
    \A s \in Servers :
        conn[s] = "open" =>
            /\ s \in proxies \/ (manager = "created" /\ current = s)
            /\ ~dropped[s]

\* A proxy whose loop runs is removed and dropped once its connection has
\* closed, however slow handshakes and HTTP handlers hold this up, provided
\* players give credit for streams: a handler of the loop may still be about a
\* player when the Ambient server goes.
ServedProxyDropped ==
    \A s \in Servers :
        startPc[s] \in {"loop", "handling"} /\ conn[s] = "closed" ~> dropped[s]

\* Players that a proxy has listed when its loop ends are never taken off its list,
\* and count until the proxy is removed: when all Ambient servers have gone, the
\* gauge of players comes down to nothing all the same, provided players give
\* credit for streams.
PlayersGaugeSettles ==
    (\A s \in Servers : conn[s] = "closed") ~> clientGauge = 0

\* The gauge is the "Current count of Ambient connections": a connection that
\* has closed, even before its first message, is not counted for good.
UnusedConnectionRemoved ==
    \A s \in Servers : conn[s] = "closed" /\ ~biOpened[s] ~> s \notin proxies

\* ProxyServer::start is to "wait for message processing": when it has started,
\* the wait ends.
StartedIsNoticed ==
    \A s \in Servers :
        started[s] ~> startPc[s] \notin {"check", "unstarted", "parked"}
=============================================================================
