----------------------------- MODULE ProxyServer -----------------------------
(***************************************************************************)
(* One allocation and its players: the select loop of ProxyServer::start,  *)
(* the message task that carries its messages to the Ambient server, the   *)
(* task of every PlayerConnection, the tasks that copy streams, and the    *)
(* end of all of them.  The loop handles one branch at a time: while a     *)
(* handler awaits, no other branch runs, but every other task does.        *)
(*                                                                         *)
(* Assets are in AssetStore, the wait for the message task before the loop *)
(* and the removal of the ProxyServer after it in ManagementServer.        *)
(***************************************************************************)
EXTENDS Integers, Sequences, FiniteSets

CONSTANTS Players,      \* player connections (their ids are 128 random bits)
          Streams,      \* streams the Ambient server opens to players
          Datagrams,    \* datagrams it sends to players
          MaxStreams,   \* streams a player lets the proxy have open at a time
          MaxRequests,  \* bound: AllocateEndpoint messages
          Allocation,   \* the message of that name; PlayerConnected(p) is p
          None          \* nobody, no stream

ASSUME ProxyServerAssumption ==
    /\ MaxStreams \in Nat \ {0} /\ MaxRequests \in Nat
    /\ Allocation \notin Players
    /\ None \notin Players \cup Streams
    /\ Streams \cap Datagrams = {}

Items == Streams \cup Datagrams

VARIABLES
    serverConn,    \* ambient_server_conn: "open", "closed"
    requests,      \* AllocateEndpoint messages the loop has not seen
    sentRequests,  \* how many have been sent (bounds the model)
    endpoint,      \* proxy_endpoint: "none", "bound", "closed"
    loopPc,        \* where the loop of ProxyServer::start is
    player,        \* the player its handler is about
    stream,        \* the stream its handler is about
    outbox,        \* server_message channel, read by the message task
    received,      \* messages the Ambient server has received
    msgTask,       \* the message task: "running", "ended"
    playerConn,    \* "none", "connecting", "open", "closed"
    playerConns,   \* player_conns
    playerTask,    \* the task of PlayerConnection::start
    playerEvents,  \* Disconnected events on their way (a player sends one)
    itemPc,        \* a stream or datagram from the Ambient server: "unused",
                   \* "pending", and then "opening", "copying", "ended"
    itemTo         \* the player of its OpenPlayerStream or DatagramInfo

allocVars == <<requests, sentRequests, endpoint>>
loopVars == <<loopPc, player, stream>>
msgVars == <<outbox, received, msgTask>>
playerVars == <<playerConn, playerConns, playerTask, playerEvents>>
itemVars == <<itemPc, itemTo>>
vars == <<serverConn, allocVars, loopVars, msgVars, playerVars, itemVars>>

Init ==
    /\ serverConn = "open"
    /\ requests = 0 /\ sentRequests = 0 /\ endpoint = "none"
    /\ loopPc = "select" /\ player = None /\ stream = None
    /\ outbox = <<>> /\ received = <<>> /\ msgTask = "running"
    /\ playerConn = [p \in Players |-> "none"]
    /\ playerConns = {}
    /\ playerTask = [p \in Players |-> "none"]
    /\ playerEvents = {}
    /\ itemPc = [i \in Items |-> "unused"]
    /\ itemTo = [i \in Items |-> None]

-----------------------------------------------------------------------------
(* The Ambient server: it knows the players it has been told of.           *)

Known(p) == \E i \in DOMAIN received : received[i] = p

RequestAllocation ==
    /\ serverConn = "open" /\ sentRequests < MaxRequests
    /\ requests' = requests + 1
    /\ sentRequests' = sentRequests + 1
    /\ UNCHANGED <<serverConn, endpoint, loopVars, msgVars, playerVars, itemVars>>

\* ProxiedConnection::open_uni, open_bi and send_datagram.
SendToPlayer(i, p) ==
    /\ serverConn = "open" /\ Known(p)
    /\ itemPc[i] = "unused"
    /\ itemPc' = [itemPc EXCEPT ![i] = "pending"]
    /\ itemTo' = [itemTo EXCEPT ![i] = p]
    /\ UNCHANGED <<serverConn, allocVars, loopVars, msgVars, playerVars>>

CloseServerConnection ==
    /\ serverConn = "open"
    /\ serverConn' = "closed"
    /\ UNCHANGED <<allocVars, loopVars, msgVars, playerVars, itemVars>>

-----------------------------------------------------------------------------
(* The message task.  It also carries AllocateEndpoint to the loop, which    *)
(* RequestAllocation includes.                                             *)

DeliverMessage ==
    /\ msgTask = "running" /\ outbox # <<>>
    /\ outbox' = Tail(outbox)
    /\ received' = IF serverConn = "open" THEN Append(received, Head(outbox))
                   ELSE received
    /\ UNCHANGED <<serverConn, allocVars, loopVars, msgTask, playerVars, itemVars>>

\* The receiver is dropped with what it holds: sending fails from now on.
MessageTaskEnds ==
    /\ msgTask = "running" /\ serverConn = "closed"
    /\ msgTask' = "ended" /\ outbox' = <<>>
    /\ UNCHANGED <<serverConn, allocVars, loopVars, received, playerVars, itemVars>>

Post(m) == outbox' = IF msgTask = "running" THEN Append(outbox, m) ELSE outbox

-----------------------------------------------------------------------------
(* The loop: allocation.                                                   *)

\* Mutant: nothing is said of an endpoint that is already there.
HandleAllocateAgain ==
    /\ loopPc = "select" /\ requests > 0
    /\ requests' = requests - 1
    /\ endpoint' = "bound"
    /\ Post(Allocation)
    /\ UNCHANGED <<serverConn, sentRequests, loopVars, received, msgTask, playerVars,
                   itemVars>>

\* The first request that finds a port is answered.  A later one, and one for
\* which no port can be bound, is not; nor is one whose local_addr fails, which
\* leaves an endpoint nobody was told of.
HandleAllocate ==
    /\ loopPc = "select" /\ requests > 0
    /\ requests' = requests - 1
    /\ \/ /\ endpoint = "none" /\ endpoint' = "bound"
          /\ Post(Allocation)
       \/ /\ endpoint = "none" /\ endpoint' \in {"none", "bound"}
          /\ UNCHANGED outbox
       \/ /\ endpoint # "none"
          /\ UNCHANGED <<endpoint, outbox>>
    /\ UNCHANGED <<serverConn, sentRequests, loopVars, received, msgTask, playerVars,
                   itemVars>>

-----------------------------------------------------------------------------
(* The loop: a new player.                                                 *)

EnterHandler(pc, p, s) == loopPc' = pc /\ player' = p /\ stream' = s

LeaveHandler == EnterHandler("select", None, None)

AcceptPlayer(p) ==
    /\ loopPc = "select" /\ endpoint = "bound"
    /\ playerConn[p] = "connecting"
    /\ EnterHandler("handshake", p, None)
    /\ UNCHANGED <<serverConn, allocVars, msgVars, playerVars, itemVars>>

\* Mutant: the loop goes on without forgetting the player of its handler.
HandshakeFailsKeepingPlayer ==
    /\ loopPc = "handshake"
    /\ playerConn' = [playerConn EXCEPT ![player] = "closed"]
    /\ EnterHandler("select", player, None)
    /\ UNCHANGED <<serverConn, allocVars, msgVars, playerConns, playerTask,
                   playerEvents, itemVars>>

HandshakeFails ==
    /\ loopPc = "handshake"
    /\ playerConn' = [playerConn EXCEPT ![player] = "closed"]
    /\ LeaveHandler
    /\ UNCHANGED <<serverConn, allocVars, msgVars, playerConns, playerTask,
                   playerEvents, itemVars>>

HandshakeSucceeds ==
    /\ loopPc = "handshake"
    /\ playerConn' = [playerConn EXCEPT ![player] = "open"]
    /\ EnterHandler("announcing", player, None)
    /\ UNCHANGED <<serverConn, allocVars, msgVars, playerConns, playerTask,
                   playerEvents, itemVars>>

\* The message task may be gone: then the connection is dropped, which closes it.
AnnouncePlayer ==
    /\ loopPc = "announcing"
    /\ IF msgTask = "running"
       THEN /\ outbox' = Append(outbox, player)
            /\ EnterHandler("announced", player, None)
            /\ UNCHANGED playerConn
       ELSE /\ playerConn' = [playerConn EXCEPT ![player] = "closed"]
            /\ LeaveHandler
            /\ UNCHANGED outbox
    /\ UNCHANGED <<serverConn, allocVars, received, msgTask, playerConns,
                   playerTask, playerEvents, itemVars>>

SpawnPlayerTask ==
    /\ loopPc = "announced"
    /\ playerTask' = [playerTask EXCEPT ![player] = "running"]
    /\ EnterHandler("spawned", player, None)
    /\ UNCHANGED <<serverConn, allocVars, msgVars, playerConn, playerConns,
                   playerEvents, itemVars>>

InsertPlayer ==
    /\ loopPc = "spawned"
    /\ playerConns' = playerConns \cup {player}
    /\ LeaveHandler
    /\ UNCHANGED <<serverConn, allocVars, msgVars, playerConn, playerTask,
                   playerEvents, itemVars>>

-----------------------------------------------------------------------------
(* The loop: streams and datagrams to players.  handle_uni and handle_bi    *)
(* agree on everything modelled here.                                      *)

\* Mutant: streams are handled by tasks of their own.
HandleStreamAnytime(s) ==
    /\ itemPc[s] = "pending"
    /\ itemPc' = [itemPc EXCEPT ![s] = IF itemTo[s] \in playerConns
                                           THEN "copying" ELSE "ended"]
    /\ UNCHANGED <<serverConn, allocVars, loopVars, msgVars, playerVars, itemTo>>

\* The header has been read (the Ambient server writes it when it opens the
\* stream): the stream is opened to its player, or dropped if there is none.
HandleStream(s) ==
    /\ loopPc = "select" /\ itemPc[s] = "pending"
    /\ \/ /\ itemTo[s] \in playerConns
          /\ itemPc' = [itemPc EXCEPT ![s] = "opening"]
          /\ EnterHandler("opening", itemTo[s], s)
       \/ /\ itemTo[s] \notin playerConns
          /\ itemPc' = [itemPc EXCEPT ![s] = "ended"]
          /\ UNCHANGED loopVars
    /\ UNCHANGED <<serverConn, allocVars, msgVars, playerVars, itemTo>>

HasCredit(p) ==
    Cardinality({s \in Streams : itemTo[s] = p /\ itemPc[s] = "copying"})
        < MaxStreams

\* open_uni and open_bi wait until the player allows one more stream.
OpenPlayerStream ==
    /\ loopPc = "opening"
    /\ playerConn[player] = "open" /\ HasCredit(player)
    /\ itemPc' = [itemPc EXCEPT ![stream] = "copying"]
    /\ LeaveHandler
    /\ UNCHANGED <<serverConn, allocVars, msgVars, playerVars, itemTo>>

OpenPlayerStreamFails ==
    /\ loopPc = "opening"
    /\ playerConn[player] = "closed"
    /\ itemPc' = [itemPc EXCEPT ![stream] = "ended"]
    /\ LeaveHandler
    /\ UNCHANGED <<serverConn, allocVars, msgVars, playerVars, itemTo>>

\* Sent on to its player at once, or dropped if there is none.
HandleDatagram(d) ==
    /\ loopPc = "select" /\ itemPc[d] = "pending"
    /\ itemPc' = [itemPc EXCEPT ![d] = "ended"]
    /\ UNCHANGED <<serverConn, allocVars, loopVars, msgVars, playerVars, itemTo>>

-----------------------------------------------------------------------------
(* The loop: the end of a player and of the allocation.                    *)

\* Mutant: the event is handled by a task of its own.
HandleDisconnectedAnytime(p) ==
    /\ p \in playerEvents
    /\ playerEvents' = playerEvents \ {p}
    /\ playerConns' = playerConns \ {p}
    /\ UNCHANGED <<serverConn, allocVars, loopVars, msgVars, playerConn, playerTask,
                   itemVars>>

\* The task that sent the event has ended: aborting it changes nothing.
HandleDisconnected(p) ==
    /\ loopPc = "select" /\ p \in playerEvents
    /\ playerEvents' = playerEvents \ {p}
    /\ playerConns' = playerConns \ {p}
    /\ UNCHANGED <<serverConn, allocVars, loopVars, msgVars, playerConn, playerTask,
                   itemVars>>

\* The receiver of player events goes with the loop.
LoopEnds ==
    /\ loopPc = "select" /\ serverConn = "closed"
    /\ EnterHandler("ended", None, None)
    /\ playerEvents' = {}
    /\ UNCHANGED <<serverConn, allocVars, msgVars, playerConn, playerConns,
                   playerTask, itemVars>>

\* Mutant: the endpoint is dropped without being closed.
DropProxyLeavingEndpoint ==
    /\ loopPc = "ended"
    /\ EnterHandler("dropped", None, None)
    /\ msgTask' = "ended" /\ outbox' = <<>>
    /\ playerConns' = {}
    /\ UNCHANGED <<serverConn, allocVars, received, playerConn, playerTask,
                   playerEvents, itemVars>>

\* ProxyServer::drop, once ManagementServer and the HTTP handlers have let go:
\* closing the endpoint closes the connection of every player.
DropProxy ==
    /\ loopPc = "ended"
    /\ EnterHandler("dropped", None, None)
    /\ msgTask' = "ended" /\ outbox' = <<>>
    /\ playerConns' = {}
    /\ endpoint' = IF endpoint = "bound" THEN "closed" ELSE endpoint
    /\ playerConn' = [p \in Players |->
                         IF playerConn[p] = "none" THEN "none" ELSE "closed"]
    /\ UNCHANGED <<serverConn, requests, sentRequests, received, playerTask,
                   playerEvents, itemVars>>

-----------------------------------------------------------------------------
(* Players and their tasks.                                                *)

ConnectPlayer(p) ==
    /\ endpoint = "bound" /\ playerConn[p] = "none"
    /\ playerConn' = [playerConn EXCEPT ![p] = "connecting"]
    /\ UNCHANGED <<serverConn, allocVars, loopVars, msgVars, playerConns, playerTask,
                   playerEvents, itemVars>>

ClosePlayer(p) ==
    /\ playerConn[p] = "open"
    /\ playerConn' = [playerConn EXCEPT ![p] = "closed"]
    /\ UNCHANGED <<serverConn, allocVars, loopVars, msgVars, playerConns, playerTask,
                   playerEvents, itemVars>>

\* The player's application is done with a stream, which gives its credit back.
ReleaseStream(s) ==
    /\ itemPc[s] = "copying"
    /\ itemPc' = [itemPc EXCEPT ![s] = "ended"]
    /\ UNCHANGED <<serverConn, allocVars, loopVars, msgVars, playerVars, itemTo>>

SetPlayerTask(p, pc) ==
    /\ playerTask' = [playerTask EXCEPT ![p] = pc]
    /\ UNCHANGED <<serverConn, allocVars, loopVars, msgVars, playerConn, playerConns,
                   itemVars>>

\* The player has opened a stream: its task opens one to the Ambient server and
\* waits until that allows it.  Streams that came before the connection closed are
\* still handed out after it.
ForwardStream(p) ==
    /\ playerTask[p] = "running" /\ playerConn[p] \in {"open", "closed"}
    /\ SetPlayerTask(p, "forwarding")
    /\ UNCHANGED playerEvents

StreamForwarded(p) ==
    /\ playerTask[p] = "forwarding" /\ serverConn = "open"
    /\ SetPlayerTask(p, "running")
    /\ UNCHANGED playerEvents

ForwardFails(p) ==
    /\ playerTask[p] = "forwarding" /\ serverConn = "closed"
    /\ SetPlayerTask(p, "running")
    /\ UNCHANGED playerEvents

ServerGone(p) ==
    /\ playerTask[p] = "running" /\ serverConn = "closed"
    /\ SetPlayerTask(p, "ended")
    /\ UNCHANGED playerEvents

\* Mutant: the end of the player's connection is handled like the server's.
PlayerGoneSilently(p) ==
    /\ playerTask[p] = "running" /\ playerConn[p] = "closed"
    /\ SetPlayerTask(p, "ended")
    /\ UNCHANGED playerEvents

PlayerGone(p) ==
    /\ playerTask[p] = "running" /\ playerConn[p] = "closed"
    /\ SetPlayerTask(p, "ended")
    /\ playerEvents' = IF loopPc \in {"ended", "dropped"} THEN playerEvents
                       ELSE playerEvents \cup {p}

-----------------------------------------------------------------------------
Environment ==
    \/ RequestAllocation \/ CloseServerConnection
    \/ \E p \in Players : \/ ConnectPlayer(p) \/ ClosePlayer(p)
                          \/ \E i \in Items : SendToPlayer(i, p)
    \/ \E s \in Streams : ReleaseStream(s)

MessageTask == DeliverMessage \/ MessageTaskEnds

\* The branches of the select.
Select == \/ HandleAllocate \/ LoopEnds
          \/ \E p \in Players : AcceptPlayer(p) \/ HandleDisconnected(p)
          \/ \E s \in Streams : HandleStream(s)
          \/ \E d \in Datagrams : HandleDatagram(d)

\* What a handler does after an await, or where another thread may step in.
Handler == \/ HandshakeSucceeds \/ HandshakeFails \/ AnnouncePlayer
           \/ SpawnPlayerTask \/ InsertPlayer
           \/ OpenPlayerStream \/ OpenPlayerStreamFails

PlayerTask(p) == \/ ForwardStream(p) \/ StreamForwarded(p) \/ ForwardFails(p)
                 \/ ServerGone(p) \/ PlayerGone(p)

Next == \/ Environment \/ MessageTask \/ Select \/ Handler \/ DropProxy
        \/ \E p \in Players : PlayerTask(p)

Spec == Init /\ [][Next]_vars

(* Every task runs when it can.  A select polls its branches in random order *)
(* and passes none over forever: weak fairness of a branch says less than    *)
(* that, and is enough as players and streams are finitely many.  Only the   *)
(* branches are listed that the properties need.  A handshake ends by its    *)
(* own timeout.  Nothing is assumed of the Ambient server or of players.     *)
(* That a player's task notices an end is strong fairness: it may be about to *)
(* forward one of the streams left, of which there are finitely many.        *)
Fairness ==
    /\ WF_vars(Handler) /\ WF_vars(LoopEnds) /\ WF_vars(DropProxy)
    /\ \A p \in Players : /\ WF_vars(AcceptPlayer(p))
                          /\ WF_vars(HandleDisconnected(p))
                          /\ SF_vars(ServerGone(p) \/ PlayerGone(p))
                          /\ WF_vars(ForwardFails(p))

FairSpec == Spec /\ Fairness

(* Peers that read their streams: they give credit for new ones in time.    *)
Cooperation ==
    /\ \A s \in Streams : WF_vars(ReleaseStream(s))
    /\ \A p \in Players : WF_vars(StreamForwarded(p))

CooperativeSpec == FairSpec /\ Cooperation

-----------------------------------------------------------------------------
(* Properties.                                                             *)

LoopRunning == loopPc \notin {"ended", "dropped"}

\* The value of every variable, and that a handler is about the player and the
\* stream it was entered for.
TypeOK ==
    /\ serverConn \in {"open", "closed"}
    /\ requests \in Nat /\ sentRequests \in 0..MaxRequests
    /\ requests <= sentRequests
    /\ endpoint \in {"none", "bound", "closed"}
    /\ loopPc \in {"select", "handshake", "announcing", "announced", "spawned",
                   "opening", "ended", "dropped"}
    /\ player \in Players \cup {None} /\ stream \in Streams \cup {None}
    /\ (player = None) = (loopPc \in {"select", "ended", "dropped"})
    /\ (stream = None) = (loopPc # "opening")
    /\ outbox \in Seq(Players \cup {Allocation})
    /\ received \in Seq(Players \cup {Allocation})
    /\ msgTask \in {"running", "ended"}
    /\ playerConn \in [Players -> {"none", "connecting", "open", "closed"}]
    /\ playerConns \subseteq Players
    /\ playerTask \in [Players -> {"none", "running", "forwarding", "ended"}]
    /\ playerEvents \subseteq Players
    /\ itemPc \in [Items -> {"unused", "pending", "opening", "copying", "ended"}]
    /\ itemTo \in [Items -> Players \cup {None}]

\* A stream or a datagram is refused with "Unknown player".
Rejected(i) ==
    /\ itemPc[i] = "pending" /\ itemPc'[i] = "ended"
    /\ itemTo[i] \notin playerConns

\* The Ambient server is told of a player before the player is listed, and may
\* answer at once with streams and datagrams: none of them is refused as long as
\* the player's connection is open.
ConnectedPlayerIsKnown ==
    [][\A i \in Items : Rejected(i) => playerConn[itemTo[i]] = "closed"]_vars

\* The Disconnected event of a player is neither lost nor handled before the
\* player is listed: whoever is listed without a task, or is about to be, has
\* its event queued, unless the allocation itself is coming to its end.
DisconnectNotLost ==
    \A p \in Players :
        /\ playerTask[p] = "ended" /\ serverConn = "open"
        /\ p \in playerConns \/ (loopPc = "spawned" /\ player = p)
        => p \in playerEvents

Sent == received \o outbox

\* The messages to the Ambient server: no player is announced twice, and there
\* is at most one Allocation, before any player.
AllocationThenPlayers ==
    /\ \A i, j \in DOMAIN Sent : Sent[i] = Sent[j] => i = j
    /\ \A i \in DOMAIN Sent : Sent[i] = Allocation => i = 1

\* A player whose connection has closed leaves player_conns, provided peers give
\* credit for streams.
DisconnectedPlayerForgotten ==
    \A p \in Players :
        p \in playerConns /\ playerConn[p] = "closed" ~> p \notin playerConns

\* Whoever tries to connect is listed or turned away, whatever happens to other
\* players and to the Ambient server meanwhile, provided peers give credit.
ConnectingPlayerSettled ==
    \A p \in Players :
        playerConn[p] = "connecting" ~> p \in playerConns \/ playerConn[p] = "closed"

\* When the Ambient server is gone, all its players are disconnected and their
\* tasks end.
ServerGonePlayersClosed ==
    serverConn = "closed" ~>
        \A p \in Players : /\ playerConn[p] \in {"none", "closed"}
                           /\ playerTask[p] \in {"none", "ended"}
=============================================================================
