------------------------------- MODULE Tunnel -------------------------------
(***************************************************************************)
(* The way of a stream from a player to the Ambient server's application:   *)
(* the task of its PlayerConnection in the proxy, the QUIC connection to    *)
(* the Ambient server, the loop of Client::start there, PendingResources,   *)
(* and the application that learns of a player by on_player_connected and   *)
(* reads its ProxiedConnection.  Messages and streams are not ordered with  *)
(* each other: a stream may come before the PlayerConnected of its player.  *)
(*                                                                         *)
(* handle_uni and handle_bi, accept_uni and accept_bi agree on everything    *)
(* modelled here; a stream of the model is of one kind.  How the proxy      *)
(* lists and announces a player is in ProxyServer, how a reader waits for   *)
(* its queue in PendingResources.                                          *)
(***************************************************************************)
EXTENDS Integers, Sequences, FiniteSets, Functions

CONSTANTS Players,     \* player connections
          Count,       \* bounds the streams that players open
          MaxStreams,  \* bounds the streams an Ambient server lets the proxy have open
          None         \* no stream, nobody

ASSUME TunnelAssumption ==
    /\ Count \in Nat /\ MaxStreams \in Nat \ {0}
    /\ None \notin Players \cup Nat

\* Streams are named by the order in which players open them.
Streams == 1..Count

VARIABLES
    streamLimit,  \* how many streams this Ambient server lets the proxy have open
    serverConn,   \* ambient_server_conn and the client's conn: "open", "closed"
    playerConn,   \* "none", "open", "closed"
    messages,     \* players whose PlayerConnected is on its way, oldest first
    sender,       \* sender[s]: the player that opened s
    offered,      \* offered[p]: streams of p its task has not accepted
    taskPc,       \* the task of p: "none", "select", "opening", "heading", "ended"
    carried,      \* the stream it is forwarding
    wire,         \* streams of the proxy the client has not accepted, by stream id
    header,       \* header[s]: the player id the proxy has written to s
    arrived,      \* streams whose header has arrived
    reading,      \* the stream whose header the client's loop awaits
    clientEnded,  \* the client's loop is over
    known,        \* players on_player_connected was called for
    pending,      \* pending[p]: the queue of p in PendingResources
    accepted,     \* accepted[p]: streams the application has got, in order
    released      \* streams the application is done with

serverVars == <<streamLimit, serverConn>>
playerVars == <<playerConn, sender, offered>>
taskVars == <<taskPc, carried>>
wireVars == <<wire, header, arrived>>
clientVars == <<reading, clientEnded, known, pending>>
appVars == <<accepted, released>>
vars == <<serverVars, messages, playerVars, taskVars, wireVars, clientVars, appVars>>

Init ==
    /\ streamLimit \in 1..MaxStreams
    /\ serverConn = "open" /\ messages = <<>>
    /\ playerConn = [p \in Players |-> "none"]
    /\ sender = [s \in Streams |-> None]
    /\ offered = [p \in Players |-> <<>>]
    /\ taskPc = [p \in Players |-> "none"]
    /\ carried = [p \in Players |-> None]
    /\ wire = <<>> /\ header = [s \in Streams |-> None] /\ arrived = {}
    /\ reading = None /\ clientEnded = FALSE /\ known = {}
    /\ pending = [p \in Players |-> <<>>]
    /\ accepted = [p \in Players |-> <<>>] /\ released = {}

-----------------------------------------------------------------------------
(* Players and connections.                                                *)

\* The proxy announces the player and spawns its task.
ConnectPlayer(p) ==
    /\ serverConn = "open" /\ playerConn[p] = "none"
    /\ playerConn' = [playerConn EXCEPT ![p] = "open"]
    /\ messages' = Append(messages, p)
    /\ taskPc' = [taskPc EXCEPT ![p] = "select"]
    /\ UNCHANGED <<serverVars, sender, offered, carried, wireVars, clientVars, appVars>>

OpenStream(p, s) ==
    /\ playerConn[p] = "open"
    /\ s \in Streams /\ sender[s] = None /\ \A t \in 1..(s - 1) : sender[t] # None
    /\ sender' = [sender EXCEPT ![s] = p]
    /\ offered' = [offered EXCEPT ![p] = Append(@, s)]
    /\ UNCHANGED <<serverVars, messages, playerConn, taskVars, wireVars, clientVars,
                   appVars>>

ClosePlayer(p) ==
    /\ playerConn[p] = "open"
    /\ playerConn' = [playerConn EXCEPT ![p] = "closed"]
    /\ UNCHANGED <<serverVars, messages, sender, offered, taskVars, wireVars,
                   clientVars, appVars>>

CloseServerConnection ==
    /\ serverConn = "open"
    /\ serverConn' = "closed"
    /\ UNCHANGED <<streamLimit, messages, playerVars, taskVars, wireVars, clientVars, appVars>>

-----------------------------------------------------------------------------
(* The task of a player.  What a connection has received can be accepted     *)
(* from it even after it closed, unless the select picks the closed branch. *)

SetTask(p, pc, s) ==
    /\ taskPc' = [taskPc EXCEPT ![p] = pc]
    /\ carried' = [carried EXCEPT ![p] = s]

AcceptFromPlayer(p) ==
    /\ taskPc[p] = "select" /\ offered[p] # <<>>
    /\ SetTask(p, "opening", Head(offered[p]))
    /\ offered' = [offered EXCEPT ![p] = Tail(@)]
    /\ UNCHANGED <<serverVars, messages, playerConn, sender, wireVars, clientVars,
                   appVars>>

Queued == UNION {Range(pending[p]) : p \in Players}
Taken == UNION {Range(accepted[p]) : p \in Players}
OnWire == Range(wire)

\* The streams that count against the Ambient server's limit, whoever's they are.
Outstanding == OnWire \cup ({reading} \cap Streams) \cup Queued \cup (Taken \ released)

\* open_uni waits until the Ambient server allows one more stream.
OpenServerStream(p) ==
    /\ taskPc[p] = "opening" /\ serverConn = "open"
    /\ Cardinality(Outstanding) < streamLimit
    /\ SetTask(p, "heading", carried[p])
    /\ wire' = Append(wire, carried[p])
    /\ UNCHANGED <<serverVars, messages, playerVars, header, arrived, clientVars, appVars>>

\* Mutant: the header goes out with the first data of the player, if any.
WriteNoHeader(p) ==
    /\ taskPc[p] = "heading" /\ serverConn = "open"
    /\ SetTask(p, "select", None)
    /\ UNCHANGED <<serverVars, messages, playerVars, wireVars, clientVars, appVars>>

\* Mutant: one header for all streams of the proxy.
WriteHeaderOfFirst(p) ==
    /\ taskPc[p] = "heading" /\ serverConn = "open"
    /\ header' = [header EXCEPT ![carried[p]] =
                     CHOOSE q \in Players : taskPc[q] # "none"]
    /\ SetTask(p, "select", None)
    /\ UNCHANGED <<serverVars, messages, playerVars, wire, arrived, clientVars, appVars>>

WriteHeader(p) ==
    /\ taskPc[p] = "heading" /\ serverConn = "open"
    /\ header' = [header EXCEPT ![carried[p]] = p]
    /\ SetTask(p, "select", None)
    /\ UNCHANGED <<serverVars, messages, playerVars, wire, arrived, clientVars, appVars>>

\* Mutant: an error in forwarding ends the task.
ForwardFailsForGood(p) ==
    /\ taskPc[p] \in {"opening", "heading"} /\ serverConn = "closed"
    /\ SetTask(p, "ended", carried[p])
    /\ UNCHANGED <<serverVars, messages, playerVars, wireVars, clientVars, appVars>>

\* open_uni or write_framed returns an error: the stream of the player is dropped.
ForwardFails(p) ==
    /\ taskPc[p] \in {"opening", "heading"} /\ serverConn = "closed"
    /\ SetTask(p, "select", None)
    /\ UNCHANGED <<serverVars, messages, playerVars, wireVars, clientVars, appVars>>

TaskEnds(p) ==
    /\ taskPc[p] = "select"
    /\ playerConn[p] = "closed" \/ serverConn = "closed"
    /\ SetTask(p, "ended", None)
    /\ offered' = [offered EXCEPT ![p] = <<>>]
    /\ UNCHANGED <<serverVars, messages, playerConn, sender, wireVars, clientVars, appVars>>

-----------------------------------------------------------------------------
(* The client's loop.                                                      *)

\* QUIC delivers the data of each stream in its own time.
HeaderArrives(s) ==
    /\ serverConn = "open"
    /\ header[s] # None /\ s \notin arrived
    /\ arrived' = arrived \cup {s}
    /\ UNCHANGED <<serverVars, messages, playerVars, taskVars, wire, header, clientVars,
                   appVars>>

InSelect == reading = None /\ ~clientEnded

HandlePlayerConnected ==
    /\ InSelect /\ messages # <<>>
    /\ known' = known \cup {Head(messages)}
    /\ messages' = Tail(messages)
    /\ UNCHANGED <<serverVars, playerVars, taskVars, wireVars, reading, clientEnded,
                   pending, appVars>>

\* A stream shows as soon as a part of its header has come, or anything of a
\* stream with a higher id.
Shows(i) == header[wire[i]] # None \/ \E p \in Players : taskPc[p] = "heading" /\ carried[p] = wire[i]

\* Mutant: the loop takes any stream whose header is there.
AcceptAnyStream ==
    /\ InSelect
    /\ \E i \in DOMAIN wire :
          /\ wire[i] \in arrived
          /\ reading' = wire[i]
          /\ wire' = SelectSeq(wire, LAMBDA s : s # wire[i])
    /\ UNCHANGED <<serverVars, messages, playerVars, taskVars, header, arrived,
                   clientEnded, known, pending, appVars>>

\* accept_uni yields streams by id; then the loop awaits the header.
AcceptStream ==
    /\ InSelect /\ \E i \in DOMAIN wire : Shows(i)
    /\ reading' = Head(wire)
    /\ wire' = Tail(wire)
    /\ UNCHANGED <<serverVars, messages, playerVars, taskVars, header, arrived,
                   clientEnded, known, pending, appVars>>

\* Mutant: a stream of a player the application has not been told of is dropped.
ReadHeaderOfKnown ==
    /\ reading \in arrived
    /\ pending' = [pending EXCEPT ![header[reading]] =
                      IF header[reading] \in known THEN Append(@, reading) ELSE @]
    /\ reading' = None
    /\ UNCHANGED <<serverVars, messages, playerVars, taskVars, wireVars, clientEnded,
                   known, appVars>>

\* The stream goes to the queue of the player its header names.
ReadHeader ==
    /\ reading \in arrived
    /\ pending' = [pending EXCEPT ![header[reading]] = Append(@, reading)]
    /\ reading' = None
    /\ UNCHANGED <<serverVars, messages, playerVars, taskVars, wireVars, clientEnded,
                   known, appVars>>

ReadHeaderFails ==
    /\ reading # None /\ reading \notin arrived /\ serverConn = "closed"
    /\ reading' = None
    /\ UNCHANGED <<serverVars, messages, playerVars, taskVars, wireVars, clientEnded,
                   known, pending, appVars>>

\* Dropped with the loop: messages, and streams not accepted.  The queues stay.
ClientEnds ==
    /\ InSelect /\ serverConn = "closed"
    /\ clientEnded' = TRUE
    /\ messages' = <<>> /\ wire' = <<>>
    /\ UNCHANGED <<serverVars, playerVars, taskVars, header, arrived, reading, known,
                   pending, appVars>>

-----------------------------------------------------------------------------
(* The application.                                                        *)

AcceptUni(p) ==
    /\ p \in known /\ pending[p] # <<>>
    /\ accepted' = [accepted EXCEPT ![p] = Append(@, Head(pending[p]))]
    /\ pending' = [pending EXCEPT ![p] = Tail(@)]
    /\ UNCHANGED <<serverVars, messages, playerVars, taskVars, wireVars, reading,
                   clientEnded, known, released>>

\* It has read a stream to its end, or dropped it: that gives its credit back.
ReleaseStream(s) ==
    /\ s \in Taken \ released
    /\ released' = released \cup {s}
    /\ UNCHANGED <<serverVars, messages, playerVars, taskVars, wireVars, clientVars,
                   accepted>>

-----------------------------------------------------------------------------
TaskStep(p) == \/ AcceptFromPlayer(p) \/ OpenServerStream(p) \/ WriteHeader(p)
               \/ ForwardFails(p)

ReadStep == ReadHeader \/ ReadHeaderFails

Environment == \/ CloseServerConnection
               \/ \E p \in Players : \/ ConnectPlayer(p) \/ ClosePlayer(p)
                                     \/ \E s \in Streams : OpenStream(p, s)
               \/ \E s \in Streams : HeaderArrives(s)

Client == HandlePlayerConnected \/ AcceptStream \/ ReadStep \/ ClientEnds

Application == \/ \E p \in Players : AcceptUni(p)
               \/ \E s \in Streams : ReleaseStream(s)

Next == \/ Environment \/ Client \/ Application
        \/ \E p \in Players : TaskStep(p) \/ TaskEnds(p)

Spec == Init /\ [][Next]_vars

(* Tasks that can run do, every branch of a select that stays ready is       *)
(* taken, and an open connection delivers what was written to it.  Nothing  *)
(* is assumed of players or of the application.                            *)
Fairness ==
    /\ \A p \in Players : WF_vars(TaskStep(p))
    /\ \A s \in Streams : WF_vars(HeaderArrives(s))
    /\ WF_vars(HandlePlayerConnected) /\ WF_vars(AcceptStream) /\ WF_vars(ReadStep)

FairSpec == Spec /\ Fairness

(* The application accepts what comes from the players it knows and is done  *)
(* with each stream in time.                                               *)
Cooperation ==
    /\ \A p \in Players : WF_vars(AcceptUni(p))
    /\ \A s \in Streams : WF_vars(ReleaseStream(s))

-----------------------------------------------------------------------------
(* Properties.                                                             *)

\* The value of every variable; a task and the client's loop hold a stream just
\* when they forward or read one.
TypeOK ==
    /\ streamLimit \in 1..MaxStreams
    /\ serverConn \in {"open", "closed"}
    /\ playerConn \in [Players -> {"none", "open", "closed"}]
    /\ messages \in Seq(Players)
    /\ sender \in [Streams -> Players \cup {None}]
    /\ offered \in [Players -> Seq(Streams)]
    /\ taskPc \in [Players -> {"none", "select", "opening", "heading", "ended"}]
    /\ carried \in [Players -> Streams \cup {None}]
    /\ \A p \in Players : (carried[p] # None) = (taskPc[p] \in {"opening", "heading"})
    /\ wire \in Seq(Streams)
    /\ header \in [Streams -> Players \cup {None}]
    /\ arrived \subseteq Streams /\ \A s \in arrived : header[s] # None
    /\ reading \in Streams \cup {None}
    /\ clientEnded \in BOOLEAN
    /\ known \subseteq Players
    /\ pending \in [Players -> Seq(Streams)]
    /\ accepted \in [Players -> Seq(Streams)]
    /\ released \subseteq Streams

SentBy(p, streams) == \A i \in DOMAIN streams : sender[streams[i]] = p

\* What the application gets from a ProxiedConnection are streams of that player,
\* although they share the connection, its ids and its credit with those of all
\* others, and the loop knows them by their headers only.
StreamsOfTheirPlayer == \A p \in Players : SentBy(p, accepted[p])

Link(p) == IF playerConn[p] = "none" THEN "new"
           ELSE IF playerConn[p] = "open" /\ serverConn = "open" THEN "up" ELSE "down"

\* The streams of p on their way: queued, between proxy and client, held by its
\* task, or not yet accepted from it.
Underway(p) ==
    Range(pending[p])
    \cup {s \in OnWire \cup {reading} : s # None /\ sender[s] = p}
    \cup (IF taskPc[p] = "opening" THEN {carried[p]} ELSE {})
    \cup Range(offered[p])

Service == INSTANCE TunnelService
    WITH link <- [p \in Players |-> Link(p)],
         underway <- [p \in Players |-> Underway(p)]

\* The streams of a player reach the application once each, in the order the
\* player opened them and through the connection of that player, whatever
\* overtakes what on the way; and none is lost between two open connections.
RefinesTunnelService == Service!Spec

\* The client's loop awaits the header of one stream at a time, and every other
\* stream, message and datagram waits meanwhile: the header always comes, or the
\* connection is over, even if no application and no player ever does anything.
HeaderNeverAwaitedForGood == reading # None ~> reading = None

\* A stream that a player opens is accepted by the application, unless one of the
\* connections closes, provided that the application accepts and finishes with the
\* streams of all players: they share one limit on open streams.
StreamReachesApplication ==
    Cooperation =>
        \A p \in Players, s \in Streams :
            sender[s] = p ~> s \in Taken \/ playerConn[p] = "closed" \/ serverConn = "closed"
=============================================================================
