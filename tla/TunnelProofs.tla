---------------------------- MODULE TunnelProofs ----------------------------
(***************************************************************************)
(* For any players, streams and limit: the type invariant of Tunnel, that  *)
(* the application gets from a ProxiedConnection the streams of its player *)
(* only, and that Tunnel implements TunnelService.                         *)
(***************************************************************************)
EXTENDS Tunnel, SequenceTheorems, TLAPS

(* A stream is with the player that opened it wherever it is, and a header  *)
(* names no other.                                                         *)
OriginInv ==
    /\ \A p \in Players : /\ SentBy(p, offered[p])
                          /\ SentBy(p, pending[p])
                          /\ SentBy(p, accepted[p])
                          /\ carried[p] # None => sender[carried[p]] = p
    /\ \A s \in Streams : header[s] # None => sender[s] = header[s]

NoTaskBefore == \A p \in Players : playerConn[p] = "none" => taskPc[p] = "none"

IInv == TypeOK /\ OriginInv /\ NoTaskBefore

-----------------------------------------------------------------------------
LEMMA StreamsAreNoPlaceholders == None \notin Players /\ None \notin Streams
BY TunnelAssumption DEF TunnelAssumption, Streams

LEMMA InitIInv == Init => IInv
<1> SUFFICES ASSUME Init PROVE IInv
  OBVIOUS
<1>1. TypeOK
  <2>1. /\ playerConn \in [Players -> {"none", "open", "closed"}]
        /\ taskPc \in [Players -> {"none", "select", "opening", "heading", "ended"}]
        /\ \A p \in Players : (carried[p] # None) = (taskPc[p] \in {"opening", "heading"})
        /\ carried \in [Players -> Streams \cup {None}]
    BY DEF Init
  <2>2. /\ sender \in [Streams -> Players \cup {None}]
        /\ header \in [Streams -> Players \cup {None}]
        /\ reading \in Streams \cup {None}
    BY DEF Init
  <2>3. /\ <<>> \in Seq(Players) /\ <<>> \in Seq(Streams)
    OBVIOUS
  <2>4. /\ offered \in [Players -> Seq(Streams)]
        /\ pending \in [Players -> Seq(Streams)]
        /\ accepted \in [Players -> Seq(Streams)]
    BY <2>3, Zenon DEF Init
  <2>5. clientEnded \in BOOLEAN
    BY Zenon DEF Init
  <2> QED BY <2>1, <2>2, <2>3, <2>4, <2>5 DEF Init, TypeOK
<1>2. OriginInv
  BY StreamsAreNoPlaceholders DEF Init, OriginInv, SentBy
<1>3. NoTaskBefore
  BY DEF Init, NoTaskBefore
<1> QED BY <1>1, <1>2, <1>3 DEF IInv

(* What is taken from the front of a sequence, or put at its end, was sent  *)
(* by the same player as the rest.                                         *)
LEMMA SentByHead ==
    ASSUME NEW p \in Players, NEW q \in Seq(Streams), q # <<>>, SentBy(p, q)
    PROVE  /\ Head(q) \in Streams /\ sender[Head(q)] = p
           /\ Tail(q) \in Seq(Streams) /\ SentBy(p, Tail(q))
BY DEF SentBy

LEMMA SentByAppend ==
    ASSUME NEW p \in Players, NEW q \in Seq(Streams), NEW s \in Streams,
           SentBy(p, q), sender[s] = p
    PROVE  Append(q, s) \in Seq(Streams) /\ SentBy(p, Append(q, s))
BY DEF SentBy

-----------------------------------------------------------------------------
LEMMA TypeStep == IInv /\ [Next]_vars => TypeOK'
<1> SUFFICES ASSUME IInv, [Next]_vars PROVE TypeOK'
  OBVIOUS
<1> USE StreamsAreNoPlaceholders
    DEF IInv, TypeOK, serverVars, playerVars, taskVars, wireVars, clientVars, appVars
<1>1. ASSUME NEW p \in Players, ConnectPlayer(p) PROVE TypeOK'
  BY <1>1 DEF ConnectPlayer, NoTaskBefore
<1>2. ASSUME NEW p \in Players, NEW s \in Streams, OpenStream(p, s) PROVE TypeOK'
  <2>1. sender' \in [Streams -> Players \cup {None}]
    BY <1>2, Zenon DEF OpenStream
  <2>2. offered' \in [Players -> Seq(Streams)]
    <3>1. Append(offered[p], s) \in Seq(Streams)
      OBVIOUS
    <3> QED BY <1>2, <3>1, Zenon DEF OpenStream
  <2> QED BY <1>2, <2>1, <2>2 DEF OpenStream
<1>3. ASSUME NEW p \in Players, ClosePlayer(p) PROVE TypeOK'
  BY <1>3 DEF ClosePlayer
<1>4. CASE CloseServerConnection
  BY <1>4 DEF CloseServerConnection
<1>5. ASSUME NEW p \in Players, AcceptFromPlayer(p) PROVE TypeOK'
  BY <1>5, SentByHead DEF AcceptFromPlayer, SetTask, OriginInv
<1>6. ASSUME NEW p \in Players, OpenServerStream(p) PROVE TypeOK'
  BY <1>6 DEF OpenServerStream, SetTask
<1>7. ASSUME NEW p \in Players, WriteHeader(p) PROVE TypeOK'
  BY <1>7 DEF WriteHeader, SetTask
<1>8. ASSUME NEW p \in Players, ForwardFails(p) PROVE TypeOK'
  BY <1>8 DEF ForwardFails, SetTask
<1>9. ASSUME NEW p \in Players, TaskEnds(p) PROVE TypeOK'
  BY <1>9 DEF TaskEnds, SetTask
<1>10. ASSUME NEW s \in Streams, HeaderArrives(s) PROVE TypeOK'
  BY <1>10 DEF HeaderArrives
<1>11. CASE HandlePlayerConnected
  BY <1>11 DEF HandlePlayerConnected
<1>12. CASE AcceptStream
  BY <1>12 DEF AcceptStream
<1>13. CASE ReadHeader
  BY <1>13 DEF ReadHeader
<1>14. CASE ReadHeaderFails
  BY <1>14 DEF ReadHeaderFails
<1>15. CASE ClientEnds
  BY <1>15 DEF ClientEnds
<1>16. ASSUME NEW p \in Players, AcceptUni(p) PROVE TypeOK'
  BY <1>16, SentByHead DEF AcceptUni, OriginInv
<1>17. ASSUME NEW s \in Streams, ReleaseStream(s) PROVE TypeOK'
  BY <1>17 DEF ReleaseStream
<1>18. CASE UNCHANGED vars
  BY <1>18 DEF vars
<1> QED
  BY <1>1, <1>2, <1>3, <1>4, <1>5, <1>6, <1>7, <1>8, <1>9, <1>10, <1>11, <1>12,
     <1>13, <1>14, <1>15, <1>16, <1>17, <1>18
     DEF Next, Environment, Client, ReadStep, Application, TaskStep

(* Only OpenStream says who sent a stream, and only of one nobody had sent;  *)
(* WriteHeader writes the player whose task carries the stream; the other   *)
(* steps move a stream along.                                              *)
LEMMA OriginStep == IInv /\ [Next]_vars => OriginInv'
<1> SUFFICES ASSUME IInv, [Next]_vars PROVE OriginInv'
  OBVIOUS
<1> USE StreamsAreNoPlaceholders
    DEF IInv, TypeOK, OriginInv, serverVars, playerVars, taskVars, wireVars,
        clientVars, appVars
<1>1. ASSUME NEW p \in Players, NEW s \in Streams, OpenStream(p, s) PROVE OriginInv'
  <2>1. \A t \in Streams : sender[t] # None => sender'[t] = sender[t]
    BY <1>1 DEF OpenStream
  <2>2. \A q \in Players, seq \in Seq(Streams) : SentBy(q, seq) => SentBy(q, seq)'
    BY <2>1 DEF SentBy
  <2>3. \A q \in Players : SentBy(q, offered[q])'
    BY <1>1, <2>2 DEF OpenStream, SentBy
  <2> QED BY <1>1, <2>1, <2>2, <2>3 DEF OpenStream
<1>2. ASSUME NEW p \in Players, AcceptFromPlayer(p) PROVE OriginInv'
  BY <1>2, SentByHead DEF AcceptFromPlayer, SetTask, SentBy
<1>3. ASSUME NEW p \in Players, WriteHeader(p) PROVE OriginInv'
  BY <1>3 DEF WriteHeader, SetTask, SentBy
<1>4. ASSUME NEW p \in Players, OpenServerStream(p) \/ ForwardFails(p) \/ TaskEnds(p)
      PROVE OriginInv'
  <2>1. CASE OpenServerStream(p)
    BY <1>4, <2>1 DEF OpenServerStream, SetTask, SentBy
  <2>2. CASE ForwardFails(p)
    BY <1>4, <2>2 DEF ForwardFails, SetTask, SentBy
  <2>3. CASE TaskEnds(p)
    BY <1>4, <2>3 DEF TaskEnds, SetTask, SentBy
  <2> QED BY <1>4, <2>1, <2>2, <2>3
<1>5. CASE ReadHeader
  <2> DEFINE p == header[reading]
  <2>1. p \in Players /\ reading \in Streams /\ sender[reading] = p
    BY <1>5 DEF ReadHeader
  <2>2. Append(pending[p], reading) \in Seq(Streams) /\ SentBy(p, Append(pending[p], reading))
    BY <2>1, SentByAppend
  <2>3. \A q \in Players : SentBy(q, pending'[q])
    BY <1>5, <2>1, <2>2 DEF ReadHeader
  <2> QED BY <1>5, <2>3 DEF ReadHeader, SentBy
<1>6. ASSUME NEW p \in Players, AcceptUni(p) PROVE OriginInv'
  BY <1>6, SentByHead DEF AcceptUni, SentBy
<1>7. ASSUME NEW p \in Players, ConnectPlayer(p) \/ ClosePlayer(p) PROVE OriginInv'
  BY <1>7 DEF ConnectPlayer, ClosePlayer, SentBy
<1>8. ASSUME NEW s \in Streams, HeaderArrives(s) \/ ReleaseStream(s) PROVE OriginInv'
  BY <1>8 DEF HeaderArrives, ReleaseStream, SentBy
<1>9. CASE \/ CloseServerConnection \/ HandlePlayerConnected \/ AcceptStream
           \/ ReadHeaderFails \/ ClientEnds
  BY <1>9 DEF CloseServerConnection, HandlePlayerConnected, AcceptStream,
              ReadHeaderFails, ClientEnds, SentBy
<1>10. CASE UNCHANGED vars
  BY <1>10 DEF vars, SentBy
<1> QED
  BY <1>1, <1>2, <1>3, <1>4, <1>5, <1>6, <1>7, <1>8, <1>9, <1>10
     DEF Next, Environment, Client, ReadStep, Application, TaskStep

LEMMA TaskStartStep == IInv /\ [Next]_vars => NoTaskBefore'
BY DEF IInv, TypeOK, NoTaskBefore, Next, Environment, Client, ReadStep, Application,
       TaskStep, ConnectPlayer, OpenStream, ClosePlayer, CloseServerConnection,
       AcceptFromPlayer, OpenServerStream, WriteHeader, ForwardFails, TaskEnds,
       HeaderArrives, HandlePlayerConnected, AcceptStream, ReadHeader,
       ReadHeaderFails, ClientEnds, AcceptUni, ReleaseStream, SetTask, vars,
       serverVars, playerVars, taskVars, wireVars, clientVars, appVars

LEMMA Invariance == Spec => []IInv
<1>1. IInv /\ [Next]_vars => IInv'
  BY TypeStep, OriginStep, TaskStartStep DEF IInv
<1> QED
  BY InitIInv, <1>1, PTL DEF Spec

-----------------------------------------------------------------------------
(* The variables keep their types: the loop never reads a header that names *)
(* nobody (client.rs:366-371), a task carries a stream just while it        *)
(* forwards one (server.rs:926-937).                                       *)
THEOREM Typing == Spec => []TypeOK
BY Invariance, PTL DEF IInv

(* The streams that accept_uni and accept_bi return (client.rs:644-670) were *)
(* opened by the player of the ProxiedConnection.                          *)
THEOREM StreamOrigin == Spec => []StreamsOfTheirPlayer
<1>1. IInv => StreamsOfTheirPlayer
  BY DEF IInv, OriginInv, StreamsOfTheirPlayer
<1> QED
  BY <1>1, Invariance, PTL

-----------------------------------------------------------------------------
(* Where the streams of a player can be on their way, the furthest on first *)
(* after the queue.                                                        *)
Reading(p) == {s \in {reading} : s # None /\ sender[s] = p}
Wired(p) == {s \in OnWire : sender[s] = p}
Opening(p) == IF taskPc[p] = "opening" THEN {carried[p]} ELSE {}

Increasing(q) == \A i, j \in DOMAIN q : i < j => q[i] < q[j]
WireInOrder(p) ==
    \A i, j \in DOMAIN wire :
        i < j /\ sender[wire[i]] = p /\ sender[wire[j]] = p => wire[i] < wire[j]

Before(S, T) == \A s \in S, t \in T : s < t
InOrder(P, R, W, C, O) ==
    /\ Before(P, R) /\ Before(P, W) /\ Before(P, C) /\ Before(P, O)
    /\ Before(R, W) /\ Before(R, C) /\ Before(R, O)
    /\ Before(W, C) /\ Before(W, O)
    /\ Before(C, O)

(* The streams of a player keep their order from each place to the next,   *)
(* and so are in one place each.                                           *)
OrderInv(p) ==
    /\ Increasing(pending[p]) /\ WireInOrder(p) /\ Increasing(offered[p])
    /\ InOrder(Range(pending[p]), Reading(p), Wired(p), Opening(p), Range(offered[p]))

(* Streams are opened in the order of their names, by players that have     *)
(* been connected, and nothing is on its way that was not opened.          *)
SentInv ==
    /\ \A s, t \in Streams : t < s /\ sender[s] # None => sender[t] # None
    /\ \A s \in Streams : sender[s] # None => playerConn[sender[s]] # "none"
    /\ \A s \in OnWire : sender[s] # None
    /\ reading # None => sender[reading] # None

LEMMA StreamsAreNumbers == Streams \subseteq Int
BY TunnelAssumption DEF TunnelAssumption, Streams

(* The two ends of a sequence.                                             *)
LEMMA HeadAndTail ==
    ASSUME NEW q \in Seq(Streams), q # <<>>
    PROVE  /\ Head(q) \in Streams /\ Tail(q) \in Seq(Streams)
           /\ Range(q) = {Head(q)} \cup Range(Tail(q))
           /\ Increasing(q) => /\ Increasing(Tail(q))
                               /\ Before({Head(q)}, Range(Tail(q)))
<1>1. /\ Head(q) = q[1] /\ Head(q) \in Streams /\ Tail(q) \in Seq(Streams)
      /\ Len(q) \in Nat \ {0} /\ DOMAIN q = 1 .. Len(q)
      /\ Len(Tail(q)) = Len(q) - 1 /\ DOMAIN Tail(q) = 1 .. (Len(q) - 1)
      /\ \A i \in 1 .. (Len(q) - 1) : Tail(q)[i] = q[i + 1]
  OBVIOUS
<1>2. Range(q) = {Head(q)} \cup Range(Tail(q))
  <2>1. ASSUME NEW i \in 1 .. Len(q), i # 1
        PROVE  i - 1 \in DOMAIN Tail(q) /\ q[i] = Tail(q)[i - 1]
    BY <1>1, <2>1
  <2>2. Range(q) \subseteq {Head(q)} \cup Range(Tail(q))
    <3> SUFFICES ASSUME NEW i \in 1 .. Len(q), q[i] # Head(q)
                 PROVE  q[i] \in Range(Tail(q))
      BY <1>1 DEF Range
    <3>1. i # 1
      BY <1>1
    <3> QED BY <2>1, <3>1 DEF Range
  <2>3. \A i \in DOMAIN Tail(q) : Tail(q)[i] = q[i + 1] /\ i + 1 \in DOMAIN q
    BY <1>1
  <2>4. 1 \in DOMAIN q
    BY <1>1
  <2> QED BY <1>1, <2>2, <2>3, <2>4 DEF Range
<1>3. ASSUME Increasing(q) PROVE Increasing(Tail(q)) /\ Before({Head(q)}, Range(Tail(q)))
  BY <1>1, <1>3 DEF Increasing, Before, Range
<1> QED BY <1>1, <1>2, <1>3

LEMMA AtTheEnd ==
    ASSUME NEW q \in Seq(Streams), NEW s \in Streams
    PROVE  /\ Append(q, s) \in Seq(Streams)
           /\ Range(Append(q, s)) = Range(q) \cup {s}
           /\ Increasing(q) /\ Before(Range(q), {s}) => Increasing(Append(q, s))
<1>1. /\ Append(q, s) \in Seq(Streams)
      /\ Len(q) \in Nat /\ DOMAIN q = 1 .. Len(q)
      /\ DOMAIN Append(q, s) = 1 .. (Len(q) + 1)
      /\ \A i \in 1 .. Len(q) : Append(q, s)[i] = q[i]
      /\ Append(q, s)[Len(q) + 1] = s
  OBVIOUS
<1>2. Range(Append(q, s)) = Range(q) \cup {s}
  BY <1>1 DEF Range
<1>3. ASSUME Increasing(q), Before(Range(q), {s}) PROVE Increasing(Append(q, s))
  <2> SUFFICES ASSUME NEW i \in 1 .. (Len(q) + 1), NEW j \in 1 .. (Len(q) + 1), i < j
               PROVE  Append(q, s)[i] < Append(q, s)[j]
    BY <1>1 DEF Increasing
  <2>1. i \in 1 .. Len(q)
    BY <1>1
  <2>2. CASE j \in 1 .. Len(q)
    BY <1>1, <1>3, <2>1, <2>2 DEF Increasing
  <2>3. CASE j = Len(q) + 1
    BY <1>1, <1>3, <2>1, <2>3 DEF Before, Range
  <2> QED BY <1>1, <2>2, <2>3
<1> QED BY <1>1, <1>2, <1>3

(* The wire when a stream is put on it, and when the first one is taken.   *)
LEMMA WireAppended ==
    ASSUME IInv, NEW p \in Players, OpenServerStream(p)
    PROVE  /\ carried[p] \in Streams /\ sender[carried[p]] = p
           /\ wire' = Append(wire, carried[p])
           /\ OnWire' = OnWire \cup {carried[p]}
<1>1. /\ wire \in Seq(Streams) /\ carried[p] \in Streams
      /\ sender[carried[p]] = p
      /\ wire' = Append(wire, carried[p])
  BY DEF OpenServerStream, IInv, TypeOK, OriginInv
<1> QED BY <1>1, AtTheEnd DEF OnWire

LEMMA WireShortened ==
    ASSUME IInv, AcceptStream
    PROVE  /\ wire # <<>> /\ wire \in Seq(Streams)
           /\ reading = None /\ reading' = Head(wire) /\ wire' = Tail(wire)
           /\ reading' \in Streams
           /\ OnWire = {reading'} \cup OnWire'
<1>1. /\ wire # <<>> /\ wire \in Seq(Streams)
      /\ reading = None /\ reading' = Head(wire) /\ wire' = Tail(wire)
  BY DEF AcceptStream, InSelect, IInv, TypeOK
<1> QED BY <1>1, HeadAndTail DEF OnWire

LEMMA RangeInStreams == \A q \in Seq(Streams) : Range(q) \subseteq Streams
BY DEF Range

-----------------------------------------------------------------------------
LEMMA InitOrder == Init => SentInv /\ \A p \in Players : OrderInv(p)
<1> SUFFICES ASSUME Init PROVE SentInv /\ \A p \in Players : OrderInv(p)
  OBVIOUS
<1>1. Range(<<>>) = {} /\ Increasing(<<>>)
  BY DEF Range, Increasing
<1>2. \A p \in Players : /\ Range(pending[p]) = {} /\ Range(offered[p]) = {}
                         /\ Reading(p) = {} /\ Wired(p) = {} /\ Opening(p) = {}
                         /\ Increasing(pending[p]) /\ Increasing(offered[p])
                         /\ WireInOrder(p)
  BY <1>1 DEF Init, Reading, Wired, Opening, OnWire, WireInOrder
<1>3. SentInv
  BY <1>1 DEF Init, SentInv, OnWire
<1> QED BY <1>2, <1>3 DEF OrderInv, InOrder, Before

LEMMA SentStep == IInv /\ SentInv /\ [Next]_vars => SentInv'
<1> SUFFICES ASSUME IInv, SentInv, [Next]_vars PROVE SentInv'
  OBVIOUS
<1> USE StreamsAreNoPlaceholders
    DEF IInv, TypeOK, OriginInv, SentInv, serverVars, playerVars, taskVars,
        wireVars, clientVars, appVars
<1>1. ASSUME NEW p \in Players, NEW s \in Streams, OpenStream(p, s) PROVE SentInv'
  <2>1. \A t \in Streams : sender'[t] = IF t = s THEN p ELSE sender[t]
    BY <1>1 DEF OpenStream
  <2>2. \A t, u \in Streams : u < t /\ sender'[t] # None => sender'[u] # None
    BY <1>1, <2>1 DEF OpenStream, Streams
  <2>3. \A t \in Streams : sender'[t] # None => playerConn'[sender'[t]] # "none"
    BY <1>1, <2>1 DEF OpenStream
  <2>4. \A t \in OnWire : sender'[t] # None
    BY <2>1, RangeInStreams DEF OnWire
  <2> QED BY <1>1, <2>1, <2>2, <2>3, <2>4 DEF OpenStream, OnWire
<1>2. ASSUME NEW p \in Players, OpenServerStream(p) PROVE SentInv'
  <2>1. OnWire' = OnWire \cup {carried[p]} /\ sender[carried[p]] = p
    BY <1>2, WireAppended DEF IInv
  <2> QED BY <1>2, <2>1 DEF OpenServerStream
<1>3. CASE AcceptStream
  <2>1. OnWire = {reading'} \cup OnWire'
    BY <1>3, WireShortened DEF IInv
  <2> QED BY <1>3, <2>1 DEF AcceptStream
<1>4. CASE ClientEnds
  BY <1>4 DEF ClientEnds, OnWire, Range
<1>5. ASSUME NEW p \in Players, ConnectPlayer(p) \/ ClosePlayer(p) PROVE SentInv'
  BY <1>5 DEF ConnectPlayer, ClosePlayer, OnWire
<1>6. ASSUME NEW p \in Players, \/ AcceptFromPlayer(p) \/ WriteHeader(p) \/ ForwardFails(p)
                               \/ TaskEnds(p) \/ AcceptUni(p)
      PROVE SentInv'
  BY <1>6 DEF AcceptFromPlayer, WriteHeader, ForwardFails, TaskEnds, AcceptUni, OnWire
<1>7. ASSUME NEW s \in Streams, HeaderArrives(s) \/ ReleaseStream(s) PROVE SentInv'
  BY <1>7 DEF HeaderArrives, ReleaseStream, OnWire
<1>8. CASE \/ CloseServerConnection \/ HandlePlayerConnected \/ ReadHeader
           \/ ReadHeaderFails \/ UNCHANGED vars
  BY <1>8 DEF CloseServerConnection, HandlePlayerConnected, ReadHeader,
              ReadHeaderFails, vars, OnWire
<1> QED
  BY <1>1, <1>2, <1>3, <1>4, <1>5, <1>6, <1>7, <1>8
     DEF Next, Environment, Client, ReadStep, Application, TaskStep

-----------------------------------------------------------------------------
(* A step that leaves some streams of q behind and moves none.             *)
LEMMA OrderOfFewer ==
    ASSUME NEW q \in Players, OrderInv(q),
           Increasing(pending[q])', WireInOrder(q)', Increasing(offered[q])',
           Range(pending[q])' \subseteq Range(pending[q]),
           Reading(q)' \subseteq Reading(q), Wired(q)' \subseteq Wired(q),
           Opening(q)' \subseteq Opening(q),
           Range(offered[q])' \subseteq Range(offered[q])
    PROVE  OrderInv(q)'
BY DEF OrderInv, InOrder, Before

LEMMA OpenStreamOrder ==
    ASSUME IInv, SentInv, NEW p \in Players, NEW s \in Streams, OpenStream(p, s),
           NEW q \in Players, OrderInv(q)
    PROVE  OrderInv(q)'
<1>1. /\ sender[s] = None /\ \A t \in Streams : sender'[t] = IF t = s THEN p ELSE sender[t]
      /\ offered'[p] = Append(offered[p], s)
      /\ q # p => offered'[q] = offered[q]
      /\ UNCHANGED <<pending, wire, reading, taskPc, carried>>
  BY DEF OpenStream, IInv, TypeOK, wireVars, clientVars, taskVars
<1>2. \A t \in Streams : sender[t] # None => t < s
  BY <1>1, StreamsAreNumbers DEF SentInv, Streams
<1>3. /\ \A t \in Range(pending[q]) : t \in Streams /\ sender[t] = q
      /\ \A t \in Range(offered[q]) : t \in Streams /\ sender[t] = q
      /\ \A t \in Reading(q) \cup Wired(q) \cup Opening(q) : t \in Streams /\ sender[t] = q
  BY StreamsAreNoPlaceholders, RangeInStreams
  DEF IInv, TypeOK, OriginInv, SentBy, Range, Reading, Wired, Opening, OnWire
<1>4. q # None /\ p # None
  BY StreamsAreNoPlaceholders
<1>5. \A t \in OnWire : t \in Streams /\ sender[t] # None /\ t # s
  BY <1>1, RangeInStreams DEF SentInv, IInv, TypeOK, OnWire
<1>6. reading # None => reading \in Streams /\ reading # s
  BY <1>1 DEF SentInv, IInv, TypeOK
<1>7. /\ Reading(q)' = Reading(q) /\ Wired(q)' = Wired(q) /\ Opening(q)' = Opening(q)
      /\ pending'[q] = pending[q]
  BY <1>1, <1>5, <1>6 DEF Reading, Wired, Opening, OnWire
<1>8. WireInOrder(q)'
  <2>1. \A i \in DOMAIN wire : sender'[wire[i]] = sender[wire[i]]
    BY <1>1, <1>5 DEF OnWire, Range
  <2> QED BY <1>1, <2>1 DEF WireInOrder, OrderInv
<1>9. CASE q # p
  BY <1>1, <1>7, <1>8, <1>9 DEF OrderInv
<1>10. CASE q = p
  <2>1. Before(Range(offered[q]), {s})
    BY <1>2, <1>3, <1>4 DEF Before
  <2>2. offered[q] \in Seq(Streams)
    BY DEF IInv, TypeOK
  <2>3. /\ Increasing(offered'[q])
        /\ Range(offered'[q]) = Range(offered[q]) \cup {s}
    BY <1>1, <1>10, <2>1, <2>2, AtTheEnd DEF OrderInv
  <2>4. \A t \in Range(pending[q]) \cup Reading(q) \cup Wired(q) \cup Opening(q) : t < s
    BY <1>2, <1>3, <1>4
  <2>5. InOrder(Range(pending[q]), Reading(q), Wired(q), Opening(q), Range(offered[q]) \cup {s})
    BY <2>4 DEF OrderInv, InOrder, Before
  <2> QED BY <1>7, <1>8, <2>3, <2>5 DEF OrderInv
<1> QED BY <1>9, <1>10

LEMMA TaskStepOrder ==
    ASSUME IInv, NEW p \in Players, TaskStep(p) \/ TaskEnds(p),
           NEW q \in Players, OrderInv(q)
    PROVE  OrderInv(q)'
<1>1. UNCHANGED <<pending, reading, sender>>
  BY DEF TaskStep, TaskEnds, AcceptFromPlayer, OpenServerStream, WriteHeader,
         ForwardFails, playerVars, clientVars
<1>2. /\ Increasing(pending[q])' /\ Range(pending[q])' = Range(pending[q])
      /\ Reading(q)' = Reading(q)
  BY <1>1 DEF OrderInv, Reading
<1>3. ASSUME AcceptFromPlayer(p) PROVE OrderInv(q)'
  <2>1. /\ wire' = wire /\ Opening(p) = {}
        /\ Opening(p)' = {Head(offered[p])} /\ offered'[p] = Tail(offered[p])
        /\ offered[p] # <<>> /\ offered[p] \in Seq(Streams)
        /\ q # p => offered'[q] = offered[q] /\ Opening(q)' = Opening(q)
    BY <1>3 DEF AcceptFromPlayer, SetTask, IInv, TypeOK, Opening, wireVars
  <2>2. Wired(q)' = Wired(q) /\ WireInOrder(q)'
    BY <1>1, <2>1 DEF Wired, OnWire, WireInOrder, OrderInv
  <2>3. CASE q # p
    BY <1>2, <2>1, <2>2, <2>3, OrderOfFewer DEF OrderInv
  <2>4. CASE q = p
    <3>1. /\ Increasing(offered'[q])
          /\ Range(offered[q]) = Opening(q)' \cup Range(offered'[q])
          /\ Before(Opening(q)', Range(offered'[q]))
      BY <2>1, <2>4, HeadAndTail DEF OrderInv
    <3>2. InOrder(Range(pending[q]), Reading(q), Wired(q), Opening(q)', Range(offered'[q]))
      BY <3>1 DEF OrderInv, InOrder, Before
    <3> QED BY <1>2, <2>2, <3>1, <3>2 DEF OrderInv
  <2> QED BY <2>3, <2>4
<1>4. ASSUME OpenServerStream(p) PROVE OrderInv(q)'
  <2>1. /\ carried[p] \in Streams /\ sender[carried[p]] = p
        /\ wire' = Append(wire, carried[p])
        /\ OnWire' = OnWire \cup {carried[p]}
    BY <1>4, WireAppended
  <2>2. /\ offered' = offered
        /\ Opening(p) = {carried[p]} /\ Opening(p)' = {}
        /\ q # p => Opening(q)' = Opening(q)
    BY <1>4 DEF OpenServerStream, SetTask, IInv, TypeOK, Opening, playerVars
  <2>3. wire \in Seq(Streams)
    BY DEF IInv, TypeOK
  <2>4. CASE q # p
    <3>1. Wired(q)' = Wired(q)
      BY <1>1, <2>1, <2>4 DEF Wired
    <3>2. WireInOrder(q)'
      BY <1>1, <2>1, <2>3, <2>4 DEF WireInOrder, OrderInv
    <3> QED BY <1>2, <2>2, <2>4, <3>1, <3>2, OrderOfFewer DEF OrderInv
  <2>5. CASE q = p
    <3>1. Wired(q)' = Wired(q) \cup Opening(q)
      BY <1>1, <2>1, <2>2, <2>5 DEF Wired
    <3>2. \A i \in DOMAIN wire : sender[wire[i]] = q => wire[i] < carried[p]
      BY <2>2, <2>5 DEF OrderInv, InOrder, Before, Wired, OnWire, Range
    <3>3. WireInOrder(q)'
      BY <1>1, <2>1, <2>3, <3>2 DEF WireInOrder, OrderInv
    <3>4. InOrder(Range(pending[q]), Reading(q), Wired(q)', {}, Range(offered[q]))
      BY <3>1 DEF OrderInv, InOrder, Before
    <3> QED BY <1>2, <2>2, <2>5, <3>3, <3>4 DEF OrderInv
  <2> QED BY <2>4, <2>5
<1>5. ASSUME WriteHeader(p) \/ ForwardFails(p) \/ TaskEnds(p) PROVE OrderInv(q)'
  <2>1. wire' = wire /\ Opening(q)' \subseteq Opening(q)
    BY <1>5 DEF WriteHeader, ForwardFails, TaskEnds, SetTask, IInv, TypeOK, Opening,
                wireVars
  <2>2. offered'[q] = offered[q] \/ offered'[q] = <<>>
    BY <1>5 DEF WriteHeader, ForwardFails, TaskEnds, IInv, TypeOK, playerVars
  <2>3. Increasing(offered'[q]) /\ Range(offered'[q]) \subseteq Range(offered[q])
    BY <2>2 DEF OrderInv, Increasing, Range
  <2>4. Wired(q)' = Wired(q) /\ WireInOrder(q)'
    BY <1>1, <2>1 DEF Wired, OnWire, WireInOrder, OrderInv
  <2> QED BY <1>2, <2>1, <2>3, <2>4, OrderOfFewer
<1> QED BY <1>3, <1>4, <1>5 DEF TaskStep

LEMMA ClientOrder ==
    ASSUME IInv, SentInv, Client \/ \E p \in Players : AcceptUni(p),
           NEW q \in Players, OrderInv(q)
    PROVE  OrderInv(q)'
<1>1. UNCHANGED <<sender, taskPc, carried, offered>>
  BY DEF Client, HandlePlayerConnected, AcceptStream, ReadStep, ReadHeader,
         ReadHeaderFails, ClientEnds, AcceptUni, playerVars, taskVars
<1>2. /\ Opening(q)' = Opening(q) /\ Range(offered[q])' = Range(offered[q])
      /\ Increasing(offered[q])'
  BY <1>1 DEF Opening, OrderInv
<1>3. ASSUME AcceptStream PROVE OrderInv(q)'
  <2>1. /\ wire # <<>> /\ wire \in Seq(Streams)
        /\ reading = None /\ reading' = Head(wire) /\ wire' = Tail(wire)
        /\ reading' \in Streams /\ OnWire = {reading'} \cup OnWire'
    BY <1>3, WireShortened
  <2>2. pending' = pending
    BY <1>3 DEF AcceptStream
  <2>3. Wired(q) = Reading(q)' \cup Wired(q)'
    BY <1>1, <2>1, StreamsAreNoPlaceholders DEF Wired, Reading
  <2>4. Before(Reading(q)', Wired(q)')
    <3>1. \A i \in DOMAIN wire' : i + 1 \in DOMAIN wire /\ 1 < i + 1 /\ wire'[i] = wire[i + 1]
      BY <2>1
    <3>2. 1 \in DOMAIN wire /\ reading' = wire[1]
      BY <2>1
    <3> QED BY <1>1, <3>1, <3>2 DEF OrderInv, WireInOrder, Before, Reading, Wired, OnWire, Range
  <2>5. WireInOrder(q)'
    BY <1>1, <2>1 DEF OrderInv, WireInOrder
  <2>6. InOrder(Range(pending[q]), Reading(q)', Wired(q)', Opening(q), Range(offered[q]))
    BY <2>3, <2>4 DEF OrderInv, InOrder, Before
  <2> QED BY <1>2, <2>2, <2>5, <2>6 DEF OrderInv
<1>4. ASSUME ReadHeader PROVE OrderInv(q)'
  <2>1. /\ reading \in Streams /\ reading' = None /\ wire' = wire
        /\ header[reading] = sender[reading] /\ header[reading] \in Players
        /\ pending' = [pending EXCEPT ![header[reading]] = Append(@, reading)]
        /\ pending[q] \in Seq(Streams)
    BY <1>4 DEF ReadHeader, IInv, TypeOK, OriginInv, wireVars
  <2>2. Reading(q)' = {} /\ Wired(q)' = Wired(q) /\ WireInOrder(q)'
    BY <1>1, <2>1 DEF Reading, Wired, OnWire, WireInOrder, OrderInv
  <2>3. CASE q # sender[reading]
    <3>1. pending'[q] = pending[q]
      BY <2>1, <2>3 DEF IInv, TypeOK
    <3> QED BY <1>2, <2>2, <3>1, OrderOfFewer DEF OrderInv
  <2>4. CASE q = sender[reading]
    <3>1. Reading(q) = {reading} /\ pending'[q] = Append(pending[q], reading)
      BY <2>1, <2>4, StreamsAreNoPlaceholders DEF Reading, IInv, TypeOK
    <3>2. Increasing(pending'[q]) /\ Range(pending'[q]) = Range(pending[q]) \cup Reading(q)
      BY <2>1, <3>1, AtTheEnd DEF OrderInv, InOrder
    <3>3. InOrder(Range(pending'[q]), {}, Wired(q), Opening(q), Range(offered[q]))
      BY <3>2 DEF OrderInv, InOrder, Before
    <3> QED BY <1>2, <2>2, <3>2, <3>3 DEF OrderInv
  <2> QED BY <2>3, <2>4
<1>5. ASSUME ReadHeaderFails \/ ClientEnds \/ HandlePlayerConnected PROVE OrderInv(q)'
  <2>1. /\ pending' = pending /\ (wire' = wire \/ wire' = <<>>)
        /\ reading' = reading \/ reading' = None
    BY <1>5 DEF ReadHeaderFails, ClientEnds, HandlePlayerConnected, wireVars
  <2>2. Reading(q)' \subseteq Reading(q) /\ Wired(q)' \subseteq Wired(q) /\ WireInOrder(q)'
    BY <1>1, <2>1 DEF Reading, Wired, OnWire, Range, WireInOrder, OrderInv
  <2> QED BY <1>2, <2>1, <2>2, OrderOfFewer DEF OrderInv
<1>6. ASSUME NEW p \in Players, AcceptUni(p) PROVE OrderInv(q)'
  <2>1. /\ reading' = reading /\ wire' = wire /\ pending[p] \in Seq(Streams)
        /\ pending[p] # <<>> /\ pending'[p] = Tail(pending[p])
        /\ q # p => pending'[q] = pending[q]
    BY <1>6 DEF AcceptUni, IInv, TypeOK, wireVars
  <2>2. Reading(q)' = Reading(q) /\ Wired(q)' = Wired(q) /\ WireInOrder(q)'
    BY <1>1, <2>1 DEF Reading, Wired, OnWire, WireInOrder, OrderInv
  <2>3. Increasing(pending'[q]) /\ Range(pending'[q]) \subseteq Range(pending[q])
    BY <2>1, HeadAndTail DEF OrderInv
  <2> QED BY <1>2, <2>2, <2>3, OrderOfFewer
<1> QED BY <1>3, <1>4, <1>5, <1>6 DEF Client, ReadStep

LEMMA NextOrder ==
    ASSUME IInv, SentInv, [Next]_vars, NEW q \in Players, OrderInv(q)
    PROVE  OrderInv(q)'
<1>1. ASSUME UNCHANGED <<pending, reading, sender, wire, taskPc, carried, offered>>
      PROVE  OrderInv(q)'
  BY <1>1 DEF OrderInv, Reading, Wired, OnWire, Opening, WireInOrder
<1>2. ASSUME NEW p \in Players, ConnectPlayer(p) PROVE OrderInv(q)'
  <2>1. /\ UNCHANGED <<pending, reading, sender, wire, offered>>
        /\ Opening(q)' = Opening(q)
    BY <1>2 DEF ConnectPlayer, Opening, IInv, TypeOK, NoTaskBefore, wireVars, clientVars
  <2> QED BY <2>1 DEF OrderInv, Reading, Wired, OnWire, WireInOrder
<1>3. ASSUME NEW p \in Players, ClosePlayer(p) PROVE OrderInv(q)'
  BY <1>1, <1>3 DEF ClosePlayer, taskVars, wireVars, clientVars
<1>4. ASSUME NEW s \in Streams, HeaderArrives(s) \/ ReleaseStream(s) PROVE OrderInv(q)'
  BY <1>1, <1>4 DEF HeaderArrives, ReleaseStream, playerVars, taskVars, wireVars, clientVars
<1>5. CASE CloseServerConnection \/ UNCHANGED vars
  BY <1>1, <1>5 DEF CloseServerConnection, vars, playerVars, taskVars, wireVars, clientVars
<1> QED
  BY <1>2, <1>3, <1>4, <1>5, OpenStreamOrder, TaskStepOrder, ClientOrder
  DEF Next, Environment, Application

OrderedInv == IInv /\ SentInv /\ \A p \in Players : OrderInv(p)

LEMMA OrderInvariance == Spec => []OrderedInv
<1>1. IInv /\ [Next]_vars => IInv'
  BY TypeStep, OriginStep, TaskStartStep DEF IInv
<1>2. OrderedInv /\ [Next]_vars => OrderedInv'
  BY <1>1, SentStep, NextOrder DEF OrderedInv
<1>3. Init => OrderedInv
  BY InitIInv, InitOrder DEF OrderedInv
<1> QED
  BY <1>2, <1>3, PTL DEF Spec

-----------------------------------------------------------------------------
(* Every step of the tunnel is a step of the service it promises.          *)

LEMMA UnderwayParts ==
    ASSUME IInv, NEW p \in Players
    PROVE  /\ Underway(p) = Range(pending[p]) \cup Reading(p) \cup Wired(p)
                            \cup Opening(p) \cup Range(offered[p])
           /\ \A s \in Underway(p) : s \in Streams /\ sender[s] = p
<1>1. OnWire \subseteq Streams
  BY RangeInStreams DEF OnWire, IInv, TypeOK
<1>2. Underway(p) = Range(pending[p]) \cup Reading(p) \cup Wired(p)
                    \cup Opening(p) \cup Range(offered[p])
  BY <1>1, StreamsAreNoPlaceholders DEF Underway, Reading, Wired, Opening
<1>3. \A s \in Range(pending[p]) \cup Range(offered[p]) : s \in Streams /\ sender[s] = p
  BY DEF IInv, TypeOK, OriginInv, SentBy, Range
<1>4. \A s \in Reading(p) \cup Wired(p) \cup Opening(p) : s \in Streams /\ sender[s] = p
  BY <1>1 DEF IInv, TypeOK, OriginInv, Reading, Wired, Opening
<1> QED BY <1>2, <1>3, <1>4

LEMMA UnderwayPartsAfter ==
    ASSUME IInv', NEW p \in Players
    PROVE  Underway(p)' = Range(pending'[p]) \cup Reading(p)' \cup Wired(p)'
                          \cup Opening(p)' \cup Range(offered'[p])
<1>1. OnWire' \subseteq Streams
  BY RangeInStreams DEF OnWire, IInv, TypeOK
<1> QED
  BY <1>1, StreamsAreNoPlaceholders DEF Underway, Reading, Wired, Opening

LEMMA SameLinks ==
    ASSUME UNCHANGED <<playerConn, serverConn>>, NEW p \in Players
    PROVE  Link(p)' = Link(p)
BY DEF Link

LEMMA StutterRefines ==
    ASSUME UNCHANGED <<playerConn, serverConn, accepted>>,
           \A p \in Players : Underway(p)' = Underway(p)
    PROVE  UNCHANGED Service!vars
<1>1. [p \in Players |-> Underway(p)]' = [p \in Players |-> Underway(p)]
  OBVIOUS
<1>2. [p \in Players |-> Link(p)]' = [p \in Players |-> Link(p)]
  BY SameLinks
<1> QED BY <1>1, <1>2 DEF Service!vars

(* Streams that go while their player, or the Ambient server, is gone.     *)
LEMMA LossRefines ==
    ASSUME UNCHANGED <<playerConn, serverConn, accepted>>, NEW gone,
           \A p \in Players : /\ Underway(p) \subseteq Streams
                              /\ Underway(p)' = Underway(p) \ gone
                              /\ Underway(p) \cap gone # {} => Link(p) = "down"
    PROVE  Service!Next
<1> DEFINE kept == Streams \ gone
<1>1. [p \in Players |-> Underway(p)]'
      = [p \in Players |-> IF [q \in Players |-> Link(q)][p] = "down"
                           THEN [q \in Players |-> Underway(q)][p] \cap kept
                           ELSE [q \in Players |-> Underway(q)][p]]
  <2>1. \A p \in Players :
           Underway(p)' = IF Link(p) = "down" THEN Underway(p) \cap kept ELSE Underway(p)
    OBVIOUS
  <2> QED BY <2>1
<1>2. [p \in Players |-> Link(p)]' = [p \in Players |-> Link(p)]
  BY SameLinks
<1>3. Service!Lose(kept)
  BY <1>1, <1>2 DEF Service!Lose
<1> QED BY <1>3 DEF Service!Next

LEMMA OpenStreamRefines ==
    ASSUME OrderedInv, NEW p \in Players, NEW s \in Streams, OpenStream(p, s), IInv'
    PROVE  Service!Next
<1>1. /\ playerConn[p] = "open" /\ sender[s] = None
      /\ \A t \in Streams : sender'[t] = IF t = s THEN p ELSE sender[t]
      /\ offered'[p] = Append(offered[p], s) /\ offered[p] \in Seq(Streams)
      /\ \A q \in Players : q # p => offered'[q] = offered[q]
      /\ UNCHANGED <<pending, wire, reading, taskPc, carried, playerConn, serverConn,
                     accepted>>
  BY DEF OpenStream, OrderedInv, IInv, TypeOK, serverVars, wireVars, clientVars,
         taskVars, appVars
<1>2. \A t \in Streams : sender[t] # None => t < s
  BY <1>1, StreamsAreNumbers DEF OrderedInv, SentInv, Streams
<1>3. ASSUME NEW q \in Players, NEW t \in Underway(q) \cup Range(accepted[q])
      PROVE  t < s
  <2>1. t \in Streams /\ sender[t] = q
    <3>1. CASE t \in Underway(q)
      BY <3>1, UnderwayParts DEF OrderedInv
    <3>2. CASE t \in Range(accepted[q])
      BY <3>2 DEF OrderedInv, IInv, TypeOK, OriginInv, SentBy, Range
    <3> QED BY <3>1, <3>2
  <2> QED BY <1>2, <2>1, StreamsAreNoPlaceholders
<1>4. ASSUME NEW q \in Players
      PROVE  Underway(q)' = IF q = p THEN Underway(q) \cup {s} ELSE Underway(q)
  <2>1. /\ \A t \in OnWire : t \in Streams /\ t # s
        /\ reading # None => reading \in Streams /\ reading # s
    BY <1>1, RangeInStreams DEF OrderedInv, IInv, TypeOK, SentInv, OnWire
  <2>2. Reading(q)' = Reading(q) /\ Wired(q)' = Wired(q) /\ Opening(q)' = Opening(q)
    BY <1>1, <2>1 DEF Reading, Wired, Opening, OnWire
  <2>3. Range(offered'[q]) = IF q = p THEN Range(offered[q]) \cup {s} ELSE Range(offered[q])
    BY <1>1, AtTheEnd
  <2>4. Underway(q) = Range(pending[q]) \cup Reading(q) \cup Wired(q)
                      \cup Opening(q) \cup Range(offered[q])
    BY UnderwayParts DEF OrderedInv
  <2>5. Underway(q)' = Range(pending'[q]) \cup Reading(q)' \cup Wired(q)'
                       \cup Opening(q)' \cup Range(offered'[q])
    BY UnderwayPartsAfter
  <2> QED BY <1>1, <2>2, <2>3, <2>4, <2>5
<1>5. Service!Open(p, s)
  <2>1. [q \in Players |-> Underway(q)]'
        = [[q \in Players |-> Underway(q)] EXCEPT ![p] = @ \cup {s}]
    BY <1>4
  <2>2. [q \in Players |-> Link(q)]' = [q \in Players |-> Link(q)]
    BY <1>1, SameLinks
  <2>3. [q \in Players |-> Link(q)][p] # "new"
    BY <1>1 DEF Link
  <2>4. \A q \in Players : \A t \in [r \in Players |-> Underway(r)][q] \cup Range(accepted[q]) : t < s
    BY <1>3
  <2> QED BY <1>1, <2>1, <2>2, <2>3, <2>4 DEF Service!Open, Service!Range, Range
<1> QED BY <1>5 DEF Service!Next

LEMMA AcceptUniRefines ==
    ASSUME OrderedInv, NEW p \in Players, AcceptUni(p), IInv'
    PROVE  Service!Next
<1> DEFINE s == Head(pending[p])
<1>1. /\ pending[p] # <<>> /\ pending[p] \in Seq(Streams)
      /\ pending'[p] = Tail(pending[p])
      /\ \A q \in Players : q # p => pending'[q] = pending[q]
      /\ accepted' = [accepted EXCEPT ![p] = Append(@, s)]
      /\ UNCHANGED <<sender, offered, wire, reading, taskPc, carried, playerConn,
                     serverConn>>
  BY DEF AcceptUni, OrderedInv, IInv, TypeOK, serverVars, playerVars, wireVars, taskVars
<1>2. /\ s \in Streams
      /\ Range(pending[p]) = {s} \cup Range(pending'[p])
      /\ Before({s}, Range(pending'[p]))
  BY <1>1, HeadAndTail DEF OrderedInv, OrderInv
<1> HIDE DEF s
<1>3. \A q \in Players :
         /\ Underway(q) = Range(pending[q]) \cup Reading(q) \cup Wired(q)
                          \cup Opening(q) \cup Range(offered[q])
         /\ \A t \in Underway(q) : t \in Streams
  BY UnderwayParts DEF OrderedInv
<1>4. \A q \in Players :
         Underway(q)' = Range(pending'[q]) \cup Reading(q) \cup Wired(q)
                        \cup Opening(q) \cup Range(offered[q])
  <2>1. \A q \in Players : /\ Reading(q)' = Reading(q) /\ Wired(q)' = Wired(q)
                           /\ Opening(q)' = Opening(q)
    BY <1>1 DEF Reading, Wired, Opening, OnWire
  <2>2. \A q \in Players :
           Underway(q)' = Range(pending'[q]) \cup Reading(q)' \cup Wired(q)'
                          \cup Opening(q)' \cup Range(offered'[q])
    BY UnderwayPartsAfter
  <2> QED BY <1>1, <2>1, <2>2
<1>5. \A t \in Range(pending'[p]) \cup Reading(p) \cup Wired(p) \cup Opening(p)
                \cup Range(offered[p]) : s < t
  BY <1>2 DEF OrderedInv, OrderInv, InOrder, Before
<1>6. s \in Underway(p) /\ \A t \in Underway(p) : s <= t
  <2>1. \A t \in Underway(p) : t = s \/ s < t
    BY <1>2, <1>3, <1>5
  <2>2. \A t \in Underway(p) : t \in Int
    BY <1>3, StreamsAreNumbers
  <2>3. s \in Underway(p) /\ s \in Int
    BY <1>2, <1>3, StreamsAreNumbers
  <2> QED BY <2>1, <2>2, <2>3
<1>7. Underway(p)' = Underway(p) \ {s}
  <2>1. ~(s < s)
    BY <1>2, StreamsAreNumbers
  <2> QED BY <1>2, <1>3, <1>4, <1>5, <2>1
<1>8. \A q \in Players : q # p => Underway(q)' = Underway(q)
  BY <1>1, <1>3, <1>4
<1>9. Service!Accept(p, s)
  <2>1. [q \in Players |-> Underway(q)]'
        = [[q \in Players |-> Underway(q)] EXCEPT ![p] = @ \ {s}]
    BY <1>7, <1>8
  <2>2. [q \in Players |-> Link(q)]' = [q \in Players |-> Link(q)]
    BY <1>1, SameLinks
  <2>3. [q \in Players |-> Underway(q)][p] = Underway(p)
    OBVIOUS
  <2> QED BY <1>1, <1>6, <2>1, <2>2, <2>3 DEF Service!Accept
<1> QED BY <1>2, <1>9 DEF Service!Next

LEMMA TaskStepRefines ==
    ASSUME OrderedInv, NEW p \in Players, TaskStep(p) \/ TaskEnds(p), IInv'
    PROVE  [Service!Next]_(Service!vars)
<1>1. UNCHANGED <<pending, reading, sender, playerConn, serverConn, accepted>>
  BY DEF TaskStep, TaskEnds, AcceptFromPlayer, OpenServerStream, WriteHeader,
         ForwardFails, serverVars, playerVars, clientVars, appVars
<1>2. \A q \in Players : Reading(q)' = Reading(q)
  BY <1>1 DEF Reading
<1>3. \A q \in Players :
         /\ Underway(q) = Range(pending[q]) \cup Reading(q) \cup Wired(q)
                          \cup Opening(q) \cup Range(offered[q])
         /\ \A s \in Underway(q) : s \in Streams /\ sender[s] = q
  BY UnderwayParts DEF OrderedInv
<1>4. \A q \in Players :
         Underway(q)' = Range(pending[q]) \cup Reading(q) \cup Wired(q)'
                        \cup Opening(q)' \cup Range(offered'[q])
  BY <1>1, <1>2, UnderwayPartsAfter
<1>5. \A s \in Streams : ~(s < s)
  BY StreamsAreNumbers
<1>6. taskPc[p] # "none" => playerConn[p] # "none"
  BY DEF OrderedInv, IInv, NoTaskBefore
<1>7. OrderInv(p) /\ IInv
  BY DEF OrderedInv
<1>8. ASSUME AcceptFromPlayer(p) PROVE UNCHANGED Service!vars
  <2>1. /\ wire' = wire /\ Opening(p) = {}
        /\ Opening(p)' = {Head(offered[p])} /\ offered'[p] = Tail(offered[p])
        /\ offered[p] # <<>> /\ offered[p] \in Seq(Streams)
        /\ \A q \in Players : q # p => offered'[q] = offered[q] /\ Opening(q)' = Opening(q)
    BY <1>7, <1>8 DEF AcceptFromPlayer, SetTask, IInv, TypeOK, Opening, wireVars
  <2>2. Range(offered[p]) = Opening(p)' \cup Range(offered'[p])
    BY <2>1, HeadAndTail
  <2>3. \A q \in Players : Wired(q)' = Wired(q)
    BY <1>1, <2>1 DEF Wired, OnWire
  <2>4. Underway(p)' = Underway(p)
    <3>1. Opening(p) = {} /\ Wired(p)' = Wired(p)
      BY <2>1, <2>3
    <3> QED BY <1>3, <1>4, <2>2, <3>1
  <2>5. ASSUME NEW q \in Players, q # p PROVE Underway(q)' = Underway(q)
    <3>1. /\ Range(offered'[q]) = Range(offered[q])
          /\ Opening(q)' = Opening(q) /\ Wired(q)' = Wired(q)
      BY <2>1, <2>3, <2>5
    <3> QED BY <1>3, <1>4, <3>1
  <2> QED BY <1>1, <2>4, <2>5, StutterRefines
<1>9. ASSUME OpenServerStream(p) PROVE UNCHANGED Service!vars
  <2>1. carried[p] \in Streams /\ sender[carried[p]] = p /\ OnWire' = OnWire \cup {carried[p]}
    BY <1>7, <1>9, WireAppended
  <2>2. /\ offered' = offered
        /\ Opening(p) = {carried[p]} /\ Opening(p)' = {}
        /\ \A q \in Players : q # p => Opening(q)' = Opening(q)
    BY <1>7, <1>9 DEF OpenServerStream, SetTask, IInv, TypeOK, Opening, playerVars
  <2>3. \A q \in Players : Wired(q)' = IF q = p THEN Wired(q) \cup Opening(q) ELSE Wired(q)
    BY <1>1, <2>1, <2>2 DEF Wired
  <2>4. Underway(p)' = Underway(p)
    BY <1>3, <1>4, <2>2, <2>3
  <2>5. \A q \in Players : q # p => Underway(q)' = Underway(q)
    BY <1>3, <1>4, <2>2, <2>3
  <2> QED BY <1>1, <2>4, <2>5, StutterRefines
<1>10. ASSUME WriteHeader(p) PROVE UNCHANGED Service!vars
  <2>1. /\ wire' = wire /\ offered' = offered
        /\ \A q \in Players : Opening(q)' = Opening(q)
    BY <1>7, <1>10 DEF WriteHeader, SetTask, IInv, TypeOK, Opening, playerVars
  <2>2. \A q \in Players : Wired(q)' = Wired(q)
    BY <1>1, <2>1 DEF Wired, OnWire
  <2>3. \A q \in Players : Underway(q)' = Underway(q)
    BY <1>3, <1>4, <2>1, <2>2
  <2> QED BY <1>1, <2>3, StutterRefines
<1>11. ASSUME ForwardFails(p) PROVE Service!Next
  <2>1. /\ wire' = wire /\ offered' = offered /\ Opening(p)' = {}
        /\ \A q \in Players : q # p => Opening(q)' = Opening(q)
        /\ serverConn = "closed" /\ taskPc[p] # "none"
    BY <1>7, <1>11 DEF ForwardFails, SetTask, IInv, TypeOK, Opening, wireVars, playerVars
  <2>2. Link(p) = "down"
    BY <1>6, <2>1 DEF Link
  <2>3. \A q \in Players : Wired(q)' = Wired(q)
    BY <1>1, <2>1 DEF Wired, OnWire
  <2>4. Opening(p) \subseteq Underway(p)
    BY <1>3
  <2>5. \A q \in Players : q # p => Underway(q) \cap Opening(p) = {}
    BY <1>3, <2>4
  <2>6. (Range(pending[p]) \cup Reading(p) \cup Wired(p) \cup Range(offered[p]))
        \cap Opening(p) = {}
    BY <1>3, <1>5, <1>7 DEF OrderInv, InOrder, Before
  <2>7. \A q \in Players : Underway(q)' = Underway(q) \ Opening(p)
    BY <1>3, <1>4, <2>1, <2>3, <2>5, <2>6
  <2> QED BY <1>1, <1>3, <2>2, <2>5, <2>7, LossRefines
<1>12. ASSUME TaskEnds(p) PROVE Service!Next
  <2>1. /\ wire' = wire /\ offered'[p] = <<>> /\ Opening(p) = {} /\ Opening(p)' = {}
        /\ \A q \in Players : q # p => offered'[q] = offered[q] /\ Opening(q)' = Opening(q)
        /\ playerConn[p] = "closed" \/ serverConn = "closed"
        /\ taskPc[p] # "none"
    BY <1>7, <1>12 DEF TaskEnds, SetTask, IInv, TypeOK, Opening, wireVars
  <2>2. Link(p) = "down"
    BY <1>6, <2>1 DEF Link
  <2>3. \A q \in Players : Wired(q)' = Wired(q)
    BY <1>1, <2>1 DEF Wired, OnWire
  <2>4. Range(offered[p]) \subseteq Underway(p)
    BY <1>3
  <2>5. \A q \in Players : q # p => Underway(q) \cap Range(offered[p]) = {}
    BY <1>3, <2>4
  <2>6. (Range(pending[p]) \cup Reading(p) \cup Wired(p)) \cap Range(offered[p]) = {}
    BY <1>3, <1>5, <1>7 DEF OrderInv, InOrder, Before
  <2>7. Range(offered'[p]) = {}
    BY <2>1 DEF Range
  <2>8. \A q \in Players : Underway(q)' = Underway(q) \ Range(offered[p])
    BY <1>3, <1>4, <2>1, <2>3, <2>5, <2>6, <2>7
  <2> QED BY <1>1, <1>3, <2>2, <2>5, <2>8, LossRefines
<1> QED BY <1>8, <1>9, <1>10, <1>11, <1>12 DEF TaskStep

LEMMA ClientRefines ==
    ASSUME OrderedInv, Client, IInv'
    PROVE  [Service!Next]_(Service!vars)
<1>1. UNCHANGED <<sender, taskPc, carried, offered, playerConn, serverConn, accepted>>
  BY DEF Client, HandlePlayerConnected, AcceptStream, ReadStep, ReadHeader,
         ReadHeaderFails, ClientEnds, serverVars, playerVars, taskVars, appVars
<1>2. \A q \in Players : Opening(q)' = Opening(q)
  BY <1>1 DEF Opening
<1>3. \A q \in Players :
         /\ Underway(q) = Range(pending[q]) \cup Reading(q) \cup Wired(q)
                          \cup Opening(q) \cup Range(offered[q])
         /\ \A s \in Underway(q) : s \in Streams /\ sender[s] = q
  BY UnderwayParts DEF OrderedInv
<1>4. \A q \in Players :
         Underway(q)' = Range(pending'[q]) \cup Reading(q)' \cup Wired(q)'
                        \cup Opening(q) \cup Range(offered[q])
  BY <1>1, <1>2, UnderwayPartsAfter
<1>5. \A s \in Streams : ~(s < s)
  BY StreamsAreNumbers
<1>6. IInv /\ SentInv
  BY DEF OrderedInv
<1>7. CASE HandlePlayerConnected
  <2>1. UNCHANGED <<pending, reading, wire>>
    BY <1>7 DEF HandlePlayerConnected, wireVars
  <2>2. \A q \in Players : Reading(q)' = Reading(q) /\ Wired(q)' = Wired(q)
    BY <1>1, <2>1 DEF Reading, Wired, OnWire
  <2>3. \A q \in Players : Underway(q)' = Underway(q)
    <3>1. \A q \in Players : Range(pending'[q]) = Range(pending[q])
      BY <2>1
    <3> QED BY <1>3, <1>4, <2>2, <3>1
  <2> QED BY <1>1, <2>3, StutterRefines
<1>8. CASE AcceptStream
  <2>1. reading = None /\ reading' \in Streams /\ OnWire = {reading'} \cup OnWire'
    BY <1>6, <1>8, WireShortened
  <2>2. pending' = pending
    BY <1>8 DEF AcceptStream
  <2>3. \A q \in Players : Reading(q) \cup Wired(q) = Reading(q)' \cup Wired(q)'
    BY <1>1, <2>1, StreamsAreNoPlaceholders DEF Wired, Reading
  <2>4. \A q \in Players : Underway(q)' = Underway(q)
    BY <1>3, <1>4, <2>2, <2>3
  <2> QED BY <1>1, <2>4, StutterRefines
<1>9. CASE ReadHeader
  <2>0. PICK p \in Players : p = header[reading]
    BY <1>6, <1>9 DEF ReadHeader, IInv, TypeOK
  <2>1. /\ reading \in Streams /\ reading' = None /\ wire' = wire
        /\ p = sender[reading]
        /\ pending'[p] = Append(pending[p], reading) /\ pending[p] \in Seq(Streams)
        /\ \A q \in Players : q # p => pending'[q] = pending[q]
    BY <1>6, <1>9, <2>0 DEF ReadHeader, IInv, TypeOK, OriginInv, wireVars
  <2>2. Range(pending'[p]) = Range(pending[p]) \cup {reading}
    BY <2>1, AtTheEnd
  <2>3. \A q \in Players : /\ Reading(q) = IF q = p THEN {reading} ELSE {}
                           /\ Reading(q)' = {} /\ Wired(q)' = Wired(q)
    BY <1>1, <2>1, StreamsAreNoPlaceholders DEF Reading, Wired, OnWire
  <2>4. Underway(p)' = Underway(p)
    <3>1. /\ p \in Players /\ Range(pending'[p]) = Range(pending[p]) \cup Reading(p)
          /\ Reading(p)' = {} /\ Wired(p)' = Wired(p)
      BY <2>1, <2>2, <2>3
    <3> QED BY <1>3, <1>4, <3>1
  <2>5. ASSUME NEW q \in Players, q # p PROVE Underway(q)' = Underway(q)
    <3>1. Range(pending'[q]) = Range(pending[q]) /\ Reading(q) = {}
      BY <2>1, <2>3, <2>5
    <3> QED BY <1>3, <1>4, <2>3, <3>1
  <2>6. \A q \in Players : Underway(q)' = Underway(q)
    BY <2>4, <2>5
  <2> QED BY <1>1, <2>6, StutterRefines
<1>10. CASE ReadHeaderFails
  <2>0. PICK p \in Players : p = sender[reading]
    BY <1>6, <1>10 DEF ReadHeaderFails, IInv, TypeOK, SentInv
  <2>1. /\ reading \in Streams /\ reading' = None /\ serverConn = "closed"
        /\ wire' = wire /\ pending' = pending
        /\ playerConn[p] # "none"
    BY <1>6, <1>10, <2>0 DEF ReadHeaderFails, IInv, TypeOK, SentInv, wireVars
  <2>2. Link(p) = "down"
    BY <2>1 DEF Link
  <2>3. \A q \in Players : /\ Reading(q) = IF q = p THEN {reading} ELSE {}
                           /\ Reading(q)' = {} /\ Wired(q)' = Wired(q)
    BY <1>1, <2>0, <2>1, StreamsAreNoPlaceholders DEF Reading, Wired, OnWire
  <2>4. \A q \in Players : q # p => Underway(q) \cap {reading} = {}
    BY <1>3, <2>0
  <2>5. (Range(pending[p]) \cup Wired(p) \cup Opening(p) \cup Range(offered[p]))
        \cap {reading} = {}
    BY <1>5, <2>1, <2>3 DEF OrderedInv, OrderInv, InOrder, Before
  <2>6. \A q \in Players : Underway(q)' = Underway(q) \ {reading}
    BY <1>3, <1>4, <2>1, <2>3, <2>4, <2>5
  <2> QED BY <1>1, <1>3, <2>2, <2>4, <2>6, LossRefines
<1>11. CASE ClientEnds
  <2>1. wire' = <<>> /\ pending' = pending /\ reading = None /\ reading' = None
        /\ serverConn = "closed"
    BY <1>11 DEF ClientEnds, InSelect
  <2>2. OnWire \subseteq Streams /\ \A s \in OnWire : sender[s] # None
    BY <1>6, RangeInStreams DEF IInv, TypeOK, SentInv, OnWire
  <2>3. \A q \in Players : Reading(q) = {} /\ Reading(q)' = {} /\ Wired(q)' = {}
    BY <2>1 DEF Reading, Wired, OnWire, Range
  <2>4. \A q \in Players : Underway(q) \cap OnWire = Wired(q)
    BY <1>3 DEF Wired
  <2>5. \A q \in Players :
           (Range(pending[q]) \cup Opening(q) \cup Range(offered[q])) \cap Wired(q) = {}
    BY <1>3, <1>5 DEF OrderedInv, OrderInv, InOrder, Before
  <2>6. \A q \in Players : Underway(q)' = Underway(q) \ OnWire
    <3> SUFFICES ASSUME NEW q \in Players PROVE Underway(q)' = Underway(q) \ Wired(q)
      BY <2>4
    <3> QED BY <1>3, <1>4, <2>1, <2>3, <2>5
  <2>7. \A q \in Players : Underway(q) \cap OnWire # {} => Link(q) = "down"
    BY <1>6, <2>1, <2>2, <2>4 DEF SentInv, Wired, Link
  <2> QED BY <1>1, <1>3, <2>6, <2>7, LossRefines
<1> QED BY <1>7, <1>8, <1>9, <1>10, <1>11 DEF Client, ReadStep

LEMMA OtherStepRefines ==
    ASSUME OrderedInv,
           \/ CloseServerConnection
           \/ \E p \in Players : ConnectPlayer(p) \/ ClosePlayer(p)
           \/ \E s \in Streams : HeaderArrives(s) \/ ReleaseStream(s)
           \/ UNCHANGED vars
    PROVE  [Service!Next]_(Service!vars)
<1>1. UNCHANGED <<pending, reading, sender, wire, carried, offered, accepted>>
  BY DEF CloseServerConnection, ConnectPlayer, ClosePlayer, HeaderArrives,
         ReleaseStream, vars, playerVars, taskVars, wireVars, clientVars, appVars
<1>2. \A p \in Players : taskPc'[p] = "opening" <=> taskPc[p] = "opening"
  BY DEF CloseServerConnection, ConnectPlayer, ClosePlayer, HeaderArrives,
         ReleaseStream, vars, taskVars, OrderedInv, IInv, TypeOK, NoTaskBefore
<1>3. \A p \in Players : Underway(p)' = Underway(p)
  BY <1>1, <1>2 DEF Underway, OnWire
<1>4. [p \in Players |-> Underway(p)]' = [p \in Players |-> Underway(p)]
  BY <1>3
<1>5. CASE CloseServerConnection
  <2>1. [p \in Players |-> Link(p)]'
        = [p \in Players |-> IF p \in Players /\ [q \in Players |-> Link(q)][p] = "up"
                             THEN "down" ELSE [q \in Players |-> Link(q)][p]]
    BY <1>5 DEF CloseServerConnection, playerVars, Link
  <2>2. Service!Break(Players)
    BY <1>1, <1>4, <2>1 DEF Service!Break
  <2> QED BY <2>2 DEF Service!Next
<1>6. ASSUME NEW p \in Players, ClosePlayer(p) PROVE Service!Next
  <2>1. [r \in Players |-> Link(r)]'
        = [r \in Players |-> IF r \in {p} /\ [q \in Players |-> Link(q)][r] = "up"
                             THEN "down" ELSE [q \in Players |-> Link(q)][r]]
    BY <1>6 DEF ClosePlayer, serverVars, Link, OrderedInv, IInv, TypeOK
  <2>2. Service!Break({p})
    BY <1>1, <1>4, <2>1 DEF Service!Break
  <2> QED BY <2>2 DEF Service!Next
<1>7. ASSUME NEW p \in Players, ConnectPlayer(p) PROVE Service!Next
  <2>1. /\ [q \in Players |-> Link(q)][p] = "new"
        /\ [q \in Players |-> Link(q)]'
           = [[q \in Players |-> Link(q)] EXCEPT ![p] = "up"]
    BY <1>7 DEF ConnectPlayer, serverVars, Link, OrderedInv, IInv, TypeOK
  <2>2. Service!Connect(p)
    BY <1>1, <1>4, <2>1 DEF Service!Connect
  <2> QED BY <2>2 DEF Service!Next
<1>8. CASE UNCHANGED vars \/ \E s \in Streams : HeaderArrives(s) \/ ReleaseStream(s)
  <2>1. UNCHANGED <<playerConn, serverConn>>
    BY <1>8 DEF HeaderArrives, ReleaseStream, vars, playerVars, serverVars
  <2> QED BY <1>1, <1>3, <2>1, StutterRefines
<1> QED BY <1>5, <1>6, <1>7, <1>8

(* The streams of each player reach the application once each and in the    *)
(* order in which they were opened, and only a broken connection loses one, *)
(* whatever the numbers of players and streams and the limit on open ones  *)
(* (server.rs:904-956, client.rs:314-398, 644-670).                        *)
THEOREM Refinement == Spec => RefinesTunnelService
<1>1. Init => Service!Init
  <2> SUFFICES ASSUME Init PROVE Service!Init
    OBVIOUS
  <2>1. \A p \in Players : Underway(p) = {} /\ Link(p) = "new"
    BY DEF Init, Underway, OnWire, Range, Link
  <2> QED BY <2>1 DEF Init, Service!Init
<1>2. OrderedInv /\ OrderedInv' /\ [Next]_vars => [Service!Next]_(Service!vars)
  BY OpenStreamRefines, AcceptUniRefines, TaskStepRefines, ClientRefines,
     OtherStepRefines
  DEF OrderedInv, Next, Environment, Application
<1> QED
  BY <1>1, <1>2, OrderInvariance, PTL DEF Spec, RefinesTunnelService, Service!Spec
=============================================================================
