-------------------------- MODULE ProxyServerProofs --------------------------
(***************************************************************************)
(* For any numbers of players, streams and datagrams: the type invariant   *)
(* of ProxyServer, and that neither the Disconnected event of a player nor *)
(* a stream to it is handled before the player is listed.                  *)
(***************************************************************************)
EXTENDS ProxyServer, SequenceTheorems, TLAPS

Messages == Players \cup {Allocation}

Has(s, m) == \E i \in DOMAIN s : s[i] = m

(* The Ambient server has been told of p, or will be.                      *)
Told(p) == Has(received, p) \/ Has(outbox, p)

(* p was announced and is not listed yet.                                  *)
BeingListed(p) == loopPc \in {"announced", "spawned"} /\ player = p

(* What the handler of the loop may rely on.                                *)
LoopInv ==
    /\ ~LoopRunning => serverConn = "closed"
    /\ loopPc = "handshake" => playerConn[player] = "connecting"
    /\ loopPc = "opening" => itemPc[stream] = "opening"

(* Whoever has been told of a player finds it listed, unless its connection *)
(* has closed, the loop is about to list it, or the loop is over.          *)
PlayerInv(p) ==
    /\ p \in playerEvents => playerConn[p] = "closed"
    /\ Told(p) => \/ p \in playerConns \/ playerConn[p] = "closed"
                  \/ BeingListed(p) \/ ~LoopRunning

(* Only a player the Ambient server knows is sent anything.                 *)
ItemInv(i) ==
    itemPc[i] # "unused" => itemTo[i] \in Players /\ Has(received, itemTo[i])

IInv == /\ TypeOK
        /\ LoopInv
        /\ \A p \in Players : PlayerInv(p)
        /\ \A i \in Items : ItemInv(i)
        /\ DisconnectNotLost

-----------------------------------------------------------------------------
(* What Append and Tail leave in a sequence.                               *)
LEMMA AppendHas ==
    ASSUME NEW s \in Seq(Messages), NEW m \in Messages, NEW x
    PROVE  /\ Append(s, m) \in Seq(Messages)
           /\ Has(Append(s, m), x) <=> Has(s, x) \/ x = m
<1>1. /\ Append(s, m) \in Seq(Messages)
      /\ Len(Append(s, m)) = Len(s) + 1
      /\ \A i \in 1..Len(s) : Append(s, m)[i] = s[i]
      /\ Append(s, m)[Len(s) + 1] = m
  BY AppendProperties
<1>2. DOMAIN Append(s, m) = 1..Len(s) + 1 /\ DOMAIN s = 1..Len(s) /\ Len(s) \in Nat
  BY <1>1, LenProperties
<1> QED
  BY <1>1, <1>2 DEF Has

LEMMA TailHas ==
    ASSUME NEW s \in Seq(Messages), s # <<>>, NEW x
    PROVE  /\ Tail(s) \in Seq(Messages) /\ Head(s) \in Messages
           /\ Has(s, Head(s))
           /\ Has(Tail(s), x) => Has(s, x)
<1>1. /\ Tail(s) \in Seq(Messages) /\ Len(Tail(s)) = Len(s) - 1
      /\ \A i \in 1..Len(Tail(s)) : Tail(s)[i] = s[i + 1]
      /\ Head(s) = s[1] /\ Head(s) \in Messages
  BY HeadTailProperties
<1>2. /\ DOMAIN Tail(s) = 1..Len(Tail(s)) /\ DOMAIN s = 1..Len(s)
      /\ Len(s) \in Nat /\ Len(s) > 0
  BY <1>1, LenProperties, EmptySeq
<1> QED
  BY <1>1, <1>2 DEF Has

LEMMA EmptyHas == ASSUME NEW x PROVE <<>> \in Seq(Messages) /\ ~Has(<<>>, x)
BY EmptySeq DEF Has

LEMMA InitIInv == Init => IInv
<1> SUFFICES ASSUME Init PROVE IInv
  OBVIOUS
<1>1. outbox \in Seq(Messages) /\ received \in Seq(Messages)
  BY EmptyHas DEF Init
<1>2. TypeOK
  BY <1>1, ProxyServerAssumption DEF ProxyServerAssumption, Init, TypeOK, Messages
<1>3. \A p \in Players : PlayerInv(p)
  BY EmptyHas DEF Init, PlayerInv, Told
<1>4. LoopInv /\ DisconnectNotLost /\ \A i \in Items : ItemInv(i)
  BY DEF Init, LoopInv, LoopRunning, DisconnectNotLost, ItemInv
<1> QED
  BY <1>2, <1>3, <1>4 DEF IInv

-----------------------------------------------------------------------------
(* Steps that touch neither messages nor streams.                          *)
LEMMA LoopStep ==
    ASSUME IInv,
           \/ HandshakeSucceeds \/ HandshakeFails \/ SpawnPlayerTask \/ InsertPlayer
           \/ LoopEnds
           \/ \E p \in Players : AcceptPlayer(p) \/ HandleDisconnected(p)
    PROVE  IInv'
<1> USE ProxyServerAssumption
    DEF ProxyServerAssumption, IInv, TypeOK, LoopInv, LoopRunning, PlayerInv, Told,
        BeingListed, ItemInv, DisconnectNotLost, EnterHandler, LeaveHandler,
        allocVars, loopVars, msgVars, playerVars, itemVars
<1>1. CASE HandshakeSucceeds
  BY <1>1 DEF HandshakeSucceeds
<1>2. CASE HandshakeFails
  BY <1>2 DEF HandshakeFails
<1>3. CASE SpawnPlayerTask
  BY <1>3 DEF SpawnPlayerTask
<1>4. CASE InsertPlayer
  BY <1>4 DEF InsertPlayer
<1>5. CASE LoopEnds
  BY <1>5 DEF LoopEnds
<1>6. ASSUME NEW p \in Players, AcceptPlayer(p) PROVE IInv'
  BY <1>6 DEF AcceptPlayer
<1>7. ASSUME NEW p \in Players, HandleDisconnected(p) PROVE IInv'
  BY <1>7 DEF HandleDisconnected
<1> QED
  BY <1>1, <1>2, <1>3, <1>4, <1>5, <1>6, <1>7

(* Steps that put messages into the channel or take them out.              *)
LEMMA MessageStep ==
    ASSUME IInv,
           HandleAllocate \/ AnnouncePlayer \/ MessageTask \/ DropProxy
    PROVE  IInv'
<1>0. /\ outbox \in Seq(Messages) /\ received \in Seq(Messages)
      /\ Allocation \in Messages /\ Players \subseteq Messages
      /\ loopPc = "announcing" => player \in Players
  BY DEF IInv, TypeOK, Messages
<1>a. HandleAllocate =>
        /\ outbox' \in Seq(Messages)
        /\ \A p \in Players : Has(outbox', p) => Has(outbox, p)
  <2>1. \A p \in Players : Has(Append(outbox, Allocation), p) => Has(outbox, p)
    BY <1>0, AppendHas, ProxyServerAssumption DEF ProxyServerAssumption
  <2>2. Append(outbox, Allocation) \in Seq(Messages)
    BY <1>0, AppendHas
  <2>3. HandleAllocate => outbox' = Append(outbox, Allocation) \/ outbox' = outbox
    BY DEF HandleAllocate, Post
  <2> QED BY <1>0, <2>1, <2>2, <2>3
<1>b. AnnouncePlayer /\ msgTask = "running" =>
        /\ player \in Players /\ outbox' \in Seq(Messages)
        /\ \A p \in Players : Has(outbox', p) => Has(outbox, p) \/ p = player
  <2> SUFFICES ASSUME AnnouncePlayer, msgTask = "running"
               PROVE  /\ player \in Players /\ outbox' \in Seq(Messages)
                      /\ \A p \in Players : Has(outbox', p) => Has(outbox, p) \/ p = player
    OBVIOUS
  <2>1. player \in Players /\ player \in Messages /\ outbox' = Append(outbox, player)
    BY <1>0 DEF AnnouncePlayer
  <2> QED BY <1>0, <2>1, AppendHas
<1>c. DeliverMessage =>
        /\ outbox' \in Seq(Messages) /\ received' \in Seq(Messages)
        /\ \A p \in Players : /\ Has(received, p) => Has(received', p)
                              /\ Has(received', p) \/ Has(outbox', p) => Told(p)
  BY <1>0, AppendHas, TailHas DEF DeliverMessage, Told
<1>d. MessageTaskEnds \/ DropProxy =>
        outbox' \in Seq(Messages) /\ \A p \in Players : ~Has(outbox', p)
  BY EmptyHas DEF MessageTaskEnds, DropProxy
<1> USE ProxyServerAssumption
    DEF ProxyServerAssumption, IInv, TypeOK, LoopInv, LoopRunning, PlayerInv, Told,
        BeingListed, ItemInv, Messages, DisconnectNotLost, EnterHandler, LeaveHandler,
        allocVars, loopVars, msgVars, playerVars, itemVars
<1>1. CASE HandleAllocate
  <2>1. TypeOK' /\ LoopInv' /\ DisconnectNotLost'
    BY <1>1, <1>a DEF HandleAllocate
  <2>2. \A i \in Items : ItemInv(i)'
    BY <1>1, <1>a DEF HandleAllocate
  <2>3. \A p \in Players : PlayerInv(p)'
    BY <1>1, <1>a DEF HandleAllocate
  <2> QED BY <2>1, <2>2, <2>3
<1>2. CASE AnnouncePlayer
  <2>1. TypeOK' /\ LoopInv' /\ DisconnectNotLost'
    BY <1>2, <1>b DEF AnnouncePlayer
  <2>2. \A i \in Items : ItemInv(i)'
    BY <1>2, <1>b DEF AnnouncePlayer
  <2>3. \A p \in Players : PlayerInv(p)'
    BY <1>2, <1>b DEF AnnouncePlayer
  <2> QED BY <2>1, <2>2, <2>3
<1>3. CASE DeliverMessage
  <2>1. TypeOK' /\ LoopInv' /\ DisconnectNotLost'
    BY <1>3, <1>c DEF DeliverMessage
  <2>2. \A i \in Items : ItemInv(i)'
    BY <1>3, <1>c DEF DeliverMessage
  <2>3. \A p \in Players : PlayerInv(p)'
    BY <1>3, <1>c DEF DeliverMessage
  <2> QED BY <2>1, <2>2, <2>3
<1>4. CASE MessageTaskEnds
  <2>1. TypeOK' /\ LoopInv' /\ DisconnectNotLost'
    BY <1>4, <1>d DEF MessageTaskEnds
  <2>2. \A i \in Items : ItemInv(i)'
    BY <1>4, <1>d DEF MessageTaskEnds
  <2>3. \A p \in Players : PlayerInv(p)'
    BY <1>4, <1>d DEF MessageTaskEnds
  <2> QED BY <2>1, <2>2, <2>3
<1>5. CASE DropProxy
  <2>1. TypeOK' /\ LoopInv' /\ DisconnectNotLost'
    BY <1>5, <1>d DEF DropProxy
  <2>2. \A i \in Items : ItemInv(i)'
    BY <1>5, <1>d DEF DropProxy
  <2>3. \A p \in Players : PlayerInv(p)'
    BY <1>5, <1>d DEF DropProxy
  <2> QED BY <2>1, <2>2, <2>3
<1> QED
  BY <1>1, <1>2, <1>3, <1>4, <1>5 DEF MessageTask

(* Steps about streams and datagrams.                                      *)
LEMMA ItemStep ==
    ASSUME IInv,
           \/ OpenPlayerStream \/ OpenPlayerStreamFails
           \/ \E s \in Streams : HandleStream(s) \/ ReleaseStream(s)
           \/ \E d \in Datagrams : HandleDatagram(d)
           \/ \E p \in Players, i \in Items : SendToPlayer(i, p)
    PROVE  IInv'
<1> USE ProxyServerAssumption
    DEF ProxyServerAssumption, IInv, TypeOK, LoopInv, LoopRunning, PlayerInv, Told,
        BeingListed, ItemInv, DisconnectNotLost, EnterHandler, LeaveHandler,
        allocVars, loopVars, msgVars, playerVars, itemVars
<1>1. CASE OpenPlayerStream
  <2>1. TypeOK' /\ LoopInv' /\ DisconnectNotLost' /\ \A p \in Players : PlayerInv(p)'
    BY <1>1 DEF OpenPlayerStream, Items
  <2>2. \A i \in Items : ItemInv(i)'
    BY <1>1 DEF OpenPlayerStream, Items
  <2> QED BY <2>1, <2>2
<1>2. CASE OpenPlayerStreamFails
  <2>1. TypeOK' /\ LoopInv' /\ DisconnectNotLost' /\ \A p \in Players : PlayerInv(p)'
    BY <1>2 DEF OpenPlayerStreamFails, Items
  <2>2. \A i \in Items : ItemInv(i)'
    BY <1>2 DEF OpenPlayerStreamFails, Items
  <2> QED BY <2>1, <2>2
<1>3. ASSUME NEW s \in Streams, HandleStream(s) PROVE IInv'
  <2>1. TypeOK' /\ LoopInv' /\ DisconnectNotLost' /\ \A p \in Players : PlayerInv(p)'
    BY <1>3 DEF HandleStream, Items
  <2>2. \A i \in Items : ItemInv(i)'
    BY <1>3 DEF HandleStream, Items
  <2> QED BY <2>1, <2>2
<1>4. ASSUME NEW s \in Streams, ReleaseStream(s) PROVE IInv'
  <2>1. TypeOK' /\ LoopInv' /\ DisconnectNotLost' /\ \A p \in Players : PlayerInv(p)'
    BY <1>4 DEF ReleaseStream, Items
  <2>2. \A i \in Items : ItemInv(i)'
    BY <1>4 DEF ReleaseStream, Items
  <2> QED BY <2>1, <2>2
<1>5. ASSUME NEW d \in Datagrams, HandleDatagram(d) PROVE IInv'
  <2>1. TypeOK' /\ LoopInv' /\ DisconnectNotLost' /\ \A p \in Players : PlayerInv(p)'
    BY <1>5 DEF HandleDatagram, Items
  <2>2. \A i \in Items : ItemInv(i)'
    BY <1>5 DEF HandleDatagram, Items
  <2> QED BY <2>1, <2>2
<1>6. ASSUME NEW q \in Players, NEW j \in Items, SendToPlayer(j, q) PROVE IInv'
  <2>1. TypeOK' /\ LoopInv' /\ DisconnectNotLost' /\ \A p \in Players : PlayerInv(p)'
    BY <1>6 DEF SendToPlayer, Known, Has
  <2>2. \A i \in Items : ItemInv(i)'
    BY <1>6 DEF SendToPlayer, Known, Has
  <2> QED BY <2>1, <2>2
<1> QED
  BY <1>1, <1>2, <1>3, <1>4, <1>5, <1>6

(* Steps of players, of their tasks and of the Ambient server.             *)
LEMMA PeerStep ==
    ASSUME IInv,
           \/ RequestAllocation \/ CloseServerConnection
           \/ \E p \in Players : ConnectPlayer(p) \/ ClosePlayer(p) \/ PlayerTask(p)
    PROVE  IInv'
<1> USE ProxyServerAssumption
    DEF ProxyServerAssumption, IInv, TypeOK, LoopInv, LoopRunning, PlayerInv, Told,
        BeingListed, ItemInv, DisconnectNotLost, SetPlayerTask,
        allocVars, loopVars, msgVars, playerVars, itemVars
<1>1. CASE RequestAllocation
  BY <1>1 DEF RequestAllocation
<1>2. CASE CloseServerConnection
  BY <1>2 DEF CloseServerConnection
<1>3. ASSUME NEW p \in Players, ConnectPlayer(p) PROVE IInv'
  BY <1>3 DEF ConnectPlayer
<1>4. ASSUME NEW p \in Players, ClosePlayer(p) PROVE IInv'
  BY <1>4 DEF ClosePlayer
<1>5. ASSUME NEW p \in Players,
             ForwardStream(p) \/ StreamForwarded(p) \/ ForwardFails(p)
      PROVE  IInv'
  BY <1>5 DEF ForwardStream, StreamForwarded, ForwardFails
<1>6. ASSUME NEW p \in Players, ServerGone(p) PROVE IInv'
  BY <1>6 DEF ServerGone
<1>7. ASSUME NEW p \in Players, PlayerGone(p) PROVE IInv'
  BY <1>7 DEF PlayerGone
<1> QED
  BY <1>1, <1>2, <1>3, <1>4, <1>5, <1>6, <1>7 DEF PlayerTask

LEMMA NextIInv == IInv /\ [Next]_vars => IInv'
<1> SUFFICES ASSUME IInv, [Next]_vars PROVE IInv'
  OBVIOUS
<1>1. CASE UNCHANGED vars
  BY <1>1 DEF vars, IInv, TypeOK, LoopInv, LoopRunning, PlayerInv, Told, BeingListed,
      ItemInv, DisconnectNotLost, allocVars, loopVars, msgVars, playerVars, itemVars
<1> QED
  BY <1>1, LoopStep, MessageStep, ItemStep, PeerStep
  DEF Next, Environment, Select, Handler

LEMMA Invariance == Spec => []IInv
BY InitIInv, NextIInv, PTL DEF Spec

-----------------------------------------------------------------------------
(* The variables keep their types, and each handler of the loop is about    *)
(* the player or stream it was entered for (lines 461-545).                *)
THEOREM Typing == Spec => []TypeOK
BY Invariance, PTL DEF IInv

(* The Disconnected event of a player whose task ends before line 467 has   *)
(* listed it waits for the loop, which then finds it listed.               *)
THEOREM DisconnectedEvents == Spec => []DisconnectNotLost
BY Invariance, PTL DEF IInv

(* A rejected stream or datagram was for a player that had left, although   *)
(* players are announced (line 606) before they are listed (line 467).     *)
LEMMA RejectedStep ==
    ASSUME IInv, [Next]_vars, NEW i \in Items, Rejected(i)
    PROVE  playerConn[itemTo[i]] = "closed"
<1>1. itemPc[i] = "pending" /\ itemPc'[i] = "ended" /\ itemTo[i] \notin playerConns
  BY DEF Rejected
<1>2. loopPc = "select"
  <2>1. itemPc' # itemPc
    BY <1>1
  <2>2. \/ OpenPlayerStream \/ OpenPlayerStreamFails
        \/ \E s \in Streams : HandleStream(s) \/ ReleaseStream(s)
        \/ \E d \in Datagrams : HandleDatagram(d)
        \/ \E p \in Players, j \in Items : SendToPlayer(j, p)
    BY <2>1 DEF Next, Environment, RequestAllocation, CloseServerConnection,
        ConnectPlayer, ClosePlayer, MessageTask, DeliverMessage, MessageTaskEnds,
        Select, HandleAllocate, LoopEnds, AcceptPlayer, HandleDisconnected, Handler,
        HandshakeSucceeds, HandshakeFails, AnnouncePlayer, SpawnPlayerTask,
        InsertPlayer, DropProxy, PlayerTask, ForwardStream, StreamForwarded,
        ForwardFails, ServerGone, PlayerGone, SetPlayerTask, vars, itemVars
  <2> USE DEF IInv, TypeOK, LoopInv, Items
  <2>3. ~OpenPlayerStream /\ ~OpenPlayerStreamFails
    BY <1>1 DEF OpenPlayerStream, OpenPlayerStreamFails
  <2>4. \A s \in Streams : ~ReleaseStream(s)
    BY <1>1 DEF ReleaseStream
  <2>5. \A p \in Players, j \in Items : ~SendToPlayer(j, p)
    BY <1>1 DEF SendToPlayer
  <2> QED
    BY <2>2, <2>3, <2>4, <2>5 DEF HandleStream, HandleDatagram
<1> QED
  BY <1>1, <1>2 DEF IInv, ItemInv, PlayerInv, Told, BeingListed, LoopRunning

THEOREM AnnouncedPlayers == Spec => ConnectedPlayerIsKnown
<1>1. IInv /\ [Next]_vars =>
         [\A i \in Items : Rejected(i) => playerConn[itemTo[i]] = "closed"]_vars
  BY RejectedStep
<1> QED
  BY <1>1, Invariance, PTL DEF Spec, ConnectedPlayerIsKnown

-----------------------------------------------------------------------------
(* The order of messages.  It is stated of the two parts that a message     *)
(* passes through, so that no step needs to know their concatenation.       *)

Distinct(s) == \A i, j \in DOMAIN s : s[i] = s[j] => i = j

(* No message is in both; an Allocation has nothing before it.              *)
SentInOrder(got, out) ==
    /\ Distinct(got) /\ Distinct(out)
    /\ \A x : ~(Has(got, x) /\ Has(out, x))
    /\ \A i \in DOMAIN got : got[i] = Allocation => i = 1
    /\ \A i \in DOMAIN out : out[i] = Allocation => i = 1 /\ got = <<>>

(* A player that is still to be announced has not been told of.             *)
Unannounced(p) ==
    \/ playerConn[p] \in {"none", "connecting"}
    \/ loopPc = "announcing" /\ player = p

OrderInv ==
    /\ SentInOrder(received, outbox)
    /\ \A p \in Players : Unannounced(p) => ~Told(p)
    /\ loopPc = "announcing" => playerConn[player] \in {"open", "closed"}
    /\ endpoint = "none" => /\ received = <<>> /\ outbox = <<>>
                            /\ \A p \in Players : playerConn[p] = "none"

LEMMA AppendInOrder ==
    ASSUME NEW got \in Seq(Messages), NEW out \in Seq(Messages), NEW m \in Messages,
           SentInOrder(got, out), ~Has(got, m), ~Has(out, m),
           m = Allocation => got = <<>> /\ out = <<>>
    PROVE  SentInOrder(got, Append(out, m))
<1> DEFINE new == Append(out, m)
<1>1. /\ Len(new) = Len(out) + 1
      /\ \A i \in 1..Len(out) : new[i] = out[i]
      /\ new[Len(out) + 1] = m
  BY AppendProperties
<1>2. DOMAIN new = 1..Len(out) + 1 /\ DOMAIN out = 1..Len(out) /\ Len(out) \in Nat
  BY <1>1, LenProperties, AppendProperties
<1>3. Distinct(new)
  BY <1>1, <1>2 DEF SentInOrder, Distinct, Has
<1>4. \A x : ~(Has(got, x) /\ Has(new, x))
  BY AppendHas DEF SentInOrder
<1>5. ASSUME NEW i \in DOMAIN new, new[i] = Allocation PROVE i = 1 /\ got = <<>>
  <2>1. CASE i = Len(out) + 1
    <3>1. m = Allocation
      BY <1>1, <1>5, <2>1
    <3>2. Len(out) = 0 /\ got = <<>>
      BY <3>1, EmptySeq
    <3> QED
      BY <2>1, <3>2
  <2>2. CASE i # Len(out) + 1
    <3>1. i \in DOMAIN out /\ out[i] = Allocation
      BY <1>1, <1>2, <1>5, <2>2
    <3> QED
      BY <3>1 DEF SentInOrder
  <2> QED
    BY <2>1, <2>2
<1> QED
  BY <1>3, <1>4, <1>5 DEF SentInOrder

LEMMA DeliverInOrder ==
    ASSUME NEW got \in Seq(Messages), NEW out \in Seq(Messages), out # <<>>,
           SentInOrder(got, out)
    PROVE  SentInOrder(got, Tail(out)) /\ SentInOrder(Append(got, Head(out)), Tail(out))
<1> DEFINE rest == Tail(out)
           more == Append(got, Head(out))
<1>1. /\ rest \in Seq(Messages) /\ Len(rest) = Len(out) - 1
      /\ \A i \in 1..Len(rest) : rest[i] = out[i + 1]
      /\ Head(out) = out[1] /\ Head(out) \in Messages
  BY HeadTailProperties
<1>2. /\ DOMAIN rest = 1..Len(rest) /\ DOMAIN out = 1..Len(out)
      /\ Len(out) \in Nat /\ Len(out) > 0
  BY <1>1, LenProperties, EmptySeq
<1>3. \A i \in DOMAIN rest : i + 1 \in DOMAIN out /\ rest[i] = out[i + 1] /\ i \in Nat \ {0}
  BY <1>1, <1>2
<1>4. 1 \in DOMAIN out
  BY <1>2
<1>5. Distinct(rest)
  BY <1>3 DEF SentInOrder, Distinct
<1>6. \A i \in DOMAIN rest : rest[i] # Allocation /\ rest[i] # Head(out)
  <2>1. \A i \in DOMAIN rest : i + 1 # 1
    BY <1>3
  <2> QED
    BY <1>1, <1>3, <1>4, <2>1 DEF SentInOrder, Distinct
<1>7. \A x : ~(Has(got, x) /\ Has(rest, x))
  BY TailHas DEF SentInOrder
<1>8. SentInOrder(got, rest)
  BY <1>5, <1>6, <1>7 DEF SentInOrder
<1>9. /\ Len(more) = Len(got) + 1
      /\ \A i \in 1..Len(got) : more[i] = got[i]
      /\ more[Len(got) + 1] = Head(out)
  BY <1>1, AppendProperties
<1>10. DOMAIN more = 1..Len(got) + 1 /\ DOMAIN got = 1..Len(got) /\ Len(got) \in Nat
  BY <1>1, <1>9, LenProperties, AppendProperties
<1>11. ~Has(got, Head(out))
  BY TailHas DEF SentInOrder
<1>12. Distinct(more)
  BY <1>9, <1>10, <1>11 DEF SentInOrder, Distinct, Has
<1>13. \A x : ~(Has(more, x) /\ Has(rest, x))
  <2>1. ASSUME NEW x, Has(more, x), Has(rest, x) PROVE FALSE
    <3>1. Has(got, x) \/ x = Head(out)
      BY <1>1, <2>1, AppendHas
    <3>2. ~Has(rest, Head(out))
      BY <1>6 DEF Has
    <3> QED
      BY <1>7, <2>1, <3>1, <3>2
  <2> QED
    BY <2>1
<1>14. Head(out) = Allocation => Len(got) = 0
  BY <1>1, <1>4, EmptySeq DEF SentInOrder
<1>15. \A i \in DOMAIN more : more[i] = Allocation => i = 1
  <2>1. ASSUME NEW i \in DOMAIN more, more[i] = Allocation PROVE i = 1
    <3>1. CASE i = Len(got) + 1
      BY <1>9, <1>14, <2>1, <3>1
    <3>2. CASE i # Len(got) + 1
      <4>1. i \in DOMAIN got /\ got[i] = Allocation
        BY <1>9, <1>10, <2>1, <3>2
      <4> QED
        BY <4>1 DEF SentInOrder
    <3> QED
      BY <3>1, <3>2
  <2> QED
    BY <2>1
<1>16. SentInOrder(more, rest)
  BY <1>5, <1>6, <1>12, <1>13, <1>15 DEF SentInOrder
<1> QED
  BY <1>8, <1>16

LEMMA NothingInOrder ==
    ASSUME NEW got, NEW out, SentInOrder(got, out)
    PROVE  SentInOrder(got, <<>>)
<1>1. DOMAIN << >> = {}
  BY EmptySeq
<1> QED
  BY <1>1, EmptyHas DEF SentInOrder, Distinct

(* What both parts say of their concatenation.                              *)
LEMMA OrderOfSent ==
    ASSUME received \in Seq(Messages), outbox \in Seq(Messages),
           SentInOrder(received, outbox)
    PROVE  AllocationThenPlayers
<1> DEFINE n == Len(received)
           Part(i) == IF i <= n THEN received[i] ELSE outbox[i - n]
<1>1. /\ n \in Nat /\ Len(outbox) \in Nat
      /\ DOMAIN received = 1..n /\ DOMAIN outbox = 1..Len(outbox)
  BY LenProperties
<1>2. DOMAIN Sent = 1..(n + Len(outbox)) /\ \A i \in DOMAIN Sent : Sent[i] = Part(i)
  BY ConcatProperties, LenProperties DEF Sent
<1>3. \A i \in DOMAIN Sent : /\ i \in Nat
                             /\ i <= n => i \in DOMAIN received
                             /\ ~(i <= n) => i - n \in DOMAIN outbox
  BY <1>1, <1>2
<1>4. ASSUME NEW i \in DOMAIN Sent, NEW j \in DOMAIN Sent, Sent[i] = Sent[j] PROVE i = j
  <2>1. CASE i <= n /\ j <= n
    BY <1>2, <1>3, <1>4, <2>1 DEF SentInOrder, Distinct
  <2>2. CASE ~(i <= n) /\ ~(j <= n)
    <3>1. outbox[i - n] = outbox[j - n]
      BY <1>2, <1>4, <2>2
    <3>2. i - n = j - n
      BY <1>3, <2>2, <3>1 DEF SentInOrder, Distinct
    <3> QED
      BY <1>1, <1>3, <3>2
  <2>3. CASE i <= n /\ ~(j <= n)
    BY <1>2, <1>3, <1>4, <2>3 DEF SentInOrder, Has
  <2>4. CASE ~(i <= n) /\ j <= n
    BY <1>2, <1>3, <1>4, <2>4 DEF SentInOrder, Has
  <2> QED
    BY <2>1, <2>2, <2>3, <2>4
<1>5. ASSUME NEW i \in DOMAIN Sent, Sent[i] = Allocation PROVE i = 1
  <2>1. CASE i <= n
    BY <1>2, <1>3, <1>5, <2>1 DEF SentInOrder
  <2>2. CASE ~(i <= n)
    <3>1. i - n = 1 /\ received = <<>>
      BY <1>2, <1>3, <1>5, <2>2 DEF SentInOrder
    <3>2. n = 0
      BY <3>1, EmptySeq
    <3> QED
      BY <1>3, <3>1, <3>2
  <2> QED
    BY <2>1, <2>2
<1> QED
  BY <1>4, <1>5 DEF AllocationThenPlayers

LEMMA InitOrder == Init => OrderInv
<1>1. DOMAIN << >> = {}
  BY EmptySeq
<1> QED
  BY <1>1, EmptyHas DEF Init, OrderInv, SentInOrder, Distinct, Unannounced, Told

(* Steps that say nothing to the Ambient server.                            *)
LEMMA QuietOrderStep ==
    ASSUME IInv, OrderInv,
           \/ UNCHANGED vars
           \/ LoopEnds \/ OpenPlayerStream \/ OpenPlayerStreamFails
           \/ HandshakeSucceeds \/ HandshakeFails \/ SpawnPlayerTask \/ InsertPlayer
           \/ RequestAllocation \/ CloseServerConnection
           \/ \E s \in Streams : HandleStream(s) \/ ReleaseStream(s)
           \/ \E d \in Datagrams : HandleDatagram(d)
           \/ \E p \in Players : \/ AcceptPlayer(p) \/ HandleDisconnected(p)
                                 \/ ConnectPlayer(p) \/ ClosePlayer(p) \/ PlayerTask(p)
                                 \/ \E i \in Items : SendToPlayer(i, p)
    PROVE  OrderInv'
<1>1. UNCHANGED msgVars
  BY DEF vars, LoopEnds, OpenPlayerStream, OpenPlayerStreamFails, HandshakeSucceeds,
     HandshakeFails, SpawnPlayerTask, InsertPlayer, RequestAllocation,
     CloseServerConnection, HandleStream, ReleaseStream, HandleDatagram, AcceptPlayer,
     HandleDisconnected, ConnectPlayer, ClosePlayer, PlayerTask, ForwardStream,
     StreamForwarded, ForwardFails, ServerGone, PlayerGone, SetPlayerTask, SendToPlayer
<1>2. /\ \A p \in Players : Unannounced(p)' => Unannounced(p)
      /\ (loopPc = "announcing" => playerConn[player] \in {"open", "closed"})'
      /\ endpoint' = endpoint /\ (endpoint = "none" => UNCHANGED playerConn)
  BY DEF IInv, TypeOK, LoopInv, OrderInv, Unannounced, EnterHandler, LeaveHandler,
     vars, allocVars, loopVars, playerVars, itemVars,
     LoopEnds, OpenPlayerStream, OpenPlayerStreamFails, HandshakeSucceeds,
     HandshakeFails, SpawnPlayerTask, InsertPlayer, RequestAllocation,
     CloseServerConnection, HandleStream, ReleaseStream, HandleDatagram, AcceptPlayer,
     HandleDisconnected, ConnectPlayer, ClosePlayer, PlayerTask, ForwardStream,
     StreamForwarded, ForwardFails, ServerGone, PlayerGone, SetPlayerTask, SendToPlayer
<1>3. SentInOrder(received, outbox)'
  BY <1>1 DEF OrderInv, msgVars
<1>4. (\A p \in Players : Unannounced(p) => ~Told(p))'
  BY <1>1, <1>2 DEF OrderInv, msgVars, Told
<1>5. (endpoint = "none" => /\ received = <<>> /\ outbox = <<>>
                            /\ \A p \in Players : playerConn[p] = "none")'
  BY <1>1, <1>2 DEF OrderInv, msgVars
<1> QED
  BY <1>2, <1>3, <1>4, <1>5 DEF OrderInv

LEMMA AllocateOrder == ASSUME IInv, OrderInv, HandleAllocate PROVE OrderInv'
<1>1. /\ received \in Seq(Messages) /\ outbox \in Seq(Messages) /\ Allocation \in Messages
      /\ Allocation \notin Players /\ UNCHANGED <<received, playerConn, loopPc, player>>
  BY ProxyServerAssumption DEF ProxyServerAssumption, IInv, TypeOK, Messages, HandleAllocate,
     playerVars, loopVars
<1>2. CASE outbox' = outbox
  BY <1>1, <1>2 DEF HandleAllocate, OrderInv, Unannounced, Told
<1>3. CASE outbox' # outbox
  <2>1. endpoint = "none" /\ endpoint' = "bound" /\ outbox' = Append(outbox, Allocation)
    BY <1>3 DEF HandleAllocate, Post
  <2>2. received = <<>> /\ outbox = <<>>
    BY <2>1 DEF OrderInv
  <2>3. SentInOrder(received', outbox')
    <3>1. SentInOrder(received, outbox) /\ ~Has(received, Allocation) /\ ~Has(outbox, Allocation)
      BY <2>2, EmptyHas DEF OrderInv
    <3> QED
      BY <1>1, <2>1, <2>2, <3>1, AppendInOrder
  <2>4. \A p \in Players : Told(p)' => Told(p)
    BY <1>1, <2>1, AppendHas DEF Told
  <2> QED
    BY <1>1, <2>1, <2>3, <2>4 DEF OrderInv, Unannounced
<1> QED
  BY <1>2, <1>3

LEMMA AnnounceOrder == ASSUME IInv, OrderInv, AnnouncePlayer PROVE OrderInv'
<1>1. /\ received \in Seq(Messages) /\ outbox \in Seq(Messages)
      /\ player \in Players /\ player \in Messages /\ player # Allocation
      /\ loopPc = "announcing" /\ UNCHANGED <<received, endpoint>>
      /\ playerConn \in [Players -> {"none", "connecting", "open", "closed"}]
  BY ProxyServerAssumption DEF ProxyServerAssumption, IInv, TypeOK, Messages, AnnouncePlayer,
     allocVars
<1>2. ~Told(player) /\ playerConn[player] # "none" /\ endpoint # "none"
  BY <1>1 DEF OrderInv, Unannounced
<1>4. CASE msgTask = "running"
  <2>1. /\ outbox' = Append(outbox, player) /\ UNCHANGED playerConn
        /\ loopPc' = "announced"
    BY <1>4 DEF AnnouncePlayer, EnterHandler
  <2>2. SentInOrder(received', outbox')
    BY <1>1, <1>2, <2>1, AppendInOrder DEF OrderInv, Told
  <2>3. \A p \in Players : Told(p)' => Told(p) \/ p = player
    BY <1>1, <2>1, AppendHas DEF Told
  <2>4. playerConn[player] \notin {"none", "connecting"}
    BY <1>1 DEF OrderInv
  <2> QED
    BY <1>1, <1>2, <2>1, <2>2, <2>3, <2>4 DEF OrderInv, Unannounced
<1>5. CASE msgTask # "running"
  BY <1>1, <1>2, <1>5 DEF AnnouncePlayer, EnterHandler, LeaveHandler, OrderInv, Unannounced, Told
<1> QED
  BY <1>4, <1>5

LEMMA DeliverOrder == ASSUME IInv, OrderInv, DeliverMessage PROVE OrderInv'
<1>1. received \in Seq(Messages) /\ outbox \in Seq(Messages) /\ outbox # <<>>
  BY DEF IInv, TypeOK, Messages, DeliverMessage
<1>2. /\ outbox' = Tail(outbox)
      /\ received' = received \/ received' = Append(received, Head(outbox))
      /\ UNCHANGED <<playerConn, loopPc, player, endpoint>>
  BY DEF DeliverMessage, allocVars, loopVars, playerVars
<1>3. SentInOrder(received', outbox')
  BY <1>1, <1>2, DeliverInOrder DEF OrderInv
<1>4. \A p \in Players : Told(p)' => Told(p)
  <2>1. Head(outbox) \in Messages /\ Has(outbox, Head(outbox))
    BY <1>1, TailHas
  <2>2. \A p : Has(Tail(outbox), p) => Has(outbox, p)
    BY <1>1, TailHas
  <2>3. \A p : Has(Append(received, Head(outbox)), p) => Has(received, p) \/ p = Head(outbox)
    BY <1>1, <2>1, AppendHas
  <2> QED
    BY <1>2, <2>1, <2>2, <2>3 DEF Told
<1> QED
  BY <1>1, <1>2, <1>3, <1>4 DEF OrderInv, Unannounced

LEMMA EndOrder == ASSUME IInv, OrderInv, MessageTaskEnds \/ DropProxy PROVE OrderInv'
<1>1. outbox' = <<>> /\ received' = received
  BY DEF MessageTaskEnds, DropProxy
<1>2. SentInOrder(received', outbox')
  BY <1>1, NothingInOrder DEF OrderInv
<1>3. \A p \in Players : Told(p)' => Told(p)
  BY <1>1, EmptyHas DEF Told
<1>4. /\ \A p \in Players : Unannounced(p)' => Unannounced(p)
      /\ loopPc' = "announcing" => loopPc = "announcing" /\ UNCHANGED <<player, playerConn>>
      /\ endpoint' = "none" => endpoint = "none"
      /\ \A p \in Players : playerConn[p] = "none" => playerConn'[p] = "none"
  BY DEF MessageTaskEnds, DropProxy, EnterHandler, Unannounced, loopVars, allocVars, playerVars
<1> QED
  BY <1>1, <1>2, <1>3, <1>4 DEF OrderInv

LEMMA NextOrder == IInv /\ OrderInv /\ [Next]_vars => OrderInv'
<1> SUFFICES ASSUME IInv, OrderInv, [Next]_vars PROVE OrderInv'
  OBVIOUS
<1>1. CASE HandleAllocate
  BY <1>1, AllocateOrder
<1>2. CASE AnnouncePlayer
  BY <1>2, AnnounceOrder
<1>3. CASE MessageTask \/ DropProxy
  BY <1>3, DeliverOrder, EndOrder DEF MessageTask
<1>4. CASE ~(HandleAllocate \/ AnnouncePlayer \/ MessageTask \/ DropProxy)
  <2>1. \/ UNCHANGED vars
        \/ LoopEnds \/ OpenPlayerStream \/ OpenPlayerStreamFails
        \/ HandshakeSucceeds \/ HandshakeFails \/ SpawnPlayerTask \/ InsertPlayer
        \/ RequestAllocation \/ CloseServerConnection
        \/ \E s \in Streams : HandleStream(s) \/ ReleaseStream(s)
        \/ \E d \in Datagrams : HandleDatagram(d)
        \/ \E p \in Players : \/ AcceptPlayer(p) \/ HandleDisconnected(p)
                              \/ ConnectPlayer(p) \/ ClosePlayer(p) \/ PlayerTask(p)
                              \/ \E i \in Items : SendToPlayer(i, p)
    BY <1>4 DEF Next, Environment, Select, Handler
  <2> QED
    BY <2>1, QuietOrderStep
<1> QED
  BY <1>1, <1>2, <1>3, <1>4

(* The Ambient server learns of its allocation before any player, and of     *)
(* each player once (lines 483 and 606, through the channel and the message *)
(* task): the endpoint that the first message tells of is what lets players *)
(* in, and a player is announced only by the handler that let it in.        *)
THEOREM MessageOrder == Spec => []AllocationThenPlayers
<1>1. IInv /\ OrderInv => AllocationThenPlayers
  BY OrderOfSent DEF IInv, TypeOK, OrderInv, Messages
<1> QED
  BY <1>1, InitOrder, NextOrder, Invariance, PTL DEF Spec
=============================================================================
