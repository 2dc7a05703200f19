----------------------- MODULE ManagementServerProofs -----------------------
(***************************************************************************)
(* For any number of Ambient servers and HTTP handlers: the type invariant *)
(* of ManagementServer, and that Stopped events, the list of proxies and   *)
(* the connections agree.                                                  *)
(***************************************************************************)
EXTENDS ManagementServer, FiniteSetTheorems, TLAPS

(* The proxy of s is listed or on its way into ProxyStore.                 *)
Created(s) == manager = "created" /\ current = s

Kept(s) == s \in proxies \/ Created(s)

Waiting(s) == startPc[s] \in {"check", "unstarted", "parked"}

Serving(s) == startPc[s] \in {"loop", "handling"}

(* What the state of the start task says of the connection, the event and  *)
(* the list.  A task that has not begun has left no trace, one that runs   *)
(* is kept and has sent nothing, one that has sent its event has lost its  *)
(* connection and is kept only while the event is queued.                  *)
ServerInv(s) ==
    /\ conn[s] \in {"none", "connecting"} => startPc[s] = "none"
    /\ startPc[s] = "none" =>
           conn[s] # "open" /\ s \notin stopped /\ ~Kept(s) /\ ~dropped[s]
    /\ Waiting(s) \/ Serving(s) => Kept(s) /\ s \notin stopped
    /\ startPc[s] \in {"sent", "ended"} =>
           conn[s] = "closed" /\ (Kept(s) => s \in stopped)
    /\ dropped[s] => startPc[s] = "ended" /\ ~Kept(s)

ManagerInv == manager = "handshake" => conn[current] = "connecting"

IInv == /\ TypeOK
        /\ ManagerInv
        /\ \A s \in Servers : ServerInv(s)

-----------------------------------------------------------------------------
LEMMA InitIInv == Init => IInv
<1> SUFFICES ASSUME Init PROVE IInv
  OBVIOUS
<1>1. TypeOK
  BY DEF Init, TypeOK
<1>2. ManagerInv /\ \A s \in Servers : ServerInv(s)
  BY DEF Init, ManagerInv, ServerInv, Waiting, Serving, Kept, Created
<1> QED
  BY <1>1, <1>2 DEF IInv

(* The gauge of players is set from a part of a finite set.                 *)
LEMMA TickStep ==
    ASSUME IInv, MetricsTick
    PROVE  clientGauge' \in Nat
<1>1. IsFiniteSet({p \in Players : playerOf[p] \in proxies})
  BY FS_Subset, ManagementAssumption DEF ManagementAssumption
<1> QED
  BY <1>1, FS_CardinalityType DEF MetricsTick

(* The steps of ManagementServer::start.                                   *)
LEMMA ManagerStep ==
    ASSUME IInv, Manager
    PROVE  IInv'
<1> USE ManagementAssumption
    DEF ManagementAssumption, IInv, TypeOK, ManagerInv, ServerInv, Waiting, Serving, Kept,
        Created, connVars, managerVars, taskVars, playerVars
<1>1. CASE HandshakeSucceeds
  BY <1>1 DEF HandshakeSucceeds
<1>2. CASE HandshakeFails
  BY <1>2 DEF HandshakeFails
<1>3. CASE InsertProxy
  BY <1>3 DEF InsertProxy
<1>4. ASSUME NEW s \in Servers, Accept(s) PROVE IInv'
  BY <1>4 DEF Accept
<1>5. ASSUME NEW s \in Servers, HandleStopped(s) PROVE IInv'
  BY <1>5 DEF HandleStopped
<1>6. CASE MetricsTick
  BY <1>6, TickStep DEF MetricsTick
<1> QED
  BY <1>1, <1>2, <1>3, <1>4, <1>5, <1>6 DEF Manager

(* The steps of the two tasks of a proxy.                                  *)
LEMMA TaskStep ==
    ASSUME IInv, NEW s \in Servers, MessageTask(s) \/ StartTask(s)
    PROVE  IInv'
<1> USE DEF IInv, TypeOK, ManagerInv, ServerInv, Waiting, Serving, Kept, Created,
            connVars, managerVars, taskVars, playerVars, SetMsgPc, SetStartPc
<1>1. CASE AcceptBi(s) \/ AcceptBiFails(s) \/ MessageTaskEnds(s)
  BY <1>1 DEF AcceptBi, AcceptBiFails, MessageTaskEnds
<1>2. CASE SetStarted(s)
  BY <1>2 DEF SetStarted
<1>3. CASE NotifyStarted(s)
  <2>1. woken' \in [Servers -> BOOLEAN]
    BY <1>3, Zenon DEF NotifyStarted
  <2> QED BY <1>3, <2>1 DEF NotifyStarted
<1>4. CASE CheckStarted(s) \/ AwaitStarted(s) \/ WakeUp(s)
  BY <1>4 DEF CheckStarted, AwaitStarted, WakeUp
<1>5. CASE EnterHandler(s) \/ HandlerReturns(s) \/ LoopEnds(s)
  BY <1>5 DEF EnterHandler, HandlerReturns, LoopEnds
<1>6. CASE StartReturns(s)
  BY <1>6 DEF StartReturns
<1> QED
  BY <1>1, <1>2, <1>3, <1>4, <1>5, <1>6 DEF MessageTask, StartTask

LEMMA NextIInv == IInv /\ [Next]_vars => IInv'
<1> SUFFICES ASSUME IInv, [Next]_vars PROVE IInv'
  OBVIOUS
<1> USE DEF IInv, TypeOK, ManagerInv, ServerInv, Waiting, Serving, Kept, Created,
            connVars, managerVars, taskVars, playerVars
<1>1. ASSUME NEW s \in Servers, Environment(s) PROVE IInv'
  <2>1. CASE Connect(s)
    BY <2>1 DEF Connect
  <2>2. CASE WriteFirstMessage(s)
    BY <2>2 DEF WriteFirstMessage
  <2>3. CASE CloseConnection(s)
    BY <2>3 DEF CloseConnection
  <2> QED BY <1>1, <2>1, <2>2, <2>3 DEF Environment
<1>2. ASSUME NEW s \in Servers, DropProxy(s) PROVE IInv'
  BY <1>2 DEF DropProxy, Referenced, StartTaskAlive, SetMsgPc
<1>3. ASSUME NEW h \in Handlers,
             ReleaseProxy(h) \/ \E s \in Servers : TakeProxy(h, s)
      PROVE  IInv'
  BY <1>3 DEF ReleaseProxy, TakeProxy
<1>4. CASE UNCHANGED vars
  BY <1>4 DEF vars
<1>5. ASSUME NEW p \in Players,
             ForgetPlayer(p) \/ \E s \in Servers : ListPlayer(p, s)
      PROVE  IInv'
  BY <1>5 DEF ForgetPlayer, ListPlayer, SetStartPc
<1> QED
  BY <1>1, <1>2, <1>3, <1>4, <1>5, ManagerStep, TaskStep DEF Next

LEMMA Invariance == Spec => []IInv
BY InitIInv, NextIInv, PTL DEF Spec

-----------------------------------------------------------------------------
(* The variables keep their types, and ManagementServer::start is about a   *)
(* connection exactly while it handles one (lines 189-210).                *)
THEOREM Typing == Spec => []TypeOK
BY Invariance, PTL DEF IInv

(* Although a proxy's tasks run before it is listed (lines 288-296, 202), a *)
(* proxy that has stopped is listed only while its event is queued.        *)
THEOREM StoppedEvents == Spec => []StoppedProxyWillBeRemoved
<1>1. IInv => StoppedProxyWillBeRemoved
  BY DEF IInv, ServerInv, Kept, Created, StoppedProxyWillBeRemoved
<1> QED
  BY <1>1, Invariance, PTL

(* The proxy of an open connection is listed, or about to be, and alive:    *)
(* remove (lines 90-96) aborts no task that still serves.                  *)
THEOREM OpenConnectionsServed == Spec => []ConnectedProxyServes
<1>1. IInv => ConnectedProxyServes
  BY DEF IInv, TypeOK, ServerInv, Waiting, Serving, Kept, Created, ConnectedProxyServes
<1> QED
  BY <1>1, Invariance, PTL
=============================================================================
