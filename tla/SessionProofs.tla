--------------------------- MODULE SessionProofs ---------------------------
(***************************************************************************)
(* What holds of every session, however many frames arrive and whoever     *)
(* closes it: TypeOK, NotifiedOnce, QuietWhenNotified, DrainDeliversAll,   *)
(* DeliveredInOrder, IInv and NoDispatchAfterNotify; and it implements     *)
(* SessionContract: each of its steps is a step of the contract, or        *)
(* changes nothing the contract speaks of.  Then what holds of the         *)
(* sessions of SoupBinTCP and FIX and of the application sessions on them, *)
(* in every role, whatever the peer sends and whenever the session closes. *)
(***************************************************************************)
EXTENDS SessionRefinement, SoupAppInvariant, SelectionProofs, TLAPS

-----------------------------------------------------------------------------
(* Typing.  A close() fragment is typed by a lemma of its own. *)

\* The variables a fragment from StopReader, StopRecv, ... on writes, typed.
TypedFromReader ==
    /\ reader' \in {"none", "running", "cancelled", "failed", "done"}
    /\ rstopped' \in BOOLEAN
    /\ notified' \in Nat
    /\ cpc' \in {"idle", "notify"} \union AwaitPoints \union EndPoints
    /\ pending' \in BOOLEAN
TypedFromQueue ==
    /\ TypedFromReader
    /\ qclosed' \in BOOLEAN /\ dref' \in BOOLEAN
    /\ recv' \in {"none", "blocked", "cancelled"}
    /\ disp' \in {"none", "get", "handle", "cancelled", "done"}
TypedFromRemote ==
    /\ TypedFromQueue
    /\ drain' \in {"off", "on", "set"}
    /\ remote' \in {"none", "running", "cancelled", "done"}

\* Reader.stop(), run or suspended, leaves what it writes typed.
LEMMA StopReaderTyped ==
    ASSUME TypeOK, NEW me, NEW p \in BOOLEAN, StopReader(me, p)
    PROVE  TypedFromReader
<1>1. pending' \in BOOLEAN
    BY Zenon DEF StopReader, Notify, Suspend
<1>2. notified' \in Nat
    BY DEF StopReader, Notify, TypeOK
<1>3. cpc' \in {"idle", "notify"} \union AwaitPoints \union EndPoints
    BY DEF StopReader, Notify, Suspend, AwaitPoints, EndPoints
<1>4. /\ reader' \in {"none", "running", "cancelled", "failed", "done"}
      /\ rstopped' \in BOOLEAN
    BY DEF StopReader, TypeOK
<1> QED BY <1>1, <1>2, <1>3, <1>4 DEF TypedFromReader

\* So does stopping the task of receive_msg() and what follows it.
LEMMA StopRecvTyped ==
    ASSUME TypeOK, NEW me, NEW p \in BOOLEAN, StopRecv(me, p)
    PROVE  TypedFromReader /\ recv' \in {"none", "blocked", "cancelled"}
<1>1. CASE recv = "blocked" /\ recv' = "cancelled" /\ Suspend("await_recv")
           /\ UNCHANGED <<reader, rstopped, notified>>
    BY <1>1 DEF Suspend, TypedFromReader, TypeOK, AwaitPoints
<1>2. CASE UNCHANGED recv /\ StopReader(me, p)
    BY <1>2, StopReaderTyped DEF TypeOK
<1> QED BY <1>1, <1>2 DEF StopRecv

\* So does stopping the message queue and what follows it.
LEMMA StopQueueTyped ==
    ASSUME TypeOK, NEW me, NEW p \in BOOLEAN, StopQueue(me, p)
    PROVE  TypedFromQueue
<1>1. CASE /\ disp' = "cancelled" /\ Suspend("await_dispatcher")
           /\ UNCHANGED <<dref, recv, reader, rstopped, notified>>
    BY <1>1 DEF StopQueue, Suspend, TypedFromQueue, TypedFromReader, TypeOK, AwaitPoints
<1>2. CASE dref' = FALSE /\ UNCHANGED disp /\ StopRecv(me, TRUE)
    BY <1>2, StopRecvTyped DEF StopQueue, TypedFromQueue, TypeOK
<1>3. CASE UNCHANGED <<disp, dref>> /\ StopRecv(me, p)
    BY <1>3, StopRecvTyped DEF StopQueue, TypedFromQueue, TypeOK
<1> QED BY <1>1, <1>2, <1>3 DEF StopQueue

\* So does the drain, or its absence, and what follows it.
LEMMA DrainReaderTyped ==
    ASSUME TypeOK, NEW me, NEW d, NEW p \in BOOLEAN, DrainReader(me, d, p)
    PROVE  TypedFromQueue /\ drain' \in {"off", "on", "set"}
<1>1. CASE /\ drain' = "on" /\ Suspend("await_drained")
           /\ UNCHANGED <<qclosed, disp, dref, recv, reader, rstopped, notified>>
    BY <1>1 DEF Suspend, TypedFromQueue, TypedFromReader, TypeOK, AwaitPoints
<1>2. CASE UNCHANGED drain /\ StopQueue(me, p)
    BY <1>2, StopQueueTyped DEF TypeOK
<1> QED BY <1>1, <1>2 DEF DrainReader

\* So does stopping the remote heartbeat monitor and what follows it.
LEMMA StopRemoteTyped ==
    ASSUME TypeOK, NEW me, NEW d, NEW p \in BOOLEAN, StopRemote(me, d, p)
    PROVE  TypedFromRemote
<1>1. CASE /\ remote' = "cancelled" /\ Suspend("await_remote")
           /\ UNCHANGED <<drain, qclosed, disp, dref, recv, reader, rstopped, notified>>
    BY <1>1 DEF Suspend, TypedFromRemote, TypedFromQueue, TypedFromReader, TypeOK, AwaitPoints
<1>2. CASE UNCHANGED remote /\ DrainReader(me, d, TRUE)
    BY <1>2, DrainReaderTyped DEF TypedFromRemote, TypeOK
<1>3. CASE UNCHANGED remote /\ DrainReader(me, d, p)
    BY <1>3, DrainReaderTyped DEF TypedFromRemote, TypeOK
<1> QED BY <1>1, <1>2, <1>3 DEF StopRemote

\* A call of close() that passes the guard keeps its variables typed.
LEMMA BeginCloseTyped ==
    ASSUME TypeOK, NEW me \in Tasks, NEW d \in BOOLEAN, NEW p \in BOOLEAN,
           BeginClose(me, d, p)
    PROVE  /\ TypedFromRemote
           /\ local' \in {"none", "running", "cancelled", "done"}
           /\ closed' \in BOOLEAN /\ closer' \in Tasks /\ drainArg' \in BOOLEAN
           /\ transport' \in {"none", "open", "closing", "lost"}
<1>1. TypedFromRemote /\ local' \in {"none", "running", "cancelled", "done"}
    <2>1. CASE /\ local' = "cancelled" /\ Suspend("await_local")
               /\ UNCHANGED <<remote, drain, qclosed, disp, dref, recv, reader, rstopped,
                              notified>>
        <3>1. TypedFromReader
            BY <2>1 DEF Suspend, TypedFromReader, TypeOK, AwaitPoints
        <3>2. TypedFromQueue
            BY <2>1, <3>1 DEF TypedFromQueue, TypeOK
        <3> QED BY <2>1, <3>2 DEF TypedFromRemote, TypeOK
    <2>2. CASE UNCHANGED local /\ StopRemote(me, d, p)
        <3>1. TypedFromRemote
            BY <2>2, StopRemoteTyped, Zenon
        <3> QED BY <2>2, <3>1 DEF TypeOK
    <2> QED BY <2>1, <2>2 DEF BeginClose, StopLocal
<1> QED BY <1>1 DEF BeginClose, TypeOK

-----------------------------------------------------------------------------
(* Sequences *)

\* The first element and the rest of a sequence over S.
LEMMA HeadTail ==
    ASSUME NEW S, NEW q \in Seq(S), q # <<>>
    PROVE  Head(q) \in S /\ Tail(q) \in Seq(S)
OBVIOUS

\* A sequence over S with one more element of S.
LEMMA Appended ==
    ASSUME NEW S, NEW q \in Seq(S), NEW e \in S
    PROVE  Append(q, e) \in Seq(S)
OBVIOUS

\* A message taken from a queue moves to the end of what precedes the queue.
LEMMA TakenKeepsOrder ==
    ASSUME NEW S, NEW t \in Seq(S), NEW q \in Seq(S), q # <<>>
    PROVE  Append(t, Head(q)) \o Tail(q) = t \o q
OBVIOUS

(* One step per action.  SessionStep is what any session does, also one of a   *)
(* protocol: all of Next but the calls that start tasks, with any arguments.   *)

ConnectedStep ==
    \/ DataReceived \/ ConnectionLost
    \/ ReceiveReturns \/ ReceiveBlocks \/ ReceiveEnds
    \/ \E d \in BOOLEAN : Close(d) \/ HandlerClose(d) \/ AppInitiatesClose(d)
    \/ Reader \/ Dispatcher \/ Closer \/ Monitors
    \/ RemoteMonitorTrips \/ RunClosingTask
SessionStep == (\E dispatching \in BOOLEAN : Connect(dispatching)) \/ ConnectedStep

\* A step of Next is one of them, or starts tasks.
LEMMA NextIsSessionStep == Next => SessionStep \/ StartDispatching \/ StartHeartbeats
BY CallsAssumption, SwitchesAssumption
   DEF Next, SessionStep, ConnectedStep, Application, Network, ConnectionMade

\* A session that was only constructed is typed.
LEMMA InitTyped == Init => TypeOK
<1> SUFFICES ASSUME Init PROVE TypeOK
    OBVIOUS
<1>1. <<>> \in Seq(Frame) /\ <<>> \in Seq(Nat)
    OBVIOUS
<1>2. /\ rstopped \in BOOLEAN /\ qclosed \in BOOLEAN /\ dref \in BOOLEAN
      /\ closed \in BOOLEAN /\ drainArg \in BOOLEAN /\ pending \in BOOLEAN
    BY DEF Init
<1>3. closer \in Tasks
    BY DEF Init, Tasks
<1> QED BY <1>1, <1>2, <1>3 DEF Init, TypeOK

\* Every step of a task, the network or the application keeps the session
\* typed.
LEMMA SessionStepTyped ==
    ASSUME TypeOK, [SessionStep]_vars
    PROVE  TypeOK'
<1> USE DEF TypeOK
<1>1. CASE \E dispatching \in BOOLEAN : Connect(dispatching)
    <2>1. /\ disp' \in {"none", "get", "handle", "cancelled", "done"}
          /\ dref' \in BOOLEAN
        BY <1>1 DEF Connect
    <2> QED BY <1>1, <2>1 DEF Connect, closeVars, dataVars
<1>4. CASE OnCloseReturns
    BY <1>4 DEF OnCloseReturns, taskVars, closeVars, dataVars, EndPoints
<1>5. CASE OnCloseCancelled
    <2>1. pending' \in BOOLEAN
        BY <1>5 DEF OnCloseCancelled
    <2>2. cpc' \in {"idle", "notify"} \union AwaitPoints \union EndPoints
        BY <1>5 DEF OnCloseCancelled, EndPoints
    <2> QED BY <1>5, <2>1, <2>2 DEF OnCloseCancelled, taskVars, dataVars
<1>6. CASE ReadMalformed
    BY <1>6 DEF ReadMalformed, taskVars, closeVars, dataVars
<1>7. CASE ReportDrained
    BY <1>7 DEF ReportDrained, taskVars, closeVars, dataVars
<1>8. CASE ReaderEnds
    BY <1>8 DEF ReaderEnds, taskVars, closeVars, dataVars
<1>9. CASE HandlerReturns
    BY <1>9 DEF HandlerReturns, HandlerDone, taskVars, closeVars, dataVars
<1>10. CASE DispatcherEnds
    BY <1>10 DEF DispatcherEnds, taskVars, closeVars, dataVars
<1>11. CASE ReceiveBlocks
    BY <1>11 DEF ReceiveBlocks, taskVars, closeVars, dataVars
<1>12. CASE ReceiveEnds
    BY <1>12 DEF ReceiveEnds, taskVars, closeVars, dataVars
<1>13. CASE LocalMonitorEnds
    BY <1>13 DEF LocalMonitorEnds, taskVars, closeVars, dataVars
<1>14. CASE RemoteMonitorEnds
    BY <1>14 DEF RemoteMonitorEnds, taskVars, closeVars, dataVars
<1>15. CASE DataReceived
    <2>1. arrived + 1 \in Nat
        OBVIOUS
    <2>2. PICK k \in FrameKinds : buffer' = Append(buffer, [kind |-> k, id |-> arrived'])
        BY <1>15 DEF DataReceived
    <2>3. [kind |-> k, id |-> arrived'] \in Frame
        BY <1>15, <2>1, FrameKindsAssumption DEF DataReceived, Frame
    <2>4. buffer' \in Seq(Frame)
        BY <2>2, <2>3, Appended
    <2> QED BY <1>15, <2>1, <2>4 DEF DataReceived, taskVars, closeVars
<1>16. CASE ReadMessage
    <2>1. Head(buffer) \in Frame /\ buffer' \in Seq(Frame)
        BY <1>16, HeadTail DEF ReadMessage
    <2>2. queue' \in Seq(Nat)
        BY <1>16, <2>1, Appended DEF ReadMessage, Frame
    <2> QED BY <1>16, <2>1, <2>2 DEF ReadMessage, taskVars, closeVars
<1>17. CASE DispatchNext
    <2>1. queue' \in Seq(Nat) /\ delivered' \in Seq(Nat)
        BY <1>17, HeadTail, Appended DEF DispatchNext, TakeMessage
    <2> QED BY <1>17, <2>1 DEF DispatchNext, closeVars
<1>18. CASE ReceiveReturns
    <2>1. queue' \in Seq(Nat) /\ delivered' \in Seq(Nat)
        BY <1>18, HeadTail, Appended DEF ReceiveReturns, TakeMessage
    <2> QED BY <1>18, <2>1 DEF ReceiveReturns, closeVars
<1>2. CASE HandlerGoesOn
    <2>1. queue' \in Seq(Nat) /\ delivered' \in Seq(Nat)
        BY <1>2, HeadTail, Appended DEF HandlerGoesOn, TakeMessage
    <2> QED BY <1>2, <2>1 DEF HandlerGoesOn, HandlerDone, taskVars, closeVars
<1>19. CASE \E d \in BOOLEAN : Close(d)
    <2>1. PICK d \in BOOLEAN : Close(d)
        BY <1>19
    <2>2. BeginClose("app", d, FALSE) /\ "app" \in Tasks
        BY <2>1 DEF Close, Tasks
    <2> QED BY <2>1, <2>2, BeginCloseTyped DEF Close, TypedFromRemote, TypedFromQueue,
               TypedFromReader, dataVars
<1>20. CASE \E d \in BOOLEAN : HandlerClose(d)
    <2>1. PICK d \in BOOLEAN : HandlerClose(d)
        BY <1>20
    <2>2. BeginClose("dispatcher", d, FALSE) /\ "dispatcher" \in Tasks
        BY <2>1 DEF HandlerClose, Tasks
    <2> QED BY <2>1, <2>2, BeginCloseTyped DEF HandlerClose, TypedFromRemote, TypedFromQueue,
               TypedFromReader, dataVars
<1>21. CASE \E d \in BOOLEAN : AppInitiatesClose(d)
    BY <1>21 DEF AppInitiatesClose, InitiateClose, taskVars, closeVars, dataVars
<1>22. CASE ConnectionLost
    BY <1>22 DEF ConnectionLost, InitiateClose, taskVars, closeVars, dataVars
<1>23. CASE RunClosingTask
    <2>1. CASE closed /\ UNCHANGED <<transport, taskVars, closeVars>>
        BY <1>23, <2>1 DEF RunClosingTask, taskVars, closeVars, dataVars
    <2>2. CASE BeginClose("closing", ctask = "drain", FALSE)
        <3>1. "closing" \in Tasks /\ (ctask = "drain") \in BOOLEAN
            BY DEF Tasks
        <3> QED BY <1>23, <2>2, <3>1, BeginCloseTyped DEF RunClosingTask, TypedFromRemote,
                   TypedFromQueue, TypedFromReader, dataVars
    <2> QED BY <1>23, <2>1, <2>2 DEF RunClosingTask
<1>24. CASE RemoteMonitorTrips
    <2>1. CASE closed
        BY <1>24, <2>1 DEF RemoteMonitorTrips, closeVars, dataVars
    <2>2. CASE ~closed
        <3>1. BeginClose("monitor", FALSE, FALSE) /\ "monitor" \in Tasks
            BY <1>24, <2>2 DEF RemoteMonitorTrips, Tasks
        <3> QED BY <1>24, <3>1, BeginCloseTyped DEF RemoteMonitorTrips, TypedFromRemote,
                   TypedFromQueue, TypedFromReader, dataVars
    <2> QED BY <2>1, <2>2
<1>25. CASE ReadEndOfSession
    <2>1. buffer' \in Seq(Frame)
        BY <1>25, HeadTail DEF ReadEndOfSession
    <2>2. CASE BeginClose("reader", FALSE, TRUE)
        <3>1. "reader" \in Tasks
            BY DEF Tasks
        <3> QED BY <1>25, <2>1, <2>2, <3>1, BeginCloseTyped DEF ReadEndOfSession,
                   TypedFromRemote, TypedFromQueue, TypedFromReader
    <2>3. CASE closed /\ rstopped' = TRUE
        BY <1>25, <2>1, <2>3 DEF ReadEndOfSession, BeginClose, FirstClose, closeVars
    <2> QED BY <1>25, <2>2, <2>3 DEF ReadEndOfSession
<1>26. CASE LocalStopped
    BY <1>26, StopRemoteTyped DEF LocalStopped, Resume, dataVars, TypedFromRemote,
       TypedFromQueue, TypedFromReader
<1>27. CASE RemoteStopped
    BY <1>27, DrainReaderTyped DEF RemoteStopped, Resume, dataVars, TypedFromRemote,
       TypedFromQueue, TypedFromReader
<1>28. CASE ReaderDrained
    <2>1. pending' \in BOOLEAN
        BY <1>28 DEF ReaderDrained, Suspend
    <2>2. cpc' \in {"idle", "notify"} \union AwaitPoints \union EndPoints
        BY <1>28 DEF ReaderDrained, Suspend, AwaitPoints
    <2> QED BY <1>28, <2>1, <2>2 DEF ReaderDrained, Resume, taskVars, dataVars
<1>29. CASE QueueDrained
    BY <1>29, StopQueueTyped DEF QueueDrained, Resume, dataVars, TypedFromRemote, TypedFromQueue,
       TypedFromReader
<1>30. CASE DispatcherStopped
    <2>1. TypedFromReader /\ recv' \in {"none", "blocked", "cancelled"}
        BY <1>30, StopRecvTyped DEF DispatcherStopped
    <2>2. dref' \in BOOLEAN
        BY <1>30 DEF DispatcherStopped
    <2> QED BY <1>30, <2>1, <2>2 DEF DispatcherStopped, Resume, dataVars, TypedFromReader
<1>31. CASE RecvStopped
    <2>1. TypedFromReader
        BY <1>31, StopReaderTyped DEF RecvStopped
    <2> QED BY <1>31, <2>1 DEF RecvStopped, Resume, dataVars, TypedFromReader
<1>32. CASE ReaderStopped
    <2>1. rstopped' \in BOOLEAN /\ pending' \in BOOLEAN
        BY <1>32 DEF ReaderStopped, Notify
    <2>2. notified' \in Nat /\ cpc' \in {"idle", "notify"} \union AwaitPoints \union EndPoints
        BY <1>32 DEF ReaderStopped, Notify
    <2> QED BY <1>32, <2>1, <2>2 DEF ReaderStopped, Resume, dataVars
<1>33. CASE UNCHANGED vars
    BY <1>33 DEF vars, taskVars, closeVars, dataVars
<1> QED
    BY <1>1, <1>2, <1>4, <1>5, <1>6, <1>7, <1>8, <1>9, <1>10, <1>11, <1>12, <1>13, <1>14,
       <1>15, <1>16, <1>17, <1>18, <1>19, <1>20, <1>21, <1>22, <1>23, <1>24, <1>25, <1>26,
       <1>27, <1>28, <1>29, <1>30, <1>31, <1>32, <1>33
    DEF SessionStep, ConnectedStep, Reader, Dispatcher, Closer, Monitors

\* ... and so does every step of Next.
LEMMA StepTyped ==
    ASSUME TypeOK, [Next]_vars
    PROVE  TypeOK'
<1>1. CASE StartDispatching
    BY <1>1 DEF TypeOK, StartDispatching, taskVars, closeVars, dataVars
<1>2. CASE StartHeartbeats
    BY <1>2 DEF TypeOK, StartHeartbeats, taskVars, closeVars, dataVars
<1> QED BY <1>1, <1>2, SessionStepTyped, NextIsSessionStep

\* Every reachable state of every session is well typed.
THEOREM TypeCorrect == SafeSpec => []TypeOK
BY InitTyped, StepTyped, PTL DEF SafeSpec

-----------------------------------------------------------------------------
(* close() stops one thing after the other *)

\* The call that passes the guard of close(), from whichever task.
LEMMA BeginCloseInv ==
    ASSUME TypeOK, CloseInv, NEW me \in Tasks \ {"none"}, NEW d, NEW p,
           transport # "none",
           BeginClose(me, d, p)
    PROVE  CloseInv'
<1> USE DEF FromNotify, FromReader, FromRecv, FromQueue, FromDrain, FromRemote,
            AwaitPoints, EndPoints, FirstClose, BeginClose, StopLocal, StopRemote, DrainReader,
            StopQueue, StopRecv, StopReader, Notify, Suspend, TypeOK, CloseInv, InvCloser
<1>1. transport' # "open" /\ transport' # "none"
    OBVIOUS
<1>2. InvCloser'
    BY <1>1
<1>3. InvMonitors'
    BY <1>1 DEF InvMonitors
<1>4. InvDispatcher'
    BY <1>1 DEF InvDispatcher
<1>5. InvReader'
    BY <1>1 DEF InvReader
<1> QED BY <1>1, <1>2, <1>3, <1>4, <1>5 DEF InvUnconnected

\* Nothing is being closed before the connection is made.
LEMMA CloseInit == Init => CloseInv
BY DEF Init, CloseInv, InvUnconnected, InvCloser, InvMonitors, InvDispatcher, InvReader,
       FromNotify, FromReader, FromRecv, FromQueue, FromDrain, FromRemote

\* No step upsets the order in which close() stops things.
LEMMA SessionStepClose ==
    ASSUME TypeOK, CloseInv, [SessionStep]_vars
    PROVE  CloseInv'
<1> USE DEF FromNotify, FromReader, FromRecv, FromQueue, FromDrain, FromRemote,
            AwaitPoints, EndPoints, TypeOK, CloseInv,
            InvUnconnected, InvCloser, InvMonitors, InvDispatcher, InvReader
<1>1. CASE \E dispatching \in BOOLEAN : Connect(dispatching)
    BY <1>1 DEF Connect, taskVars, closeVars
<1>2. CASE DataReceived
    BY <1>2 DEF DataReceived, taskVars, closeVars
<1>5. CASE LocalStopped
    BY <1>5 DEF LocalStopped, Awaited, Resume, StopRemote, DrainReader, StopQueue, StopRecv,
       StopReader, Notify, Suspend
<1>6. CASE RemoteStopped
    BY <1>6 DEF RemoteStopped, Awaited, Resume, DrainReader, StopQueue, StopRecv, StopReader,
       Notify, Suspend
<1>7. CASE ReaderDrained
    BY <1>7 DEF ReaderDrained, Suspend, Resume, taskVars
<1>8. CASE QueueDrained
    BY <1>8 DEF QueueDrained, Resume, StopQueue, StopRecv, StopReader, Notify, Suspend
<1>9. CASE DispatcherStopped
    BY <1>9 DEF DispatcherStopped, Awaited, Resume, StopRecv, StopReader, Notify, Suspend
<1>10. CASE RecvStopped
    BY <1>10 DEF RecvStopped, Resume, StopReader, Notify, Suspend
<1>11. CASE ReaderStopped
    BY <1>11 DEF ReaderStopped, Awaited, Notify, Resume
<1>12. CASE OnCloseReturns
    BY <1>12 DEF OnCloseReturns, taskVars, closeVars
<1>13. CASE OnCloseCancelled
    BY <1>13 DEF OnCloseCancelled, taskVars, closeVars
<1>14. CASE \E d \in BOOLEAN : AppInitiatesClose(d)
    BY <1>14 DEF AppInitiatesClose, InitiateClose, taskVars, closeVars
<1>15. CASE ConnectionLost
    BY <1>15 DEF ConnectionLost, InitiateClose, IsActive, taskVars, closeVars
<1>16. CASE ReadMessage
    BY <1>16 DEF ReadMessage, taskVars, closeVars
<1>17. CASE ReadMalformed
    BY <1>17 DEF ReadMalformed, ReaderRuns, taskVars, closeVars
<1>18. CASE ReportDrained
    BY <1>18 DEF ReportDrained, taskVars, closeVars
<1>19. CASE ReaderEnds
    BY <1>19 DEF ReaderEnds, taskVars, closeVars
<1>20. CASE DispatchNext
    BY <1>20 DEF DispatchNext, taskVars, closeVars
<1>21. CASE HandlerReturns \/ HandlerGoesOn
    BY <1>21 DEF HandlerReturns, HandlerGoesOn, HandlerDone, Struck, taskVars, closeVars
<1>22. CASE DispatcherEnds
    BY <1>22 DEF DispatcherEnds, taskVars, closeVars
<1>23. CASE ReceiveReturns
    BY <1>23 DEF ReceiveReturns, taskVars, closeVars
<1>24. CASE ReceiveBlocks
    BY <1>24 DEF ReceiveBlocks, taskVars, closeVars
<1>25. CASE ReceiveEnds
    BY <1>25 DEF ReceiveEnds, taskVars, closeVars
<1>26. CASE LocalMonitorEnds
    BY <1>26 DEF LocalMonitorEnds, taskVars, closeVars
<1>27. CASE RemoteMonitorEnds
    BY <1>27 DEF RemoteMonitorEnds, taskVars, closeVars
<1>28. CASE UNCHANGED vars
    BY <1>28 DEF vars, taskVars, closeVars
<1>29. CASE \E d \in BOOLEAN : Close(d)
    <2>1. PICK d : transport # "none" /\ BeginClose("app", d, FALSE)
        BY <1>29 DEF Close
    <2> QED BY <2>1, BeginCloseInv DEF Tasks
<1>30. CASE \E d \in BOOLEAN : HandlerClose(d)
    <2>1. PICK d : disp = "handle" /\ BeginClose("dispatcher", d, FALSE)
        BY <1>30 DEF HandlerClose
    <2> QED BY <2>1, BeginCloseInv DEF Tasks
<1>31. CASE RemoteMonitorTrips
    <2>1. CASE closed
        BY <1>31, <2>1 DEF RemoteMonitorTrips, closeVars
    <2>2. CASE ~closed
        BY <1>31, <2>2, BeginCloseInv DEF RemoteMonitorTrips, Tasks
    <2> QED BY <2>1, <2>2
<1>32. CASE RunClosingTask
    <2>1. CASE closed /\ UNCHANGED <<transport, taskVars, closeVars>>
        BY <1>32, <2>1 DEF RunClosingTask, taskVars, closeVars
    <2>2. CASE BeginClose("closing", ctask = "drain", FALSE)
        BY <1>32, <2>2, BeginCloseInv DEF RunClosingTask, Tasks
    <2> QED BY <1>32, <2>1, <2>2 DEF RunClosingTask
<1>33. CASE ReadEndOfSession
    <2>1. CASE /\ closed /\ rstopped' = TRUE /\ reader' = "done"
               /\ UNCHANGED <<transport, drain, qclosed, recv, disp, dref, local, remote,
                              closeVars>>
        BY <1>33, <2>1 DEF ReadEndOfSession, ReaderRuns, closeVars
    <2>2. CASE BeginClose("reader", FALSE, TRUE)
        BY <1>33, <2>2, BeginCloseInv DEF ReadEndOfSession, ReaderRuns, Tasks
    <2> QED BY <1>33, <2>1, <2>2 DEF ReadEndOfSession
<1> QED
    BY <1>1, <1>2, <1>5, <1>6, <1>7, <1>8, <1>9, <1>10, <1>11, <1>12, <1>13, <1>14,
       <1>15, <1>16, <1>17, <1>18, <1>19, <1>20, <1>21, <1>22, <1>23, <1>24, <1>25, <1>26,
       <1>27, <1>28, <1>29, <1>30, <1>31, <1>32, <1>33
    DEF SessionStep, ConnectedStep, Reader, Dispatcher, Closer, Monitors

\* ... also when tasks are started, as long as start_*() is called only on an
\* active session.
LEMMA CloseStep ==
    ASSUME StartsWhenActive, TypeOK, CloseInv, [Next]_vars
    PROVE  CloseInv'
<1> USE DEF FromNotify, FromReader, FromRecv, FromQueue, FromDrain, FromRemote,
            AwaitPoints, EndPoints, TypeOK, CloseInv,
            InvUnconnected, InvCloser, InvMonitors, InvDispatcher, InvReader
<1>1. CASE StartDispatching
    BY <1>1 DEF StartDispatching, IsActive, taskVars, closeVars
<1>2. CASE StartHeartbeats
    BY <1>2 DEF StartHeartbeats, IsActive, taskVars, closeVars
<1> QED BY <1>1, <1>2, SessionStepClose, NextIsSessionStep

\* Whoever closes the session, and however often, on_close_coro is called at
\* most once.
THEOREM OnCloseOnce == StartsWhenActive => (SafeSpec => []NotifiedOnce)
<1> SUFFICES ASSUME StartsWhenActive PROVE SafeSpec => []NotifiedOnce
    OBVIOUS
<1>1. CloseInv => NotifiedOnce
    BY DEF CloseInv, InvCloser, NotifiedOnce
<1>2. TypeOK /\ CloseInv /\ [Next]_vars => CloseInv'
    BY CloseStep
<1> QED BY <1>1, <1>2, TypeCorrect, CloseInit, PTL DEF SafeSpec

\* When on_close_coro is called every other task of the session has ended, if
\* start_heartbeats() and start_dispatching() are called on active sessions only.
THEOREM QuietClose == StartsWhenActive => (SafeSpec => []QuietWhenNotified)
<1> SUFFICES ASSUME StartsWhenActive PROVE SafeSpec => []QuietWhenNotified
    OBVIOUS
<1>1. TypeOK /\ CloseInv => QuietWhenNotified
    BY DEF TypeOK, CloseInv, InvCloser, InvMonitors, InvDispatcher, InvReader, QuietWhenNotified,
           Stopped, FromNotify, FromReader, FromRecv, FromQueue, FromDrain, FromRemote
<1>2. TypeOK /\ CloseInv /\ [Next]_vars => CloseInv'
    BY CloseStep
<1> QED BY <1>1, <1>2, TypeCorrect, CloseInit, PTL DEF SafeSpec

-----------------------------------------------------------------------------
(* A drain leaves nothing behind *)

\* Nothing is drained yet when close() begins.
LEMMA BeginCloseDrain ==
    ASSUME InvCloser, InvDrain, NEW me, NEW d \in BOOLEAN, NEW p,
           d => me # "monitor",
           BeginClose(me, d, p)
    PROVE  InvDrain'
BY DEF InvDrain, InvCloser, FirstClose, BeginClose, StopLocal, StopRemote, DrainReader,
       StopQueue, StopRecv, StopReader, Notify, Suspend,
       FromNotify, FromReader, FromRecv, FromQueue

\* No step brings data back once the drain has found reader and queue empty.
LEMMA SessionStepDrain ==
    ASSUME TypeOK, InvUnconnected, InvCloser, InvDrain, [SessionStep]_vars
    PROVE  InvDrain'
<1> USE DEF FromNotify, FromReader, FromRecv, FromQueue, AwaitPoints, EndPoints,
            InvUnconnected, InvCloser, InvDrain
<1>1. CASE \E dispatching \in BOOLEAN : Connect(dispatching)
    BY <1>1 DEF Connect, taskVars, closeVars, dataVars
<1>2. CASE DataReceived
    BY <1>2 DEF DataReceived, taskVars, closeVars, dataVars
<1>5. CASE LocalStopped
    BY <1>5 DEF LocalStopped, Awaited, Resume, StopRemote, DrainReader, StopQueue, StopRecv,
       StopReader, Notify, Suspend, dataVars
<1>6. CASE RemoteStopped
    BY <1>6 DEF RemoteStopped, Awaited, Resume, DrainReader, StopQueue, StopRecv, StopReader,
       Notify, Suspend, dataVars
<1>7. CASE ReaderDrained
    BY <1>7 DEF ReaderDrained, Suspend, Resume, taskVars, dataVars
<1>8. CASE QueueDrained
    BY <1>8 DEF QueueDrained, Resume, StopQueue, StopRecv, StopReader, Notify, Suspend, dataVars
<1>9. CASE DispatcherStopped
    BY <1>9 DEF DispatcherStopped, Awaited, Resume, StopRecv, StopReader, Notify, Suspend, dataVars
<1>10. CASE RecvStopped
    BY <1>10 DEF RecvStopped, Resume, StopReader, Notify, Suspend, dataVars
<1>11. CASE ReaderStopped
    BY <1>11 DEF ReaderStopped, Awaited, Notify, Resume, dataVars
<1>12. CASE OnCloseReturns
    BY <1>12 DEF OnCloseReturns, taskVars, closeVars, dataVars
<1>13. CASE OnCloseCancelled
    BY <1>13 DEF OnCloseCancelled, taskVars, closeVars, dataVars
<1>14. CASE \E d \in BOOLEAN : AppInitiatesClose(d)
    BY <1>14 DEF AppInitiatesClose, InitiateClose, taskVars, closeVars, dataVars
<1>15. CASE ConnectionLost
    BY <1>15 DEF ConnectionLost, InitiateClose, IsActive, taskVars, closeVars, dataVars
<1>16. CASE ReadMessage
    BY <1>16 DEF ReadMessage, taskVars, closeVars
<1>17. CASE ReadMalformed
    BY <1>17 DEF ReadMalformed, ReaderRuns, taskVars, closeVars, dataVars
<1>18. CASE ReportDrained
    BY <1>18 DEF ReportDrained, taskVars, closeVars, dataVars, NothingRead
<1>19. CASE ReaderEnds
    BY <1>19 DEF ReaderEnds, taskVars, closeVars, dataVars
<1>20. CASE DispatchNext
    BY <1>20 DEF DispatchNext, taskVars, closeVars, dataVars, TakeMessage
<1>21. CASE HandlerReturns \/ HandlerGoesOn
    BY <1>21 DEF HandlerReturns, HandlerGoesOn, HandlerDone, TakeMessage, taskVars, closeVars,
       dataVars
<1>22. CASE DispatcherEnds
    BY <1>22 DEF DispatcherEnds, taskVars, closeVars, dataVars
<1>23. CASE ReceiveReturns
    BY <1>23 DEF ReceiveReturns, taskVars, closeVars, dataVars, TakeMessage
<1>24. CASE ReceiveBlocks
    BY <1>24 DEF ReceiveBlocks, taskVars, closeVars, dataVars
<1>25. CASE ReceiveEnds
    BY <1>25 DEF ReceiveEnds, taskVars, closeVars, dataVars
<1>26. CASE LocalMonitorEnds
    BY <1>26 DEF LocalMonitorEnds, taskVars, closeVars, dataVars
<1>27. CASE RemoteMonitorEnds
    BY <1>27 DEF RemoteMonitorEnds, taskVars, closeVars, dataVars
<1>28. CASE UNCHANGED vars
    BY <1>28 DEF vars, taskVars, closeVars, dataVars
<1>29. CASE \E d \in BOOLEAN : Close(d)
    <2>1. PICK d \in BOOLEAN : BeginClose("app", d, FALSE)
        BY <1>29 DEF Close
    <2> QED BY <2>1, BeginCloseDrain
<1>30. CASE \E d \in BOOLEAN : HandlerClose(d)
    <2>1. PICK d \in BOOLEAN : BeginClose("dispatcher", d, FALSE)
        BY <1>30 DEF HandlerClose
    <2> QED BY <2>1, BeginCloseDrain
<1>31. CASE RemoteMonitorTrips
    <2>1. CASE closed
        BY <1>31, <2>1 DEF RemoteMonitorTrips, closeVars, dataVars
    <2>2. CASE ~closed
        BY <1>31, <2>2, BeginCloseDrain DEF RemoteMonitorTrips
    <2> QED BY <2>1, <2>2
<1>32. CASE RunClosingTask
    <2>1. CASE closed /\ UNCHANGED <<transport, taskVars, closeVars>>
        BY <1>32, <2>1 DEF RunClosingTask, taskVars, closeVars, dataVars
    <2>2. CASE BeginClose("closing", ctask = "drain", FALSE)
        BY <1>32, <2>2, BeginCloseDrain DEF RunClosingTask
    <2> QED BY <1>32, <2>1, <2>2 DEF RunClosingTask
<1>33. CASE ReadEndOfSession
    <2>1. CASE closed /\ UNCHANGED <<drain, closeVars>>
        BY <1>33, <2>1 DEF ReadEndOfSession, closeVars
    <2>2. CASE BeginClose("reader", FALSE, TRUE)
        BY <1>33, <2>2, BeginCloseDrain DEF ReadEndOfSession
    <2> QED BY <1>33, <2>1, <2>2 DEF ReadEndOfSession
<1> QED
    BY <1>1, <1>2, <1>5, <1>6, <1>7, <1>8, <1>9, <1>10, <1>11, <1>12, <1>13, <1>14,
       <1>15, <1>16, <1>17, <1>18, <1>19, <1>20, <1>21, <1>22, <1>23, <1>24, <1>25, <1>26,
       <1>27, <1>28, <1>29, <1>30, <1>31, <1>32, <1>33
    DEF SessionStep, ConnectedStep, Reader, Dispatcher, Closer, Monitors

\* ... nor does starting a task.
LEMMA DrainStep ==
    ASSUME TypeOK, CloseInv, InvDrain, [Next]_vars
    PROVE  InvDrain'
<1>1. CASE StartDispatching \/ StartHeartbeats
    BY <1>1 DEF InvDrain, StartDispatching, StartHeartbeats, closeVars, dataVars
<1> QED BY <1>1, SessionStepDrain, NextIsSessionStep DEF CloseInv

\* A session closed with drain, by whichever task, has given every message
\* that arrived to the application when on_close_coro is called.
THEOREM DrainIsComplete == StartsWhenActive => (SafeSpec => []DrainDeliversAll)
<1> SUFFICES ASSUME StartsWhenActive PROVE SafeSpec => []DrainDeliversAll
    OBVIOUS
<1>1. Init => CloseInv /\ InvDrain
    BY CloseInit DEF Init, InvDrain, FromQueue, FromRecv, FromReader, FromNotify
<1>2. TypeOK /\ CloseInv /\ InvDrain /\ [Next]_vars => CloseInv' /\ InvDrain'
    BY CloseStep, DrainStep
<1>3. CloseInv /\ InvDrain => DrainDeliversAll
    BY DEF CloseInv, InvCloser, InvDrain, DrainDeliversAll, Undelivered,
           FromQueue, FromRecv, FromReader, FromNotify
<1> QED BY <1>1, <1>2, <1>3, TypeCorrect, PTL DEF SafeSpec

-----------------------------------------------------------------------------
(* Messages stay in order *)

\* Appending an element above all others.
LEMMA AppendedAscending ==
    ASSUME NEW s \in Seq(Nat), NEW x \in Nat, Ascending(s),
           \A i \in DOMAIN s : s[i] < x
    PROVE  Ascending(Append(s, x))
BY DEF Ascending

\* The elements of a sequence and one more.
LEMMA AppendedElements ==
    ASSUME NEW S, NEW b \in Seq(S), NEW f \in S, NEW j \in DOMAIN Append(b, f)
    PROVE  (j \in DOMAIN b /\ Append(b, f)[j] = b[j]) \/ (j = Len(b) + 1 /\ Append(b, f)[j] = f)
<1>1. Len(b) \in Nat /\ DOMAIN b = 1..Len(b) /\ DOMAIN Append(b, f) = 1..(Len(b) + 1)
    OBVIOUS
<1>2. CASE j \in 1..Len(b)
    BY <1>1, <1>2
<1>3. CASE j = Len(b) + 1
    BY <1>1, <1>3
<1> QED BY <1>1, <1>2, <1>3

\* InvOrder, of the messages m that have left the buffer b.
Ordered(m, b, n) ==
    /\ Ascending(m)
    /\ \A i \in DOMAIN m, j \in DOMAIN b : m[i] < b[j].id
    /\ \A i \in DOMAIN m : m[i] <= n
    /\ \A i, j \in DOMAIN b : i < j => b[i].id < b[j].id
    /\ \A j \in DOMAIN b : b[j].id <= n

\* The last frame to arrive has the highest number.
LEMMA OrderedArrive ==
    ASSUME NEW m \in Seq(Nat), NEW b \in Seq(Frame), NEW n \in Nat, NEW f \in Frame,
           f.id = n + 1, Ordered(m, b, n)
    PROVE  Ordered(m, Append(b, f), n + 1)
<1> DEFINE c == Append(b, f)
<1>1. \A j \in DOMAIN c : (j \in DOMAIN b /\ c[j] = b[j]) \/ (j = Len(b) + 1 /\ c[j] = f)
    BY AppendedElements
<1>2. \A j \in DOMAIN b : b[j] \in Frame /\ j \in Nat /\ j < Len(b) + 1
    OBVIOUS
<1>3. \A i \in DOMAIN m : m[i] \in Nat
    OBVIOUS
<1>4. \A g \in Frame : g.id \in Nat
    BY DEF Frame
<1> HIDE DEF c
<1>5. \A i \in DOMAIN m, j \in DOMAIN c : m[i] < c[j].id
    BY <1>1, <1>2, <1>3, <1>4 DEF Ordered
<1>6. \A i, j \in DOMAIN c : i < j => c[i].id < c[j].id
    BY <1>1, <1>2, <1>4 DEF Ordered
<1>7. \A j \in DOMAIN c : c[j].id <= n + 1
    BY <1>1, <1>2, <1>4 DEF Ordered
<1>8. \A i \in DOMAIN m : m[i] <= n + 1
    BY <1>3 DEF Ordered
<1>9. Ordered(m, c, n + 1)
    BY <1>5, <1>6, <1>7, <1>8 DEF Ordered
<1> QED BY <1>9 DEF c

\* A frame that is no message leaves the buffer.
LEMMA OrderedSkip ==
    ASSUME NEW m \in Seq(Nat), NEW b \in Seq(Frame), NEW n \in Nat, b # <<>>, Ordered(m, b, n)
    PROVE  Ordered(m, Tail(b), n)
<1>1. \A j \in DOMAIN Tail(b) : j + 1 \in DOMAIN b /\ Tail(b)[j] = b[j + 1]
    OBVIOUS
<1> QED BY <1>1 DEF Ordered, Frame

\* A message goes from the head of the buffer to the end of the queue.
LEMMA OrderedRead ==
    ASSUME NEW m \in Seq(Nat), NEW b \in Seq(Frame), NEW n \in Nat, b # <<>>, Ordered(m, b, n)
    PROVE  Ordered(Append(m, Head(b).id), Tail(b), n)
<1> DEFINE x == Head(b).id
<1>1. x \in Nat /\ 1 \in DOMAIN b /\ x = b[1].id
    <2>1. 1 \in DOMAIN b /\ Head(b) = b[1] /\ b[1] \in Frame
        OBVIOUS
    <2> QED BY <2>1 DEF Frame
<1>2. \A j \in DOMAIN Tail(b) : j + 1 \in DOMAIN b /\ 1 < j + 1 /\ Tail(b)[j] = b[j + 1]
    OBVIOUS
<1>3. Ascending(Append(m, x))
    BY <1>1, AppendedAscending DEF Ordered
<1>4. \A i \in DOMAIN Append(m, x) : \/ i \in DOMAIN m /\ Append(m, x)[i] = m[i]
                                    \/ Append(m, x)[i] = x
    OBVIOUS
<1> HIDE DEF x
<1>5. \A i \in DOMAIN Append(m, x), j \in DOMAIN Tail(b) : Append(m, x)[i] < Tail(b)[j].id
    BY <1>1, <1>2, <1>4 DEF Ordered
<1>6. \A i \in DOMAIN Append(m, x) : Append(m, x)[i] <= n
    BY <1>1, <1>4 DEF Ordered
<1>7. Ordered(m, Tail(b), n)
    BY OrderedSkip
<1>8. Ordered(Append(m, x), Tail(b), n)
    BY <1>3, <1>5, <1>6, <1>7 DEF Ordered
<1> QED BY <1>8 DEF x
\* No step reorders what is delivered, queued and in the reader's buffer.
LEMMA SessionStepOrder ==
    ASSUME TypeOK, InvOrder, [SessionStep]_vars
    PROVE  InvOrder'
<1> DEFINE m == delivered \o queue
<1>1. m \in Seq(Nat) /\ buffer \in Seq(Frame) /\ arrived \in Nat /\ Ordered(m, buffer, arrived)
    BY DEF TypeOK, InvOrder, Ordered
<1>2. ASSUME m' = m, buffer' = buffer, arrived' = arrived
      PROVE  InvOrder'
    BY <1>2 DEF InvOrder
<1>3. ASSUME Ordered(m', buffer', arrived')
      PROVE  InvOrder'
    BY <1>3 DEF InvOrder, Ordered
<1>4. CASE DataReceived
    <2>1. PICK k \in FrameKinds : buffer' = Append(buffer, [kind |-> k, id |-> arrived'])
        BY <1>4 DEF DataReceived
    <2>2. /\ [kind |-> k, id |-> arrived'] \in Frame
          /\ [kind |-> k, id |-> arrived'].id = arrived + 1 /\ arrived' = arrived + 1
        BY <1>1, <1>4, FrameKindsAssumption DEF DataReceived, Frame
    <2>3. m' = m
        BY <1>4 DEF DataReceived
    <2> HIDE DEF m
    <2>4. Ordered(m, buffer', arrived')
        BY <1>1, <2>1, <2>2, OrderedArrive
    <2> QED BY <1>3, <2>3, <2>4
<1>5. CASE ReadMessage
    <2>1. CASE Head(buffer).kind = "msg" /\ cpc # "poll_queue"
        <3>1. Head(buffer) \in Frame
            BY <1>1, <1>5, HeadTail DEF ReadMessage
        <3>2. Head(buffer).id \in Nat
            BY <3>1 DEF Frame
        <3>3. m' = Append(m, Head(buffer).id)
            BY <1>5, <2>1, <3>2 DEF ReadMessage, TypeOK
        <3> HIDE DEF m
        <3>4. Ordered(m', buffer', arrived')
            BY <1>1, <1>5, <3>3, OrderedRead DEF ReadMessage
        <3> QED BY <1>3, <3>4
    <2>2. CASE ~(Head(buffer).kind = "msg" /\ cpc # "poll_queue")
        <3>1. m' = m
            BY <1>5, <2>2 DEF ReadMessage
        <3> HIDE DEF m
        <3>2. Ordered(m', buffer', arrived')
            BY <1>1, <1>5, <3>1, OrderedSkip DEF ReadMessage
        <3> QED BY <1>3, <3>2
    <2> QED BY <2>1, <2>2
<1>6. CASE ReadEndOfSession
    <2>1. m' = m
        BY <1>6 DEF ReadEndOfSession
    <2> HIDE DEF m
    <2>2. Ordered(m', buffer', arrived')
        BY <1>1, <1>6, <2>1, OrderedSkip DEF ReadEndOfSession
    <2> QED BY <1>3, <2>2
<1>7. CASE DispatchNext \/ HandlerGoesOn \/ ReceiveReturns
    <2>1. m' = m
        BY <1>7, TakenKeepsOrder DEF DispatchNext, HandlerGoesOn, ReceiveReturns, TakeMessage,
           TypeOK
    <2> QED BY <1>2, <1>7, <2>1 DEF DispatchNext, HandlerGoesOn, ReceiveReturns
<1>8. ASSUME UNCHANGED dataVars PROVE InvOrder'
    BY <1>2, <1>8 DEF dataVars
<1>9. CASE (\E dispatching \in BOOLEAN : Connect(dispatching)) \/ ConnectionLost
    <2>1. UNCHANGED dataVars
        BY <1>9 DEF Connect, ConnectionLost, InitiateClose
    <2> QED BY <1>8, <2>1
<1>10. CASE \E d \in BOOLEAN : Close(d) \/ HandlerClose(d) \/ AppInitiatesClose(d)
    <2>1. UNCHANGED dataVars
        BY <1>10 DEF Close, HandlerClose, AppInitiatesClose, InitiateClose
    <2> QED BY <1>8, <2>1
<1>11. CASE RemoteMonitorTrips \/ RunClosingTask
    <2>1. UNCHANGED dataVars
        BY <1>11 DEF RemoteMonitorTrips, RunClosingTask
    <2> QED BY <1>8, <2>1
<1>12. CASE Closer
    <2>1. UNCHANGED dataVars
        BY <1>12 DEF Closer, LocalStopped, RemoteStopped, ReaderDrained, QueueDrained,
               DispatcherStopped, RecvStopped, ReaderStopped, OnCloseReturns,
               OnCloseCancelled, Resume
    <2> QED BY <1>8, <2>1
<1>13. CASE ReadMalformed \/ ReportDrained \/ ReaderEnds
    <2>1. UNCHANGED dataVars
        BY <1>13 DEF ReadMalformed, ReportDrained, ReaderEnds
    <2> QED BY <1>8, <2>1
<1>14. CASE DispatcherEnds \/ ReceiveBlocks \/ ReceiveEnds \/ Monitors
    <2>1. UNCHANGED dataVars
        BY <1>14 DEF DispatcherEnds, ReceiveBlocks, ReceiveEnds, Monitors, LocalMonitorEnds,
               RemoteMonitorEnds
    <2> QED BY <1>8, <2>1
<1>15. CASE HandlerReturns
    BY <1>2, <1>15 DEF HandlerReturns
<1>16. CASE UNCHANGED vars
    BY <1>8, <1>16 DEF vars
<1> QED
    BY <1>4, <1>5, <1>6, <1>7, <1>9, <1>10, <1>11, <1>12, <1>13, <1>14, <1>15, <1>16
    DEF SessionStep, ConnectedStep, Reader, Dispatcher, Closer, Monitors

\* ... nor does starting a task.
LEMMA OrderStep ==
    ASSUME TypeOK, InvOrder, [Next]_vars
    PROVE  InvOrder'
<1>1. CASE StartDispatching \/ StartHeartbeats
    BY <1>1 DEF InvOrder, StartDispatching, StartHeartbeats, dataVars
<1> QED BY <1>1, SessionStepOrder, NextIsSessionStep

\* Messages reach the application in the order they arrived, none twice,
\* whether the dispatcher or receive_msg() takes them.
THEOREM InOrder == SafeSpec => []DeliveredInOrder
<1>1. Init => InvOrder
    BY DEF Init, InvOrder, Ascending
<1>2. TypeOK /\ InvOrder /\ [Next]_vars => InvOrder'
    BY OrderStep
<1>3. InvOrder => DeliveredInOrder
    BY DEF InvOrder, DeliveredInOrder
<1> QED BY <1>1, <1>2, <1>3, TypeCorrect, PTL DEF SafeSpec

-----------------------------------------------------------------------------
(* The invariant, and what a step may never do *)

\* All parts of the invariant that the runs check hold together.
THEOREM Invariance == StartsWhenActive => (SafeSpec => []IInv)
<1> SUFFICES ASSUME StartsWhenActive PROVE SafeSpec => []IInv
    OBVIOUS
<1>1. Init => IInv
    <2>1. Init => InvDrain /\ InvOrder
        BY DEF Init, InvDrain, InvOrder, Ascending, FromQueue, FromRecv, FromReader, FromNotify
    <2> QED BY <2>1, InitTyped, CloseInit DEF IInv
<1>2. IInv /\ [Next]_vars => IInv'
    BY StepTyped, CloseStep, DrainStep, OrderStep DEF IInv
<1> QED BY <1>1, <1>2, PTL DEF SafeSpec

\* A session whose handlers do not close it is closed by another task.
LEMMA CloserIsNoHandler ==
    ASSUME HandlerCloses = {}, TypeOK, closer # "dispatcher", [Next]_vars
    PROVE  closer' # "dispatcher"
<1>1. CASE \/ \E d \in AppCloses : Close(d)
           \/ RemoteMonitorTrips \/ RunClosingTask \/ ReadEndOfSession
    BY <1>1 DEF Close, RemoteMonitorTrips, RunClosingTask, ReadEndOfSession, BeginClose, closeVars
<1>2. CASE Closer
    BY <1>2 DEF Closer, LocalStopped, RemoteStopped, ReaderDrained, QueueDrained,
       DispatcherStopped, RecvStopped, ReaderStopped, OnCloseReturns, OnCloseCancelled, Resume
<1>3. CASE Network \/ StartDispatching \/ StartHeartbeats
    BY <1>3 DEF Network, ConnectionMade, Connect, DataReceived, ConnectionLost, InitiateClose,
       StartDispatching, StartHeartbeats, closeVars
<1>4. CASE \/ ReceiveReturns \/ ReceiveBlocks \/ ReceiveEnds
           \/ \E d \in InitiateCloses : AppInitiatesClose(d)
    BY <1>4 DEF ReceiveReturns, ReceiveBlocks, ReceiveEnds, AppInitiatesClose, InitiateClose,
       closeVars
<1>5. CASE ReadMessage \/ ReadMalformed \/ ReportDrained \/ ReaderEnds \/ Dispatcher \/ Monitors
    BY <1>5 DEF ReadMessage, ReadMalformed, ReportDrained, ReaderEnds, Dispatcher, DispatchNext,
       HandlerReturns, HandlerGoesOn, DispatcherEnds, Monitors, LocalMonitorEnds, RemoteMonitorEnds, closeVars
<1>6. CASE UNCHANGED vars
    BY <1>6 DEF vars, closeVars
<1> QED BY <1>1, <1>2, <1>3, <1>4, <1>5, <1>6 DEF Next, Application, Reader

\* Only DispatchNext puts the dispatcher into a handler.
LEMMA HandlersStart ==
    ASSUME TypeOK, [Next]_vars, disp # "handle", disp' = "handle"
    PROVE  disp = "get"
<1> USE DEF closeVars, taskVars
<1>1. CASE DispatchNext
    BY <1>1 DEF DispatchNext
<1>2. CASE \/ \E d \in AppCloses : Close(d)
           \/ \E d \in HandlerCloses : HandlerClose(d)
           \/ RemoteMonitorTrips \/ RunClosingTask \/ ReadEndOfSession
    BY <1>2 DEF Close, HandlerClose, RemoteMonitorTrips, RunClosingTask, ReadEndOfSession,
       BeginClose, StopLocal, StopRemote, DrainReader, StopQueue, StopRecv, StopReader
<1>3. CASE Closer
    BY <1>3 DEF Closer, LocalStopped, RemoteStopped, ReaderDrained, QueueDrained,
       DispatcherStopped, RecvStopped, ReaderStopped, OnCloseReturns, OnCloseCancelled, Resume,
       StopRemote, DrainReader, StopQueue, StopRecv, StopReader
<1>4. CASE \/ Network \/ StartDispatching \/ StartHeartbeats
           \/ ReceiveReturns \/ ReceiveBlocks \/ ReceiveEnds
           \/ \E d \in InitiateCloses : AppInitiatesClose(d)
    BY <1>4 DEF Network, ConnectionMade, Connect, DataReceived, ConnectionLost, InitiateClose,
       StartDispatching, StartHeartbeats, ReceiveReturns, ReceiveBlocks, ReceiveEnds,
       AppInitiatesClose
<1>5. CASE \/ ReadMessage \/ ReadMalformed \/ ReportDrained \/ ReaderEnds
           \/ HandlerReturns \/ HandlerGoesOn \/ DispatcherEnds \/ Monitors
    BY <1>5 DEF ReadMessage, ReadMalformed, ReportDrained, ReaderEnds, HandlerReturns,
       HandlerGoesOn, HandlerDone, DispatcherEnds, Monitors, LocalMonitorEnds, RemoteMonitorEnds
<1>6. CASE UNCHANGED vars
    BY <1>6 DEF vars
<1> QED BY <1>1, <1>2, <1>3, <1>4, <1>5, <1>6 DEF Next, Application, Reader, Dispatcher

\* When no handler closes the session, none starts once on_close_coro has been
\* called.  (One that does may be followed by another: the dispatcher is not
\* cancelled by itself.)
THEOREM NoLateHandler ==
    StartsWhenActive /\ HandlerCloses = {} => (SafeSpec => NoDispatchAfterNotify)
<1> SUFFICES ASSUME StartsWhenActive, HandlerCloses = {}
             PROVE  SafeSpec => NoDispatchAfterNotify
    OBVIOUS
<1> DEFINE I == TypeOK /\ CloseInv /\ closer # "dispatcher"
           Kept == notified > 0 /\ disp # "handle" => disp' # "handle"
<1>1. Init => I
    BY InitTyped, CloseInit DEF Init
<1>2. I /\ [Next]_vars => I'
    BY StepTyped, CloseStep, CloserIsNoHandler
<1>3. I /\ [Next]_vars => Kept
    <2> SUFFICES ASSUME I, [Next]_vars, notified > 0, disp # "handle", disp' = "handle"
                 PROVE  FALSE
        OBVIOUS
    <2>1. disp = "get"
        BY HandlersStart
    <2>2. cpc \in FromNotify
        BY DEF CloseInv, InvCloser
    <2> QED BY <2>1, <2>2 DEF CloseInv, InvDispatcher, FromNotify, FromReader, FromRecv
<1> QED BY <1>1, <1>2, <1>3, PTL DEF SafeSpec, NoDispatchAfterNotify

-----------------------------------------------------------------------------
(* The contract *)

MessageFrames == [kind : {"msg"}, id : Nat]

-----------------------------------------------------------------------------
(* The backlog *)

\* Frames that are messages have the numbers of messages.
LEMMA UnreadType == TypeOK => Unread \in Seq(MessageFrames) /\ Unread \in Seq(Frame)
<1> SUFFICES ASSUME TypeOK
             PROVE  Unread \in Seq(MessageFrames) /\ Unread \in Seq(Frame)
    OBVIOUS
<1>1. Unread \in Seq(Frame \intersect MessageFrames)
    BY SelectedType DEF Unread, MessageFrames, TypeOK
<1> QED BY <1>1, SeqMonotonic

\* A function on the first n numbers is a sequence of length n.
LEMMA FunctionIsSeq ==
    ASSUME NEW S, NEW n \in Nat, NEW f \in [1..n -> S]
    PROVE  f \in Seq(S) /\ Len(f) = n
<1>1. f \in Seq(S)
    BY SeqDef
<1>2. Len(f) \in Nat /\ DOMAIN f = 1..Len(f) /\ DOMAIN f = 1..n
    BY <1>1, LenProperties
<1> QED BY <1>1, <1>2

\* The numbers of frames are numbers.
LEMMA IdsType ==
    ASSUME NEW s \in Seq(Frame)
    PROVE  Ids(s) \in Seq(Nat) /\ Len(Ids(s)) = Len(s) /\ \A i \in 1..Len(s) : Ids(s)[i] = s[i].id
<1>1. Len(s) \in Nat /\ DOMAIN s = 1..Len(s) /\ \A i \in 1..Len(s) : s[i] \in Frame
    BY LenProperties, ElementOfSeq
<1>2. \A f \in Frame : f.id \in Nat
    BY DEF Frame
<1>3. Ids(s) \in [1..Len(s) -> Nat]
    BY <1>1, <1>2 DEF Ids
<1>4. \A i \in 1..Len(s) : Ids(s)[i] = s[i].id
    BY <1>1 DEF Ids
<1> QED BY <1>1, <1>3, <1>4, FunctionIsSeq

\* The numbers of one frame more.
LEMMA IdsAppend ==
    ASSUME NEW s \in Seq(Frame), NEW f \in Frame
    PROVE  Ids(Append(s, f)) = Append(Ids(s), f.id)
<1> DEFINE t == Append(s, f)
           x == f.id
<1>1. x \in Nat
    BY DEF Frame
<1>2. /\ t \in Seq(Frame) /\ Len(s) \in Nat /\ Len(t) = Len(s) + 1
      /\ t[Len(s) + 1] = f /\ \A i \in 1..Len(s) : t[i] = s[i]
    BY AppendProperties, LenProperties
<1>3. t[Len(s) + 1].id = x
    BY <1>2
<1> HIDE DEF t, x
<1>4. /\ Ids(s) \in Seq(Nat) /\ Len(Ids(s)) = Len(s)
      /\ \A i \in 1..Len(s) : Ids(s)[i] = s[i].id
    BY IdsType
<1>5. /\ Ids(t) \in Seq(Nat) /\ Len(Ids(t)) = Len(s) + 1
      /\ \A i \in 1..(Len(s) + 1) : Ids(t)[i] = t[i].id
    BY <1>2, IdsType
<1>6. /\ Append(Ids(s), x) \in Seq(Nat) /\ Len(Append(Ids(s), x)) = Len(s) + 1
      /\ Append(Ids(s), x)[Len(s) + 1] = x
      /\ \A i \in 1..Len(s) : Append(Ids(s), x)[i] = Ids(s)[i]
    BY <1>1, <1>4, AppendProperties
<1>7. \A i \in 1..(Len(s) + 1) : i \in 1..Len(s) \/ i = Len(s) + 1
    BY <1>2
<1>8. \A i \in 1..(Len(s) + 1) : Ids(t)[i] = Append(Ids(s), x)[i]
    BY <1>2, <1>3, <1>4, <1>5, <1>6, <1>7
<1>9. Ids(t) = Append(Ids(s), x)
    BY <1>5, <1>6, <1>8, SeqEqual
<1> QED BY <1>9 DEF t, x

\* The numbers of all frames but the first.
LEMMA IdsTail ==
    ASSUME NEW s \in Seq(Frame), s # <<>>
    PROVE  Ids(s) # <<>> /\ Head(Ids(s)) = Head(s).id /\ Tail(Ids(s)) = Ids(Tail(s))
<1>1. /\ Ids(s) \in Seq(Nat) /\ Len(Ids(s)) = Len(s) /\ Len(s) \in Nat \ {0}
      /\ \A i \in 1..Len(s) : Ids(s)[i] = s[i].id
    BY IdsType, EmptySeq
<1>2. /\ Tail(s) \in Seq(Frame) /\ Len(Tail(s)) = Len(s) - 1
      /\ \A i \in 1..(Len(s) - 1) : Tail(s)[i] = s[i + 1]
    BY HeadTailProperties
<1>3. Ids(s) # <<>> /\ Head(Ids(s)) = Head(s).id
    <2>1. 1 \in 1..Len(s) /\ Len(Ids(s)) # 0
        BY <1>1
    <2>2. Ids(s) # <<>>
        BY <1>1, <2>1, EmptySeq
    <2>3. Head(Ids(s)) = Ids(s)[1] /\ Head(s) = s[1]
        BY <1>1, <2>2
    <2> QED BY <1>1, <2>1, <2>2, <2>3
<1>4. /\ Tail(Ids(s)) \in Seq(Nat) /\ Len(Tail(Ids(s))) = Len(s) - 1
      /\ \A i \in 1..(Len(s) - 1) : Tail(Ids(s))[i] = Ids(s)[i + 1]
    BY <1>1, <1>3, HeadTailProperties
<1>5. /\ Ids(Tail(s)) \in Seq(Nat) /\ Len(Ids(Tail(s))) = Len(s) - 1
      /\ \A i \in 1..(Len(s) - 1) : Ids(Tail(s))[i] = Tail(s)[i].id
    BY <1>2, IdsType
<1>6. \A i \in 1..(Len(s) - 1) : i + 1 \in 1..Len(s)
    BY <1>1
<1>7. \A i \in 1..(Len(s) - 1) : Tail(Ids(s))[i] = Ids(Tail(s))[i]
    BY <1>1, <1>2, <1>4, <1>5, <1>6
<1>8. Tail(Ids(s)) = Ids(Tail(s))
    BY <1>4, <1>5, <1>7, SeqEqual
<1> QED BY <1>3, <1>8

\* Without frames nothing is unread.
LEMMA NoneUnread == buffer = <<>> => Ids(Unread) = <<>>
BY SelectedEmpty DEF Unread, Ids

\* A frame that arrives is unread if it is a message.
LEMMA UnreadArrive ==
    ASSUME TypeOK, NEW f \in Frame, buffer' = Append(buffer, f)
    PROVE  Ids(Unread)' = IF f.kind = "msg" THEN Append(Ids(Unread), f.id) ELSE Ids(Unread)
<1>1. Unread' = IF f \in MessageFrames THEN Append(Unread, f) ELSE Unread
    <2>1. Unread = Selected(buffer, MessageFrames) /\ Unread' = Selected(buffer', MessageFrames)
        BY DEF Unread, MessageFrames
    <2>2. buffer \in Seq(Frame)
        BY DEF TypeOK
    <2> QED BY <2>1, <2>2, SelectedAppend
<1>2. f \in MessageFrames <=> f.kind = "msg"
    BY DEF Frame, MessageFrames
<1>3. Ids(Unread)' = Ids(Unread')
    BY DEF Ids
<1> QED BY <1>1, <1>2, <1>3, UnreadType, IdsAppend

\* A frame that is read was unread if it is a message.
LEMMA UnreadRead ==
    ASSUME TypeOK, buffer # <<>>, buffer' = Tail(buffer)
    PROVE  IF Head(buffer).kind = "msg"
           THEN /\ Ids(Unread) # <<>> /\ Head(Ids(Unread)) = Head(buffer).id
                /\ Ids(Unread)' = Tail(Ids(Unread))
           ELSE Ids(Unread)' = Ids(Unread)
<1>1. buffer \in Seq(Frame) /\ Head(buffer) \in Frame
    BY HeadTail DEF TypeOK
<1>2. IF Head(buffer) \in MessageFrames
      THEN Unread # <<>> /\ Head(Unread) = Head(buffer) /\ Tail(Unread) = Unread'
      ELSE Unread = Unread'
    BY <1>1, SelectedHead DEF Unread, MessageFrames
<1>3. Head(buffer) \in MessageFrames <=> Head(buffer).kind = "msg"
    BY <1>1 DEF Frame, MessageFrames
<1>4. Ids(Unread)' = Ids(Unread')
    BY DEF Ids
<1> QED BY <1>2, <1>3, <1>4, UnreadType, IdsTail

\* A joined sequence is cut within the first part.
LEMMA CutOfConcat ==
    ASSUME NEW S, NEW s \in Seq(S), NEW t \in Seq(S), NEW n \in 1..Len(s)
    PROVE  /\ SubSeq(s \o t, 1, n) = SubSeq(s, 1, n)
           /\ SubSeq(s \o t, n + 1, Len(s \o t)) = SubSeq(s, n + 1, Len(s)) \o t
<1> DEFINE l == Len(s)
           u == s \o t
           a == SubSeq(s, n + 1, l)
           b == SubSeq(u, n + 1, Len(u))
<1>1. /\ l \in Nat /\ Len(t) \in Nat /\ n \in 1..l /\ 1 \in 1..l
      /\ \A i \in (n + 1)..l : s[i] \in S
    OBVIOUS
<1>2. /\ u \in Seq(S) /\ Len(u) = l + Len(t)
      /\ \A i \in 1..(l + Len(t)) : u[i] = IF i <= l THEN s[i] ELSE t[i - l]
    BY ConcatProperties
<1>3. /\ a \in Seq(S) /\ Len(a) = l - n
      /\ \A i \in 1..(l - n) : a[i] = s[n + i]
    <2>1. /\ a \in Seq(S) /\ Len(a) = IF n + 1 <= l THEN l - (n + 1) + 1 ELSE 0
          /\ \A i \in 1..(l - (n + 1) + 1) : a[i] = s[(n + 1) + i - 1]
        BY <1>1, SubSeqProperties
    <2> QED BY <1>1, <2>1
<1>4. /\ b \in Seq(S) /\ Len(b) = l + Len(t) - n
      /\ \A i \in 1..(l + Len(t) - n) : b[i] = u[n + i]
    <2>1. \A i \in (n + 1)..Len(u) : u[i] \in S
        BY <1>1, <1>2
    <2>2. /\ b \in Seq(S) /\ Len(b) = IF n + 1 <= Len(u) THEN Len(u) - (n + 1) + 1 ELSE 0
          /\ \A i \in 1..(Len(u) - (n + 1) + 1) : b[i] = u[(n + 1) + i - 1]
        BY <1>1, <1>2, <2>1, SubSeqProperties
    <2> QED BY <1>1, <1>2, <2>2
<1>5. SubSeq(u, 1, n) = SubSeq(s, 1, n)
    BY <1>1, SubSeqOfConcat1
<1> HIDE DEF l, u, a, b
<1>6. /\ a \o t \in Seq(S) /\ Len(a \o t) = l - n + Len(t)
      /\ \A i \in 1..(l - n + Len(t)) : (a \o t)[i] = IF i <= l - n THEN a[i] ELSE t[i - (l - n)]
    BY <1>3, ConcatProperties
<1>7. \A i \in 1..(l + Len(t) - n) : b[i] = (a \o t)[i]
    <2> SUFFICES ASSUME NEW i \in 1..(l + Len(t) - n) PROVE b[i] = (a \o t)[i]
        OBVIOUS
    <2>1. n + i \in 1..(l + Len(t)) /\ (n + i) - l = i - (l - n)
        BY <1>1
    <2>2. b[i] = IF n + i <= l THEN s[n + i] ELSE t[i - (l - n)]
        BY <1>2, <1>4, <2>1
    <2>3. CASE i <= l - n
        <3>1. i \in 1..(l - n) /\ i \in 1..(l - n + Len(t)) /\ n + i <= l
            BY <1>1, <2>3
        <3>2. b[i] = s[n + i] /\ a[i] = s[n + i] /\ (a \o t)[i] = a[i]
            BY <1>3, <1>6, <2>2, <2>3, <3>1
        <3> QED BY <3>2
    <2>4. CASE ~(i <= l - n)
        <3>1. i \in 1..(l - n + Len(t)) /\ ~(n + i <= l)
            BY <1>1, <2>4
        <3> QED BY <1>6, <2>2, <2>4, <3>1
    <2> QED BY <2>3, <2>4
<1>8. b = a \o t
    <2> DEFINE c == a \o t
    <2>1. c \in Seq(S) /\ Len(c) = l - n + Len(t)
        BY <1>6
    <2>2. \A i \in 1..(l + Len(t) - n) : b[i] = c[i]
        BY <1>7
    <2> HIDE DEF c
    <2>3. Len(t) \in Nat /\ l - n + Len(t) = l + Len(t) - n
        BY <1>1
    <2>4. Len(c) = Len(b)
        BY <1>4, <2>1, <2>3
    <2>5. \A i \in 1..Len(b) : b[i] = c[i]
        BY <1>4, <2>2
    <2>6. b = c
        BY <1>4, <2>1, <2>4, <2>5, SeqEqual
    <2> QED BY <2>6 DEF c
<1> QED BY <1>5, <1>8 DEF l, u, a, b

-----------------------------------------------------------------------------
(* The steps *)

\* What the steps rely on.  It survives tasks that are started too late.
ContractInv == TypeOK /\ InvCloser /\ InvDrain

ContractStep == [Contract!CNext]_(Contract!cvars)

\* The backlog is a sequence of numbers.
LEMMA BacklogType == TypeOK => Ids(Unread) \in Seq(Nat) /\ queue \in Seq(Nat) /\ Backlog \in Seq(Nat)
<1> SUFFICES ASSUME TypeOK
             PROVE  Ids(Unread) \in Seq(Nat) /\ queue \in Seq(Nat) /\ Backlog \in Seq(Nat)
    OBVIOUS
<1>1. Ids(Unread) \in Seq(Nat) /\ queue \in Seq(Nat)
    BY UnreadType, IdsType DEF TypeOK
<1> QED BY <1>1, ConcatProperties DEF Backlog

\* The backlog depends on queue and buffer alone.
LEMMA SameBacklog == UNCHANGED <<queue, buffer>> => UNCHANGED Backlog
BY DEF Backlog, Unread, Ids

\* The phase depends on three variables.
LEMMA SamePhase == UNCHANGED <<closed, drainArg, notified>> => UNCHANGED Phase
BY DEF Phase

\* A step that moves no message and does not close is none of the contract.
LEMMA Rests ==
    ASSUME UNCHANGED Phase, UNCHANGED Backlog, UNCHANGED delivered
    PROVE  ContractStep
BY DEF ContractStep, Contract!cvars

\* The call of close() that passes its guard.
LEMMA Begins ==
    ASSUME ContractInv, ContractInv', NEW me, NEW d, NEW p, BeginClose(me, d, p),
           UNCHANGED Backlog, UNCHANGED delivered
    PROVE  ContractStep
<1>1. Phase = "open"
    BY DEF BeginClose, FirstClose, ContractInv, InvCloser, FromNotify, Phase
<1>2. closed' /\ notified' \in Nat /\ drainArg' \in BOOLEAN
    BY DEF BeginClose, ContractInv, TypeOK
<1>3. Phase' \in {"closing", "draining", "closed"}
    BY <1>2 DEF Phase
<1> QED BY <1>1, <1>3 DEF ContractStep, Contract!CNext, Contract!BeginToClose

\* A fragment of close() that may reach on_close_coro.
LEMMA Finishes ==
    ASSUME ContractInv, ContractInv', closed, UNCHANGED <<closed, drainArg, buffer, queue, delivered>>,
           notified = 0 \/ notified' = notified
    PROVE  ContractStep
<1>1. UNCHANGED Backlog
    BY SameBacklog
<1>2. CASE notified' = notified
    BY <1>1, <1>2, SamePhase, Rests
<1>3. CASE notified = 0 /\ notified' # notified
    <2>1. notified' > 0 /\ cpc' \in FromNotify
        BY <1>3 DEF ContractInv, TypeOK, CloseInv, InvCloser
    <2>2. drainArg => buffer = <<>> /\ queue = <<>>
        BY <2>1 DEF ContractInv, InvDrain, FromQueue, FromRecv, FromReader
    <2>3. Phase' = "closed" /\ Phase = IF drainArg THEN "draining" ELSE "closing"
        BY <1>3, <2>1 DEF Phase
    <2>4. drainArg => Backlog = <<>>
        BY <2>2, NoneUnread DEF Backlog
    <2> QED BY <1>1, <2>3, <2>4 DEF ContractStep, Contract!CNext, Contract!FinishClose
<1> QED BY <1>2, <1>3

\* The messages that are taken are the first of the backlog.
LEMMA Takes ==
    ASSUME TypeOK, NEW n \in 1..Len(queue),
           delivered' = delivered \o SubSeq(queue, 1, n),
           queue' = SubSeq(queue, n + 1, Len(queue)),
           UNCHANGED <<closed, drainArg, notified, buffer>>
    PROVE  ContractStep
<1> DEFINE ids == Ids(Unread)
<1>1. ids \in Seq(Nat) /\ queue \in Seq(Nat)
    BY BacklogType
<1>2. Ids(Unread)' = ids
    BY DEF Unread, Ids
<1> HIDE DEF ids
<1>3. Backlog = queue \o ids /\ Backlog' = queue' \o ids
    BY <1>2 DEF Backlog, ids
<1>4. n \in 1..Len(Backlog)
    BY <1>1, <1>3
<1>5. /\ SubSeq(Backlog, 1, n) = SubSeq(queue, 1, n)
      /\ SubSeq(Backlog, n + 1, Len(Backlog)) = queue' \o ids
    BY <1>1, <1>3, CutOfConcat
<1>6. Contract!Take
    BY <1>3, <1>4, <1>5, SamePhase DEF Contract!Take
<1> QED BY <1>6 DEF ContractStep, Contract!CNext

\* One message that is taken.
LEMMA TakesOne ==
    ASSUME TypeOK, TakeMessage, UNCHANGED <<closed, drainArg, notified, buffer>>
    PROVE  ContractStep
<1>1. queue \in Seq(Nat) /\ queue # <<>> /\ delivered \in Seq(Nat)
    BY DEF TypeOK, TakeMessage
<1>2. /\ 1 \in 1..Len(queue) /\ SubSeq(queue, 2, Len(queue)) = Tail(queue)
      /\ SubSeq(queue, 1, 1) = <<Head(queue)>>
    <2>1. 1 \in 1..Len(queue) /\ Head(queue) = queue[1]
        BY <1>1
    <2>2. SubSeq(queue, 1, 1) = <<queue[1]>>
        <3>1. SubSeq(queue, 1, 1) = <<queue[1]>> \o SubSeq(queue, 1 + 1, 1)
            BY <1>1, <2>1, SubSeqRecursiveFirst
        <3>2. SubSeq(queue, 1 + 1, 1) = <<>>
            BY SubSeqEmpty
        <3>3. <<queue[1]>> \in Seq(Nat)
            BY <1>1, <2>1
        <3> QED BY <3>1, <3>2, <3>3, ConcatEmptySeq
    <2>3. Tail(queue) = SubSeq(queue, 2, Len(queue))
        BY <1>1, TailIsSubSeq
    <2> QED BY <2>1, <2>2, <2>3
<1>3. delivered \o <<Head(queue)>> = Append(delivered, Head(queue))
    BY <1>1
<1>4. delivered' = delivered \o SubSeq(queue, 1, 1) /\ queue' = SubSeq(queue, 1 + 1, Len(queue))
    BY <1>2, <1>3 DEF TakeMessage
<1> QED BY <1>2, <1>4, Takes

\* A message that arrives joins the end of the backlog of an open session.
LEMMA Arrives ==
    ASSUME ContractInv, DataReceived
    PROVE  ContractStep
<1> DEFINE ids == Ids(Unread)
           id == arrived + 1
<1>1. /\ TypeOK /\ ids \in Seq(Nat) /\ queue \in Seq(Nat)
      /\ id \in Nat /\ id \in 1..MaxFrames
    BY BacklogType, MaxFramesAssumption DEF ContractInv, TypeOK, DataReceived
<1>2. PICK k \in FrameKinds : buffer' = Append(buffer, [kind |-> k, id |-> id])
    BY DEF DataReceived
<1> DEFINE f == [kind |-> k, id |-> id]
<1>3. f \in Frame /\ f.kind = k /\ f.id = id
    BY <1>1, FrameKindsAssumption DEF Frame
<1>4. buffer' = Append(buffer, f) /\ UNCHANGED <<queue, delivered>>
    BY <1>2 DEF DataReceived
<1>5. UNCHANGED Phase
    BY SamePhase DEF DataReceived, closeVars
<1>6. Phase = "open"
    BY DEF DataReceived, ContractInv, InvCloser, FromNotify, Phase
<1> HIDE DEF f, id
<1>7. Ids(Unread)' = IF k = "msg" THEN Append(ids, id) ELSE ids
    BY <1>1, <1>3, <1>4, UnreadArrive
<1> HIDE DEF ids
<1>8. Backlog = queue \o ids /\ Backlog' = queue \o (IF k = "msg" THEN Append(ids, id) ELSE ids)
    BY <1>4, <1>7 DEF Backlog, ids
<1>9. CASE k = "msg"
    <2>1. queue \o Append(ids, id) = Append(queue \o ids, id)
        BY <1>1
    <2>2. Contract!Arrive
        BY <1>1, <1>4, <1>5, <1>6, <1>8, <1>9, <2>1 DEF Contract!Arrive
    <2> QED BY <2>2 DEF ContractStep, Contract!CNext
<1>10. CASE k # "msg"
    BY <1>4, <1>5, <1>8, <1>10, Rests
<1> QED BY <1>9, <1>10

\* A message goes from the reader to the queue, within the backlog.
LEMMA Reads ==
    ASSUME ContractInv, ReadMessage
    PROVE  ContractStep
<1> DEFINE ids == Ids(Unread)
           h == Head(buffer)
<1>1. TypeOK /\ ids \in Seq(Nat) /\ queue \in Seq(Nat)
    BY BacklogType DEF ContractInv
<1>2. buffer # <<>> /\ buffer' = Tail(buffer) /\ cpc # "poll_queue"
    BY DEF ReadMessage, ContractInv, InvDrain
<1>3. queue' = IF h.kind = "msg" THEN Append(queue, h.id) ELSE queue
    BY <1>2 DEF ReadMessage
<1>4. IF h.kind = "msg"
      THEN ids # <<>> /\ Head(ids) = h.id /\ Ids(Unread)' = Tail(ids)
      ELSE Ids(Unread)' = ids
    BY <1>1, <1>2, UnreadRead
<1> HIDE DEF ids, h
<1>5. UNCHANGED Backlog
    <2>1. CASE h.kind = "msg"
        BY <1>1, <1>3, <1>4, <2>1, TakenKeepsOrder DEF Backlog, ids
    <2>2. CASE h.kind # "msg"
        BY <1>3, <1>4, <2>2 DEF Backlog, ids
    <2> QED BY <2>1, <2>2
<1> QED BY <1>5, SamePhase, Rests DEF ReadMessage, closeVars

\* The end of the session is read; it is no message.
LEMMA ReadsEnd ==
    ASSUME ContractInv, ContractInv', ReadEndOfSession
    PROVE  ContractStep
<1>1. UNCHANGED Backlog /\ UNCHANGED delivered
    <2>1. Ids(Unread)' = Ids(Unread)
        BY UnreadRead DEF ReadEndOfSession, ContractInv
    <2> QED BY <2>1 DEF ReadEndOfSession, Backlog
<1>2. CASE BeginClose("reader", FALSE, TRUE)
    BY <1>1, <1>2, Begins
<1>3. CASE UNCHANGED closeVars
    BY <1>1, <1>3, SamePhase, Rests DEF closeVars
<1> QED BY <1>2, <1>3 DEF ReadEndOfSession

\* Every step of a session is a step of the contract, or none.
LEMMA SessionStepRefines ==
    ASSUME ContractInv, ContractInv', [SessionStep]_vars
    PROVE  ContractStep
<1>1. CASE \/ \E dispatching \in BOOLEAN : Connect(dispatching)
           \/ ReceiveBlocks \/ ReceiveEnds
           \/ ConnectionLost \/ \E d \in BOOLEAN : AppInitiatesClose(d)
           \/ ReadMalformed \/ ReportDrained \/ ReaderEnds
           \/ DispatcherEnds \/ LocalMonitorEnds \/ RemoteMonitorEnds
           \/ HandlerReturns \/ UNCHANGED vars
    <2>1. UNCHANGED <<closeVars, buffer, queue, delivered>>
        BY <1>1 DEF Connect, ReceiveBlocks, ReceiveEnds,
           ConnectionLost, AppInitiatesClose, InitiateClose, ReadMalformed, ReportDrained,
           ReaderEnds, DispatcherEnds, LocalMonitorEnds, RemoteMonitorEnds, HandlerReturns,
           vars, dataVars
    <2> QED BY <2>1, SameBacklog, SamePhase, Rests DEF closeVars
<1>2. CASE DataReceived
    BY <1>2, Arrives
<1>3. CASE ReadMessage
    BY <1>3, Reads
<1>4. CASE ReadEndOfSession
    BY <1>4, ReadsEnd
<1>5. CASE ReceiveReturns \/ DispatchNext \/ HandlerGoesOn
    BY <1>5, TakesOne DEF ReceiveReturns, DispatchNext, HandlerGoesOn, closeVars, ContractInv
<1>6. CASE \E me \in Tasks, d \in BOOLEAN : BeginClose(me, d, FALSE) /\ UNCHANGED dataVars
    BY <1>6, SameBacklog, Begins DEF dataVars
<1>7. CASE \E d \in BOOLEAN : Close(d) \/ HandlerClose(d)
    BY <1>7, <1>6 DEF Close, HandlerClose, Tasks
<1>8. CASE RemoteMonitorTrips
    <2>1. CASE UNCHANGED <<closeVars, dataVars>>
        BY <2>1, SameBacklog, SamePhase, Rests DEF closeVars, dataVars
    <2> QED BY <1>8, <1>6, <2>1 DEF RemoteMonitorTrips, Tasks
<1>9. CASE RunClosingTask
    <2>1. CASE UNCHANGED <<closeVars, dataVars>>
        BY <2>1, SameBacklog, SamePhase, Rests DEF closeVars, dataVars
    <2> QED BY <1>9, <1>6, <2>1 DEF RunClosingTask, Tasks
<1>10. CASE Closer
    <2>1. cpc # "idle" /\ (cpc \notin FromNotify \/ notified' = notified)
        BY <1>10 DEF Closer, LocalStopped, RemoteStopped, ReaderDrained, QueueDrained,
           DispatcherStopped, RecvStopped, ReaderStopped, OnCloseReturns, OnCloseCancelled,
           FromNotify
    <2>2. UNCHANGED <<closed, drainArg, buffer, queue, delivered>>
        BY <1>10 DEF Closer, LocalStopped, RemoteStopped, ReaderDrained, QueueDrained,
           DispatcherStopped, RecvStopped, ReaderStopped, OnCloseReturns, OnCloseCancelled,
           Resume, dataVars
    <2>3. closed /\ (notified = 0 \/ notified' = notified)
        BY <2>1 DEF ContractInv, InvCloser
    <2> QED BY <2>2, <2>3, Finishes
<1> QED BY <1>1, <1>2, <1>3, <1>4, <1>5, <1>7, <1>8, <1>9, <1>10
        DEF SessionStep, ConnectedStep, Reader, Dispatcher, Monitors

\* ... also where the session is told to start tasks.
LEMMA StepRefines ==
    ASSUME IInv, IInv', [Next]_vars
    PROVE  ContractStep
<1>1. ContractInv /\ ContractInv'
    BY DEF IInv, CloseInv, ContractInv
<1>2. CASE StartDispatching \/ StartHeartbeats
    BY <1>2, SameBacklog, SamePhase, Rests
    DEF StartDispatching, StartHeartbeats, closeVars, dataVars
<1> QED BY <1>1, <1>2, NextIsSessionStep, SessionStepRefines

\* Whatever the peer sends, whoever closes the session and with whatever drain
\* argument, messages are taken in the order of their arrival, each once, and a
\* draining close completes only when all are taken: as SessionContract says.
THEOREM ImplementsContract == StartsWhenActive => (SafeSpec => ContractSafety)
<1> SUFFICES ASSUME StartsWhenActive PROVE SafeSpec => ContractSafety
    OBVIOUS
<1>1. Init => Contract!CInit
    <2> SUFFICES ASSUME Init PROVE Contract!CInit
        OBVIOUS
    <2>1. Ids(Unread) = <<>> /\ queue = <<>>
        BY NoneUnread DEF Init
    <2> QED BY <2>1 DEF Contract!CInit, Backlog, Phase, Init
<1>2. IInv /\ IInv' /\ [Next]_vars => [Contract!CNext]_(Contract!cvars)
    BY StepRefines DEF ContractStep
<1>3. SafeSpec => []IInv
    BY Invariance
<1> QED BY <1>1, <1>2, <1>3, PTL DEF SafeSpec, ContractSafety, Contract!CSafeSpec

-----------------------------------------------------------------------------
(* What a session's own steps keep, also one whose login came too late *)

\* The call of close() that passes the guard.
LEMMA BeginClosePlace ==
    ASSUME TypeOK, PlaceInv, NEW me \in Tasks \ {"none"}, NEW d, NEW p,
           transport # "none",
           BeginClose(me, d, p)
    PROVE  PlaceInv'
<1> USE DEF FromNotify, AwaitPoints, EndPoints, FirstClose, BeginClose, StopLocal, StopRemote,
            DrainReader, StopQueue, StopRecv, StopReader, Notify, Suspend, TypeOK, PlaceInv,
            InvCloser
<1>1. transport' # "open" /\ transport' # "none"
    OBVIOUS
<1>2. InvCloser'
    BY <1>1
<1> QED BY <1>1, <1>2 DEF InvUnconnected

\* Every other step.
LEMMA SessionStepPlace ==
    ASSUME TypeOK, PlaceInv, [SessionStep]_vars
    PROVE  PlaceInv'
<1> USE DEF FromNotify, AwaitPoints, EndPoints, TypeOK, PlaceInv, InvUnconnected, InvCloser
<1>1. CASE \E dispatching \in BOOLEAN : Connect(dispatching)
    BY <1>1 DEF Connect, taskVars, closeVars
<1>2. CASE DataReceived
    BY <1>2 DEF DataReceived, taskVars, closeVars
<1>3. CASE LocalStopped
    BY <1>3 DEF LocalStopped, Resume, StopRemote, DrainReader, StopQueue, StopRecv,
       StopReader, Notify, Suspend
<1>4. CASE RemoteStopped
    BY <1>4 DEF RemoteStopped, Resume, DrainReader, StopQueue, StopRecv, StopReader,
       Notify, Suspend
<1>5. CASE ReaderDrained
    BY <1>5 DEF ReaderDrained, Suspend, Resume, taskVars
<1>6. CASE QueueDrained
    BY <1>6 DEF QueueDrained, Resume, StopQueue, StopRecv, StopReader, Notify, Suspend
<1>7. CASE DispatcherStopped
    BY <1>7 DEF DispatcherStopped, Resume, StopRecv, StopReader, Notify, Suspend
<1>8. CASE RecvStopped
    BY <1>8 DEF RecvStopped, Resume, StopReader, Notify, Suspend
<1>9. CASE ReaderStopped
    BY <1>9 DEF ReaderStopped, Notify, Resume
<1>10. CASE OnCloseReturns \/ OnCloseCancelled
    BY <1>10 DEF OnCloseReturns, OnCloseCancelled, taskVars
<1>11. CASE \E d \in BOOLEAN : AppInitiatesClose(d)
    BY <1>11 DEF AppInitiatesClose, InitiateClose, taskVars, closeVars
<1>12. CASE ConnectionLost
    BY <1>12 DEF ConnectionLost, InitiateClose, taskVars, closeVars
<1>13. CASE ReadMessage \/ ReportDrained
    BY <1>13 DEF ReadMessage, ReportDrained, taskVars, closeVars
<1>14. CASE ReadMalformed \/ ReaderEnds
    BY <1>14 DEF ReadMalformed, ReaderEnds, ReaderRuns, taskVars, closeVars
<1>15. CASE Dispatcher
    BY <1>15 DEF Dispatcher, DispatchNext, HandlerReturns, HandlerGoesOn, HandlerDone,
       DispatcherEnds, taskVars, closeVars
<1>16. CASE ReceiveReturns \/ ReceiveBlocks \/ ReceiveEnds
    BY <1>16 DEF ReceiveReturns, ReceiveBlocks, ReceiveEnds, taskVars, closeVars
<1>17. CASE Monitors
    BY <1>17 DEF Monitors, LocalMonitorEnds, RemoteMonitorEnds, taskVars, closeVars
<1>18. CASE UNCHANGED vars
    BY <1>18 DEF vars, taskVars, closeVars
<1>19. CASE \E d \in BOOLEAN : Close(d)
    BY <1>19, BeginClosePlace DEF Close, Tasks
<1>20. CASE \E d \in BOOLEAN : HandlerClose(d)
    BY <1>20, BeginClosePlace DEF HandlerClose, Tasks
<1>21. CASE RemoteMonitorTrips
    <2>1. CASE closed
        BY <1>21, <2>1 DEF RemoteMonitorTrips, closeVars
    <2>2. CASE ~closed
        BY <1>21, <2>2, BeginClosePlace DEF RemoteMonitorTrips, Tasks
    <2> QED BY <2>1, <2>2
<1>22. CASE RunClosingTask
    <2>1. CASE closed /\ UNCHANGED <<transport, taskVars, closeVars>>
        BY <1>22, <2>1 DEF RunClosingTask, taskVars, closeVars
    <2>2. CASE BeginClose("closing", ctask = "drain", FALSE)
        BY <1>22, <2>2, BeginClosePlace DEF RunClosingTask, Tasks
    <2> QED BY <1>22, <2>1, <2>2 DEF RunClosingTask
<1>23. CASE ReadEndOfSession
    <2>1. CASE /\ closed /\ rstopped' = TRUE /\ reader' = "done"
               /\ UNCHANGED <<transport, drain, qclosed, recv, disp, dref, local, remote,
                              closeVars>>
        BY <1>23, <2>1 DEF ReadEndOfSession, ReaderRuns, closeVars
    <2>2. CASE BeginClose("reader", FALSE, TRUE)
        BY <1>23, <2>2, BeginClosePlace DEF ReadEndOfSession, ReaderRuns, Tasks
    <2> QED BY <1>23, <2>1, <2>2 DEF ReadEndOfSession
<1> QED
    BY <1>1, <1>2, <1>3, <1>4, <1>5, <1>6, <1>7, <1>8, <1>9, <1>10, <1>11, <1>12, <1>13, <1>14,
       <1>15, <1>16, <1>17, <1>18, <1>19, <1>20, <1>21, <1>22, <1>23
    DEF SessionStep, ConnectedStep, Reader, Closer

\* What no step of a session undoes: tasks that were not started do not run,
\* a task that waits in receive_msg() is given a message or the session is
\* closed, and what is closed stays closed.
Kept ==
    /\ transport # "none" => transport' # "none"
    /\ closed => closed'
    /\ local = "none" => local' = "none"
    /\ remote = "none" => remote' = "none"
    /\ disp = "none" /\ ~dref => disp' = "none" /\ ~dref'
    /\ recv = "blocked" => recv' = "blocked" \/ closed' \/ delivered' # delivered

\* The call of close() that passes the guard keeps it.
LEMMA BeginCloseKeeps ==
    ASSUME TypeOK, NEW me, NEW d, NEW p, BeginClose(me, d, p)
    PROVE  Kept
BY DEF BeginClose, StopLocal, StopRemote, DrainReader, StopQueue, StopRecv, StopReader, Notify,
       Suspend, TypeOK, Kept

\* So does every step but that of a connection.
LEMMA SessionStepKeeps ==
    ASSUME TypeOK, PlaceInv, [ConnectedStep]_vars
    PROVE  Kept
<1> USE DEF TypeOK, PlaceInv, InvCloser, Kept
<1>1. CASE ReceiveReturns
    <2>1. delivered' # delivered
        <3>1. Len(Append(delivered, Head(queue))) # Len(delivered)
            BY DEF TypeOK
        <3> QED BY <1>1, <3>1 DEF ReceiveReturns, TakeMessage
    <2> QED BY <1>1, <2>1 DEF ReceiveReturns, closeVars
<1>2. CASE DataReceived \/ UNCHANGED vars
    BY <1>2 DEF DataReceived, vars, taskVars, closeVars
<1>3. CASE LocalStopped
    BY <1>3 DEF LocalStopped, Resume, StopRemote, DrainReader, StopQueue, StopRecv,
       StopReader, Notify, Suspend
<1>4. CASE RemoteStopped
    BY <1>4 DEF RemoteStopped, Resume, DrainReader, StopQueue, StopRecv, StopReader,
       Notify, Suspend
<1>5. CASE QueueDrained
    BY <1>5 DEF QueueDrained, Resume, StopQueue, StopRecv, StopReader, Notify, Suspend
<1>6. CASE DispatcherStopped \/ RecvStopped
    BY <1>6 DEF DispatcherStopped, RecvStopped, Resume, StopRecv, StopReader, Notify, Suspend
<1>7. CASE ReaderDrained \/ ReaderStopped \/ OnCloseReturns \/ OnCloseCancelled
    BY <1>7 DEF ReaderDrained, ReaderStopped, Notify, Suspend, OnCloseReturns, OnCloseCancelled,
       Resume, taskVars
<1>8. CASE ConnectionLost \/ \E d \in BOOLEAN : AppInitiatesClose(d)
    BY <1>8 DEF ConnectionLost, AppInitiatesClose, InitiateClose, taskVars, closeVars
<1>9. CASE ReadMessage \/ ReportDrained \/ ReadMalformed \/ ReaderEnds
    BY <1>9 DEF ReadMessage, ReportDrained, ReadMalformed, ReaderEnds, taskVars, closeVars
<1>10. CASE Dispatcher
    BY <1>10 DEF Dispatcher, DispatchNext, HandlerReturns, HandlerGoesOn, HandlerDone,
       DispatcherEnds, taskVars, closeVars
<1>11. CASE ReceiveBlocks \/ ReceiveEnds
    BY <1>11 DEF ReceiveBlocks, ReceiveEnds, closeVars
<1>12. CASE Monitors
    BY <1>12 DEF Monitors, LocalMonitorEnds, RemoteMonitorEnds, closeVars
<1>13. CASE \E d \in BOOLEAN : Close(d) \/ HandlerClose(d)
    BY <1>13, BeginCloseKeeps DEF Close, HandlerClose
<1>14. CASE RemoteMonitorTrips
    BY <1>14, BeginCloseKeeps DEF RemoteMonitorTrips, closeVars
<1>15. CASE RunClosingTask
    <2>1. CASE closed /\ UNCHANGED <<transport, taskVars, closeVars>>
        BY <2>1 DEF taskVars, closeVars
    <2>2. CASE BeginClose("closing", ctask = "drain", FALSE)
        BY <2>2, BeginCloseKeeps
    <2> QED BY <1>15, <2>1, <2>2 DEF RunClosingTask
<1>16. CASE ReadEndOfSession
    <2>1. CASE closed /\ UNCHANGED <<transport, recv, disp, dref, local, remote, closeVars>>
        BY <2>1 DEF closeVars
    <2>2. CASE BeginClose("reader", FALSE, TRUE)
        BY <2>2, BeginCloseKeeps
    <2> QED BY <1>16, <2>1, <2>2 DEF ReadEndOfSession
<1> QED
    BY <1>1, <1>2, <1>3, <1>4, <1>5, <1>6, <1>7, <1>8, <1>9, <1>10, <1>11, <1>12, <1>13, <1>14,
       <1>15, <1>16
    DEF ConnectedStep, Reader, Closer

-----------------------------------------------------------------------------
(* The kinds of steps *)

\* The application's on_close_coro on behalf of the soup session.
OnCloseGoesOn ==
    /\ cpc = "notify" /\ cpc' \in {"notify", "finished", "interrupted"}
    /\ pending' \in {pending, FALSE}
    /\ SoupUnchanged

\* What a protocol does to the session below it: a step of the session, the
\* start of its tasks after a login, or what the application session does.
SoupStep ==
    \/ Connected \/ [ConnectedStep]_vars
    \/ \E dispatches \in BOOLEAN : LoginAccepted(dispatches)
    \/ ServerAccepts \/ SoupDispatch \/ OnCloseGoesOn

\* A session does what its role, its login and its user let it do.
LEMMA TaskStepConnected == TaskStep => ConnectedStep
BY DEF TaskStep, ConnectedStep, Reader, Dispatcher, Closer

LEMMA EnvironmentConnected ==
    ASSUME PEnvironment
    PROVE  Connected \/ [ConnectedStep]_vars
<1>1. CASE PeerSends
    BY <1>1 DEF PeerSends, ConnectedStep
<1>2. CASE Login
    BY <1>2 DEF Login, ConnectedStep
<1>3. CASE SendFix \/ SendSequenced
    BY <1>3 DEF SendFix, SendSequenced
<1>4. CASE Logout
    BY <1>4 DEF Logout, ConnectedStep
<1>5. CASE \/ ConnectionLost \/ RemoteMonitorTrips \/ ReceiveReturns \/ ReceiveBlocks
           \/ \E d \in AppCloses : Close(d)
    BY <1>5, CallsAssumption DEF ConnectedStep
<1> QED BY <1>1, <1>2, <1>3, <1>4, <1>5 DEF PEnvironment

LEMMA RejectConnected ==
    ASSUME transport # "none", LoginRejected \/ ServerRefuses
    PROVE  [ConnectedStep]_vars
<1>1. CASE UNCHANGED <<transport, taskVars, closeVars, ctask, dataVars>>
    BY <1>1 DEF vars
<1>2. CASE BeginClose("app", FALSE, FALSE) /\ UNCHANGED <<ctask, dataVars>>
    BY <1>2 DEF ConnectedStep, Close
<1>3. CASE BeginClose("dispatcher", FALSE, FALSE) /\ disp = "handle" /\ UNCHANGED <<ctask, dataVars>>
    BY <1>3 DEF ConnectedStep, HandlerClose
<1> QED BY <1>1, <1>2, <1>3 DEF LoginRejected, ServerRefuses

LEMMA NextIsSoupStep ==
    ASSUME ATypeOK, LoginInv, AppInv, [ANext]_everything
    PROVE  SoupStep
<1>1. coro \in BOOLEAN /\ IsActive \in BOOLEAN
    BY DEF ATypeOK, PTypeOK, IsActive
<1>2. CASE PEnvironment
    BY <1>2, EnvironmentConnected DEF SoupStep
<1>3. CASE LoginTakes \/ ServerTakes \/ MessageRead \/ ClientDispatches \/ TaskStep
    BY <1>3, TaskStepConnected DEF LoginTakes, ServerTakes, MessageRead, ClientDispatches,
       SoupStep, ConnectedStep, Reader, Dispatcher
<1>4. CASE LoginCut \/ LoginRaises
    BY <1>4 DEF LoginCut, LoginRaises, SoupStep
<1>5. CASE LoginRejected \/ ServerRefuses
    <2>1. transport # "none"
        BY <1>5 DEF LoginRejected, ServerRefuses, LoginInv
    <2> QED BY <1>5, <2>1, RejectConnected DEF SoupStep
<1>6. CASE LoginAccepted(coro) \/ ServerAccepts
    BY <1>1, <1>6 DEF SoupStep
<1>7. CASE PSystem
    BY <1>3, <1>4, <1>5, <1>6, <1>7 DEF PSystem
<1>8. CASE Build \/ SoupDispatch
    BY <1>1, <1>8 DEF Build, SoupStep
<1>9. CASE Idle
    BY <1>9 DEF Idle, SoupStep
<1>10. CASE \/ AppDispatch \/ AppHandlerReturns \/ AppDispatcherEnds \/ AppReceiveEnds
            \/ AppReceives \/ AppReceiveBlocks \/ AppQueueStopped
    BY <1>9, <1>10 DEF AppDispatch, AppHandlerReturns, AppDispatcherEnds, AppReceiveEnds,
       AppReceives, AppReceiveBlocks, AppQueueStopped, OnlyQueue
<1>11. CASE OnSoupClose \/ OnCloseCloses \/ AppNotified \/ AppInterrupted
    BY <1>11 DEF OnSoupClose, Urgent, OnCloseCloses, AppNotified, AppInterrupted, AppInv,
       StopAppQueue, SoupStep, OnCloseGoesOn
<1>12. CASE NoHandler
    BY <1>12 DEF NoHandler, SoupStep, ConnectedStep, Closer
<1>13. CASE AppClose
    BY <1>13 DEF AppClose, SoupStep, ConnectedStep
<1>14. CASE UNCHANGED everything
    BY <1>14 DEF everything, allvars, SoupStep
<1> QED BY <1>2, <1>7, <1>8, <1>10, <1>11, <1>12, <1>13, <1>14
        DEF ANext, System, Environment, AppCloseStep

-----------------------------------------------------------------------------
(* The invariants of the session below *)

\* The session stays typed.
LEMMA SoupStepTyped ==
    ASSUME TypeOK, SoupStep
    PROVE  TypeOK'
<1>1. CASE Connected \/ [ConnectedStep]_vars
    BY <1>1, SessionStepTyped DEF Connected, SessionStep
<1>2. ASSUME NEW dispatches \in BOOLEAN, LoginAccepted(dispatches)
      PROVE  TypeOK'
    <2>1. disp' \in {"none", "get", "handle", "cancelled", "done"} /\ dref' \in BOOLEAN
        BY <1>2 DEF LoginAccepted, StartsTasks, TypeOK
    <2> QED BY <1>2, <2>1 DEF LoginAccepted, StartsTasks, closeVars, dataVars, TypeOK
<1>3. CASE ServerAccepts
    BY <1>3 DEF ServerAccepts, closeVars, dataVars, TypeOK
<1>4. CASE SoupDispatch
    <2>1. queue \in Seq(Nat) /\ delivered \in Seq(Nat) /\ handled \in Nat
        BY DEF TypeOK
    <2>2. delivered \o queue \in Seq(Nat) /\ <<>> \in Seq(Nat) /\ handled + Len(queue) \in Nat
        BY <2>1
    <2> QED BY <1>4, <2>2 DEF SoupDispatch, taskVars, closeVars, TypeOK
<1>5. CASE OnCloseGoesOn
    <2>1. pending' \in BOOLEAN
        BY <1>5, Zenon DEF OnCloseGoesOn, TypeOK
    <2> QED BY <1>5, <2>1 DEF OnCloseGoesOn, SoupUnchanged, taskVars, dataVars, TypeOK, EndPoints
<1> QED BY <1>1, <1>2, <1>3, <1>4, <1>5 DEF SoupStep

\* The place of close() is where it says, also when a login comes too late.
LEMMA SoupStepPlace ==
    ASSUME TypeOK, PlaceInv, LoginInv, SoupStep
    PROVE  PlaceInv'
<1> USE DEF PlaceInv, InvUnconnected, InvCloser
<1>1. CASE Connected \/ [ConnectedStep]_vars
    BY <1>1, SessionStepPlace DEF Connected, SessionStep
<1>2. CASE \E dispatches \in BOOLEAN : LoginAccepted(dispatches)
    BY <1>2 DEF LoginAccepted, LoginInv, closeVars, FromNotify
<1>3. CASE ServerAccepts
    BY <1>3 DEF ServerAccepts, LoginInv, closeVars, FromNotify
<1>4. CASE SoupDispatch
    BY <1>4 DEF SoupDispatch, taskVars, closeVars, FromNotify
<1>5. CASE OnCloseGoesOn
    BY <1>5 DEF OnCloseGoesOn, SoupUnchanged, taskVars, FromNotify
<1> QED BY <1>1, <1>2, <1>3, <1>4, <1>5 DEF SoupStep

\* close() stops what it says, in its order, unless a login comes too late.
LEMMA SoupStepClose ==
    ASSUME TypeOK, CloseInv, LoginInv, SoupStep,
           login' = "accepted" /\ login # "accepted" => IsActive
    PROVE  CloseInv'
<1> USE DEF FromNotify, FromReader, FromRecv, FromQueue, FromDrain, FromRemote,
            AwaitPoints, EndPoints, CloseInv,
            InvUnconnected, InvCloser, InvMonitors, InvDispatcher, InvReader
<1>1. CASE Connected \/ [ConnectedStep]_vars
    BY <1>1, SessionStepClose DEF Connected, SessionStep
<1>2. CASE \E dispatches \in BOOLEAN : LoginAccepted(dispatches)
    BY <1>2 DEF LoginAccepted, StartsTasks, LoginInv, IsActive, closeVars, TypeOK
<1>3. CASE ServerAccepts
    BY <1>3 DEF ServerAccepts, LoginInv, IsActive, closeVars, TypeOK
<1>4. CASE SoupDispatch
    BY <1>4 DEF SoupDispatch, taskVars, closeVars
<1>5. CASE OnCloseGoesOn
    BY <1>5 DEF OnCloseGoesOn, SoupUnchanged, taskVars
<1> QED BY <1>1, <1>2, <1>3, <1>4, <1>5 DEF SoupStep

\* A drain leaves nothing behind, also when a login comes too late.
LEMMA SoupStepDrain ==
    ASSUME TypeOK, PlaceInv, InvDrain, SoupStep
    PROVE  InvDrain'
<1>1. CASE Connected \/ [ConnectedStep]_vars
    BY <1>1, SessionStepDrain DEF Connected, SessionStep, PlaceInv
<1>2. CASE (\E dispatches \in BOOLEAN : LoginAccepted(dispatches)) \/ ServerAccepts
    <2>1. UNCHANGED <<drain, cpc, drainArg, buffer, queue>>
        BY <1>2 DEF LoginAccepted, ServerAccepts, closeVars, dataVars
    <2> QED BY <2>1 DEF InvDrain
<1>3. CASE SoupDispatch
    <2>1. UNCHANGED <<drain, cpc, drainArg, buffer>> /\ queue' = <<>>
        BY <1>3 DEF SoupDispatch, taskVars, closeVars
    <2> QED BY <2>1 DEF InvDrain
<1>4. CASE OnCloseGoesOn
    <2>1. UNCHANGED <<drain, drainArg, buffer, queue>> /\ cpc \in FromQueue /\ cpc' # "poll_queue"
          /\ cpc \notin {"await_drained", "poll_queue"}
        BY <1>4 DEF OnCloseGoesOn, SoupUnchanged, taskVars, dataVars, FromQueue, FromRecv,
           FromReader, FromNotify
    <2> QED BY <2>1 DEF InvDrain
<1> QED BY <1>1, <1>2, <1>3, <1>4 DEF SoupStep

\* Messages stay in order on their way through the session.
LEMMA SoupStepOrder ==
    ASSUME TypeOK, InvOrder, SoupStep
    PROVE  InvOrder'
<1>1. CASE Connected \/ [ConnectedStep]_vars
    BY <1>1, SessionStepOrder DEF Connected, SessionStep
<1>2. CASE \/ \E dispatches \in BOOLEAN : LoginAccepted(dispatches)
           \/ ServerAccepts \/ OnCloseGoesOn
    <2>1. UNCHANGED <<delivered, queue, buffer, arrived>>
        BY <1>2 DEF LoginAccepted, ServerAccepts, OnCloseGoesOn, SoupUnchanged, dataVars
    <2> QED BY <2>1 DEF InvOrder
<1>3. CASE SoupDispatch
    <2>1. /\ UNCHANGED <<buffer, arrived>>
          /\ delivered' = delivered \o queue /\ queue' = <<>>
        BY <1>3 DEF SoupDispatch
    <2>2. delivered' \o queue' = delivered \o queue
        <3>1. delivered \in Seq(Nat) /\ queue \in Seq(Nat)
            BY DEF TypeOK
        <3>2. (delivered \o queue) \o <<>> = delivered \o queue
            BY <3>1, ConcatProperties, ConcatEmptySeq
        <3> QED BY <2>1, <3>2
    <2> QED BY <2>1, <2>2 DEF InvOrder
<1> QED BY <1>1, <1>2, <1>3 DEF SoupStep

-----------------------------------------------------------------------------
(* The login *)

\* What a step does to the login, the numbers and the role.
LoginStep ==
    \/ Login \/ LoginTakes \/ LoginCut \/ LoginRejected \/ LoginRaises
    \/ \E dispatches \in BOOLEAN : LoginAccepted(dispatches)
    \/ ServerTakes \/ ServerAccepts \/ ServerRefuses
    \/ MessageRead \/ SendFix \/ SendSequenced

LEMMA NextIsLoginStep ==
    ASSUME ATypeOK, [ANext]_everything
    PROVE  LoginStep \/ UNCHANGED pvars
<1>1. coro \in BOOLEAN /\ IsActive \in BOOLEAN
    BY DEF ATypeOK, PTypeOK, IsActive
<1>2. CASE PEnvironment
    BY <1>2 DEF PEnvironment, Connected, PeerSends, Logout, LoginStep
<1>3. CASE PSystem
    BY <1>1, <1>3 DEF PSystem, ClientDispatches, TaskStep, LoginStep
<1>4. CASE Build
    BY <1>1, <1>4 DEF Build, LoginStep
<1>5. CASE SoupDispatch \/ NoHandler \/ UNCHANGED everything
    BY <1>5 DEF SoupDispatch, NoHandler, everything, allvars
<1>6. CASE OnSoupClose \/ AppNotified \/ AppInterrupted
    BY <1>6 DEF OnSoupClose, AppNotified, AppInterrupted, SoupUnchanged
<1>7. CASE \/ AppDispatch \/ AppHandlerReturns \/ AppDispatcherEnds \/ AppReceiveEnds
           \/ AppReceives \/ AppReceiveBlocks \/ AppQueueStopped \/ OnCloseCloses
    BY <1>7 DEF AppDispatch, AppHandlerReturns, AppDispatcherEnds, AppReceiveEnds,
       AppReceives, AppReceiveBlocks, AppQueueStopped, OnCloseCloses, OnlyQueue, Idle,
       SoupUnchanged
<1>8. CASE AppClose
    BY <1>8 DEF AppClose
<1> QED BY <1>2, <1>3, <1>4, <1>5, <1>6, <1>7, <1>8
        DEF ANext, System, Environment, AppCloseStep

\* Who takes a message from the queue of the session.
LEMMA WhoDelivers ==
    ASSUME [ANext]_everything
    PROVE  \/ delivered' = delivered \/ LoginTakes \/ SoupDispatch
           \/ role # "app" /\ (role = "server" \/ login = "accepted" \/ disp = "get")
<1>1. CASE PEnvironment
    BY <1>1 DEF PEnvironment, Connected, Connect, PeerSends, DataReceived, Login, ReceiveBlocks,
       SendFix, SendSequenced, Logout, AppInitiatesClose, InitiateClose, ConnectionLost,
       RemoteMonitorTrips, Close, dataVars, vars
<1>2. CASE TaskStep
    BY <1>2 DEF TaskStep, ReadEndOfSession, ReadMalformed, ReportDrained, ReaderEnds, HandlerReturns,
       DispatcherEnds, LocalStopped, RemoteStopped, ReaderDrained, QueueDrained,
       DispatcherStopped, RecvStopped, ReaderStopped, Resume, OnCloseReturns, OnCloseCancelled,
       Monitors, LocalMonitorEnds, RemoteMonitorEnds, ReceiveEnds, RunClosingTask,
       ConnectionLost, InitiateClose, dataVars
<1>3. CASE LoginCut \/ LoginRejected \/ LoginRaises \/ LoginAccepted(coro) \/ Build
    BY <1>3 DEF LoginCut, LoginRejected, LoginRaises, LoginAccepted, Build, dataVars, vars
<1>4. CASE ServerTakes \/ ServerAccepts \/ ServerRefuses \/ ClientDispatches
    BY <1>4 DEF ServerTakes, DispatchNext, HandlerGoesOn, ServerAccepts, ServerRefuses,
       ClientDispatches, dataVars
<1>5. CASE MessageRead
    BY <1>5 DEF MessageRead, ReadMessage
<1>6. CASE NoHandler \/ OnSoupClose \/ AppNotified \/ AppInterrupted
    BY <1>6 DEF NoHandler, OnCloseReturns, OnSoupClose, AppNotified, AppInterrupted,
       SoupUnchanged, dataVars
<1>7. CASE \/ AppDispatch \/ AppHandlerReturns \/ AppDispatcherEnds \/ AppReceiveEnds
           \/ AppReceives \/ AppReceiveBlocks \/ AppQueueStopped \/ OnCloseCloses
           \/ UNCHANGED everything
    BY <1>7 DEF AppDispatch, AppHandlerReturns, AppDispatcherEnds, AppReceiveEnds,
       AppReceives, AppReceiveBlocks, AppQueueStopped, OnCloseCloses, OnlyQueue, Idle,
       SoupUnchanged, everything, allvars, vars, dataVars
<1>8. CASE AppClose
    BY <1>8 DEF AppClose, AppInitiatesClose, InitiateClose, dataVars, vars
<1> QED BY <1>1, <1>2, <1>3, <1>4, <1>5, <1>6, <1>7, <1>8
        DEF ANext, System, Environment, PSystem, AppCloseStep

\* What the login relies on, of any step but its own acceptance.
LEMMA LoginKeeps ==
    ASSUME ATypeOK, PlaceInv, LoginInv, AppInv, [ANext]_everything,
           ~ServerAccepts, ~\E dispatches \in BOOLEAN : LoginAccepted(dispatches)
    PROVE  /\ transport # "none" => transport' # "none"
           /\ closed => closed'
           /\ local = "none" => local' = "none"
           /\ remote = "none" => remote' = "none"
           /\ IsClient /\ disp = "none" /\ ~dref => disp' = "none" /\ ~dref'
           /\ IsClient /\ login = "waiting" /\ recv = "blocked" =>
                recv' = "blocked" \/ closed' \/ LoginTakes
<1>1. TypeOK
    BY DEF ATypeOK, PTypeOK
<1>2. CASE Connected
    <2>1. PlaceInv
        OBVIOUS
    <2> QED BY <1>2 DEF Connected, Connect, IsClient, closeVars
<1>3. CASE [ConnectedStep]_vars
    <2>1. Kept
        BY <1>1, <1>3, SessionStepKeeps
    <2> QED BY <2>1, WhoDelivers DEF Kept, LoginInv, IsClient, SoupDispatch
<1>4. CASE SoupDispatch
    BY <1>4 DEF SoupDispatch, taskVars, closeVars
<1>5. CASE OnCloseGoesOn
    BY <1>5 DEF OnCloseGoesOn, SoupUnchanged, taskVars
<1> QED BY <1>2, <1>3, <1>4, <1>5, NextIsSoupStep DEF SoupStep

\* A login is accepted once and for all; the numbers stay numbers.
LEMMA LoginTyped ==
    ASSUME ATypeOK, LoginInv, [ANext]_everything
    PROVE  /\ role' = role /\ coro' = coro /\ late' \in BOOLEAN
           /\ login' \in {"none", "waiting", "replied", "closing", "asking", "accepted", "refused"}
           /\ seq' \in Nat /\ skipped' \in Nat /\ wire' \in Seq(Nat)
           /\ login = "accepted" => login' = "accepted"
<1>0. /\ seq \in Nat /\ skipped \in Nat /\ wire \in Seq(Nat) /\ late \in BOOLEAN
      /\ login \in {"none", "waiting", "replied", "closing", "asking", "accepted", "refused"}
    BY DEF ATypeOK, PTypeOK
<1>1. CASE UNCHANGED pvars
    BY <1>0, <1>1 DEF pvars, loginVars
<1>2. CASE Login
    <2>1. wire' \in Seq(Nat)
        <3>1. <<seq>> \in Seq(Nat)
            BY <1>0
        <3>2. role = "fix" => wire' = <<seq>>
            BY <1>2, Zenon DEF Login
        <3>3. role # "fix" => wire' = wire
            BY <1>2 DEF Login
        <3> QED BY <1>0, <3>1, <3>2, <3>3
    <2>2. seq' \in Nat
        BY <1>0, <1>2 DEF Login
    <2>3. /\ role' = role /\ coro' = coro /\ late' = late /\ skipped' = skipped
          /\ login' \in {"waiting", "refused"} /\ login = "none"
        BY <1>2 DEF Login
    <2> QED BY <1>0, <2>1, <2>2, <2>3
<1>3. CASE LoginTakes \/ LoginCut \/ LoginRejected \/ LoginRaises
    BY <1>0, <1>3 DEF LoginTakes, LoginCut, LoginRejected, LoginRaises
<1>4. ASSUME NEW dispatches \in BOOLEAN, LoginAccepted(dispatches)
      PROVE  /\ role' = role /\ coro' = coro /\ late' \in BOOLEAN /\ login' = "accepted"
             /\ seq' \in Nat /\ skipped' \in Nat /\ wire' \in Seq(Nat)
    BY <1>0, <1>4, NumbersAssumption
    DEF LoginAccepted, StartsTasks, IsActive, LoginInv, LastSeen, ATypeOK, PTypeOK, TypeOK
<1>5. CASE ServerTakes \/ ServerAccepts \/ ServerRefuses
    BY <1>0, <1>5 DEF ServerTakes, AsksOnce, ServerAccepts, ServerRefuses
<1>6. CASE MessageRead
    BY <1>0, <1>6 DEF MessageRead
<1>7. CASE SendFix \/ SendSequenced
    <2>1. Append(wire, seq) \in Seq(Nat) /\ seq + 1 \in Nat
        BY <1>0
    <2>2. wire' = wire \/ wire' = Append(wire, seq)
        BY <1>7 DEF SendFix, SendSequenced
    <2>3. wire' \in Seq(Nat)
        BY <1>0, <2>1, <2>2
    <2>4. /\ role' = role /\ coro' = coro /\ late' = late /\ skipped' = skipped
          /\ login' = login /\ seq' = seq + 1
        BY <1>7 DEF SendFix, SendSequenced, Next1
    <2> QED BY <1>0, <2>1, <2>3, <2>4
<1> QED BY <1>1, <1>2, <1>3, <1>4, <1>5, <1>6, <1>7, NextIsLoginStep DEF LoginStep

\* A login never goes back, and is replied to when login() takes the reply.
LEMMA LoginStepBack ==
    ASSUME ATypeOK, [ANext]_everything
    PROVE  /\ login' \in {"none", "waiting"} => login \in {"none", "waiting"}
           /\ login' = "replied" => login = "replied" \/ LoginTakes
<1>1. CASE UNCHANGED pvars
    BY <1>1 DEF pvars, loginVars
<1>2. CASE LoginStep
    BY <1>2 DEF LoginStep, Login, LoginTakes, LoginCut, LoginRejected, LoginRaises,
       LoginAccepted, ServerTakes, ServerAccepts, ServerRefuses, MessageRead, SendFix,
       SendSequenced
<1> QED BY <1>1, <1>2, NextIsLoginStep

\* What a login that is not accepted yet stands for is so after any step.
LEMMA LoginInvStep ==
    ASSUME ATypeOK, PlaceInv, ~late => CloseInv, LoginInv, AppInv, [ANext]_everything
    PROVE  LoginInv'
<1> USE DEF IsClient
<1>1. seq \in Nat /\ role' = role
    BY LoginTyped DEF ATypeOK, PTypeOK
<1>2. CASE \E dispatches \in BOOLEAN : LoginAccepted(dispatches)
    BY <1>1, <1>2 DEF LoginAccepted, StartsTasks, LoginInv
<1>3. CASE ServerAccepts
    BY <1>1, <1>3 DEF ServerAccepts, LoginInv
<1>4. ASSUME ~ServerAccepts, ~\E dispatches \in BOOLEAN : LoginAccepted(dispatches)
      PROVE  LoginInv'
    <2>1. /\ transport # "none" => transport' # "none"
          /\ closed => closed'
          /\ local = "none" => local' = "none"
          /\ remote = "none" => remote' = "none"
          /\ IsClient /\ disp = "none" /\ ~dref => disp' = "none" /\ ~dref'
          /\ IsClient /\ login = "waiting" /\ recv = "blocked" =>
               recv' = "blocked" \/ closed' \/ LoginTakes
        BY <1>4, LoginKeeps
    <2>2. CASE UNCHANGED pvars
        BY <2>1, <2>2 DEF LoginInv, pvars, loginVars, LoginTakes
    <2>3. CASE Login
        <3>1. qclosed => closed
            BY <2>3 DEF Login, LoginInv, CloseInv, InvDispatcher, InvCloser, FromQueue, FromRecv,
               FromReader, FromNotify
        <3> QED BY <1>1, <2>1, <2>3, <3>1 DEF Login, ReceiveBlocks, LoginInv
    <2>4. CASE LoginTakes \/ LoginRaises
        BY <1>1, <2>1, <2>4 DEF LoginTakes, LoginRaises, LoginInv
    <2>5. CASE LoginCut
        BY <1>1, <2>1, <2>5 DEF LoginCut, LoginInv
    <2>6. CASE LoginRejected
        BY <1>1, <2>1, <2>6 DEF LoginRejected, BeginClose, LoginInv
    <2>7. CASE ServerTakes
        BY <1>1, <2>1, <2>7
        DEF ServerTakes, AsksOnce, DispatchNext, HandlerGoesOn, HandlerDone, LoginInv, PlaceInv,
            InvUnconnected
    <2>8. CASE ServerRefuses
        BY <1>1, <2>1, <2>8 DEF ServerRefuses, BeginClose, LoginInv
    <2>9. CASE MessageRead
        BY <1>1, <2>1, <2>9 DEF MessageRead, LoginInv, LoginTakes
    <2>10. CASE SendFix \/ SendSequenced
        BY <1>1, <2>1, <2>10 DEF SendFix, SendSequenced, LoginInv
    <2> QED BY <1>4, <2>2, <2>3, <2>4, <2>5, <2>6, <2>7, <2>8, <2>9, <2>10, NextIsLoginStep
            DEF LoginStep
<1> QED BY <1>2, <1>3, <1>4

-----------------------------------------------------------------------------
(* The numbers of the messages sent *)

\* A message that is sent takes the next number, and only sending takes one.
LEMMA OutInvStep ==
    ASSUME ATypeOK, LoginInv, OutInv, [ANext]_everything
    PROVE  OutInv'
<1> USE DEF IsClient
<1>1. /\ seq \in Nat /\ role' = role /\ wire \in Seq(Nat)
      /\ role \in {"client", "server", "fix", "app"}
    BY LoginTyped, RolesAssumption DEF ATypeOK, PTypeOK
<1>2. wire' = wire /\ (seq' = seq \/ (wire = <<>> /\ role # "server")) => OutInv'
    BY <1>1 DEF OutInv, OutboundNumbers
<1>3. wire' = Append(wire, seq) /\ seq' = seq + 1 /\ role \in {"fix", "server"} => OutInv'
    <2> SUFFICES ASSUME wire' = Append(wire, seq), seq' = seq + 1, role \in {"fix", "server"}
                 PROVE  OutInv'
        OBVIOUS
    <2>1. /\ Len(wire') = Len(wire) + 1 /\ DOMAIN wire' = 1..(Len(wire) + 1)
          /\ wire'[Len(wire) + 1] = seq /\ DOMAIN wire = 1..Len(wire) /\ Len(wire) \in Nat
          /\ \A i \in DOMAIN wire : wire'[i] = wire[i] /\ wire[i] \in Nat
        BY <1>1
    <2>2. \A i \in DOMAIN wire' : wire'[i] < seq'
        BY <1>1, <2>1 DEF OutInv, OutboundNumbers
    <2>3. \A i, j \in DOMAIN wire' : i < j => wire'[i] < wire'[j]
        <3> SUFFICES ASSUME NEW i \in DOMAIN wire', NEW j \in DOMAIN wire', i < j
                     PROVE  wire'[i] < wire'[j]
            OBVIOUS
        <3>1. i \in DOMAIN wire /\ (j \in DOMAIN wire \/ j = Len(wire) + 1)
            BY <2>1
        <3> QED BY <2>1, <3>1 DEF OutInv, OutboundNumbers
    <2> QED BY <1>1, <2>1, <2>2, <2>3 DEF OutInv, OutboundNumbers
<1>4. CASE UNCHANGED pvars
    <2>1. wire' = wire /\ seq' = seq
        BY <1>4 DEF pvars, loginVars
    <2> QED BY <1>2, <2>1
<1>5. CASE Login
    <2>1. CASE role = "fix"
        <3>1. wire' = <<seq>> /\ seq' = seq + 1 /\ DOMAIN wire' = {1}
            BY <1>5, <2>1 DEF Login
        <3> QED BY <1>1, <2>1, <3>1 DEF OutInv, OutboundNumbers
    <2>2. CASE role # "fix"
        BY <1>2, <1>5, <2>2 DEF Login
    <2> QED BY <2>1, <2>2
<1>6. CASE \/ LoginTakes \/ LoginCut \/ LoginRejected \/ LoginRaises
           \/ ServerTakes \/ ServerAccepts \/ ServerRefuses
    <2>1. wire' = wire /\ seq' = seq
        BY <1>6 DEF LoginTakes, LoginCut, LoginRejected, LoginRaises, ServerTakes,
           ServerAccepts, ServerRefuses
    <2> QED BY <1>2, <2>1
<1>7. CASE \E dispatches \in BOOLEAN : LoginAccepted(dispatches)
    BY <1>1, <1>2, <1>7 DEF LoginAccepted, OutInv
<1>8. CASE MessageRead
    <2>1. wire' = wire /\ (seq' = seq \/ role \in {"client", "app"})
        BY <1>8 DEF MessageRead
    <2> QED BY <1>2, <2>1 DEF OutInv
<1>9. CASE SendFix
    <2>1. CASE wire' = Append(wire, seq) /\ seq' = seq + 1
        BY <1>3, <1>9, <2>1 DEF SendFix
    <2>2. CASE wire' = wire /\ seq' = seq + 1
        BY <1>1, <1>9, <2>2 DEF SendFix, OutInv, OutboundNumbers
    <2> QED BY <1>9, <2>1, <2>2 DEF SendFix, Next1
<1>10. CASE SendSequenced
    BY <1>3, <1>10 DEF SendSequenced
<1> QED BY <1>4, <1>5, <1>6, <1>7, <1>8, <1>9, <1>10, NextIsLoginStep DEF LoginStep

-----------------------------------------------------------------------------
(* The application session *)

\* What the application session does, or its user to it.
AppStep ==
    \/ Build \/ SoupDispatch \/ AppDispatch \/ AppHandlerReturns \/ AppDispatcherEnds
    \/ AppReceives \/ AppReceiveBlocks \/ AppReceiveEnds
    \/ AppClose \/ OnCloseCloses \/ OnSoupClose
    \/ AppQueueStopped \/ AppNotified \/ AppInterrupted

LEMMA NextIsAppStep ==
    ASSUME [ANext]_everything
    PROVE  AppStep \/ UNCHANGED avars
BY DEF ANext, System, Environment, AppCloseStep, NoHandler, everything, AppStep

\* A message that is passed on is one the session had.
LEMMA PassOnTyped ==
    ASSUME TypeOK
    PROVE  PassOn \in Seq(Nat)
<1>1. queue \in Seq(Nat)
    BY DEF TypeOK
<1>2. PassOn \in Seq(Nat \intersect ForApp)
    BY <1>1, SelectedType DEF PassOn
<1>3. Nat \intersect ForApp \subseteq Nat
    OBVIOUS
<1> QED BY <1>2, <1>3

\* A message that is taken is the next one, and stays in the record.
LEMMA TakenFromApp ==
    ASSUME ATypeOK, TakeFromApp
    PROVE  aq' \in Seq(Nat) /\ taken' \in Seq(Nat) /\ taken' \o aq' = taken \o aq
<1>1. aq \in Seq(Nat) /\ taken \in Seq(Nat)
    BY DEF ATypeOK
<1>2. aq # <<>> /\ aq' = Tail(aq) /\ taken' = Append(taken, Head(aq))
    BY DEF TakeFromApp
<1>3. taken' \in Seq(Nat) /\ aq' \in Seq(Nat)
    BY <1>1, <1>2, HeadTail, Appended
<1> QED BY <1>1, <1>2, <1>3, TakenKeepsOrder

\* The variables of the application session stay typed.
LEMMA AppTyped ==
    ASSUME ATypeOK, [ANext]_everything
    PROVE  /\ app' \in {"none", "built", "raised"}
           /\ aq' \in Seq(Nat) /\ taken' \in Seq(Nat) /\ astopped' \in BOOLEAN
           /\ adisp' \in {"none", "get", "handle", "cancelled", "done"}
           /\ arecv' \in {"none", "blocked", "cancelled"}
           /\ apc' \in {"idle", "await_dispatcher", "await_recv", "user", "waits", "done",
                         "interrupted"}
           /\ event' \in {"none", "unset", "set"} /\ aclosed' \in BOOLEAN
<1> USE DEF ATypeOK
<1>1. CASE UNCHANGED avars
    BY <1>1 DEF avars, aqVars, aCloseVars
<1>2. CASE Build
    BY <1>2 DEF Build, aCloseVars
<1>3. CASE SoupDispatch
    <2>1. aq' = aq \o PassOn /\ PassOn \in Seq(Nat)
        BY <1>3, PassOnTyped DEF SoupDispatch, PTypeOK
    <2>2. aq' \in Seq(Nat)
        BY <2>1
    <2> QED BY <1>3, <2>2 DEF SoupDispatch, aCloseVars
<1>4. CASE AppDispatch \/ AppReceives
    <2>1. aq' \in Seq(Nat) /\ taken' \in Seq(Nat)
        BY <1>4, TakenFromApp DEF AppDispatch, AppReceives
    <2> QED BY <1>4, <2>1 DEF AppDispatch, AppReceives, OnlyQueue, aCloseVars
<1>5. CASE AppHandlerReturns \/ AppDispatcherEnds \/ AppReceiveBlocks \/ AppReceiveEnds
    BY <1>5 DEF AppHandlerReturns, AppDispatcherEnds, AppReceiveBlocks, AppReceiveEnds,
       OnlyQueue, aCloseVars
<1>6. CASE AppClose \/ OnCloseCloses
    BY <1>6 DEF AppClose, OnCloseCloses, aqVars
<1>7. CASE OnSoupClose
    BY <1>7 DEF OnSoupClose, StopAppQueue
<1>8. CASE AppQueueStopped
    BY <1>8 DEF AppQueueStopped, aqVars
<1>9. CASE AppNotified
    BY <1>9 DEF AppNotified, WakesCloser, aqVars
<1>10. CASE AppInterrupted
    BY <1>10 DEF AppInterrupted, aqVars
<1> QED BY <1>1, <1>2, <1>3, <1>4, <1>5, <1>6, <1>7, <1>8, <1>9, <1>10, NextIsAppStep DEF AppStep

\* Every variable has a value the code can give it.
LEMMA SoupTypedStep ==
    ASSUME ATypeOK, LoginInv, AppInv, [ANext]_everything
    PROVE  ATypeOK'
<1>1. TypeOK'
    <2>1. SoupStep
        BY NextIsSoupStep
    <2> QED BY <2>1, SoupStepTyped DEF ATypeOK, PTypeOK
<1>2. PTypeOK'
    BY <1>1, LoginTyped DEF ATypeOK, PTypeOK
<1> QED BY <1>2, AppTyped DEF ATypeOK

\* Under an application session close() comes to its end by the application's
\* on_close_coro alone, or where there is none.
LEMMA AppEndsClose ==
    ASSUME ATypeOK, PlaceInv, role = "app", [ANext]_everything
    PROVE  \/ NoHandler \/ AppNotified \/ AppInterrupted \/ OnCloseCloses
           \/ cpc' = cpc
           \/ cpc \notin FromNotify /\ cpc' # "finished"
<1> USE DEF FromNotify, PlaceInv, InvCloser
<1>1. ASSUME NEW me, NEW d, NEW p, BeginClose(me, d, p)
      PROVE  cpc \notin FromNotify /\ cpc' # "finished"
    BY <1>1 DEF BeginClose, FirstClose, StopLocal, StopRemote, DrainReader, StopQueue, StopRecv,
       StopReader, Notify, Suspend
<1>2. CASE PEnvironment
    BY <1>1, <1>2 DEF PEnvironment, Connected, Connect, PeerSends, DataReceived, Login,
       ReceiveBlocks, SendFix, SendSequenced, Logout, ConnectionLost, InitiateClose,
       RemoteMonitorTrips, closeVars, vars
<1>3. CASE LocalStopped \/ RemoteStopped
    BY <1>3 DEF LocalStopped, RemoteStopped, StopRemote, DrainReader, StopQueue, StopRecv,
       StopReader, Notify, Suspend
<1>4. CASE ReaderDrained \/ QueueDrained \/ DispatcherStopped \/ RecvStopped \/ ReaderStopped
    BY <1>4 DEF ReaderDrained, QueueDrained, DispatcherStopped, RecvStopped, ReaderStopped,
       StopQueue, StopRecv, StopReader, Notify, Suspend
<1>5. CASE RunClosingTask \/ ReadEndOfSession
    BY <1>1, <1>5 DEF RunClosingTask, ReadEndOfSession, closeVars
<1>6. CASE TaskStep
    BY <1>3, <1>4, <1>5, <1>6 DEF TaskStep, ReadMalformed, ReportDrained, ReaderEnds, HandlerReturns,
       DispatcherEnds, Monitors, LocalMonitorEnds, RemoteMonitorEnds, ReceiveEnds,
       ConnectionLost, InitiateClose, closeVars
<1>7. CASE LoginTakes \/ LoginCut \/ LoginRaises \/ LoginAccepted(coro) \/ Build
    BY <1>7 DEF LoginTakes, ReceiveReturns, LoginCut, LoginRaises, LoginAccepted, Build,
       closeVars, vars
<1>8. CASE LoginRejected \/ ServerRefuses
    BY <1>1, <1>8 DEF LoginRejected, ServerRefuses, closeVars
<1>9. CASE ServerTakes \/ ServerAccepts \/ ClientDispatches \/ MessageRead \/ SoupDispatch
    BY <1>9 DEF ServerTakes, ServerAccepts, ClientDispatches, DispatchNext, HandlerGoesOn,
       MessageRead, ReadMessage, SoupDispatch, closeVars
<1>10. CASE \/ AppDispatch \/ AppHandlerReturns \/ AppDispatcherEnds \/ AppReceiveEnds
            \/ AppReceives \/ AppReceiveBlocks \/ AppQueueStopped
            \/ OnSoupClose \/ UNCHANGED everything
    BY <1>10 DEF AppDispatch, AppHandlerReturns, AppDispatcherEnds, AppReceiveEnds,
       AppReceives, AppReceiveBlocks, AppQueueStopped, OnSoupClose, OnlyQueue,
       Idle, everything, allvars, vars, closeVars
<1>11. CASE AppClose
    BY <1>11 DEF AppClose, AppInitiatesClose, InitiateClose, closeVars, vars
<1> QED BY <1>2, <1>6, <1>7, <1>8, <1>9, <1>10, <1>11
        DEF ANext, System, Environment, PSystem, AppCloseStep

\* A login of the session below is accepted when connect_async() builds the
\* application session.
LEMMA AcceptedIsBuild ==
    ASSUME LoginInv, role = "app", login # "accepted", [ANext]_everything, login' = "accepted"
    PROVE  Build
<1> USE DEF IsClient
<1>1. CASE PEnvironment
    BY <1>1 DEF PEnvironment, Connected, PeerSends, Login, SendFix, SendSequenced, Logout,
       pvars, loginVars
<1>2. CASE TaskStep \/ ClientDispatches \/ MessageRead
    BY <1>2 DEF TaskStep, ClientDispatches, MessageRead, pvars, loginVars
<1>3. CASE LoginTakes \/ LoginCut \/ LoginRejected \/ LoginRaises
    BY <1>3 DEF LoginTakes, LoginCut, LoginRejected, LoginRaises
<1>4. CASE ServerTakes \/ ServerAccepts \/ ServerRefuses
    BY <1>4 DEF ServerTakes, ServerAccepts, ServerRefuses, LoginInv
<1>5. CASE SoupDispatch \/ NoHandler \/ AppClose \/ UNCHANGED everything
    BY <1>5 DEF SoupDispatch, NoHandler, AppClose, everything, allvars, pvars, loginVars
<1>6. CASE OnSoupClose \/ AppNotified \/ AppInterrupted
    BY <1>6 DEF OnSoupClose, AppNotified, AppInterrupted, SoupUnchanged, pvars, loginVars
<1>7. CASE \/ AppDispatch \/ AppHandlerReturns \/ AppDispatcherEnds \/ AppReceiveEnds
           \/ AppReceives \/ AppReceiveBlocks \/ AppQueueStopped \/ OnCloseCloses
    BY <1>7 DEF AppDispatch, AppHandlerReturns, AppDispatcherEnds, AppReceiveEnds,
       AppReceives, AppReceiveBlocks, AppQueueStopped, OnCloseCloses, OnlyQueue, Idle,
       SoupUnchanged, pvars, loginVars
<1> QED BY <1>1, <1>2, <1>3, <1>4, <1>5, <1>6, <1>7
        DEF ANext, System, Environment, PSystem, AppCloseStep

\* The application session lives from the accepted login on, and takes its
\* part in close() once, with its dispatcher stopped before.
LEMMA AppInvStep ==
    ASSUME ATypeOK, PlaceInv, PlaceInv', LoginInv, AppInv, [ANext]_everything
    PROVE  AppInv'
<1>1. role' = role /\ (login = "accepted" => login' = "accepted")
    BY LoginTyped
<1>2. closed' <=> cpc' # "idle"
    BY DEF PlaceInv, InvCloser
<1>3. CASE Build
    <2>1. role = "app" /\ login # "accepted" /\ login' = "accepted" /\ app' # "none"
        BY <1>3 DEF Build, LoginAccepted
    <2>2. UNCHANGED <<arecv, apc, event, aclosed>> /\ adisp' \in {"get", "none"}
        BY <1>3 DEF Build, aCloseVars
    <2> QED BY <1>1, <2>1, <2>2 DEF AppInv
<1>4. CASE ~Build /\ role # "app"
    <2>1. app = "none"
        BY <1>4 DEF AppInv
    <2>2. UNCHANGED avars
        BY <1>4, <2>1, NextIsAppStep
        DEF AppInv, AppStep, SoupDispatch, AppDispatch, AppHandlerReturns,
            AppDispatcherEnds, AppReceives, AppReceiveBlocks, AppReceiveEnds, AppClose,
            OnCloseCloses, OnSoupClose, Urgent, AppQueueStopped, AppNotified, AppInterrupted
    <2> QED BY <1>1, <1>4, <2>1, <2>2 DEF AppInv, avars, aqVars, aCloseVars
<1>5. CASE ~Build /\ role = "app"
    <2>1. login' = "accepted" <=> login = "accepted"
        BY <1>1, <1>5, AcceptedIsBuild
    <2>2. \/ NoHandler \/ AppNotified \/ AppInterrupted \/ OnCloseCloses
          \/ cpc' = cpc
          \/ cpc \notin FromNotify /\ cpc' # "finished"
        BY <1>5, AppEndsClose
    <2>3. app = "none" => disp = "none"
        BY <1>5 DEF AppInv, LoginInv, IsClient
    <2>4. CASE NoHandler
        BY <1>1, <1>5, <2>1, <2>4 DEF NoHandler, Installed, AppInv, avars, aqVars, aCloseVars
    <2>5. CASE AppNotified
        BY <1>1, <1>2, <1>5, <2>1, <2>5 DEF AppNotified, WakesCloser, AppInv, aqVars
    <2>6. CASE AppInterrupted
        BY <1>1, <1>2, <1>5, <2>1, <2>6 DEF AppInterrupted, AppInv, aqVars
    <2>8. CASE OnCloseCloses
        <3>1. closed' = closed
            BY <2>8 DEF OnCloseCloses, SoupUnchanged
        <3> QED BY <1>1, <1>5, <2>1, <2>8, <3>1 DEF OnCloseCloses, aqVars, AppInv
    <2>7. CASE ~NoHandler /\ ~AppNotified /\ ~AppInterrupted /\ ~OnCloseCloses
        <3>1. cpc \in FromNotify => cpc' = cpc
            BY <2>2, <2>7
        <3>2. apc # "idle" => cpc \in FromNotify /\ cpc' = cpc /\ closed'
            BY <1>2, <3>1 DEF AppInv, FromNotify, ATypeOK
        <3>3. CASE UNCHANGED avars
            BY <1>1, <1>5, <2>1, <3>2, <3>3 DEF AppInv, avars, aqVars, aCloseVars
        <3>4. CASE SoupDispatch
            <4>1. app # "none" /\ UNCHANGED <<app, astopped, adisp, arecv, apc, event, aclosed>>
                BY <2>3, <3>4 DEF SoupDispatch, aCloseVars
            <4>2. UNCHANGED <<closed, cpc>>
                BY <3>4 DEF SoupDispatch, closeVars
            <4> QED BY <1>1, <1>5, <2>1, <4>1, <4>2 DEF AppInv
        <3>5. CASE AppDispatch \/ AppHandlerReturns \/ AppDispatcherEnds
            BY <1>1, <1>5, <2>1, <3>2, <3>5 DEF AppDispatch, AppHandlerReturns,
               AppDispatcherEnds, OnlyQueue, aCloseVars, AppInv
        <3>6. CASE AppReceives \/ AppReceiveBlocks \/ AppReceiveEnds
            BY <1>1, <1>5, <2>1, <3>2, <3>6 DEF AppReceives, AppReceiveBlocks,
               AppReceiveEnds, OnlyQueue, aCloseVars, AppInv
        <3>7. CASE AppClose
            BY <1>1, <1>5, <2>1, <3>2, <3>7 DEF AppClose, aqVars, AppInv
        <3>8. CASE OnSoupClose
            <4>1. cpc = "notify" /\ cpc' = "notify" /\ apc = "idle" /\ app # "none"
                BY <3>8 DEF OnSoupClose, Urgent, Installed
            <4> QED BY <1>1, <1>2, <1>5, <2>1, <3>8, <4>1
                    DEF OnSoupClose, StopAppQueue, AppInv, ATypeOK
        <3>9. CASE AppQueueStopped
            BY <1>1, <1>5, <2>1, <3>2, <3>9 DEF AppQueueStopped, aqVars, AppInv
        <3> QED BY <1>5, <2>7, <3>3, <3>4, <3>5, <3>6, <3>7, <3>8, <3>9, NextIsAppStep
                DEF AppStep
    <2> QED BY <2>4, <2>5, <2>6, <2>7, <2>8
<1> QED BY <1>3, <1>4, <1>5

\* Nothing gets lost between the queue of the session and the application's.
LEMMA GivenInvStep ==
    ASSUME ATypeOK, LoginInv, AppInv, GivenInv, [ANext]_everything
    PROVE  GivenInv'
<1>1. role' = role /\ (login = "accepted" => login' = "accepted")
    BY LoginTyped
<1>2. /\ queue \in Seq(Nat) /\ delivered \in Seq(Nat) /\ aq \in Seq(Nat) /\ taken \in Seq(Nat)
    BY DEF ATypeOK, PTypeOK, TypeOK
<1>3. CASE role # "app"
    <2>1. app = "none" /\ (app' = app \/ Build)
        <3>1. app = "none"
            BY <1>3 DEF AppInv
        <3>2. CASE UNCHANGED avars
            BY <3>1, <3>2 DEF avars
        <3>3. CASE AppStep
            BY <1>3, <3>1, <3>3
            DEF AppInv, AppStep, SoupDispatch, AppDispatch, AppHandlerReturns,
                AppDispatcherEnds, AppReceives, AppReceiveBlocks, AppReceiveEnds, AppClose,
                OnCloseCloses, OnSoupClose, Urgent, AppQueueStopped, AppNotified, AppInterrupted
        <3> QED BY <3>1, <3>2, <3>3, NextIsAppStep
    <2> QED BY <1>1, <1>3, <2>1 DEF GivenInv, Build
<1>4. CASE role = "app" /\ login # "accepted"
    <2>1. app = "none" /\ disp = "none" /\ aq = <<>> /\ taken = <<>>
        BY <1>4 DEF AppInv, LoginInv, IsClient
    <2>2. delivered' = delivered \/ LoginTakes
        BY <1>4, <2>1, WhoDelivers DEF SoupDispatch
    <2>3. CASE Build
        <3>1. /\ login' = "accepted" /\ UNCHANGED <<aq, taken, delivered>>
              /\ Len(delivered) = 1
            BY <1>4, <2>3 DEF Build, LoginAccepted, dataVars, GivenInv
        <3>2. Tail(delivered) = <<>> /\ delivered # <<>>
            <4>1. Len(<<>>) = 0
                OBVIOUS
            <4>2. delivered # <<>>
                BY <3>1, <4>1
            <4>3. Tail(delivered) \in Seq(Nat) /\ Len(Tail(delivered)) = 0
                BY <1>2, <3>1, <4>2, HeadTailProperties
            <4>4. \A s \in Seq(Nat) : Len(s) = 0 => s = <<>>
                BY EmptySeq
            <4> QED BY <4>2, <4>3, <4>4
        <3>3. taken \o aq = <<>>
            BY <2>1, ConcatEmptySeq, EmptySeq
        <3> QED BY <3>1, <3>2, <3>3, SelectedEmpty DEF GivenInv
    <2>4. CASE ~Build
        <3>1. login' # "accepted"
            BY <1>4, <2>4, AcceptedIsBuild
        <3>2. app' = "none"
            <4>1. CASE UNCHANGED avars
                BY <2>1, <4>1 DEF avars
            <4>2. CASE AppStep
                BY <2>1, <2>4, <4>2
                DEF AppInv, AppStep, SoupDispatch, AppDispatch, AppHandlerReturns,
                    AppDispatcherEnds, AppReceives, AppReceiveBlocks, AppReceiveEnds, AppClose,
                    OnCloseCloses, OnSoupClose, Installed, AppQueueStopped, AppNotified,
                    AppInterrupted
            <4> QED BY <4>1, <4>2, NextIsAppStep
        <3>3. CASE LoginTakes
            <4>1. delivered = <<>> /\ delivered' = Append(delivered, Head(queue)) /\ login' = "replied"
                BY <1>4, <3>3 DEF LoginTakes, ReceiveReturns, TakeMessage, GivenInv
            <4>2. Len(delivered') = 1
                BY <4>1
            <4> QED BY <3>1, <3>2, <4>1, <4>2 DEF GivenInv
        <3>4. CASE ~LoginTakes
            <4>1. delivered' = delivered
                BY <2>2, <3>4
            <4>2. login' \in {"none", "waiting"} => login \in {"none", "waiting"}
                BY LoginStepBack
            <4>3. login' = "replied" => login = "replied"
                BY <3>4, LoginStepBack
            <4> QED BY <1>1, <3>1, <3>2, <4>1, <4>2, <4>3 DEF GivenInv
        <3> QED BY <3>3, <3>4
    <2> QED BY <2>3, <2>4
<1>5. CASE role = "app" /\ login = "accepted"
    <2>1. app # "none" /\ login' = "accepted"
        BY <1>1, <1>5 DEF AppInv
    <2>2. delivered # <<>> /\ taken \o aq = Selected(Tail(delivered), ForApp)
        BY <2>1 DEF GivenInv
    <2>3. CASE SoupDispatch
        <3>1. /\ aq' = aq \o PassOn /\ delivered' = delivered \o queue /\ taken' = taken
            BY <2>3 DEF SoupDispatch
        <3>2. /\ Tail(delivered) \in Seq(Nat) /\ delivered' # <<>>
              /\ Tail(delivered') = Tail(delivered) \o queue
            BY <1>2, <2>2, <3>1
        <3>3. taken' \o aq' = (taken \o aq) \o PassOn
            <4>1. PassOn \in Seq(Nat)
                BY PassOnTyped DEF ATypeOK, PTypeOK
            <4>2. \A s, t, u \in Seq(Nat) : (s \o t) \o u = s \o (t \o u)
                BY ConcatAssociative
            <4>3. (taken \o aq) \o PassOn = taken \o (aq \o PassOn)
                BY <1>2, <4>1, <4>2
            <4> QED BY <3>1, <4>3
        <3>4. Selected(Tail(delivered) \o queue, ForApp) = Selected(Tail(delivered), ForApp) \o PassOn
            BY <1>2, <3>2, SelectedConcat DEF PassOn
        <3> QED BY <2>1, <2>2, <3>2, <3>3, <3>4 DEF GivenInv
    <2>4. CASE ~SoupDispatch
        <3>1. delivered' = delivered
            BY <1>5, <2>4, WhoDelivers DEF LoginTakes
        <3>2. taken' \o aq' = taken \o aq
            <4>1. CASE UNCHANGED avars
                BY <4>1 DEF avars, aqVars
            <4>2. CASE AppDispatch \/ AppReceives
                BY <4>2, TakenFromApp DEF AppDispatch, AppReceives
            <4>3. CASE AppStep /\ ~AppDispatch /\ ~AppReceives
                BY <1>5, <2>4, <4>3
                DEF AppStep, Build, LoginAccepted, AppHandlerReturns, AppDispatcherEnds,
                    AppReceiveBlocks, AppReceiveEnds, AppClose, OnCloseCloses, OnSoupClose,
                    AppQueueStopped, AppNotified, AppInterrupted, aqVars
            <4> QED BY <4>1, <4>2, <4>3, NextIsAppStep
        <3> QED BY <2>1, <2>2, <3>1, <3>2 DEF GivenInv
    <2> QED BY <2>3, <2>4
<1> QED BY <1>3, <1>4, <1>5

-----------------------------------------------------------------------------
(* The numbers of the messages read *)

\* A frame that arrives, and one that is read, leave the rest numbered.
LEMMA NumberedArrives ==
    ASSUME NEW b \in Seq(Frame), NEW n \in Nat, Numbered(b, n), NEW f \in Frame,
           f.id = n + 1, f.kind \in FrameKinds
    PROVE  Numbered(Append(b, f), n + 1) /\ ReadOf(Append(b, f), n + 1) = ReadOf(b, n)
<1>1. Len(Append(b, f)) = Len(b) + 1 /\ Len(b) \in Nat
    OBVIOUS
<1>2. ReadOf(Append(b, f), n + 1) = ReadOf(b, n)
    BY <1>1 DEF ReadOf
<1>3. ASSUME NEW j \in DOMAIN Append(b, f)
      PROVE  /\ Append(b, f)[j].id = ReadOf(b, n) + j
             /\ Append(b, f)[j].kind \in FrameKinds
    <2>1. CASE j \in DOMAIN b /\ Append(b, f)[j] = b[j]
        BY <2>1 DEF Numbered
    <2>2. CASE j = Len(b) + 1 /\ Append(b, f)[j] = f
        BY <1>1, <2>2 DEF ReadOf
    <2> QED BY <2>1, <2>2, AppendedElements
<1>4. Len(Append(b, f)) <= n + 1
    BY <1>1 DEF Numbered
<1> QED BY <1>2, <1>3, <1>4 DEF Numbered

LEMMA NumberedRead ==
    ASSUME NEW b \in Seq(Frame), NEW n \in Nat, Numbered(b, n), b # <<>>
    PROVE  /\ Numbered(Tail(b), n) /\ ReadOf(Tail(b), n) = ReadOf(b, n) + 1
           /\ Head(b).id = ReadOf(b, n) + 1 /\ Head(b).kind \in FrameKinds
<1>1. /\ Len(Tail(b)) = Len(b) - 1 /\ Len(b) \in Nat /\ Len(b) >= 1
      /\ 1 \in DOMAIN b /\ Head(b) = b[1]
      /\ \A j \in DOMAIN Tail(b) : j \in Nat /\ j + 1 \in DOMAIN b /\ Tail(b)[j] = b[j + 1]
    OBVIOUS
<1> QED BY <1>1 DEF Numbered, ReadOf

\* What arrives from the socket, and what the reader takes from its buffer.
LEMMA WhoReads ==
    ASSUME [ANext]_everything
    PROVE  \/ UNCHANGED <<buffer, arrived>>
           \/ MessageRead
           \/ (DataReceived \/ ReadEndOfSession) /\ UNCHANGED pvars
<1>1. CASE PEnvironment
    BY <1>1 DEF PEnvironment, Connected, Connect, PeerSends, Login, ReceiveBlocks,
       ReceiveReturns, SendFix, SendSequenced, Logout, AppInitiatesClose, InitiateClose,
       ConnectionLost, RemoteMonitorTrips, Close, dataVars, vars
<1>2. CASE TaskStep
    BY <1>2 DEF TaskStep, ReadMalformed, ReportDrained, ReaderEnds, HandlerReturns,
       DispatcherEnds, LocalStopped, RemoteStopped, ReaderDrained, QueueDrained,
       DispatcherStopped, RecvStopped, ReaderStopped, Resume, OnCloseReturns, OnCloseCancelled,
       Monitors, LocalMonitorEnds, RemoteMonitorEnds, ReceiveEnds, RunClosingTask,
       ConnectionLost, InitiateClose, dataVars
<1>3. CASE LoginTakes \/ LoginCut \/ LoginRejected \/ LoginRaises \/ LoginAccepted(coro) \/ Build
    BY <1>3 DEF LoginTakes, ReceiveReturns, LoginCut, LoginRejected, LoginRaises, LoginAccepted,
       Build, dataVars, vars
<1>4. CASE ServerTakes \/ ServerAccepts \/ ServerRefuses \/ ClientDispatches
    BY <1>4 DEF ServerTakes, DispatchNext, HandlerGoesOn, ServerAccepts, ServerRefuses,
       ClientDispatches, dataVars
<1>5. CASE SoupDispatch \/ NoHandler \/ OnSoupClose \/ AppNotified \/ AppInterrupted
    BY <1>5 DEF SoupDispatch, NoHandler, OnCloseReturns, OnSoupClose, AppNotified,
       AppInterrupted, SoupUnchanged, dataVars
<1>6. CASE \/ AppDispatch \/ AppHandlerReturns \/ AppDispatcherEnds \/ AppReceiveEnds
           \/ AppReceives \/ AppReceiveBlocks \/ AppQueueStopped \/ OnCloseCloses
           \/ UNCHANGED everything
    BY <1>6 DEF AppDispatch, AppHandlerReturns, AppDispatcherEnds, AppReceiveEnds,
       AppReceives, AppReceiveBlocks, AppQueueStopped, OnCloseCloses, OnlyQueue, Idle,
       SoupUnchanged, everything, allvars, vars, dataVars
<1>7. CASE AppClose
    BY <1>7 DEF AppClose, AppInitiatesClose, InitiateClose, dataVars, vars
<1> QED BY <1>1, <1>2, <1>3, <1>4, <1>5, <1>6, <1>7
        DEF ANext, System, Environment, PSystem, AppCloseStep

\* What is queued or delivered stays so, and grows by what is read.
LEMMA SoupStepHolds ==
    ASSUME TypeOK, SoupStep, buffer' = buffer \/ DataReceived \/ ReadEndOfSession
    PROVE  delivered' \o queue' = delivered \o queue
<1>1. /\ queue \in Seq(Nat) /\ delivered \in Seq(Nat) /\ buffer \in Seq(Frame)
    BY DEF TypeOK
<1>2. UNCHANGED <<delivered, queue>> => delivered' \o queue' = delivered \o queue
    OBVIOUS
<1>3. CASE DataReceived \/ ReadEndOfSession
    BY <1>2, <1>3 DEF DataReceived, ReadEndOfSession
<1>4. CASE SoupDispatch
    <2>1. (delivered \o queue) \o <<>> = delivered \o queue
        BY <1>1
    <2> QED BY <1>4, <2>1 DEF SoupDispatch
<1>5. CASE TakeMessage
    BY <1>1, <1>5, TakenKeepsOrder DEF TakeMessage
<1>6. CASE ReadMessage
    <2>1. \A b \in Seq(Frame) : b # <<>> => Tail(b) # b
        <3>1. \A b \in Seq(Frame) : b # <<>> => Len(Tail(b)) # Len(b)
            OBVIOUS
        <3> QED BY <3>1
    <2> QED BY <1>1, <1>3, <1>6, <2>1 DEF ReadMessage
<1>7. CASE DispatchNext \/ HandlerGoesOn \/ ReceiveReturns
    BY <1>5, <1>7 DEF DispatchNext, HandlerGoesOn, ReceiveReturns
<1>8. CASE \/ Connected \/ \E dispatches \in BOOLEAN : LoginAccepted(dispatches)
           \/ ServerAccepts \/ OnCloseGoesOn \/ UNCHANGED vars
    BY <1>2, <1>8 DEF Connected, Connect, LoginAccepted, ServerAccepts, OnCloseGoesOn,
       SoupUnchanged, vars, dataVars
<1>9. CASE Closer
    BY <1>2, <1>9 DEF Closer, LocalStopped, RemoteStopped, ReaderDrained, QueueDrained,
       DispatcherStopped, RecvStopped, ReaderStopped, OnCloseReturns, OnCloseCancelled,
       Resume, dataVars
<1>10. CASE \/ ConnectionLost \/ ReceiveBlocks \/ ReceiveEnds \/ Monitors
            \/ ReadMalformed \/ ReportDrained \/ ReaderEnds \/ HandlerReturns \/ DispatcherEnds
            \/ RemoteMonitorTrips \/ RunClosingTask
    BY <1>2, <1>10 DEF ConnectionLost, InitiateClose, ReceiveBlocks, ReceiveEnds, Monitors,
       LocalMonitorEnds, RemoteMonitorEnds, ReadMalformed, ReportDrained, ReaderEnds,
       HandlerReturns, DispatcherEnds, RemoteMonitorTrips, RunClosingTask, dataVars
<1>11. CASE \E d \in BOOLEAN : Close(d) \/ HandlerClose(d) \/ AppInitiatesClose(d)
    BY <1>2, <1>11 DEF Close, HandlerClose, AppInitiatesClose, InitiateClose, dataVars
<1> QED BY <1>3, <1>4, <1>6, <1>7, <1>8, <1>9, <1>10, <1>11
        DEF SoupStep, ConnectedStep, Reader, Dispatcher

\* The reader's own close() has stopped it from its last await on; a reader
\* that is done with reading stays so.
LEMMA BeginCloseOver ==
    ASSUME TypeOK, PlaceInv, NEW me, NEW d, NEW p, BeginClose(me, d, p)
    PROVE  OverInv' /\ (ReaderOver => ReaderOver') /\ (me = "reader" => ReaderOver')
BY DEF PlaceInv, InvCloser, FirstClose, BeginClose, StopLocal, StopRemote, DrainReader, StopQueue,
       StopRecv, StopReader, Notify, Suspend, OverInv, ReaderOver, FromReader, FromNotify

LEMMA SoupStepOver ==
    ASSUME TypeOK, PlaceInv, OverInv, SoupStep
    PROVE  OverInv' /\ (ReaderOver => ReaderOver')
<1> USE DEF OverInv, ReaderOver, FromReader, FromNotify
<1>1. CASE UNCHANGED <<closer, cpc, rstopped>>
    BY <1>1
<1>2. CASE \/ Connected \/ DataReceived \/ UNCHANGED vars
           \/ \E dispatches \in BOOLEAN : LoginAccepted(dispatches)
           \/ ServerAccepts \/ SoupDispatch
    BY <1>1, <1>2 DEF Connected, Connect, DataReceived, LoginAccepted, ServerAccepts,
       SoupDispatch, vars, taskVars, closeVars
<1>3. CASE OnCloseGoesOn
    BY <1>3 DEF OnCloseGoesOn, SoupUnchanged, taskVars
<1>4. CASE LocalStopped
    BY <1>4 DEF LocalStopped, Resume, StopRemote, DrainReader, StopQueue, StopRecv,
       StopReader, Notify, Suspend
<1>5. CASE RemoteStopped
    BY <1>5 DEF RemoteStopped, Resume, DrainReader, StopQueue, StopRecv, StopReader,
       Notify, Suspend
<1>6. CASE QueueDrained
    BY <1>6 DEF QueueDrained, Resume, StopQueue, StopRecv, StopReader, Notify, Suspend
<1>7. CASE DispatcherStopped \/ RecvStopped
    BY <1>7 DEF DispatcherStopped, RecvStopped, Resume, StopRecv, StopReader, Notify, Suspend
<1>8. CASE ReaderDrained \/ ReaderStopped \/ OnCloseReturns \/ OnCloseCancelled
    BY <1>8 DEF ReaderDrained, ReaderStopped, Notify, Suspend, OnCloseReturns, OnCloseCancelled,
       Resume, taskVars
<1>9. CASE \/ ConnectionLost \/ ReceiveReturns \/ ReceiveBlocks \/ ReceiveEnds \/ Monitors
           \/ \E d \in BOOLEAN : AppInitiatesClose(d)
    BY <1>1, <1>9 DEF ConnectionLost, AppInitiatesClose, InitiateClose, ReceiveReturns,
       ReceiveBlocks, ReceiveEnds, Monitors, LocalMonitorEnds, RemoteMonitorEnds, taskVars, closeVars
<1>10. CASE \/ ReadMessage \/ ReadMalformed \/ ReportDrained \/ ReaderEnds
            \/ DispatchNext \/ HandlerReturns \/ HandlerGoesOn \/ DispatcherEnds
    BY <1>1, <1>10 DEF ReadMessage, ReadMalformed, ReportDrained, ReaderEnds, DispatchNext,
       HandlerReturns, HandlerGoesOn, DispatcherEnds, taskVars, closeVars
<1>11. CASE \E d \in BOOLEAN : Close(d) \/ HandlerClose(d)
    BY <1>11, BeginCloseOver DEF Close, HandlerClose
<1>12. CASE RemoteMonitorTrips
    BY <1>1, <1>12, BeginCloseOver DEF RemoteMonitorTrips, closeVars
<1>13. CASE RunClosingTask
    <2>1. CASE UNCHANGED <<transport, taskVars, closeVars>>
        BY <1>1, <2>1 DEF taskVars, closeVars
    <2>2. CASE BeginClose("closing", ctask = "drain", FALSE)
        BY <2>2, BeginCloseOver
    <2> QED BY <1>13, <2>1, <2>2 DEF RunClosingTask
<1>14. CASE ReadEndOfSession
    <2>1. CASE rstopped' = TRUE
        BY <2>1
    <2>2. CASE BeginClose("reader", FALSE, TRUE)
        BY <2>2, BeginCloseOver
    <2> QED BY <1>14, <2>1, <2>2 DEF ReadEndOfSession
<1> QED BY <1>2, <1>3, <1>4, <1>5, <1>6, <1>7, <1>8, <1>9, <1>10, <1>11, <1>12, <1>13, <1>14
        DEF SoupStep, ConnectedStep, Reader, Dispatcher, Closer

\* An EndOfSession is the last frame that is read.
LEMMA EndIsLast ==
    ASSUME TypeOK, PlaceInv, ReadEndOfSession
    PROVE  ReaderOver'
<1>1. CASE rstopped' = TRUE
    BY <1>1 DEF ReaderOver
<1>2. CASE BeginClose("reader", FALSE, TRUE)
    BY <1>2, BeginCloseOver
<1> QED BY <1>1, <1>2 DEF ReadEndOfSession

\* Only on_message() counts, and login() leaves the count as it is.
LEMMA CountedKept ==
    ASSUME ATypeOK, LoginInv, role \in {"client", "app"}, [ANext]_everything, ~MessageRead
    PROVE  Counted' = Counted
<1>1. seq \in Nat /\ skipped \in Nat /\ Reply \in Nat
    BY NumbersAssumption DEF ATypeOK, PTypeOK
<1>2. CASE UNCHANGED pvars
    BY <1>2 DEF pvars, loginVars, Counted
<1>3. CASE Login \/ LoginTakes \/ LoginCut \/ LoginRejected \/ LoginRaises
    BY <1>3 DEF Login, LoginTakes, LoginCut, LoginRejected, LoginRaises, Counted
<1>4. CASE \E dispatches \in BOOLEAN : LoginAccepted(dispatches)
    BY <1>1, <1>4 DEF LoginAccepted, LastSeen, Counted
<1>5. CASE ServerTakes \/ SendFix \/ SendSequenced
    BY <1>5 DEF ServerTakes, SendFix, SendSequenced
<1>6. CASE ServerAccepts \/ ServerRefuses
    BY <1>6 DEF ServerAccepts, ServerRefuses, LoginInv, IsClient
<1> QED BY <1>2, <1>3, <1>4, <1>5, <1>6, NextIsLoginStep DEF LoginStep

\* A client that is replied to has taken a message.
LEMMA RepliedTo ==
    ASSUME ATypeOK, LoginInv, ReadInv, [ANext]_everything, IsClient,
           login' \in {"replied", "accepted"}
    PROVE  Read > 0
<1>1. CASE login \in {"replied", "accepted"}
    BY <1>1 DEF ReadInv
<1>2. CASE LoginTakes
    <2>1. queue \in Seq(Nat) /\ delivered \in Seq(Nat) /\ queue # <<>>
        BY <1>2 DEF LoginTakes, ReceiveReturns, TakeMessage, ATypeOK, PTypeOK, TypeOK
    <2>2. delivered \o queue # <<>>
        BY <2>1
    <2> QED BY <2>2 DEF ReadInv
<1>3. CASE login \notin {"replied", "accepted"} /\ ~LoginTakes
    <2>1. login' = "accepted"
        BY <1>3, LoginStepBack
    <2>2. CASE UNCHANGED pvars
        BY <1>3, <2>1, <2>2 DEF pvars, loginVars
    <2>3. CASE LoginStep
        BY <1>3, <2>1, <2>3 DEF LoginStep, Login, LoginCut, LoginRejected, LoginRaises,
           LoginAccepted, ServerTakes, ServerAccepts, ServerRefuses, MessageRead, SendFix,
           SendSequenced, LoginInv
    <2> QED BY <2>2, <2>3, NextIsLoginStep
<1> QED BY <1>1, <1>2, <1>3

\* A frame that arrives has the next number.
LEMMA ArrivesNumbered ==
    ASSUME TypeOK, ReadInv, DataReceived
    PROVE  Numbered(buffer', arrived') /\ Read' = Read
<1>1. buffer \in Seq(Frame) /\ arrived \in Nat /\ Numbered(buffer, arrived)
    BY DEF TypeOK, ReadInv
<1>2. PICK f \in Frame : /\ f.id = arrived + 1 /\ f.kind \in FrameKinds
                         /\ buffer' = Append(buffer, f) /\ arrived' = arrived + 1
    BY <1>1, FrameKindsAssumption DEF DataReceived, Frame
<1> QED BY <1>1, <1>2, NumberedArrives DEF Read

\* What a step reads has arrived, and is numbered.
LEMMA ReadInvStep ==
    ASSUME ATypeOK, LoginInv, ReadInv, SoupStep, [ANext]_everything
    PROVE  ReadInv'
<1> DEFINE m == delivered \o queue
<1>1. /\ TypeOK /\ buffer \in Seq(Frame) /\ arrived \in Nat /\ Numbered(buffer, arrived)
      /\ Read \in Nat /\ role' = role
    BY LoginTyped DEF ATypeOK, PTypeOK, TypeOK, ReadInv, Read, ReadOf, Numbered
<1>2. IsClient /\ login' \in {"replied", "accepted"} => Read > 0
    BY RepliedTo
<1>3. m # <<>> => Read > 0
    BY DEF ReadInv
<1>4. CASE UNCHANGED <<buffer, arrived>>
    <2>1. m' = m
        BY <1>1, <1>4, SoupStepHolds
    <2> QED BY <1>1, <1>2, <1>3, <1>4, <2>1 DEF ReadInv, Read, IsClient
<1>5. CASE DataReceived
    <2>1. m' = m
        BY <1>1, <1>5, SoupStepHolds
    <2>2. Numbered(buffer', arrived') /\ Read' = Read
        BY <1>1, <1>5, ArrivesNumbered
    <2> QED BY <1>1, <1>2, <1>3, <2>1, <2>2 DEF ReadInv, IsClient
<1>6. CASE buffer # <<>> /\ buffer' = Tail(buffer) /\ arrived' = arrived
    <2>1. Numbered(buffer', arrived') /\ Read' = Read + 1
        BY <1>1, <1>6, NumberedRead DEF Read
    <2>2. Read' > 0
        BY <1>1, <2>1
    <2> QED BY <2>1, <2>2 DEF ReadInv
<1>7. CASE MessageRead \/ ReadEndOfSession
    BY <1>6, <1>7 DEF MessageRead, ReadMessage, ReadEndOfSession
<1> QED BY <1>4, <1>5, <1>7, WhoReads

\* on_message() counts what the reader reads, before it is given on.
LEMMA CountInvStep ==
    ASSUME ATypeOK, PlaceInv, LoginInv, OverInv, ReadInv, CountInv, SoupStep, [ANext]_everything
    PROVE  CountInv'
<1> SUFFICES ASSUME role \in {"client", "app"}, "heartbeat" \notin FrameKinds
             PROVE  CountInv'
    BY LoginTyped DEF CountInv
<1> DEFINE m == delivered \o queue
<1>1. /\ TypeOK /\ buffer \in Seq(Frame) /\ arrived \in Nat /\ Numbered(buffer, arrived)
      /\ queue \in Seq(Nat) /\ delivered \in Seq(Nat) /\ m \in Seq(Nat)
      /\ Read \in Nat /\ seq \in Nat
    BY DEF ATypeOK, PTypeOK, TypeOK, ReadInv, Read, ReadOf, Numbered
<1>2. Counted \in Int
    BY <1>1, NumbersAssumption DEF ATypeOK, PTypeOK, Counted
<1>3. /\ Counted <= Countable /\ (~ReaderOver => Counted = Countable)
      /\ \A i \in DOMAIN m : m[i] <= Counted
    BY DEF CountInv
<1>4. ReaderOver => ReaderOver'
    BY <1>1, SoupStepOver
<1>5. ASSUME m' = m, Counted' = Counted, Read' = Read
      PROVE  CountInv'
    BY <1>3, <1>4, <1>5 DEF CountInv, Countable
<1>6. CASE UNCHANGED <<buffer, arrived>>
    <2>1. m' = m
        BY <1>1, <1>6, SoupStepHolds
    <2>2. ~MessageRead
        <3>1. \A b \in Seq(Frame) : b # <<>> => Len(Tail(b)) # Len(b)
            OBVIOUS
        <3> QED BY <1>1, <1>6, <3>1 DEF MessageRead, ReadMessage
    <2>3. Counted' = Counted
        BY <2>2, CountedKept
    <2> QED BY <1>5, <1>6, <2>1, <2>3 DEF Read
<1>7. CASE DataReceived /\ UNCHANGED pvars
    <2>1. m' = m
        BY <1>1, <1>7, SoupStepHolds
    <2>2. Read' = Read
        BY <1>1, <1>7, ArrivesNumbered
    <2>3. Counted' = Counted
        BY <1>7 DEF Counted, pvars, loginVars
    <2> QED BY <1>5, <2>1, <2>2, <2>3
<1>8. CASE ReadEndOfSession /\ UNCHANGED pvars
    <2>1. m' = m
        BY <1>1, <1>8, SoupStepHolds
    <2>2. Read' = Read + 1
        BY <1>1, <1>8, NumberedRead DEF ReadEndOfSession, Read
    <2>3. Counted' = Counted
        BY <1>8 DEF Counted, pvars, loginVars
    <2>4. ReaderOver'
        BY <1>1, <1>8, EndIsLast
    <2> QED BY <1>1, <1>2, <1>3, <2>1, <2>2, <2>3, <2>4 DEF CountInv, Countable
<1>9. CASE MessageRead
    <2>1. /\ ReadMessage /\ login' = login /\ skipped' = skipped /\ buffer # <<>>
          /\ Head(buffer).kind \in {"msg", "heartbeat"}
          /\ seq' = IF Head(buffer).kind = "msg" /\ Head(buffer).id # 1 THEN seq + 1 ELSE seq
        BY <1>9 DEF MessageRead, ReadMessage, Answer
    <2>2. /\ Head(buffer).id = Read + 1 /\ Head(buffer).kind \in FrameKinds /\ Read' = Read + 1
        BY <1>1, <2>1, NumberedRead DEF ReadMessage, Read
    <2>3. seq' = IF Read = 0 THEN seq ELSE seq + 1
        BY <1>1, <2>1, <2>2
    <2>4. Counted = Countable
        <3>1. closer = "reader" => cpc \notin EndPoints
            BY <2>1 DEF ReadMessage, ReaderRuns, OverInv, FromReader, FromNotify, EndPoints
        <3>2. ~ReaderOver
            BY <2>1, <3>1 DEF ReadMessage, ReaderRuns, Closing, ReaderOver
        <3> QED BY <1>3, <3>2
    <2>5. Counted' = IF Read = 0 THEN Counted ELSE Counted + 1
        BY <1>1, <2>1, <2>3, NumbersAssumption DEF Counted, ATypeOK, PTypeOK
    <2>6. Counted' = Countable' /\ Counted' = Read + 1
        BY <1>1, <2>2, <2>4, <2>5 DEF Countable
    <2>7. m' = m \/ m' = Append(m, Read + 1)
        <3>1. delivered' = delivered /\ (queue' = queue \/ queue' = Append(queue, Read + 1))
            BY <2>1, <2>2 DEF ReadMessage
        <3>2. delivered \o Append(queue, Read + 1) = Append(m, Read + 1)
            BY <1>1
        <3> QED BY <3>1, <3>2
    <2>8. \A i \in DOMAIN m' : m'[i] <= Read + 1
        <3>1. \A i \in DOMAIN m : m[i] <= Read + 1 /\ m[i] \in Nat
            BY <1>1, <1>2, <1>3, <2>5, <2>6
        <3>2. CASE m' = m
            BY <3>1, <3>2
        <3>3. CASE m' = Append(m, Read + 1)
            <4>1. ASSUME NEW i \in DOMAIN Append(m, Read + 1)
                  PROVE  Append(m, Read + 1)[i] <= Read + 1
                <5>1. Read + 1 \in Nat
                    BY <1>1
                <5>2. \/ i \in DOMAIN m /\ Append(m, Read + 1)[i] = m[i]
                      \/ Append(m, Read + 1)[i] = Read + 1
                    BY <1>1, <5>1, AppendedElements
                <5>3. CASE i \in DOMAIN m /\ Append(m, Read + 1)[i] = m[i]
                    <6>1. m[i] <= Read + 1
                        BY <3>1, <5>3, Zenon
                    <6> QED BY <5>3, <6>1, Zenon
                <5>4. CASE Append(m, Read + 1)[i] = Read + 1
                    <6>1. Read + 1 <= Read + 1
                        BY <5>1
                    <6> QED BY <5>4, <6>1, Zenon
                <5> QED BY <5>2, <5>3, <5>4
            <4> QED BY <3>3, <4>1
        <3> QED BY <2>7, <3>2, <3>3
    <2>9. Counted' <= Countable' /\ \A i \in DOMAIN m' : m'[i] <= Counted'
        BY <1>1, <2>6, <2>8
    <2> QED BY <2>6, <2>9 DEF CountInv
<1> QED BY <1>6, <1>7, <1>8, <1>9, WhoReads

-----------------------------------------------------------------------------
(* The inductive invariant *)

\* A login that was too late has been, and one that was not found the session
\* active.
LEMMA LateStays ==
    ASSUME LoginInv, ATypeOK, [ANext]_everything
    PROVE  /\ late => late'
           /\ login' = "accepted" /\ login # "accepted" /\ ~late' => IsActive
<1>1. CASE UNCHANGED pvars
    BY <1>1 DEF pvars, loginVars
<1>2. CASE \E dispatches \in BOOLEAN : LoginAccepted(dispatches)
    BY <1>2 DEF LoginAccepted, StartsTasks, LoginInv
<1>3. CASE ServerAccepts
    BY <1>3 DEF ServerAccepts, LoginInv
<1>4. CASE \/ Login \/ LoginTakes \/ LoginCut \/ LoginRejected \/ LoginRaises
           \/ ServerTakes \/ ServerRefuses \/ MessageRead \/ SendFix \/ SendSequenced
    <2>1. late' = late
        BY <1>4 DEF Login, LoginTakes, LoginCut, LoginRejected, LoginRaises, ServerTakes,
           ServerRefuses, MessageRead, SendFix, SendSequenced
    <2>2. login' = "accepted" => login = "accepted"
        BY <1>4 DEF Login, LoginTakes, LoginCut, LoginRejected, LoginRaises, ServerTakes,
           ServerRefuses, MessageRead, SendFix, SendSequenced
    <2> QED BY <2>1, <2>2
<1> QED BY <1>1, <1>2, <1>3, <1>4, NextIsLoginStep DEF LoginStep

\* Of the handlers of a session none but the server's closes it.
LEMMA RefuserInvStep ==
    ASSUME ATypeOK, LoginInv, RefuserInv, [ANext]_everything
    PROVE  RefuserInv'
<1>0. role' = role
    BY LoginTyped
<1> USE <1>0 DEF RefuserInv
<1>1. CASE PEnvironment
    BY <1>1 DEF PEnvironment, Connected, Connect, PeerSends, DataReceived, Login,
       ReceiveReturns, ReceiveBlocks, SendFix, SendSequenced, Logout, AppInitiatesClose,
       InitiateClose, ConnectionLost, RemoteMonitorTrips, Close, BeginClose, closeVars, vars
<1>2. CASE TaskStep
    BY <1>2 DEF TaskStep, ReadEndOfSession, ReadMalformed, ReportDrained, ReaderEnds,
       HandlerReturns, DispatcherEnds, LocalStopped, RemoteStopped, ReaderDrained, QueueDrained,
       DispatcherStopped, RecvStopped, ReaderStopped, Resume, OnCloseReturns, OnCloseCancelled,
       Monitors, LocalMonitorEnds, RemoteMonitorEnds, ReceiveEnds, RunClosingTask,
       ConnectionLost, InitiateClose, BeginClose, closeVars
<1>3. CASE LoginTakes \/ LoginCut \/ LoginRejected \/ LoginRaises \/ LoginAccepted(coro) \/ Build
    BY <1>3 DEF LoginTakes, ReceiveReturns, LoginCut, LoginRejected, LoginRaises, LoginAccepted,
       Build, BeginClose, closeVars, vars
<1>4. CASE ServerTakes \/ ServerAccepts \/ ClientDispatches \/ MessageRead
    BY <1>4 DEF ServerTakes, DispatchNext, HandlerGoesOn, ServerAccepts, ClientDispatches,
       MessageRead, ReadMessage, closeVars
<1>8. CASE ServerRefuses
    BY <1>8 DEF ServerRefuses, IsClient, LoginInv, closeVars
<1>5. CASE SoupDispatch \/ NoHandler \/ OnSoupClose \/ AppNotified \/ AppInterrupted
    BY <1>5 DEF SoupDispatch, NoHandler, OnCloseReturns, OnSoupClose, AppNotified,
       AppInterrupted, SoupUnchanged, closeVars
<1>6. CASE \/ AppDispatch \/ AppHandlerReturns \/ AppDispatcherEnds \/ AppReceiveEnds
           \/ AppReceives \/ AppReceiveBlocks \/ AppQueueStopped \/ OnCloseCloses
           \/ UNCHANGED everything
    BY <1>6 DEF AppDispatch, AppHandlerReturns, AppDispatcherEnds, AppReceiveEnds,
       AppReceives, AppReceiveBlocks, AppQueueStopped, OnCloseCloses, OnlyQueue, Idle,
       SoupUnchanged, everything, allvars, vars, closeVars
<1>7. CASE AppClose
    BY <1>7 DEF AppClose, AppInitiatesClose, InitiateClose, closeVars, vars
<1> QED BY <1>1, <1>2, <1>3, <1>4, <1>5, <1>6, <1>7, <1>8
        DEF ANext, System, Environment, PSystem, AppCloseStep

LEMMA AInitAInv == AInit => AInv
<1> SUFFICES ASSUME AInit PROVE AInv
    OBVIOUS
<1>1. ATypeOK
    <2>1. TypeOK
        BY InitTyped DEF AInit, PInit
    <2>2. coro \in BOOLEAN
        BY Zenon DEF AInit, PInit
    <2>3. /\ role \in Roles /\ login = "none" /\ seq = 1 /\ skipped = 0
          /\ late = FALSE /\ wire = <<>>
        BY Zenon DEF AInit, PInit
    <2>4. <<>> \in Seq(Nat)
        OBVIOUS
    <2>5. PTypeOK
        BY <2>1, <2>2, <2>3, <2>4 DEF PTypeOK
    <2> QED BY <2>4, <2>5 DEF AInit, ATypeOK
<1>2. PlaceInv /\ CloseInv /\ InvDrain /\ InvOrder
    <2>1. InvDrain /\ InvOrder
        BY DEF AInit, PInit, Init, InvDrain, InvOrder, Ascending,
           FromQueue, FromRecv, FromReader, FromNotify
    <2> QED BY <2>1, CloseInit DEF AInit, PInit, CloseInv, PlaceInv
<1> USE DEF AInit, PInit, Init
<1>3. LoginInv /\ RefuserInv /\ AppInv /\ GivenInv
    BY DEF LoginInv, RefuserInv, IsClient, AppInv, GivenInv
<1>4. OutInv
    <2>1. DOMAIN wire = {} /\ Len(wire) = 0
        OBVIOUS
    <2> QED BY <2>1 DEF OutInv, OutboundNumbers
<1>5. OverInv /\ ReadInv /\ CountInv
    <2>1. /\ Len(buffer) = 0 /\ DOMAIN buffer = {} /\ delivered \o queue = <<>>
          /\ DOMAIN (delivered \o queue) = {}
        OBVIOUS
    <2>2. OverInv
        BY DEF OverInv
    <2>3. Numbered(buffer, arrived) /\ Read = 0
        <3>1. \A n, l \in Nat : n = 0 /\ l = 0 => l <= n /\ n - l = 0
            OBVIOUS
        <3>2. arrived = 0
            OBVIOUS
        <3> QED BY <2>1, <3>1, <3>2 DEF Numbered, Read, ReadOf
    <2>4. ReadInv
        BY <2>1, <2>3 DEF ReadInv
    <2>5. Counted = 1 /\ Countable = 1
        BY <2>3 DEF Counted, Countable
    <2>6. CountInv
        BY <2>1, <2>5 DEF CountInv
    <2> QED BY <2>2, <2>4, <2>6
<1> QED BY <1>1, <1>2, <1>3, <1>4, <1>5 DEF AInv

LEMMA AInvStep == AInv /\ [ANext]_everything => AInv'
<1> SUFFICES ASSUME AInv, [ANext]_everything PROVE AInv'
    OBVIOUS
<1>1. /\ ATypeOK /\ TypeOK /\ PlaceInv /\ (~late => CloseInv) /\ InvDrain /\ InvOrder
      /\ LoginInv /\ RefuserInv /\ OutInv /\ AppInv /\ GivenInv /\ OverInv /\ ReadInv
      /\ CountInv
    BY DEF AInv, ATypeOK, PTypeOK
<1>2. SoupStep
    BY <1>1, NextIsSoupStep
<1>3. PlaceInv'
    BY <1>1, <1>2, SoupStepPlace
<1>4. ~late' => CloseInv'
    BY <1>1, <1>2, LateStays, SoupStepClose
<1>5. OverInv' /\ ReadInv' /\ CountInv'
    BY <1>1, <1>2, SoupStepOver, ReadInvStep, CountInvStep
<1>6. InvDrain' /\ InvOrder'
    BY <1>1, <1>2, SoupStepDrain, SoupStepOrder
<1>7. RefuserInv'
    BY <1>1, RefuserInvStep
<1> QED BY <1>1, <1>3, <1>4, <1>5, <1>6, <1>7, SoupTypedStep, LoginInvStep, OutInvStep,
           AppInvStep, GivenInvStep
        DEF AInv

\* Whatever the peer sends, whenever the session closes, in every role: the
\* login, the numbers, the two queues and the two closes stay in step.
THEOREM SoupInvariance == ASpec => []AInv
BY AInitAInv, AInvStep, PTL DEF ASpec

-----------------------------------------------------------------------------
(* What follows from it *)

\* Every variable has a value the code can give it.
THEOREM SoupTypeCorrect == ASpec => []ATypeOK
<1>1. AInv => ATypeOK
    BY DEF AInv
<1> QED BY <1>1, SoupInvariance, PTL

\* When close() notifies, no task of the session is left but the one that
\* runs close() and those of a login that came too late; a closing monitor or
\* reader has been stopped, and the only dispatcher that goes on is that of a
\* server that refused a login.  A login that failed has closed the session
\* (session.py, close() and login() of soup and FIX).
THEOREM SoupQuiet == ASpec => []QuietUnlessLate
<1>1. AInv => QuietUnlessLate
    <2> SUFFICES ASSUME AInv PROVE QuietUnlessLate
        OBVIOUS
    <2>1. ASSUME notified > 0, ~late
          PROVE  /\ local \in {"none", "done"}
                 /\ remote \in {"none", "done"} \/ closer = "monitor"
                 /\ reader \in {"none", "done"} \/ (closer = "reader" /\ rstopped)
                 /\ disp \in {"none", "done"} \/ (role = "server" /\ closer = "dispatcher")
        <3>1. CloseInv /\ RefuserInv /\ cpc \in FromNotify
            BY <2>1 DEF AInv, CloseInv, InvCloser
        <3>2. cpc \in FromRecv /\ cpc \in FromDrain /\ cpc \in FromRemote
            BY <3>1 DEF FromNotify, FromReader, FromRecv, FromQueue, FromDrain, FromRemote
        <3> QED BY <3>1, <3>2 DEF CloseInv, RefuserInv, InvMonitors, InvDispatcher, InvReader
    <2>2. login = "refused" => closed /\ local = "none" /\ remote = "none"
        BY DEF AInv, LoginInv
    <2> QED BY <2>1, <2>2 DEF QuietUnlessLate
<1> QED BY <1>1, SoupInvariance, PTL

\* In every role on_close_coro is called at most once, whatever logs in,
\* refuses, loses or closes the session (close() of common/session.py).
THEOREM SoupOnCloseOnce == ASpec => []NotifiedOnce
<1>1. AInv => NotifiedOnce
    BY DEF AInv, PlaceInv, InvCloser, NotifiedOnce
<1> QED BY <1>1, SoupInvariance, PTL

\* A protocol's session that closed with drain, as it does when its connection
\* is lost, has given every message that arrived to whoever takes them, the
\* login included (close() and ConnectionLost).
THEOREM SoupDrainIsComplete == ASpec => []DrainDeliversAll
<1>1. AInv => DrainDeliversAll
    BY DEF AInv, PlaceInv, InvCloser, InvDrain, DrainDeliversAll, Undelivered,
       FromQueue, FromRecv, FromReader, FromNotify
<1> QED BY <1>1, SoupInvariance, PTL

\* The login's receive_msg(), the user's and the dispatcher take the messages
\* in the order they arrived, none twice.
THEOREM SoupInOrder == ASpec => []DeliveredInOrder
<1>1. AInv => DeliveredInOrder
    BY DEF AInv, InvOrder, DeliveredInOrder
<1> QED BY <1>1, SoupInvariance, PTL

\* No sequence number goes out twice, and a soup server leaves none out
\* (send_seq_msg() of soup, send_msg() of FIX).
THEOREM SoupNumbers == ASpec => []OutboundNumbers
<1>1. AInv => OutboundNumbers
    BY DEF AInv, OutInv
<1> QED BY <1>1, SoupInvariance, PTL

\* sequence is never ahead of what was read, and behind what was dispatched
\* only by what was read before login() set it (on_message() and login() of the
\* soup client).  Ids number the frames, hence the hypothesis: a heartbeat that
\* is read would take a number that no message has.
THEOREM SoupReadNumbers ==
    "heartbeat" \notin FrameKinds => (ASpec => []SequenceBracketed)
<1> SUFFICES ASSUME "heartbeat" \notin FrameKinds PROVE ASpec => []SequenceBracketed
    OBVIOUS
<1>1. AInv => SequenceBracketed
    <2> SUFFICES ASSUME AInv, role \in {"client", "app"}, login = "accepted"
                 PROVE  /\ seq <= NumberOf(arrived - Len(buffer))
                        /\ \A i \in DOMAIN delivered : NumberOf(delivered[i]) <= seq + skipped
        BY DEF SequenceBracketed
    <2>1. /\ seq \in Nat /\ skipped \in Nat /\ Reply \in Nat /\ Read \in Nat
          /\ Read = arrived - Len(buffer)
          /\ queue \in Seq(Nat) /\ delivered \in Seq(Nat)
        BY NumbersAssumption
        DEF AInv, ATypeOK, PTypeOK, TypeOK, ReadInv, Numbered, Read, ReadOf
    <2>2. Read > 0 /\ Counted = seq + skipped + 2 - Reply
        BY DEF AInv, ReadInv, IsClient, Counted
    <2>3. seq + skipped + 2 - Reply <= Read
        BY <2>1, <2>2 DEF AInv, CountInv, Countable
    <2>4. ASSUME NEW i \in DOMAIN delivered
          PROVE  delivered[i] \in Nat /\ delivered[i] <= seq + skipped + 2 - Reply
        <3>1. /\ i \in DOMAIN (delivered \o queue) /\ (delivered \o queue)[i] = delivered[i]
              /\ delivered[i] \in Nat
            BY <2>1
        <3> QED BY <2>2, <3>1 DEF AInv, CountInv
    <2> QED BY <2>1, <2>3, <2>4 DEF NumberOf
<1> QED BY <1>1, SoupInvariance, PTL

\* The application is given what the soup session dispatched after the login,
\* in its order, but for what is not for it (soup_app.py, _on_soup_message()).
THEOREM SoupAppComplete == ASpec => []AppGetsAll
<1>1. AInv => AppGetsAll
    BY DEF AInv, GivenInv, AppGetsAll
<1> QED BY <1>1, SoupInvariance, PTL

\* The application's on_close_coro runs behind no handler of its messages, and
\* its close() returns when everything below has stopped (_on_soup_close()).
THEOREM SoupAppOrdered == ASpec => []AppCloseOrdered
<1>1. AInv => AppCloseOrdered
    BY DEF AInv, ATypeOK, AppInv, AppCloseOrdered
<1> QED BY <1>1, SoupInvariance, PTL

\* A login starts monitors where none run (start_heartbeats()).
THEOREM SoupMonitors == ASpec => MonitorsNotReplaced
<1>1. AInv => (login # "accepted" => local # "running" /\ remote # "running")
    BY DEF AInv, LoginInv
<1> QED BY <1>1, SoupInvariance, PTL DEF MonitorsNotReplaced

\* When the close of the soup session ends no dispatcher of an application
\* runs, also when set_handlers() refused the application its session.
THEOREM SoupNoOrphan == ASpec => NoOrphanAtClose
<1>1. ASSUME AInv, AInv', [ANext]_everything, cpc # "finished", cpc' = "finished"
      PROVE  adisp' \notin {"get", "handle"}
    <2>1. role' = role /\ AppInv /\ AppInv' /\ PlaceInv /\ ATypeOK
        BY <1>1, LoginTyped DEF AInv
    <2>2. CASE role # "app"
        BY <2>1, <2>2 DEF AppInv
    <2>3. CASE role = "app"
        <3>1. NoHandler \/ AppNotified \/ AppInterrupted \/ OnCloseCloses
            BY <1>1, <2>1, <2>3, AppEndsClose
        <3>2. CASE NoHandler
            BY <2>1, <3>2 DEF NoHandler, Installed, avars, aqVars, AppInv
        <3>3. CASE AppNotified \/ AppInterrupted
            BY <2>1, <3>3 DEF AppNotified, AppInterrupted, aqVars, AppInv
        <3>4. CASE OnCloseCloses
            BY <1>1, <3>4 DEF OnCloseCloses
        <3> QED BY <3>1, <3>2, <3>3, <3>4
    <2> QED BY <2>2, <2>3
<1>2. AInv /\ AInv' /\ [ANext]_everything
        => [cpc # "finished" /\ cpc' = "finished" => adisp' \notin {"get", "handle"}]_everything
    BY <1>1
<1> QED BY <1>2, SoupInvariance, PTL DEF ASpec, NoOrphanAtClose

-----------------------------------------------------------------------------
(* The sessions of the protocols implement SessionContract too.            *)

\* A dispatcher whose handler does not suspend takes all that is queued.
LEMMA DispatchTakes ==
    ASSUME ATypeOK, SoupDispatch
    PROVE  ContractStep
<1>1. TypeOK /\ queue \in Seq(Nat) /\ queue # <<>> /\ Len(queue) \in 1..Len(queue)
    BY EmptySeq DEF SoupDispatch, ATypeOK, PTypeOK, TypeOK
<1>2. SubSeq(queue, 1, Len(queue)) = queue
    BY <1>1, SubSeqFull
<1>3. SubSeq(queue, Len(queue) + 1, Len(queue)) = <<>>
    BY <1>1, SubSeqEmpty
<1> QED BY <1>1, <1>2, <1>3, Takes DEF SoupDispatch, closeVars

\* A step of a protocol's session is one of the contract, or none.
LEMMA SoupStepRefines ==
    ASSUME ATypeOK, ContractInv, ContractInv', SoupStep
    PROVE  ContractStep
<1>1. CASE Connected \/ [ConnectedStep]_vars
    BY <1>1, SessionStepRefines DEF Connected, SessionStep
<1>2. CASE SoupDispatch
    BY <1>2, DispatchTakes
<1>3. CASE OnCloseGoesOn \/ ServerAccepts \/ \E d \in BOOLEAN : LoginAccepted(d)
    <2>1. UNCHANGED <<closed, drainArg, notified, buffer, queue, delivered>>
        BY <1>3 DEF OnCloseGoesOn, SoupUnchanged, ServerAccepts, LoginAccepted, closeVars, dataVars
    <2> QED BY <2>1, SameBacklog, SamePhase, Rests
<1> QED BY <1>1, <1>2, <1>3 DEF SoupStep

\* In every role, with a login that comes at any time and an application
\* session on top, what a session takes from the wire and when it closes is
\* what SessionContract says, although its tasks may then be started late.
THEOREM SoupImplementsContract == ASpec => ContractSafety
<1>1. AInit => Contract!CInit
    <2> SUFFICES ASSUME AInit PROVE Contract!CInit
        OBVIOUS
    <2>1. Ids(Unread) = <<>> /\ queue = <<>>
        BY NoneUnread DEF AInit, PInit, Init
    <2> QED BY <2>1 DEF Contract!CInit, Backlog, Phase, AInit, PInit, Init
<1>2. AInv /\ AInv' /\ [ANext]_everything => [Contract!CNext]_(Contract!cvars)
    <2> SUFFICES ASSUME AInv, AInv', [ANext]_everything PROVE ContractStep
        BY DEF ContractStep
    <2>1. ContractInv /\ ContractInv'
        BY DEF AInv, ATypeOK, PTypeOK, PlaceInv, ContractInv
    <2>2. ATypeOK /\ SoupStep
        BY NextIsSoupStep DEF AInv
    <2> QED BY <2>1, <2>2, SoupStepRefines
<1> QED BY <1>1, <1>2, SoupInvariance, PTL DEF ASpec, ContractSafety, Contract!CSafeSpec

=============================================================================
