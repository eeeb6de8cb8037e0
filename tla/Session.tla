------------------------------ MODULE Session ------------------------------
(***************************************************************************)
(* AsyncSession (common/session.py) with the tasks it owns: the reader     *)
(* that turns bytes into messages, the dispatcher of its message queue,    *)
(* the two heartbeat monitors and the closing task of initiate_close().    *)
(*                                                                         *)
(* One event loop runs every task, so a step is what a task does between   *)
(* two suspensions.  close() is written as a chain of fragments, one per   *)
(* await: a fragment either suspends, and the rest of the chain is left    *)
(* for a later step, or does not suspend and goes on with the next one.    *)
(*                                                                         *)
(* stop_task() cancels a task and awaits it, except when the task is the   *)
(* caller: then the cancellation stays pending and strikes at the caller's *)
(* next suspension.  If that suspension is itself inside stop_task(), the  *)
(* CancelledError is swallowed there.                                      *)
(***************************************************************************)
EXTENDS Integers, Sequences

CONSTANTS
    FrameKinds,         \* the kinds of frames the peer sends
    MaxFrames,          \* BOUND: how many frames the peer sends
    GracefulShutdown,   \* session.graceful_shutdown
    DispatchOnConnect,  \* session.dispatch_on_connect
    AppCloses,          \* drain arguments the application gives close()
    HandlerCloses,      \* the same, from inside on_msg_coro
    InitiateCloses,     \* drain arguments given to initiate_close()
    StartsWhenActive    \* start_*() is called only while is_active()

ASSUME FrameKindsAssumption == FrameKinds \subseteq {"msg", "heartbeat", "end", "bad"}
ASSUME MaxFramesAssumption == MaxFrames \in Nat
ASSUME SwitchesAssumption ==
    /\ GracefulShutdown \in BOOLEAN
    /\ DispatchOnConnect \in BOOLEAN
    /\ StartsWhenActive \in BOOLEAN
ASSUME CallsAssumption ==
    /\ AppCloses \subseteq BOOLEAN
    /\ HandlerCloses \subseteq BOOLEAN
    /\ InitiateCloses \subseteq BOOLEAN

VARIABLES
    transport,   \* _transport: "none", "open", "closing", "lost"
    buffer,      \* _reader._buffer from _read_pos on, as complete frames
    arrived,     \* how many frames the peer has sent
    reader,      \* the reader's task
    rstopped,    \* _reader._stopped
    drain,       \* _reader._drain_mode: None is "off", else the event
    queue,       \* _msg_queue._msg_queue
    qclosed,     \* _msg_queue._closed
    recv,        \* _msg_queue._recv_task, and the receive_msg() it serves
    disp,        \* the dispatcher's task
    dref,        \* _msg_queue._dispatcher_task is not None
    local,       \* the task of _local_hb_monitor
    remote,      \* the task of _remote_hb_monitor
    closed,      \* _closed
    ctask,       \* _closing_task, with its drain argument until it runs
    closer,      \* the task that is past the guard of close()
    drainArg,    \* its drain argument
    cpc,         \* where it is suspended
    pending,     \* a cancellation of the closer by itself is pending
    notified,    \* how often on_close_coro was called
    delivered,   \* every message given to on_msg_coro or returned
    handled      \* how many of them were handled to the end

taskVars == <<reader, rstopped, drain, qclosed, recv, disp, dref, local, remote>>
closeVars == <<closed, closer, drainArg, cpc, pending, notified>>
dataVars == <<buffer, arrived, queue, delivered, handled>>
vars == <<transport, ctask, taskVars, closeVars, dataVars>>

Tasks == {"none", "app", "reader", "dispatcher", "monitor", "closing"}
AwaitPoints == {"await_local", "await_remote", "await_drained", "poll_queue",
                "await_dispatcher", "await_recv", "await_reader"}
EndPoints == {"finished", "interrupted", "aborted"}

Frame == [kind : {"msg", "heartbeat", "end", "bad"}, id : Nat]

Init ==
    /\ transport = "none"
    /\ buffer = <<>> /\ arrived = 0
    /\ reader = "none" /\ rstopped = FALSE /\ drain = "off"
    /\ queue = <<>> /\ qclosed = FALSE /\ recv = "none"
    /\ disp = "none" /\ dref = FALSE
    /\ local = "none" /\ remote = "none"
    /\ closed = FALSE /\ ctask = "none"
    /\ closer = "none" /\ drainArg = FALSE /\ cpc = "idle" /\ pending = FALSE
    /\ notified = 0 /\ delivered = <<>> /\ handled = 0

IsActive == ~closed /\ ctask = "none"

NotAwaited(task) == TRUE        \* mutant: cancels and goes on
\* stop_task() resumes when the task it cancelled has ended.
Awaited(task) == task = "done"
\* A task that is inside close(), past its guard, does nothing else.
Closing(t) == closer = t /\ cpc \notin EndPoints

-----------------------------------------------------------------------------
(* The transport and the application's set-up calls *)

Connect(dispatching) ==
    /\ transport = "none"
    /\ transport' = "open"
    /\ reader' = "running"
    /\ IF dispatching
       THEN disp' = "get" /\ dref' = TRUE
       ELSE UNCHANGED <<disp, dref>>
    /\ UNCHANGED <<rstopped, drain, qclosed, recv, local, remote, ctask, closeVars, dataVars>>

ConnectionMade == Connect(DispatchOnConnect)

\* A read from the socket that completes a frame.  A transport whose close()
\* was called reads no more.
DataReceived ==
    /\ transport = "open"
    /\ arrived < MaxFrames
    /\ arrived' = arrived + 1
    /\ \E k \in FrameKinds : buffer' = Append(buffer, [kind |-> k, id |-> arrived'])
    /\ UNCHANGED <<transport, queue, delivered, handled, ctask, taskVars, closeVars>>

\* on_msg_coro is given once: a session does not start a second dispatcher.
StartDispatching ==
    /\ transport # "none" /\ disp = "none"
    /\ StartsWhenActive => IsActive
    /\ disp' = "get" /\ dref' = TRUE
    /\ UNCHANGED <<transport, reader, rstopped, drain, qclosed, recv, local, remote,
                   ctask, closeVars, dataVars>>

StartHeartbeats ==
    /\ transport # "none" /\ local = "none" /\ remote = "none"
    /\ StartsWhenActive => IsActive
    /\ local' = "running" /\ remote' = "running"
    /\ UNCHANGED <<transport, reader, rstopped, drain, qclosed, recv, disp, dref,
                   ctask, closeVars, dataVars>>

-----------------------------------------------------------------------------
(* close(), fragment by fragment.  me is the task that runs it, p whether a *)
(* cancellation of me is pending.                                           *)

Suspend(at) == cpc' = at /\ pending' = FALSE

Notify(p) ==
    /\ notified' = notified + 1
    /\ cpc' = "notify"
    /\ pending' = p

\* Reader.stop(): its on_close_coro is close(), which returns at once here.
StopReader(me, p) ==
    \/ /\ rstopped
       /\ Notify(p)
       /\ UNCHANGED <<reader, rstopped>>
    \/ /\ ~rstopped /\ me = "reader"
       /\ rstopped' = TRUE
       /\ Notify(TRUE)
       /\ UNCHANGED reader
    \/ /\ ~rstopped /\ me # "reader" /\ reader = "running"
       /\ reader' = "cancelled"
       /\ Suspend("await_reader")
       /\ UNCHANGED <<rstopped, notified>>
    \/ /\ ~rstopped /\ me # "reader" /\ reader = "failed"
       /\ cpc' = "aborted" /\ pending' = p
       /\ UNCHANGED <<reader, rstopped, notified>>

\* mutant: leaves the receive_msg() that waits
StopsNoRecv(me, p) == UNCHANGED recv /\ StopReader(me, p)
StopRecv(me, p) ==
    \/ /\ recv = "blocked"
       /\ recv' = "cancelled"
       /\ Suspend("await_recv")
       /\ UNCHANGED <<reader, rstopped, notified>>
    \/ /\ recv # "blocked"
       /\ UNCHANGED recv
       /\ StopReader(me, p)

\* mutant: leaves the dispatcher running
StopQueueOnly(me, p) ==
    /\ qclosed' = TRUE
    /\ UNCHANGED <<disp, dref>>
    /\ StopRecv(me, p)

\* DispatchableMessageQueue.stop()
StopQueue(me, p) ==
    /\ qclosed' = TRUE
    /\ \/ /\ dref /\ me # "dispatcher"
          /\ disp' = "cancelled"
          /\ Suspend("await_dispatcher")
          /\ UNCHANGED <<dref, recv, reader, rstopped, notified>>
       \/ /\ dref /\ me = "dispatcher"
          /\ dref' = FALSE
          /\ UNCHANGED disp
          /\ StopRecv(me, TRUE)
       \/ /\ ~dref
          /\ UNCHANGED <<disp, dref>>
          /\ StopRecv(me, p)

DrainReader(me, d, p) ==
    \/ /\ d
       /\ drain' = "on"
       /\ Suspend("await_drained")
       /\ UNCHANGED <<qclosed, disp, dref, recv, reader, rstopped, notified>>
    \/ /\ ~d
       /\ UNCHANGED drain
       /\ StopQueue(me, p)

StopRemote(me, d, p) ==
    \/ /\ remote = "running" /\ me # "monitor"
       /\ remote' = "cancelled"
       /\ Suspend("await_remote")
       /\ UNCHANGED <<drain, qclosed, disp, dref, recv, reader, rstopped, notified>>
    \/ /\ me = "monitor"
       /\ UNCHANGED remote
       /\ DrainReader(me, d, TRUE)
    \/ /\ remote # "running" /\ me # "monitor"
       /\ UNCHANGED remote
       /\ DrainReader(me, d, p)

StopLocal(me, d, p) ==
    \/ /\ local = "running"
       /\ local' = "cancelled"
       /\ Suspend("await_local")
       /\ UNCHANGED <<remote, drain, qclosed, disp, dref, recv, reader, rstopped, notified>>
    \/ /\ local # "running"
       /\ UNCHANGED local
       /\ StopRemote(me, d, p)

Reentrant == TRUE               \* mutant: close() without its guard
FirstClose == ~closed

\* The call of close(drain) by me that passes the guard.
BeginClose(me, d, p) ==
    /\ FirstClose
    /\ closed' = TRUE
    /\ closer' = me /\ drainArg' = d
    /\ transport' = IF transport = "open" THEN "closing" ELSE transport
    /\ StopLocal(me, d, p)

Resume == UNCHANGED <<transport, ctask, closed, closer, drainArg, dataVars>>

LocalStopped ==
    /\ cpc = "await_local" /\ Awaited(local)
    /\ StopRemote(closer, drainArg, FALSE)
    /\ UNCHANGED local
    /\ Resume

RemoteStopped ==
    /\ cpc = "await_remote" /\ Awaited(remote)
    /\ DrainReader(closer, drainArg, FALSE)
    /\ UNCHANGED <<local, remote>>
    /\ Resume

\* The reader's drain event is set; the queue's own drain follows, and polls.
ReaderDrained ==
    /\ cpc = "await_drained" /\ drain = "set"
    /\ queue # <<>>
    /\ Suspend("poll_queue")
    /\ UNCHANGED <<taskVars, notified>>
    /\ Resume

QueueDrained ==
    /\ \/ cpc = "await_drained" /\ drain = "set"
       \/ cpc = "poll_queue"
    /\ queue = <<>>
    /\ drain' = "off"
    /\ StopQueue(closer, FALSE)
    /\ UNCHANGED <<local, remote>>
    /\ Resume

DispatcherStopped ==
    /\ cpc = "await_dispatcher" /\ Awaited(disp)
    /\ dref' = FALSE
    /\ StopRecv(closer, FALSE)
    /\ UNCHANGED <<drain, qclosed, disp, local, remote>>
    /\ Resume

RecvStopped ==
    /\ cpc = "await_recv" /\ recv = "none"
    /\ StopReader(closer, FALSE)
    /\ UNCHANGED <<drain, qclosed, recv, disp, dref, local, remote>>
    /\ Resume

ReaderStopped ==
    /\ cpc = "await_reader" /\ Awaited(reader)
    /\ rstopped' = TRUE
    /\ Notify(FALSE)
    /\ UNCHANGED <<reader, drain, qclosed, recv, disp, dref, local, remote>>
    /\ Resume

OnCloseReturns ==
    /\ cpc = "notify"
    /\ cpc' = "finished"
    /\ UNCHANGED <<transport, ctask, closed, closer, drainArg, pending, notified, taskVars,
                   dataVars>>

\* The first suspension of on_close_coro receives the pending cancellation.
OnCloseCancelled ==
    /\ cpc = "notify" /\ pending
    /\ cpc' = "interrupted" /\ pending' = FALSE
    /\ UNCHANGED <<transport, ctask, closed, closer, drainArg, notified, taskVars, dataVars>>

-----------------------------------------------------------------------------
(* Who calls close() *)

Close(d) ==
    /\ transport # "none"
    /\ BeginClose("app", d, FALSE)
    /\ UNCHANGED <<ctask, dataVars>>

HandlerClose(d) ==
    /\ disp = "handle"
    /\ BeginClose("dispatcher", d, FALSE)
    /\ UNCHANGED <<ctask, dataVars>>

\* The remote monitor trips; its HeartbeatMonitor ends after the call.
RemoteMonitorTrips ==
    /\ remote = "running" /\ closer # "monitor"
    /\ IF closed
       THEN /\ remote' = "done"
            /\ UNCHANGED <<transport, reader, rstopped, drain, qclosed, recv, disp, dref,
                           local, closeVars>>
       ELSE BeginClose("monitor", FALSE, FALSE)
    /\ UNCHANGED <<ctask, dataVars>>

InitiateClose(d) ==
    /\ IsActive
    /\ ctask' = IF d THEN "drain" ELSE "plain"
    /\ UNCHANGED <<taskVars, closeVars, dataVars>>

AppInitiatesClose(d) ==
    /\ transport # "none"
    /\ InitiateClose(d)
    /\ UNCHANGED transport

ConnectionLost ==
    /\ transport \in {"open", "closing"}
    /\ transport' = "lost"
    /\ \/ InitiateClose(GracefulShutdown)
       \/ ~IsActive /\ UNCHANGED <<ctask, taskVars, closeVars, dataVars>>

RunClosingTask ==
    /\ ctask \in {"plain", "drain"}
    /\ ctask' = "started"
    /\ \/ BeginClose("closing", ctask = "drain", FALSE)
       \/ closed /\ UNCHANGED <<transport, taskVars, closeVars>>
    /\ UNCHANGED dataVars

-----------------------------------------------------------------------------
(* The reader's task: one iteration of Reader._process *)

ReaderRuns == reader = "running" /\ ~rstopped /\ ~Closing("reader")

\* put(): while the queue drains, new messages go to a buffer that close()
\* discards.
ReadMessage ==
    /\ ReaderRuns
    /\ buffer # <<>> /\ Head(buffer).kind \in {"msg", "heartbeat"}
    /\ buffer' = Tail(buffer)
    /\ queue' = IF Head(buffer).kind = "msg" /\ cpc # "poll_queue"
                THEN Append(queue, Head(buffer).id) ELSE queue
    /\ UNCHANGED <<transport, ctask, arrived, delivered, handled, taskVars, closeVars>>

\* deserialize() raises: nothing in _process catches it.
ReadMalformed ==
    /\ ReaderRuns
    /\ buffer # <<>> /\ Head(buffer).kind = "bad"
    /\ reader' = "failed"
    /\ UNCHANGED <<transport, ctask, rstopped, drain, qclosed, recv, disp, dref, local, remote,
                   closeVars, dataVars>>

\* Reader.stop() from the reader's own task.
ReadEndOfSession ==
    /\ ReaderRuns
    /\ buffer # <<>> /\ Head(buffer).kind = "end"
    /\ buffer' = Tail(buffer)
    /\ \/ BeginClose("reader", FALSE, TRUE)
       \/ /\ closed
          /\ rstopped' = TRUE /\ reader' = "done"
          /\ UNCHANGED <<transport, drain, qclosed, recv, disp, dref, local, remote, closeVars>>
    /\ UNCHANGED <<ctask, arrived, queue, delivered, handled>>

ReportsEarly == TRUE            \* mutant: reports before the buffer is read
ReportsLate == Len(buffer) = 1  \* mutant: reports only in an iteration that reads
\* available_after = available_before
NothingRead == buffer = <<>>

ReportDrained ==
    /\ ReaderRuns
    /\ NothingRead /\ drain = "on"
    /\ drain' = "set"
    /\ UNCHANGED <<transport, ctask, reader, rstopped, qclosed, recv, disp, dref, local, remote,
                   closeVars, dataVars>>

ReaderEnds ==
    /\ \/ reader = "cancelled"
       \/ reader = "running" /\ rstopped /\ ~Closing("reader")
    /\ reader' = "done"
    /\ UNCHANGED <<transport, ctask, rstopped, drain, qclosed, recv, disp, dref, local, remote,
                   closeVars, dataVars>>

-----------------------------------------------------------------------------
(* The dispatcher's task, receive_msg() and the monitors' tasks *)

\* mutant: the message stays in the queue
PeekMessage ==
    /\ queue # <<>> /\ queue' = queue
    /\ delivered' = Append(delivered, Head(queue))
TakeMessage ==
    /\ queue # <<>>
    /\ queue' = Tail(queue)
    /\ delivered' = Append(delivered, Head(queue))

DispatchNext ==
    /\ disp = "get"
    /\ disp' = "handle"
    /\ TakeMessage
    /\ UNCHANGED <<transport, ctask, reader, rstopped, drain, qclosed, recv, dref, local, remote,
                   closeVars, buffer, arrived, handled>>

\* on_msg_coro returns, or raises and is logged.  A cancellation the handler
\* made pending by closing the session strikes when get() suspends, which it
\* does only on an empty queue.
Struck == closer = "dispatcher" /\ pending
HandlerDone ==
    /\ disp = "handle"
    /\ closer = "dispatcher" => cpc \in {"finished", "aborted"}
    /\ handled' = handled + 1

HandlerReturns ==
    /\ HandlerDone
    /\ Struck => queue = <<>>
    /\ disp' = IF Struck THEN "done" ELSE "get"
    /\ UNCHANGED <<transport, ctask, reader, rstopped, drain, qclosed, recv, dref, local, remote,
                   closeVars, buffer, arrived, queue, delivered>>

\* ... so that the next message is handled with the cancellation pending.
HandlerGoesOn ==
    /\ HandlerDone /\ Struck
    /\ TakeMessage
    /\ UNCHANGED <<transport, ctask, taskVars, closeVars, buffer, arrived>>

\* Also the end of a handler that suspends with a cancellation pending.
DispatcherEnds ==
    /\ \/ disp = "cancelled"
       \/ disp = "handle" /\ closer = "dispatcher" /\ cpc = "interrupted"
       \/ disp = "handle" /\ Struck /\ cpc \in {"finished", "aborted"}
    /\ disp' = "done"
    /\ UNCHANGED <<transport, ctask, reader, rstopped, drain, qclosed, recv, dref, local, remote,
                   closeVars, dataVars>>

\* receive_msg() and receive_msg_nowait() with a message at hand.
ReceiveReturns ==
    /\ transport # "none"
    /\ \/ recv = "none" /\ ~dref
       \/ recv = "blocked"
    /\ recv' = "none"
    /\ TakeMessage
    /\ handled' = handled + 1
    /\ UNCHANGED <<transport, ctask, reader, rstopped, drain, qclosed, disp, dref, local, remote,
                   closeVars, buffer, arrived>>

\* receive_msg() with none: it raises EndOfQueue once the queue is stopped.
ReceiveBlocks ==
    /\ transport # "none" /\ queue = <<>>
    /\ recv = "none" /\ ~dref /\ ~qclosed
    /\ recv' = "blocked"
    /\ UNCHANGED <<transport, ctask, reader, rstopped, drain, qclosed, disp, dref, local, remote,
                   closeVars, dataVars>>

ReceiveEnds ==
    /\ recv = "cancelled"
    /\ recv' = "none"
    /\ UNCHANGED <<transport, ctask, reader, rstopped, drain, qclosed, disp, dref, local, remote,
                   closeVars, dataVars>>

LocalMonitorEnds ==
    /\ local = "cancelled"
    /\ local' = "done"
    /\ UNCHANGED <<transport, ctask, reader, rstopped, drain, qclosed, recv, disp, dref, remote,
                   closeVars, dataVars>>

RemoteMonitorEnds ==
    /\ \/ remote = "cancelled"
       \/ remote = "running" /\ closer = "monitor" /\ cpc \in EndPoints
    /\ remote' = "done"
    /\ UNCHANGED <<transport, ctask, reader, rstopped, drain, qclosed, recv, disp, dref, local,
                   closeVars, dataVars>>

-----------------------------------------------------------------------------
(* The specification *)

Reader == ReadMessage \/ ReadMalformed \/ ReadEndOfSession \/ ReportDrained \/ ReaderEnds
Dispatcher == DispatchNext \/ HandlerReturns \/ HandlerGoesOn \/ DispatcherEnds
Closer == \/ LocalStopped \/ RemoteStopped \/ ReaderDrained \/ QueueDrained
          \/ DispatcherStopped \/ RecvStopped \/ ReaderStopped
          \/ OnCloseReturns \/ OnCloseCancelled
Monitors == LocalMonitorEnds \/ RemoteMonitorEnds

Application ==
    \/ StartDispatching \/ StartHeartbeats
    \/ ReceiveReturns \/ ReceiveBlocks
    \/ \E d \in AppCloses : Close(d)
    \/ \E d \in HandlerCloses : HandlerClose(d)
    \/ \E d \in InitiateCloses : AppInitiatesClose(d)

Network == ConnectionMade \/ DataReceived \/ ConnectionLost

Next == \/ Application \/ Network
        \/ Reader \/ Dispatcher \/ Closer \/ Monitors
        \/ ReceiveEnds \/ RemoteMonitorTrips \/ RunClosingTask

(***************************************************************************)
(* The event loop runs every task that is ready, so each task is weakly    *)
(* fair; a handler is assumed to return; a transport whose close() was     *)
(* called reports connection_lost().  Nothing is assumed of the peer, of   *)
(* the application's calls or of the monitors' timers.                     *)
(***************************************************************************)
Fairness ==
    /\ WF_vars(Reader) /\ WF_vars(Dispatcher) /\ WF_vars(Closer)
    /\ WF_vars(LocalMonitorEnds) /\ WF_vars(RemoteMonitorEnds)
    /\ WF_vars(RunClosingTask) /\ WF_vars(ReceiveEnds)
    /\ WF_vars(recv = "blocked" /\ ReceiveReturns)
    /\ WF_vars(transport = "closing" /\ ConnectionLost)

SafeSpec == Init /\ [][Next]_vars
Spec == SafeSpec /\ Fairness

-----------------------------------------------------------------------------
(* Properties *)

\* Every variable has a value the code can give it.
TypeOK ==
    /\ transport \in {"none", "open", "closing", "lost"}
    /\ buffer \in Seq(Frame) /\ arrived \in Nat
    /\ reader \in {"none", "running", "cancelled", "failed", "done"}
    /\ rstopped \in BOOLEAN /\ drain \in {"off", "on", "set"}
    /\ queue \in Seq(Nat) /\ qclosed \in BOOLEAN
    /\ recv \in {"none", "blocked", "cancelled"}
    /\ disp \in {"none", "get", "handle", "cancelled", "done"} /\ dref \in BOOLEAN
    /\ local \in {"none", "running", "cancelled", "done"}
    /\ remote \in {"none", "running", "cancelled", "done"}
    /\ closed \in BOOLEAN /\ ctask \in {"none", "plain", "drain", "started"}
    /\ closer \in Tasks /\ drainArg \in BOOLEAN
    /\ cpc \in {"idle", "notify"} \union AwaitPoints \union EndPoints
    /\ pending \in BOOLEAN /\ notified \in Nat
    /\ delivered \in Seq(Nat) /\ handled \in Nat

\* However many tasks call close(), on_close_coro is called at most once.
NotifiedOnce == notified <= 1

Stopped(task, me) == task \in {"none", "done"} \/ closer = me

\* When on_close_coro is called, every task of the session but the one that
\* calls it has ended: nothing is read, dispatched or sent behind its back.
QuietWhenNotified ==
    notified > 0 =>
        /\ qclosed /\ rstopped /\ ~dref /\ recv # "cancelled"
        /\ Stopped(reader, "reader") /\ Stopped(disp, "dispatcher")
        /\ Stopped(local, "none") /\ Stopped(remote, "monitor")

\* A message a reader or queue still holds.
Undelivered == queue # <<>> \/ \E i \in DOMAIN buffer : buffer[i].kind = "msg"

\* A session closed with drain has given every message that arrived to the
\* application by the time it notifies it.
DrainDeliversAll == notified > 0 /\ drainArg => ~Undelivered

\* Messages leave in the order they arrived, whoever takes them.
Ascending(s) == \A i, j \in DOMAIN s : i < j => s[i] < s[j]
DeliveredInOrder == Ascending(delivered \o queue)

\* No handler starts once on_close_coro has been called.
NoDispatchAfterNotify ==
    [][notified > 0 /\ disp # "handle" => disp' # "handle"]_vars

\* A session that starts to close notifies the application, whatever task,
\* callback or monitor started it.
CloseNotifies == ~IsActive ~> notified > 0

\* ... and none of its tasks outlives it.
TasksEnd ==
    ~IsActive ~> \A t \in {reader, disp, local, remote} : t \in {"none", "done"}

\* on_close_coro runs to its end.
OnCloseUninterrupted == cpc # "interrupted"

\* A drained session has handled every message to the end, not only begun to.
DrainHandlesAll == notified > 0 /\ drainArg => handled = Len(delivered)

=============================================================================
