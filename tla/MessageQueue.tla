---------------------------- MODULE MessageQueue ----------------------------
(***************************************************************************)
(* DispatchableMessageQueue (common/message_queue.py): an asyncio queue    *)
(* that is read either by a dispatcher task, which gives each message to   *)
(* on_msg_coro, or by callers of get().                                    *)
(*                                                                         *)
(* get() on an empty queue makes a task of its own wait for the queue; one *)
(* field, _recv_task, remembers the last such task, for stop() to cancel.  *)
(* One task, the owner, pauses the dispatcher or buffers new messages      *)
(* until the old ones are read; another stops the queue.  One field,       *)
(* _dispatcher_task, remembers the last dispatcher: a dispatcher that is   *)
(* started while the queue is paused runs beside the next one.             *)
(***************************************************************************)
EXTENDS Naturals, Sequences, FiniteSets

CONSTANTS
    Readers,           \* tasks that call get()
    Dispatchers,       \* BOUND: the dispatcher tasks there may be at a time
    MaxMessages,       \* BOUND: how many messages are put
    Dispatched,        \* on_msg_coro is given to the constructor
    OwnerCalls,        \* what the owner does: "pause", "buffer", "discard"
    NoReader,          \* a model value that is no reader
    NoDispatcher,      \* a model value that is no dispatcher
    ReadersGiveUp,     \* a get() may be cancelled, as by asyncio.wait_for()
    OwnerGivesUp       \* the owner may be cancelled while it waits for a drain

ASSUME MaxMessagesAssumption == MaxMessages \in Nat
ASSUME OwnerCallsAssumption == OwnerCalls \subseteq {"pause", "buffer", "discard"}
ASSUME QueueSwitchesAssumption ==
    Dispatched \in BOOLEAN /\ ReadersGiveUp \in BOOLEAN /\ OwnerGivesUp \in BOOLEAN

ASSUME NoReaderAssumption == NoReader \notin Readers
ASSUME NoDispatcherAssumption == NoDispatcher \notin Dispatchers

VARIABLES
    sent,       \* how many messages were put: they are 1, 2, ...
    main,       \* the entries of _msg_queue
    buffering,  \* _buffer_msg_queue is not None
    buf,        \* its entries
    closed,     \* _closed
    get,        \* get[r]: how far the get() of r is
    held,       \* held[r]: the result of its task, 0 if none
    awaited,    \* awaited[r]: whose task r waits for on its way out of get()
    recvTask,   \* _recv_task: whose task it is
    disp,       \* disp[d]: how far the dispatcher task d is
    dref,       \* _dispatcher_task
    owner,      \* where the owner is
    stopper,    \* where stop() is
    ends        \* the dispatchers whose end the owner and stop() wait for

\* Auxiliary: what became of the messages, and which dispatchers the queue
\* itself cannot stop any more.
VARIABLES
    taken,      \* every message removed from the queue, in order
    used,       \* those given to a handler or returned by get()
    discarded,  \* those of the buffer, discarded on request
    givenUp,    \* those queued when a drain, or held when a get(), was given up
    stray       \* dispatchers begun on a stopped queue, or running when another
                \* took their place in _dispatcher_task

readVars == <<get, held, awaited, recvTask>>
dispVars == <<disp, dref, stray>>
bufVars == <<buffering, buf, discarded>>
whoVars == <<owner, stopper, ends>>
useVars == <<taken, used, givenUp>>
qvars == <<sent, main, bufVars, closed, readVars, dispVars, whoVars, useVars>>

QInit ==
    /\ sent = 0 /\ main = <<>>
    /\ buffering = FALSE /\ buf = <<>>
    /\ closed = FALSE
    /\ get = [r \in Readers |-> "idle"] /\ held = [r \in Readers |-> 0]
    /\ awaited = [r \in Readers |-> NoReader] /\ recvTask = NoReader
    /\ dref \in (IF Dispatched THEN Dispatchers ELSE {NoDispatcher})
    /\ disp = [d \in Dispatchers |-> IF d = dref THEN "get" ELSE "none"]
    /\ owner = "idle" /\ stopper = "idle"
    /\ ends = [owner |-> NoDispatcher, stop |-> NoDispatcher]
    /\ taken = <<>> /\ used = {} /\ discarded = {} /\ givenUp = {} /\ stray = {}

IsDispatching == dref # NoDispatcher

-----------------------------------------------------------------------------
(* put() and put_nowait(): neither waits, the queue is unbounded *)

PutUnbuffered ==    \* mutant: does not ask whether messages are buffered
    main' = Append(main, sent') /\ UNCHANGED buf
PutWhere ==
    IF buffering THEN buf' = Append(buf, sent') /\ UNCHANGED main
                 ELSE main' = Append(main, sent') /\ UNCHANGED buf

Put ==
    /\ sent < MaxMessages
    /\ sent' = sent + 1
    /\ PutWhere
    /\ UNCHANGED <<buffering, discarded, closed, readVars, dispVars, whoVars, useVars>>

TakeLast ==     \* mutant: takes the newest message
    /\ main # <<>>
    /\ main' = SubSeq(main, 1, Len(main) - 1)
    /\ taken' = Append(taken, main[Len(main)])
TakeHead ==
    /\ main # <<>>
    /\ main' = Tail(main)
    /\ taken' = Append(taken, Head(main))

-----------------------------------------------------------------------------
(* get(): a StateError, a message, EndOfQueue, or a task that waits *)

GetNow(r) ==
    /\ get[r] = "idle" /\ ~IsDispatching
    /\ TakeHead
    /\ used' = used \union {Head(main)}
    /\ UNCHANGED <<sent, bufVars, closed, readVars, dispVars, whoVars, givenUp>>

GetEnds(r) ==
    /\ get[r] = "idle" /\ ~IsDispatching
    /\ main = <<>> /\ closed
    /\ get' = [get EXCEPT ![r] = "ended"]
    /\ UNCHANGED <<sent, main, bufVars, closed, held, awaited, recvTask, dispVars, whoVars,
                   useVars>>

GetWaitsFor(r, how) ==
    /\ get[r] = "idle" /\ ~IsDispatching
    /\ main = <<>> /\ ~closed
    /\ get' = [get EXCEPT ![r] = how]
    /\ recvTask' = r
    /\ UNCHANGED <<sent, main, bufVars, closed, held, awaited, dispVars, whoVars, useVars>>
\* mutant: waits for the buffer while there is one
GetWaitsForBuffer(r) == GetWaitsFor(r, IF buffering THEN "orphaned" ELSE "blocked")
GetWaits(r) == GetWaitsFor(r, "blocked")

\* The task of r gets a message.
RecvTakes(r) ==
    /\ get[r] = "blocked"
    /\ TakeHead
    /\ get' = [get EXCEPT ![r] = "taken"]
    /\ held' = [held EXCEPT ![r] = Head(main)]
    /\ UNCHANGED <<sent, bufVars, closed, awaited, recvTask, dispVars, whoVars, used, givenUp>>

RecvCancelled(r) ==
    /\ get[r] = "cancelling"
    /\ get' = [get EXCEPT ![r] = "cancelled"]
    /\ UNCHANGED <<sent, main, bufVars, closed, held, awaited, recvTask, dispVars, whoVars,
                   useVars>>

Waiting(s) == s \in Readers /\ get[s] \in {"blocked", "orphaned", "cancelling"}
CancelTask(s) == [get EXCEPT ![s] = "cancelling"]

\* mutant: a stopped queue wins over the message
OutcomeIfOpen(r) == IF held[r] # 0 /\ ~closed THEN "idle" ELSE "ended"
\* How get() ends: with the result of its task, or EndOfQueue if it has none.
Outcome(r) == IF held[r] # 0 THEN "idle" ELSE "ended"

GetReturns(r) ==
    /\ get' = [get EXCEPT ![r] = Outcome(r)]
    /\ used' = IF Outcome(r) = "idle" THEN used \union {held[r]} ELSE used
    /\ held' = [held EXCEPT ![r] = 0]
    /\ recvTask' = NoReader

\* r goes on after its task has ended.  On the way out it stops the task that
\* _recv_task names by now, which may be another reader's.
GetResumes(r) ==
    /\ get[r] \in {"taken", "cancelled"}
    /\ IF recvTask # r /\ Waiting(recvTask)
       THEN /\ get' = [CancelTask(recvTask) EXCEPT ![r] = "stopping"]
            /\ awaited' = [awaited EXCEPT ![r] = recvTask]
            /\ UNCHANGED <<held, recvTask, used>>
       ELSE GetReturns(r) /\ UNCHANGED awaited
    /\ UNCHANGED <<sent, main, bufVars, closed, dispVars, whoVars, taken, givenUp>>

GetFinishes(r) ==
    /\ get[r] = "stopping" /\ ~Waiting(awaited[r])
    /\ GetReturns(r)
    /\ awaited' = [awaited EXCEPT ![r] = NoReader]
    /\ UNCHANGED <<sent, main, bufVars, closed, dispVars, whoVars, taken, givenUp>>

\* The task that called get() is cancelled: get() turns that into EndOfQueue,
\* and a message its task already has is dropped.  At "stopping" stop_task()
\* swallows the cancellation.
GetCancelled(r) ==
    /\ ReadersGiveUp
    /\ \/ /\ get[r] \in {"blocked", "orphaned"}
          /\ get' = CancelTask(r)
          /\ UNCHANGED <<held, givenUp>>
       \/ /\ get[r] = "taken"
          /\ get' = [get EXCEPT ![r] = "cancelled"]
          /\ held' = [held EXCEPT ![r] = 0]
          /\ givenUp' = givenUp \union {held[r]}
    /\ UNCHANGED <<sent, main, bufVars, closed, awaited, recvTask, dispVars, whoVars, taken, used>>

-----------------------------------------------------------------------------
(* The dispatcher tasks *)

Running(d) == disp[d] \in {"get", "handle"}

\* A task that neither runs nor is waited for by stop().
Spare(d) == disp[d] \in {"none", "ended"} /\ d # ends.stop

\* create_task(): d becomes _dispatcher_task, and forgotten the one that was.
\* The dispatchers in idle keep waiting for a queue that was replaced.
NewDispatcher(d, idle) ==
    /\ disp' = [e \in Dispatchers |-> IF e = d THEN "get"
                                      ELSE IF e \in idle THEN "orphaned" ELSE disp[e]]
    /\ dref' = d
    /\ stray' = ((stray \ {d}) \union {e \in {dref} \ {NoDispatcher} : Running(e)})
                    \union (IF closed THEN {d} ELSE {})

\* start_dispatching() asks for _dispatcher_task only: it starts a dispatcher
\* on a stopped queue, and one beside that of a pause that is about to end.
\* (BOUND: it leaves a spare task for the owner.)
StartDispatching ==
    /\ ~IsDispatching
    /\ \E d, e \in Dispatchers \ {ends.owner} :
          d # e /\ Spare(d) /\ Spare(e) /\ NewDispatcher(d, {})
    /\ UNCHANGED <<sent, main, bufVars, closed, readVars, whoVars, useVars>>

DispatchNext(d) ==
    /\ disp[d] = "get"
    /\ TakeHead
    /\ used' = used \union {Head(main)}
    /\ disp' = [disp EXCEPT ![d] = "handle"]
    /\ UNCHANGED <<sent, bufVars, closed, readVars, dref, stray, whoVars, givenUp>>

HandlerReturns(d) ==
    /\ disp[d] = "handle"
    /\ disp' = [disp EXCEPT ![d] = "get"]
    /\ UNCHANGED <<sent, main, bufVars, closed, readVars, dref, stray, whoVars, useVars>>

DispatcherEnds(d) ==
    /\ disp[d] = "cancelled"
    /\ disp' = [disp EXCEPT ![d] = "ended"]
    /\ UNCHANGED <<sent, main, bufVars, closed, readVars, dref, stray, whoVars, useVars>>

\* stop_task(_dispatcher_task) on behalf of who, up to its await
CancelDispatcher(who) ==
    /\ disp' = [disp EXCEPT ![dref] = IF @ = "ended" THEN @ ELSE "cancelled"]
    /\ ends' = [ends EXCEPT ![who] = dref]
    /\ stray' = stray \ {dref}

DispatcherHasEnded(who) == ends[who] # NoDispatcher /\ disp[ends[who]] = "ended"

-----------------------------------------------------------------------------
(* The owner: pause_dispatching() and buffer_until_drained() *)

Pause ==
    /\ owner = "idle" /\ IsDispatching
    /\ "pause" \in OwnerCalls
    /\ CancelDispatcher("owner")
    /\ owner' = "pausing"
    /\ UNCHANGED <<sent, main, bufVars, closed, readVars, dref, stopper, useVars>>

PauseEntered ==
    /\ owner = "pausing" /\ DispatcherHasEnded("owner")
    /\ dref' = NoDispatcher
    /\ ends' = [ends EXCEPT !.owner = NoDispatcher]
    /\ owner' = "paused"
    /\ UNCHANGED <<sent, main, bufVars, closed, readVars, disp, stray, stopper, useVars>>

Unpause ==
    /\ owner = "paused"
    /\ \E d \in Dispatchers : Spare(d) /\ NewDispatcher(d, {})
    /\ owner' = "idle"
    /\ UNCHANGED <<sent, main, bufVars, closed, readVars, stopper, ends, useVars>>

BufferUntilDrained(discard) ==
    /\ owner = "idle" /\ ~buffering
    /\ (IF discard THEN "discard" ELSE "buffer") \in OwnerCalls
    /\ buffering' = TRUE
    /\ owner' = IF discard THEN "draining_discard" ELSE "draining"
    /\ UNCHANGED <<sent, main, buf, discarded, closed, readVars, dispVars, stopper, ends, useVars>>

AfterDrain == IF owner = "draining" THEN "drained" ELSE "drained_discard"

Drained ==
    /\ owner \in {"draining", "draining_discard"} /\ main = <<>>
    /\ owner' = AfterDrain
    /\ UNCHANGED <<sent, main, bufVars, closed, readVars, dispVars, stopper, ends, useVars>>

\* The owner is cancelled, or times out, while it polls a queue that is not
\* empty: it leaves all the same through the finally, which replaces the queue.
\* The loop runs first what an entry of the queue had woken before.
DrainGivenUp ==
    /\ OwnerGivesUp
    /\ owner \in {"draining", "draining_discard"} /\ main # <<>>
    /\ \A r \in Readers : get[r] # "blocked"
    /\ \A d \in Dispatchers : disp[d] = "get" => d = dref
    /\ owner' = AfterDrain
    /\ givenUp' = givenUp \union {main[i] : i \in DOMAIN main}
    /\ UNCHANGED <<sent, main, bufVars, closed, readVars, dispVars, stopper, ends, taken, used>>

DiscardBuffer ==
    /\ owner = "drained_discard"
    /\ discarded' = discarded \union {buf[i] : i \in DOMAIN buf}
    /\ buffering' = FALSE /\ buf' = <<>>
    /\ owner' = "idle"
    /\ UNCHANGED <<sent, main, closed, readVars, dispVars, stopper, ends, useVars>>

SwapDrops ==    \* mutant: forgets what was buffered
    /\ main' = <<>> /\ buffering' = FALSE /\ buf' = <<>>
    /\ get' = [r \in Readers |-> IF get[r] = "blocked" THEN "orphaned" ELSE get[r]]
    /\ owner' = "idle"
    /\ UNCHANGED <<sent, discarded, closed, held, awaited, recvTask, stopper, useVars>>
\* The buffer takes the queue's place, whatever is left in it.  A task that
\* waits for the old queue object keeps waiting for it.
Swap ==
    /\ main' = buf /\ buffering' = FALSE /\ buf' = <<>>
    /\ get' = [r \in Readers |-> IF get[r] = "blocked" THEN "orphaned" ELSE get[r]]
    /\ owner' = "idle"
    /\ UNCHANGED <<sent, discarded, closed, held, awaited, recvTask, stopper, useVars>>

\* Dispatchers that may be waiting for the queue object there is; the others
\* that are at "get" were just created.
MayWait == {d \in Dispatchers : disp[d] = "get" /\ main = <<>>}

SwapWithoutDispatcher ==
    /\ owner = "drained" /\ ~IsDispatching
    /\ Swap
    /\ \E idle \in SUBSET MayWait :
          disp' = [d \in Dispatchers |-> IF d \in idle THEN "orphaned" ELSE disp[d]]
    /\ UNCHANGED <<dref, stray, ends>>

SwapBegins ==
    /\ owner = "drained" /\ IsDispatching
    /\ CancelDispatcher("owner")
    /\ owner' = "swapping"
    /\ UNCHANGED <<sent, main, bufVars, closed, readVars, dref, stopper, useVars>>

SwapEnds ==
    /\ owner = "swapping" /\ DispatcherHasEnded("owner")
    /\ Swap
    /\ \E d \in Dispatchers, idle \in SUBSET MayWait : Spare(d) /\ NewDispatcher(d, idle)
    /\ ends' = [ends EXCEPT !.owner = NoDispatcher]

-----------------------------------------------------------------------------
(* stop() *)

StopOnly ==     \* mutant: leaves a waiting get() alone
    recvTask' = NoReader /\ stopper' = "stopped" /\ UNCHANGED get
StopRecvTask ==
    IF Waiting(recvTask)
    THEN get' = CancelTask(recvTask) /\ stopper' = "await_recv" /\ UNCHANGED recvTask
    ELSE recvTask' = NoReader /\ stopper' = "stopped" /\ UNCHANGED get

StopSkipsDispatcher ==  \* mutant: leaves the dispatcher running
    /\ ~closed
    /\ closed' = TRUE
    /\ StopRecvTask
    /\ UNCHANGED <<sent, main, bufVars, held, awaited, dispVars, owner, ends, useVars>>
Stop ==
    /\ ~closed
    /\ closed' = TRUE
    /\ IF IsDispatching
       THEN /\ CancelDispatcher("stop")
            /\ stopper' = "await_dispatcher"
            /\ UNCHANGED <<get, recvTask>>
       ELSE StopRecvTask /\ UNCHANGED <<disp, stray, ends>>
    /\ UNCHANGED <<sent, main, bufVars, held, awaited, dref, owner, useVars>>

StopDispatcherEnded ==
    /\ stopper = "await_dispatcher" /\ DispatcherHasEnded("stop")
    /\ dref' = NoDispatcher
    /\ ends' = [ends EXCEPT !.stop = NoDispatcher]
    /\ StopRecvTask
    /\ UNCHANGED <<sent, main, bufVars, closed, held, awaited, disp, stray, owner, useVars>>

StopRecvEnded ==
    /\ stopper = "await_recv" /\ ~Waiting(recvTask)
    /\ recvTask' = NoReader /\ stopper' = "stopped"
    /\ UNCHANGED <<sent, main, bufVars, closed, get, held, awaited, dispVars, owner, ends, useVars>>

-----------------------------------------------------------------------------
Reading(r) == RecvTakes(r) \/ RecvCancelled(r) \/ GetResumes(r) \/ GetFinishes(r)
Calling(r) == GetNow(r) \/ GetEnds(r) \/ GetWaits(r) \/ GetCancelled(r)
Dispatching(d) == DispatchNext(d) \/ HandlerReturns(d) \/ DispatcherEnds(d)
OwnerGoesOn == \/ PauseEntered \/ Unpause
               \/ Drained \/ DiscardBuffer
               \/ SwapWithoutDispatcher \/ SwapBegins \/ SwapEnds
OwnerStarts == Pause \/ \E discard \in BOOLEAN : BufferUntilDrained(discard)
Stopping == StopDispatcherEnded \/ StopRecvEnded

QNext == \/ Put \/ StartDispatching \/ Stop \/ OwnerStarts \/ DrainGivenUp
         \/ \E r \in Readers : Calling(r) \/ Reading(r)
         \/ \E d \in Dispatchers : Dispatching(d)
         \/ OwnerGoesOn \/ Stopping

QSafeSpec == QInit /\ [][QNext]_qvars

\* The event loop runs what is ready; handlers return and the owner leaves
\* its pause.  Nobody is obliged to put, get, stop or give up.
QSpec == /\ QSafeSpec
         /\ \A r \in Readers : WF_qvars(Reading(r))
         /\ \A d \in Dispatchers : WF_qvars(Dispatching(d))
         /\ WF_qvars(OwnerGoesOn) /\ WF_qvars(Stopping)

-----------------------------------------------------------------------------
(* Properties *)

QTypeOK ==
    /\ sent \in 0..MaxMessages
    /\ main \in Seq(1..MaxMessages) /\ buf \in Seq(1..MaxMessages)
    /\ buffering \in BOOLEAN /\ closed \in BOOLEAN
    /\ get \in [Readers -> {"idle", "blocked", "orphaned", "taken", "cancelling",
                            "cancelled", "stopping", "ended"}]
    /\ held \in [Readers -> 0..MaxMessages]
    /\ awaited \in [Readers -> Readers \union {NoReader}]
    /\ recvTask \in Readers \union {NoReader}
    /\ disp \in [Dispatchers -> {"none", "get", "orphaned", "handle", "cancelled", "ended"}]
    /\ dref \in Dispatchers \union {NoDispatcher}
    /\ ends \in [owner : Dispatchers \union {NoDispatcher},
                  stop : Dispatchers \union {NoDispatcher}]
    /\ owner \in {"idle", "pausing", "paused", "draining", "draining_discard", "drained",
                  "drained_discard", "swapping"}
    /\ stopper \in {"idle", "await_dispatcher", "await_recv", "stopped"}
    /\ taken \in Seq(1..MaxMessages)
    /\ used \subseteq 1..MaxMessages /\ discarded \subseteq 1..MaxMessages
    /\ givenUp \subseteq 0..MaxMessages /\ stray \subseteq Dispatchers

Elements(s) == {s[i] : i \in DOMAIN s}

\* Messages are taken in the order they were put, each once, across readers,
\* dispatchers and the exchange of the queue for its buffer.
TakenInOrder ==
    LET s == taken \o main \o buf
    IN  \A i, j \in DOMAIN s : i < j => s[i] < s[j]

\* The messages that tasks of get() have and their callers do not have yet.
OnTheWay == {held[r] : r \in Readers} \ {0}

\* Where a message that was put can be.
Accounted == used \union OnTheWay \union Elements(main) \union Elements(buf) \union discarded

\* A message that was put is given to a handler, returned by get() or on the
\* way there, waiting, or discarded on request: the queue loses none, except
\* what somebody gave up, the entries left when a drain was cancelled and the
\* message of a get() that was cancelled.
NothingLost == 1..sent \ Accounted \subseteq givenUp

\* The owner is in buffer_until_drained(), and there past the drain.
Exchanging == {"draining", "draining_discard", "drained", "drained_discard", "swapping"}
PastDrain == {"drained", "drained_discard", "swapping"}

\* New messages are buffered exactly while the owner exchanges the queue; past
\* the drain nothing is queued until the exchange but what was given up.
BufferInv ==
    /\ ~buffering => buf = <<>>
    /\ buffering <=> owner \in Exchanging
    /\ owner \in PastDrain => Elements(main) \subseteq givenUp

\* No message is made up.
OnlyPut == Elements(taken) \union Elements(main) \union Elements(buf) \subseteq 1..sent

\* Only the task of a get() that has ended has a message.
HeldInv == \A r \in Readers : held[r] # 0 => get[r] \in {"taken", "stopping"}

\* Every dispatcher that may start a handler is the one stop() and the owner
\* know of, and the queue is not stopped; the others are stray.
DispatcherInv ==
    /\ \A d \in Dispatchers \ stray : Running(d) => d = dref /\ ~closed
    /\ owner \in {"pausing", "swapping"} /\ ~closed => dref = ends.owner /\ IsDispatching
    /\ closed <=> stopper # "idle"

\* Put together, what every step of the queue keeps: the inductive invariant
\* behind the order and the completeness of what is taken, and behind stop().
QInv ==
    /\ QTypeOK
    /\ BufferInv /\ HeldInv /\ DispatcherInv
    /\ TakenInOrder /\ OnlyPut /\ NothingLost

\* Once stop() has returned no handler starts, but in a dispatcher that was
\* begun on the stopped queue, by start_dispatching() or at the end of a pause
\* or an exchange, or that another took the place of before.
NoDispatchAfterStop ==
    [][stopper = "stopped" =>
          \A d \in Dispatchers \ stray : disp[d] # "handle" => disp'[d] # "handle"]_qvars

\* get() raises EndOfQueue only on a stopped queue.
EndOfQueueOnlyWhenStopped == \A r \in Readers : get[r] = "ended" => closed

\* stop() releases every task that waits in get().
StopReleases == closed ~> \A r \in Readers : get[r] \in {"idle", "ended"}

\* A task does not wait in get() for ever beside a message that is queued.
WaitingGetServed ==
    \A r \in Readers : get[r] \in {"blocked", "orphaned"} /\ main # <<>>
                        ~> get[r] \in {"idle", "ended"} \/ main = <<>>

=============================================================================
