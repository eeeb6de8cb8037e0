---------------------------- MODULE SyncSession ----------------------------
(***************************************************************************)
(* SoupClientSessionSync (soup/session.py) over SyncExecutor               *)
(* (common/sync_executor.py): threads that call into a session whose event *)
(* loop runs in a thread of its own.                                       *)
(*                                                                         *)
(* A thread submits its call to the loop and waits for the answer.         *)
(* close() and logout() do so while they hold close_lock; on_close_coro,   *)
(* which the loop's thread runs when the session has closed, takes the     *)
(* same lock, and while it waits for it the loop runs nothing else.        *)
(***************************************************************************)
EXTENDS Naturals, FiniteSets

CONSTANTS
    Threads,        \* the threads that use the session
    Closers,        \* those that call close() or logout(); the others send or receive
    PeerCloses      \* the session may also close by itself

ASSUME ClosersAssumption == Closers \subseteq Threads
ASSUME SwitchAssumption == PeerCloses \in BOOLEAN
ASSUME ThreadsAssumption == Threads \cap {"loop", "free"} = {}

VARIABLES
    call,       \* call[t]: the call t is in
    pc,         \* pc[t]: how far it is
    lock,       \* the owner of close_lock
    event,      \* closed_event is set
    session,    \* the session: "open", "closing" (its close() runs), "closed"
    installed,  \* on_close_coro is installed
    loop        \* the loop's thread: "running", "blocked" on the lock,
                \* "holding" it, "stopping", "stopped"

svars == <<call, pc, lock, event, session, installed, loop>>

Closing == {"close", "logout"}
Calls == Closing \union {"send", "receive"}

SInit ==
    /\ call \in [Threads -> Calls]
    /\ \A t \in Threads : call[t] \in Closing <=> t \in Closers
    /\ pc = [t \in Threads |-> "idle"]
    /\ lock = "free" /\ event = FALSE
    /\ session = "open" /\ installed = FALSE
    /\ loop = "running"

Goto(t, at) == pc' = [pc EXCEPT ![t] = at]
SessionAndLoop == <<session, installed, loop>>

-----------------------------------------------------------------------------
(* The thread that calls *)

\* connect(): SoupClientSessionSync(...) on a session that is logged in.
Install ==
    /\ ~installed
    /\ installed' = TRUE
    /\ UNCHANGED <<call, pc, lock, event, session, loop>>

BeginCall(t) ==
    /\ installed
    /\ pc[t] = "idle"
    /\ Goto(t, IF call[t] \in Closing THEN "lock" ELSE "checkActive")
    /\ UNCHANGED <<call, lock, event, SessionAndLoop>>

TakeLock(t) ==
    /\ pc[t] = "lock" /\ lock = "free"
    /\ lock' = t
    /\ Goto(t, "checkEvent")
    /\ UNCHANGED <<call, event, SessionAndLoop>>

ChecksNothing(t) ==     \* mutant: does not look at closed_event
    /\ pc[t] = "checkEvent"
    /\ Goto(t, "checkActive") /\ UNCHANGED lock
    /\ UNCHANGED <<call, event, SessionAndLoop>>
CheckEvent(t) ==
    /\ pc[t] = "checkEvent"
    /\ \/ event /\ lock' = "free" /\ Goto(t, "await")
       \/ ~event /\ Goto(t, "checkActive") /\ UNCHANGED lock
    /\ UNCHANGED <<call, event, SessionAndLoop>>

ReleaseToNone(t) == lock' = IF lock = t THEN "none" ELSE lock   \* mutant: no such state
ReleaseNothing(t) == UNCHANGED lock     \* mutant: keeps close_lock
Release(t) == lock' = IF lock = t THEN "free" ELSE lock

\* _must_be_active(): StateError if the loop's thread has ended.
CheckActive(t) ==
    /\ pc[t] = "checkActive"
    /\ \/ loop # "stopped" /\ Goto(t, "submit") /\ UNCHANGED lock
       \/ loop = "stopped" /\ Goto(t, "raised") /\ Release(t)
    /\ UNCHANGED <<call, event, SessionAndLoop>>

\* run_coroutine_threadsafe(): also a loop that has stopped accepts the call.
Submit(t) ==
    /\ pc[t] = "submit"
    /\ Goto(t, "submitted")
    /\ UNCHANGED <<call, lock, event, SessionAndLoop>>

\* future.result() returns.
Resume(t) ==
    /\ pc[t] = "answered"
    /\ Release(t)
    /\ Goto(t, IF call[t] \in Closing THEN "await" ELSE "returned")
    /\ UNCHANGED <<call, event, SessionAndLoop>>

\* closed_event.wait()
AwaitEvent(t) ==
    /\ pc[t] = "await" /\ event
    /\ Goto(t, "join")
    /\ UNCHANGED <<call, lock, event, SessionAndLoop>>

JoinsNothing(t) ==      \* mutant: does not join the loop's thread
    /\ pc[t] = "join"
    /\ Goto(t, "returned")
    /\ UNCHANGED <<call, lock, event, SessionAndLoop>>
Join(t) ==
    /\ pc[t] = "join" /\ loop = "stopped"
    /\ Goto(t, "returned")
    /\ UNCHANGED <<call, lock, event, SessionAndLoop>>

-----------------------------------------------------------------------------
(* The loop's thread *)

LoopRuns == loop \in {"running", "stopping"}

\* The bridged call: close and logout initiate the close of the session,
\* receive waits unless the session's queue has been stopped.
RunCall(t) ==
    /\ LoopRuns
    /\ pc[t] = "submitted"
    /\ \/ /\ call[t] \in Closing
          /\ session' = IF session = "open" THEN "closing" ELSE session
          /\ Goto(t, "answered")
       \/ /\ \/ call[t] = "send"
             \/ call[t] = "receive" /\ session = "closed"
          /\ Goto(t, "answered")
          /\ UNCHANGED session
       \/ /\ call[t] = "receive" /\ session # "closed"
          /\ Goto(t, "receiving")
          /\ UNCHANGED session
    /\ UNCHANGED <<call, lock, event, installed, loop>>

\* A message arrives.
MessageReceived(t) ==
    /\ LoopRuns
    /\ pc[t] = "receiving" /\ session = "open"
    /\ Goto(t, "answered")
    /\ UNCHANGED <<call, lock, event, SessionAndLoop>>

\* close() stops the queue, which ends a receive that waits with EndOfQueue.
QueueStopped(t) ==
    /\ LoopRuns
    /\ pc[t] = "receiving" /\ session = "closing"
    /\ Goto(t, "answered")
    /\ UNCHANGED <<call, lock, event, SessionAndLoop>>

\* It may do so before on_close_coro is installed.
SessionClosesItself ==
    /\ PeerCloses /\ loop = "running"
    /\ session = "open"
    /\ session' = "closing"
    /\ UNCHANGED <<call, pc, lock, event, installed, loop>>

\* close() ends and calls on_close_coro, if it has one.
SessionClosed ==
    /\ loop = "running" /\ session = "closing"
    /\ \A t \in Threads : pc[t] # "receiving"
    /\ session' = "closed"
    /\ loop' = IF installed THEN "blocked" ELSE loop
    /\ UNCHANGED <<call, pc, lock, event, installed>>

OnCloseSkipsLock ==     \* mutant: on_close_coro without close_lock
    /\ loop = "blocked"
    /\ loop' = "holding"
    /\ UNCHANGED <<call, pc, lock, event, session, installed>>
OnCloseTakesLock ==
    /\ loop = "blocked" /\ lock = "free"
    /\ lock' = "loop" /\ loop' = "holding"
    /\ UNCHANGED <<call, pc, event, session, installed>>

\* It asks the loop to stop and sets closed_event.
OnCloseReturns ==
    /\ loop = "holding"
    /\ event' = TRUE
    /\ Release("loop")
    /\ loop' = "stopping"
    /\ UNCHANGED <<call, pc, session, installed>>

\* What is in the loop's queue when it stops is never run.
LoopStops ==
    /\ loop = "stopping"
    /\ loop' = "stopped"
    /\ UNCHANGED <<call, pc, lock, event, session, installed>>

-----------------------------------------------------------------------------
ThreadStep(t) == TakeLock(t) \/ CheckEvent(t) \/ CheckActive(t) \/ Submit(t)
                 \/ Resume(t) \/ AwaitEvent(t) \/ Join(t)
OnClose == OnCloseTakesLock \/ OnCloseReturns \/ LoopStops

SNext ==
    \/ Install \/ SessionClosesItself \/ SessionClosed \/ OnClose
    \/ \E t \in Threads : \/ BeginCall(t) \/ ThreadStep(t)
                          \/ RunCall(t) \/ MessageReceived(t) \/ QueueStopped(t)

SSafeSpec == SInit /\ [][SNext]_svars
\* Threads and the loop run; nobody is obliged to call, to send or to close.
SSpec == /\ SSafeSpec
         /\ WF_svars(SessionClosed) /\ WF_svars(OnClose)
         /\ \A t \in Threads : /\ WF_svars(ThreadStep(t))
                               /\ WF_svars(RunCall(t)) /\ WF_svars(QueueStopped(t))

-----------------------------------------------------------------------------
(* Properties *)

\* Every variable has a value the code can give it.
STypeOK ==
    /\ call \in [Threads -> Calls]
    /\ pc \in [Threads -> {"idle", "lock", "checkEvent", "checkActive", "submit", "submitted",
                           "receiving", "answered", "await", "join", "raised", "returned"}]
    /\ lock \in Threads \union {"loop", "free"}
    /\ event \in BOOLEAN /\ installed \in BOOLEAN
    /\ session \in {"open", "closing", "closed"}
    /\ loop \in {"running", "blocked", "holding", "stopping", "stopped"}

\* close() and logout() never hand a call to a loop that is asked to stop: the
\* answer would never come.
CloseReachesLoop ==
    \A t \in Threads :
        call[t] \in Closing /\ pc[t] \in {"checkActive", "submit", "submitted"}
            => loop \notin {"stopping", "stopped"}

\* When close() or logout() returns the session is closed and the loop's
\* thread has ended.  It does not raise.
CloseIsComplete ==
    \A t \in Threads : call[t] \in Closing =>
        /\ pc[t] # "raised"
        /\ pc[t] = "returned" => session = "closed" /\ loop = "stopped" /\ lock # t

\* Every close() and logout() returns.
CloseReturns ==
    \A t \in Threads : call[t] \in Closing /\ pc[t] = "lock" ~> pc[t] = "returned"

\* What keeps close() from returning: the loop's thread waits for the lock of a
\* thread that waits for the loop, or the session had closed before it was given
\* an on_close_coro to tell the waiting thread.
WaitForOneAnother ==
    loop = "blocked" /\ \E t \in Threads : lock = t /\ pc[t] = "submitted"
NeverTold == session = "closed" /\ loop = "running"

\* Every close() and logout() returns but for these two: no other order of
\* callers, loop and peer leaves one of them waiting.
CloseReturnsUnlessStuck ==
    \A t \in Threads : call[t] \in Closing /\ pc[t] = "lock"
                          ~> pc[t] = "returned" \/ WaitForOneAnother \/ NeverTold

\* Every other call returns or raises.
SendReturns ==
    \A t \in Threads : call[t] = "send" /\ pc[t] = "submit" ~> pc[t] \in {"returned", "raised"}

-----------------------------------------------------------------------------
(* The inductive invariant *)

\* The lock has the owner that the steps of close(), logout() and
\* on_close_coro say.
Holding == {"checkEvent", "checkActive", "submit", "submitted", "answered"}
InvLock ==
    /\ \A t \in Threads : lock = t <=> call[t] \in Closing /\ pc[t] \in Holding
    /\ \A t \in Threads : pc[t] \in {"lock", "checkEvent"} => call[t] \in Closing
    /\ lock = "loop" <=> loop = "holding"

\* closed_event is set when the loop was asked to stop, the session is closed
\* before that, and no call of close() is then on its way to the loop.
InvEvent ==
    /\ event <=> loop \in {"stopping", "stopped"}
    /\ loop # "running" => session = "closed"
    /\ \A t \in Threads : call[t] \in Closing =>
          /\ pc[t] \in Holding \ {"checkEvent"} => ~event
          /\ pc[t] # "receiving"

SyncInv == STypeOK /\ InvLock /\ InvEvent /\ CloseIsComplete

=============================================================================
