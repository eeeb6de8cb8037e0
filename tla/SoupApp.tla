------------------------------ MODULE SoupApp ------------------------------
(***************************************************************************)
(* The application sessions on top of a soup client: SoupAppClientSession  *)
(* (soup/soup_app.py), from which ITCH, OUCH and SQF derive, and           *)
(* Asn1SoupClientSession, which repeats it.  Such a session has a queue    *)
(* and a dispatcher of its own, and takes over both handlers of the soup   *)
(* session.                                                                *)
(*                                                                         *)
(* connect_async() builds it in the step in which login() returns.         *)
(* _on_soup_message() never suspends, so the soup dispatcher empties its   *)
(* whole queue into the application's in one step.  _on_soup_close() is    *)
(* the on_close_coro of the soup session: it starts in the very step that  *)
(* ends close()'s chain, hence OnSoupClose is urgent.                      *)
(***************************************************************************)
EXTENDS ProtocolSession, Selection

CONSTANT NotForApp      \* ids of messages decode() rejects or that are not data

ASSUME NotForAppAssumption == NotForApp \subseteq Nat

VARIABLES
    app,        \* "none", "built", or "raised": set_handlers() refused
    aq,         \* the messages in _message_queue
    astopped,   \* its _closed
    adisp,      \* its dispatcher
    arecv,      \* its _recv_task
    taken,      \* messages given to the application, in order
    apc,        \* where _on_soup_close() is
    event,      \* _close_event: "none", "unset" or "set"
    aclosed     \* closed

aqVars == <<aq, astopped, adisp, arecv, taken>>
aCloseVars == <<apc, event, aclosed>>
avars == <<app, aqVars, aCloseVars>>
everything == <<allvars, avars>>

AInit ==
    /\ PInit
    /\ app = "none"
    /\ aq = <<>> /\ astopped = FALSE /\ adisp = "none" /\ arecv = "none" /\ taken = <<>>
    /\ apc = "idle" /\ event = "none" /\ aclosed = FALSE

Idle == UNCHANGED <<vars, pvars>>
OnlyQueue == Idle /\ UNCHANGED <<app, aCloseVars>>
SoupUnchanged == UNCHANGED <<transport, ctask, closed, closer, drainArg, notified, taskVars,
                             dataVars, pvars>>

-----------------------------------------------------------------------------
(* Construction and messages *)

\* set_handlers() assigns both handlers, and raises afterwards when the
\* session closes: nobody receives an application session, whose dispatcher
\* runs and whose _on_soup_close() will be called all the same.
Build ==
    /\ role = "app"
    /\ LoginAccepted(IsActive)
    /\ app' = IF IsActive THEN "built" ELSE "raised"
    /\ adisp' = IF coro THEN "get" ELSE "none"
    /\ UNCHANGED <<aq, astopped, arecv, taken, aCloseVars>>

ForApp == Nat \ NotForApp

\* mutant: one message for each wake-up of the dispatcher
PassOn1 == Selected(<<Head(queue)>>, ForApp)
\* _on_soup_message() for every message the soup queue holds.  An exception of
\* decode() is logged by the dispatcher.
PassOn == Selected(queue, ForApp)

SoupDispatch ==
    /\ role = "app" /\ disp = "get" /\ queue # <<>>
    /\ aq' = aq \o PassOn
    /\ queue' = <<>>
    /\ delivered' = delivered \o queue /\ handled' = handled + Len(queue)
    /\ UNCHANGED <<transport, ctask, taskVars, closeVars, buffer, arrived, pvars, app, astopped,
                   adisp, arecv, taken, aCloseVars>>

TakeFromApp ==
    /\ aq # <<>>
    /\ aq' = Tail(aq) /\ taken' = Append(taken, Head(aq))

AppDispatch ==
    /\ adisp = "get" /\ TakeFromApp
    /\ adisp' = "handle"
    /\ OnlyQueue /\ UNCHANGED <<astopped, arecv>>

AppHandlerReturns ==
    /\ adisp = "handle"
    /\ adisp' = "get"
    /\ OnlyQueue /\ UNCHANGED <<aq, astopped, arecv, taken>>

\* Also the end of a handler that waits in close(): it is cancelled there.
AppDispatcherEnds ==
    /\ adisp = "cancelled"
    /\ adisp' = "done"
    /\ OnlyQueue /\ UNCHANGED <<aq, astopped, arecv, taken>>

\* receive_message(), for an application without on_msg_coro, or of what is
\* left when the dispatcher has been stopped.
NoAppDispatcher == adisp = "none" \/ (adisp = "done" /\ apc # "await_dispatcher")
AppReceives ==
    /\ app = "built" /\ NoAppDispatcher /\ arecv \in {"none", "blocked"}
    /\ TakeFromApp
    /\ arecv' = "none"
    /\ OnlyQueue /\ UNCHANGED <<astopped, adisp>>

AppReceiveBlocks ==
    /\ app = "built" /\ adisp = "none" /\ arecv = "none" /\ aq = <<>> /\ ~astopped
    /\ arecv' = "blocked"
    /\ OnlyQueue /\ UNCHANGED <<aq, astopped, adisp, taken>>

AppReceiveEnds ==
    /\ arecv = "cancelled"
    /\ arecv' = "none"
    /\ OnlyQueue /\ UNCHANGED <<aq, astopped, adisp, taken>>

-----------------------------------------------------------------------------
(* Closing *)

\* close(), by the application or in its on_msg_coro; a second call returns.
AppClose ==
    /\ app = "built" /\ event = "none" /\ ~aclosed
    /\ event' = "unset"
    /\ \/ AppInitiatesClose(FALSE)
       \/ ~IsActive /\ UNCHANGED vars
    /\ UNCHANGED <<pvars, app, aqVars, apc, aclosed>>

\* The application's on_close_coro awaits close() itself; a cancellation that
\* close() left pending for its caller strikes where it waits.
OnCloseCloses ==
    /\ app = "built" /\ apc = "user" /\ event = "none"
    /\ event' = "unset"
    /\ IF pending
       THEN apc' = "interrupted" /\ cpc' = "interrupted"
       ELSE apc' = "waits" /\ UNCHANGED cpc
    /\ pending' = FALSE
    /\ SoupUnchanged
    /\ UNCHANGED <<app, aqVars, aclosed>>

InstalledIfBuilt == app = "built"   \* mutant: refuses before it assigns
\* on_close_coro of the soup session is in force.
Installed == app # "none"
Urgent == role = "app" /\ cpc = "notify" /\ apc = "idle"

\* mutant: the application is told first, its queue is stopped after
StopsNothing == apc' = "user" /\ UNCHANGED <<pending, astopped, adisp, arecv>>
\* DispatchableMessageQueue.stop(): the first await takes a cancellation that
\* is pending, and swallows it.
StopAppQueue ==
    /\ astopped' = TRUE
    /\ \/ /\ adisp \in {"get", "handle"}
          /\ adisp' = "cancelled" /\ apc' = "await_dispatcher" /\ pending' = FALSE
          /\ UNCHANGED arecv
       \/ /\ adisp \notin {"get", "handle"} /\ arecv = "blocked"
          /\ arecv' = "cancelled" /\ apc' = "await_recv" /\ pending' = FALSE
          /\ UNCHANGED adisp
       \/ /\ adisp \notin {"get", "handle"} /\ arecv # "blocked"
          /\ apc' = "user"
          /\ UNCHANGED <<pending, adisp, arecv>>

OnSoupClose ==
    /\ Urgent /\ Installed
    /\ StopAppQueue
    /\ SoupUnchanged
    /\ UNCHANGED <<cpc, app, aq, taken, event, aclosed>>

\* A soup session without handlers has no on_close_coro to call.
NoHandler ==
    /\ Urgent /\ ~Installed
    /\ OnCloseReturns
    /\ UNCHANGED <<pvars, avars>>

AppQueueStopped ==
    /\ \/ apc = "await_dispatcher" /\ adisp = "done"
       \/ apc = "await_recv" /\ arecv = "none"
    /\ apc' = "user"
    /\ Idle /\ UNCHANGED <<app, aqVars, event, aclosed>>

\* mutant: forgets who waits in close()
WakesNobody == UNCHANGED event
WakesCloser == event' = IF event = "none" THEN "none" ELSE "set"

\* The application's on_close_coro returns, and with it the soup close().
AppNotified ==
    /\ apc = "user"
    /\ apc' = "done" /\ aclosed' = TRUE
    /\ WakesCloser
    /\ cpc' = "finished"
    /\ SoupUnchanged
    /\ UNCHANGED <<pending, app, aqVars>>

\* ... or takes the cancellation that close() left pending for its caller.
AppInterrupted ==
    /\ apc = "user" /\ pending
    /\ apc' = "interrupted" /\ cpc' = "interrupted" /\ pending' = FALSE
    /\ SoupUnchanged
    /\ UNCHANGED <<app, aqVars, event, aclosed>>

-----------------------------------------------------------------------------
(* The specification *)

AppCloseStep == AppQueueStopped \/ AppNotified \/ AppInterrupted

System ==
    \/ OnSoupClose \/ NoHandler
    \/ /\ ~Urgent
       /\ \/ PSystem /\ UNCHANGED avars
          \/ Build \/ SoupDispatch
          \/ AppDispatch \/ AppHandlerReturns \/ AppDispatcherEnds
          \/ AppReceiveEnds \/ AppCloseStep

Environment ==
    /\ ~Urgent
    /\ \/ PEnvironment /\ UNCHANGED avars
       \/ AppReceives \/ AppReceiveBlocks \/ AppClose \/ OnCloseCloses

ANext == System \/ Environment

(***************************************************************************)
(* Session's assumptions: tasks that are ready run; handlers, on_login()   *)
(* and on_close_coro return; a transport whose close() was called reports  *)
(* it.  Every step uses up a message, a task or a call, so none can be     *)
(* taken for ever, and fairness to all of them is fairness to each.        *)
(***************************************************************************)
ASpec == AInit /\ [][ANext]_everything /\ WF_everything(System)

-----------------------------------------------------------------------------
(* Properties *)

\* Every variable has a value the code can give it.
ATypeOK ==
    /\ PTypeOK
    /\ app \in {"none", "built", "raised"}
    /\ aq \in Seq(Nat) /\ taken \in Seq(Nat) /\ astopped \in BOOLEAN
    /\ adisp \in {"none", "get", "handle", "cancelled", "done"}
    /\ arecv \in {"none", "blocked", "cancelled"}
    /\ apc \in {"idle", "await_dispatcher", "await_recv", "user", "waits", "done", "interrupted"}
    /\ event \in {"none", "unset", "set"} /\ aclosed \in BOOLEAN

\* Between the two queues nothing is lost, repeated or reordered: what the
\* soup session dispatched after the login is what the application has taken
\* and what it will be given, but for the messages that are not for it.
AppGetsAll == app = "built" => taken \o aq = Selected(Tail(delivered), ForApp)

\* When the application's on_close_coro runs, no handler of its messages does,
\* and none starts after it.  A close() that reports the session closed has
\* stopped everything below it: the soup session's close() has run to its end.
AppCloseOrdered ==
    /\ apc \in {"user", "waits", "done", "interrupted"} => adisp \in {"none", "done"}
    /\ event = "set" => aclosed /\ closed /\ cpc = "finished" /\ astopped

\* When the soup session's close() ends no dispatcher of an application runs,
\* not even that of a session set_handlers() refused: on_close_coro is
\* assigned before it raises.  (One built later still outlives the session.)
NoOrphanAtClose ==
    [][cpc # "finished" /\ cpc' = "finished" => adisp' \notin {"get", "handle"}]_everything

\* Where close() of the application can wait for ever: a drain that lost its
\* reader, a soup close() that ended in the exception of its reader, an
\* on_close_coro that was cancelled, or one that awaits close().
CloseIsStuck == DrainIsStuck \/ cpc = "aborted" \/ apc \in {"interrupted", "waits"}

\* Nowhere else: close() returns, whoever else closes the session meanwhile.
AppCloseReturns == event = "unset" ~> event = "set" \/ CloseIsStuck

=============================================================================
