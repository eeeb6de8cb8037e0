-------------------------- MODULE ProtocolSession --------------------------
(***************************************************************************)
(* The sessions built on AsyncSession: SoupClientSession and               *)
(* SoupServerSession (soup/session.py) and FixSession (fix/session.py),    *)
(* with their logins, their logouts and their sequence numbers.            *)
(*                                                                         *)
(* The role says which one a behaviour is about.  Role "app" is the soup   *)
(* client that an application session will be built on (SoupApp).          *)
(*                                                                         *)
(* login() of a client suspends three times: in receive_msg(), between the *)
(* moment the reply is taken from the queue and the moment the login's own *)
(* task runs again, and in the close() that follows a rejection.  The      *)
(* server's login suspends in on_login(), the application's coroutine.     *)
(* Everything else of the session goes on meanwhile.                       *)
(*                                                                         *)
(* To a client the first message of the peer is the answer to its login,   *)
(* and every later one is SequencedData.  To a server the first one is a   *)
(* LoginRequest; a later one may be another, or data.  A frame "end" is an *)
(* EndOfSession or a LogoutRequest.                                        *)
(***************************************************************************)
EXTENDS Session

CONSTANTS
    Roles,      \* the roles a behaviour may have
    Reply,      \* the sequence in LoginAccepted: the next message's number
    MaxSent     \* BOUND: how many numbered messages this end sends

ASSUME RolesAssumption == Roles \subseteq {"client", "server", "fix", "app"}
ASSUME NumbersAssumption == Reply \in Nat \ {0} /\ MaxSent \in Nat

VARIABLES
    role,       \* the session's class
    coro,       \* on_msg_coro was given
    login,      \* where the login stands
    seq,        \* sequence: of a client read, of a server and of FIX sent
    skipped,    \* sequenced messages counted before login() set sequence
    late,       \* a login started tasks in a session that was closing
    wire        \* the numbers of the messages handed to the transport

loginVars == <<login, seq, skipped, late, wire>>
pvars == <<role, coro, loginVars>>
allvars == <<vars, pvars>>

IsClient == role # "server"
Answer == 1                     \* the id of the first message

PInit ==
    /\ Init
    /\ role \in Roles
    /\ coro \in (IF role = "server" THEN {TRUE} ELSE BOOLEAN)
    /\ login = "none" /\ seq = 1 /\ skipped = 0 /\ late = FALSE /\ wire = <<>>

\* dispatch_on_connect is left TRUE by the server alone.
Connected ==
    /\ Connect(role = "server")
    /\ UNCHANGED pvars

\* A peer that is a server speaks when it was asked to log in.
PeerSends ==
    /\ IsClient => login # "none"
    /\ DataReceived
    /\ UNCHANGED pvars

-----------------------------------------------------------------------------
(* login() of a client *)

\* login() sends the request and waits in receive_msg(), which raises
\* EndOfQueue when the session has been closed.  FIX numbers the request.
Login ==
    /\ IsClient /\ transport # "none" /\ login = "none"
    /\ IF role = "fix" THEN seq' = seq + 1 /\ wire' = <<seq>> ELSE UNCHANGED <<seq, wire>>
    /\ \/ ReceiveBlocks /\ login' = "waiting"
       \/ qclosed /\ login' = "refused" /\ UNCHANGED vars
    /\ UNCHANGED <<role, coro, skipped, late>>

\* The reply has left the queue; the task of login() is yet to run.
LoginTakes ==
    /\ login = "waiting" /\ recv = "blocked"
    /\ ReceiveReturns
    /\ login' = "replied"
    /\ UNCHANGED <<role, coro, seq, skipped, late, wire>>

\* The queue was stopped under receive_msg(): EndOfQueue, which
\* connect_async() turns into a refused connection.  (FIX calls close() first,
\* which returns at once: only a close stops the queue.)
LoginCut ==
    /\ login = "waiting" /\ recv = "none"
    /\ login' = "refused"
    /\ UNCHANGED <<role, coro, seq, skipped, late, wire, vars>>

CountsReply == Reply            \* mutant: takes the reply's number as it is
LastSeen == Reply - 1

\* The login starts the tasks of the session, whether or not it still lives.
StartsTasks(dispatches) ==
    /\ local' = "running" /\ remote' = "running"
    /\ IF dispatches THEN disp' = "get" /\ dref' = TRUE ELSE UNCHANGED <<disp, dref>>
    /\ late' = ~IsActive

LoginAccepted(dispatches) ==
    /\ IsClient /\ login = "replied"
    /\ login' = "accepted"
    /\ IF role = "fix"
       THEN UNCHANGED <<seq, skipped>>
       ELSE seq' = LastSeen /\ skipped' = seq - 1
    /\ StartsTasks(dispatches)
    /\ UNCHANGED <<role, coro, wire, transport, reader, rstopped, drain, qclosed, recv,
                   ctask, closeVars, dataVars>>

RejectsOpen ==  \* mutant: raises and leaves the session open
    /\ IsClient /\ login = "replied"
    /\ login' = "refused"
    /\ UNCHANGED <<role, coro, seq, skipped, late, wire, vars>>
\* Any other reply: login() closes the session before it raises.
LoginRejected ==
    /\ IsClient /\ login = "replied"
    /\ \/ BeginClose("app", FALSE, FALSE) /\ login' = "closing"
       \/ closed /\ login' = "refused" /\ UNCHANGED <<transport, taskVars, closeVars>>
    /\ UNCHANGED <<role, coro, seq, skipped, late, wire, ctask, dataVars>>

LoginRaises ==
    /\ login = "closing" /\ cpc \in EndPoints
    /\ login' = "refused"
    /\ UNCHANGED <<role, coro, seq, skipped, late, wire, vars>>

-----------------------------------------------------------------------------
(* The server's _on_msg() *)

\* mutant: _handle_login() does not look at _logged_in
AsksAgain == {"none", "refused", "accepted"}
\* A login that is accepted is not asked for again: StateError, logged.
AsksOnce == {"none", "refused"}

\* A LoginRequest has the handler wait for on_login().
ServerTakes ==
    /\ role = "server"
    /\ DispatchNext \/ (login # "asking" /\ HandlerGoesOn)
    /\ \/ login' = "asking" /\ login \in AsksOnce
       \/ UNCHANGED login /\ delivered # <<>>
    /\ UNCHANGED <<role, coro, seq, skipped, late, wire>>

ServerAccepts ==
    /\ login = "asking" /\ disp = "handle"
    /\ login' = "accepted"
    /\ local' = "running" /\ remote' = "running" /\ late' = ~IsActive
    /\ UNCHANGED <<role, coro, seq, skipped, wire, transport, reader, rstopped, drain, qclosed,
                   recv, disp, dref, ctask, closeVars, dataVars>>

\* The server closes a session it refuses from its own handler: the closer is
\* the dispatcher.
ServerRefuses ==
    /\ login = "asking" /\ disp = "handle"
    /\ login' = "refused"
    /\ \/ BeginClose("dispatcher", FALSE, FALSE)
       \/ closed /\ UNCHANGED <<transport, taskVars, closeVars>>
    /\ UNCHANGED <<role, coro, seq, skipped, late, wire, ctask, dataVars>>

-----------------------------------------------------------------------------
(* Sending, reading and logging out *)

\* on_message() of the soup client counts the message, then queues it.
MessageRead ==
    /\ ReadMessage
    /\ seq' = IF role \in {"client", "app"} /\ Head(buffer).kind = "msg" /\ Head(buffer).id # Answer
              THEN seq + 1 ELSE seq
    /\ UNCHANGED <<role, coro, login, skipped, late, wire>>

\* mutant: gives back the number of a message that was not encoded
GivesBack(encoded) == IF encoded THEN seq + 1 ELSE seq - 1
\* next(self.sequence): taken before the message is encoded.
Next1(encoded) == seq + 1

\* send_msg() of FIX, a heartbeat included; a message that cannot be encoded
\* has used its number.
SendFix ==
    /\ role = "fix" /\ login = "accepted" /\ seq <= MaxSent
    /\ \E encoded \in BOOLEAN :
        /\ wire' = IF encoded THEN Append(wire, seq) ELSE wire
        /\ seq' = Next1(encoded)
    /\ UNCHANGED <<role, coro, login, skipped, late, vars>>

\* send_seq_msg(): counted after the write, and whatever became of the login.
SendSequenced ==
    /\ role = "server" /\ transport # "none" /\ seq <= MaxSent
    /\ wire' = Append(wire, seq)
    /\ seq' = seq + 1
    /\ UNCHANGED <<role, coro, login, skipped, late, vars>>

\* logout() and end_session(): a farewell, then initiate_close().
Logout ==
    /\ role \in {"client", "server"}
    /\ AppInitiatesClose(FALSE)
    /\ UNCHANGED pvars

-----------------------------------------------------------------------------
(* The specification *)

\* What a session's own tasks do whatever its role.  on_close_coro is called
\* in the step before OnCloseReturns; an application session has its own.
TaskStep ==
    /\ \/ ReadEndOfSession \/ ReadMalformed \/ ReportDrained \/ ReaderEnds
       \/ (login # "asking" /\ HandlerReturns) \/ DispatcherEnds
       \/ LocalStopped \/ RemoteStopped \/ ReaderDrained \/ QueueDrained
       \/ DispatcherStopped \/ RecvStopped \/ ReaderStopped
       \/ (role # "app" /\ (OnCloseReturns \/ OnCloseCancelled))
       \/ Monitors \/ ReceiveEnds \/ RunClosingTask
       \/ (transport = "closing" /\ ConnectionLost)
    /\ UNCHANGED pvars

ClientDispatches ==
    /\ IsClient /\ role # "app"
    /\ DispatchNext
    /\ UNCHANGED pvars

\* The event loop, and coroutines of the application that return.
PSystem == \/ LoginTakes \/ LoginCut \/ LoginRejected \/ LoginRaises
           \/ (role # "app" /\ LoginAccepted(coro))
           \/ ServerTakes \/ ServerAccepts \/ ServerRefuses
           \/ MessageRead \/ ClientDispatches \/ TaskStep

\* The user of a session, the peer, the network and the monitors' timers.
PEnvironment ==
    \/ Connected \/ PeerSends \/ Login \/ SendFix \/ SendSequenced \/ Logout
    \/ /\ UNCHANGED pvars
       /\ \/ transport = "open" /\ ConnectionLost
          \/ RemoteMonitorTrips
          \/ /\ role # "app"
             /\ \/ IsClient /\ login = "accepted" /\ (ReceiveReturns \/ ReceiveBlocks)
                \/ \E d \in AppCloses : Close(d)

-----------------------------------------------------------------------------
(* Properties *)

\* Every variable has a value the code can give it.
PTypeOK ==
    /\ TypeOK
    /\ role \in Roles /\ coro \in BOOLEAN /\ late \in BOOLEAN
    /\ login \in {"none", "waiting", "replied", "closing", "asking", "accepted", "refused"}
    /\ seq \in Nat /\ skipped \in Nat /\ wire \in Seq(Nat)

\* When close() notifies, the session's tasks have ended, but for the one that
\* runs close() and the ones a late login starts: start_heartbeats() and
\* start_dispatching() do not ask.  A monitor and a reader that close end with
\* the call.  The dispatcher of a server that refuses a login does not: its
\* cancellation by itself is swallowed where close() awaits the next task, so
\* it may dispatch what is queued after close() has returned.  A login that
\* raises, or that a server refuses, has closed the session or found it
\* closing, and its heartbeats were never started.
QuietUnlessLate ==
    /\ notified > 0 /\ ~late =>
         /\ local \in {"none", "done"}
         /\ remote \in {"none", "done"} \/ closer = "monitor"
         /\ reader \in {"none", "done"} \/ (closer = "reader" /\ rstopped)
         /\ disp \in {"none", "done"} \/ (role = "server" /\ closer = "dispatcher")
    /\ login = "refused" => closed /\ local = "none" /\ remote = "none"

\* The number of the sequenced message with this id.
NumberOf(id) == Reply + id - 2

\* sequence, which the tools print next to each message, is never ahead of
\* what was read, and behind what was dispatched only by the messages read
\* before login() set it.
SequenceBracketed ==
    role \in {"client", "app"} /\ login = "accepted" =>
        /\ seq <= NumberOf(arrived - Len(buffer))
        /\ \A i \in DOMAIN delivered : NumberOf(delivered[i]) <= seq + skipped

\* A number goes out once; a soup server leaves none out.
OutboundNumbers ==
    /\ \A i, j \in DOMAIN wire : i < j => wire[i] < wire[j]
    /\ \A i \in DOMAIN wire : wire[i] < seq
    /\ role = "server" => Len(wire) = seq - 1

\* A login, also one that is repeated, never replaces monitors that run: the
\* session would forget them, and close() stops the ones it knows.
MonitorsNotReplaced ==
    [][login # "accepted" /\ login' = "accepted"
        => local # "running" /\ remote # "running"]_allvars

\* The drain of a close waits for a reader that has ended.
DrainIsStuck == drain = "on" /\ reader \in {"done", "failed"}

\* login() has no timeout of its own, but it returns or raises once the
\* session closes for whatever reason, unless the close itself hangs.
LoginReturns ==
    login \in {"waiting", "replied", "closing"} /\ ~IsActive
        ~> login \in {"accepted", "refused"} \/ DrainIsStuck

=============================================================================
