-------------------------- MODULE SoupAppInvariant --------------------------
(***************************************************************************)
(* The inductive invariant of the protocol sessions and of the application *)
(* sessions on top of them.  A login that starts tasks in a session that   *)
(* is closing breaks CloseInv, the invariant of close(); what the parts    *)
(* below say of it holds even then.                                        *)
(***************************************************************************)
EXTENDS SoupApp, SessionInvariant

\* close() has one place, and it says who closes and whether he has notified.
PlaceInv == InvUnconnected /\ InvCloser

\* Before a login is accepted the session has nothing but its reader, and the
\* dispatcher of a server; a login that fails leaves the session closed.
LoginInv ==
    /\ login # "none" => transport # "none"
    /\ login \in {"waiting", "replied", "closing"} => IsClient
    /\ login = "asking" => ~IsClient
    /\ late => login = "accepted"
    /\ login # "accepted" => local = "none" /\ remote = "none" /\ seq >= 1
    /\ IsClient /\ login # "accepted" => disp = "none" /\ ~dref
    /\ login = "waiting" /\ recv # "blocked" => closed
    /\ login \in {"closing", "refused"} => closed

\* The one handler that closes the session is the server's, which refuses a
\* login.
RefuserInv == closer = "dispatcher" => role = "server"

\* A soup client sends no numbered messages.
OutInv ==
    /\ OutboundNumbers
    /\ role \in {"client", "app"} => wire = <<>>

\* The application session exists from the accepted login on, and takes part
\* in close() where the soup session calls its on_close_coro.
AppInv ==
    /\ app # "none" <=> role = "app" /\ login = "accepted"
    /\ app = "none" => /\ adisp = "none" /\ arecv = "none" /\ aq = <<>> /\ taken = <<>>
                       /\ apc = "idle" /\ event = "none" /\ ~aclosed
    /\ adisp = "cancelled" => apc = "await_dispatcher"
    /\ apc # "idle" => closed /\ astopped /\ adisp \notin {"get", "handle"}
    /\ apc \in {"await_dispatcher", "await_recv", "user", "waits"} => cpc = "notify"
    /\ apc = "done" => cpc = "finished" /\ aclosed
    /\ apc = "interrupted" => cpc = "interrupted"
    /\ event = "set" => apc = "done"

\* What the soup session delivered after the reply went to the application.
GivenInv ==
    /\ role = "app" /\ login \in {"none", "waiting"} => delivered = <<>>
    /\ role = "app" /\ login = "replied" => Len(delivered) = 1
    /\ app # "none" => delivered # <<>> /\ taken \o aq = Selected(Tail(delivered), ForApp)

\* The frames that were read from the buffer b, n having arrived, and what is
\* left of it.
ReadOf(b, n) == n - Len(b)
Numbered(b, n) ==
    /\ Len(b) <= n
    /\ \A j \in DOMAIN b : b[j].id = ReadOf(b, n) + j /\ b[j].kind \in FrameKinds

Read == ReadOf(buffer, arrived)

\* The messages on_message() has counted, the answer to the login among them.
Counted == IF login = "accepted" THEN seq + skipped + 2 - Reply ELSE seq
Countable == IF Read = 0 THEN 1 ELSE Read

\* The reader reads no more: it has stopped, or closes the session.
ReaderOver == rstopped \/ closer = "reader"
OverInv == closer = "reader" /\ cpc \in FromReader => rstopped

\* The answer to the login, and what is queued or delivered, was read.
ReadInv ==
    /\ Numbered(buffer, arrived)
    /\ delivered \o queue # <<>> => Read > 0
    /\ IsClient /\ login \in {"replied", "accepted"} => Read > 0

\* Until an EndOfSession stops the reader, every frame it has read is counted;
\* no message is given on before it is.  (Ids number the frames, so this is
\* about a peer whose heartbeats are left out.)
CountInv ==
    role \in {"client", "app"} /\ "heartbeat" \notin FrameKinds =>
        /\ Counted <= Countable
        /\ ~ReaderOver => Counted = Countable
        /\ \A i \in DOMAIN (delivered \o queue) : (delivered \o queue)[i] <= Counted

\* A login that comes too late is the only thing that upsets close(), and it
\* upsets neither a drain nor the order of the messages.
AInv ==
    /\ ATypeOK
    /\ PlaceInv /\ (~late => CloseInv) /\ InvDrain /\ InvOrder
    /\ LoginInv /\ RefuserInv /\ OutInv /\ AppInv /\ GivenInv
    /\ OverInv /\ ReadInv /\ CountInv

=============================================================================
