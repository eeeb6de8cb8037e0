-------------------------- MODULE SessionInvariant --------------------------
(***************************************************************************)
(* The inductive invariant of Session.  close() stops one thing after the  *)
(* other; each part below says what holds from one of its awaits on.       *)
(***************************************************************************)
EXTENDS Session

\* The awaits of close() from the one that stops ... on.
FromNotify == {"notify", "finished", "interrupted"}
FromReader == {"await_reader", "aborted"} \union FromNotify
FromRecv == {"await_recv"} \union FromReader
FromQueue == {"await_dispatcher"} \union FromRecv
FromDrain == {"await_drained", "poll_queue"} \union FromQueue
FromRemote == {"await_remote"} \union FromDrain

\* Before the connection is made nothing has started.
InvUnconnected ==
    transport = "none" =>
        /\ cpc = "idle" /\ ctask = "none" /\ ~rstopped
        /\ \A t \in {reader, disp, local, remote, recv} : t = "none"

\* close() is entered once, and its place says whether it has notified.
InvCloser ==
    /\ closed <=> cpc # "idle"
    /\ closer = "none" <=> cpc = "idle"
    /\ notified = IF cpc \in FromNotify THEN 1 ELSE 0
    /\ closed => transport # "open"

InvMonitors ==
    /\ local = "cancelled" => cpc = "await_local"
    /\ remote = "cancelled" => cpc = "await_remote"
    /\ cpc \in FromRemote => local \in {"none", "done"}
    /\ cpc \in FromDrain => remote \in {"none", "done"} \/ closer = "monitor"

InvDispatcher ==
    /\ cpc \in FromQueue <=> qclosed
    /\ ~qclosed => IF dref THEN disp \in {"get", "handle"} ELSE disp = "none"
    /\ cpc = "await_dispatcher" => dref /\ disp \in {"cancelled", "done"}
    /\ cpc \in FromRecv => ~dref /\ (disp \in {"none", "done"} \/ closer = "dispatcher")

InvReader ==
    /\ recv = "cancelled" => cpc = "await_recv"
    /\ reader = "cancelled" => cpc = "await_reader"
    /\ rstopped => reader = "done" \/ closer = "reader"
    /\ cpc \in FromNotify => rstopped

\* Nothing is left once the drain is over, and nothing new can come.
InvDrain ==
    /\ drain # "off" => cpc \in {"await_drained", "poll_queue"}
    /\ drain = "set" \/ cpc = "poll_queue" => buffer = <<>>
    /\ drainArg /\ cpc \in FromQueue => buffer = <<>> /\ queue = <<>>

InvOrder ==
    /\ Ascending(delivered \o queue)
    /\ \A i \in DOMAIN (delivered \o queue), j \in DOMAIN buffer :
          (delivered \o queue)[i] < buffer[j].id
    /\ \A i \in DOMAIN (delivered \o queue) : (delivered \o queue)[i] <= arrived
    /\ \A i, j \in DOMAIN buffer : i < j => buffer[i].id < buffer[j].id
    /\ \A j \in DOMAIN buffer : buffer[j].id <= arrived

\* close() stops what it says, in its order, when start_*() is called only on
\* an active session.
CloseInv == InvUnconnected /\ InvCloser /\ InvMonitors /\ InvDispatcher /\ InvReader

\* A closer never leaves a step out that a later one relies on: the inductive
\* invariant of the session.
IInv == TypeOK /\ CloseInv /\ InvDrain /\ InvOrder

=============================================================================
