------------------------- MODULE SessionRefinement -------------------------
(***************************************************************************)
(* The session implements SessionContract.                                 *)
(***************************************************************************)
EXTENDS Session, Selection

\* The messages among the frames that the reader has not taken.
Unread == Selected(buffer, [kind : {"msg"}, id : Nat])
Ids(frames) == [i \in DOMAIN frames |-> frames[i].id]

Phase == CASE notified > 0 -> "closed"
           [] notified = 0 /\ closed /\ drainArg -> "draining"
           [] notified = 0 /\ closed /\ ~drainArg -> "closing"
           [] OTHER -> "open"
Backlog == queue \o Ids(Unread)

Contract == INSTANCE SessionContract WITH
    Message <- 1..MaxFrames,
    phase <- Phase,
    backlog <- Backlog,
    taken <- delivered

\* The session takes, closes and drains as SessionContract says, and only so:
\* nothing is lost, repeated or reordered between the wire and the handler.
ContractSafety == Contract!CSafeSpec

\* ... and, with a peer that neither ends the session nor garbles a frame and
\* a handler that does not wait for a drain, every close completes.
ContractLiveness == Contract!CSpec

=============================================================================
