-------------------------- MODULE SessionContract --------------------------
(***************************************************************************)
(* What an AsyncSession promises its application: messages are taken in    *)
(* the order they arrived, each at most once; the session closes once; a   *)
(* draining close completes only when every message has been taken; and a  *)
(* close that began completes.                                             *)
(***************************************************************************)
EXTENDS Naturals, Sequences

CONSTANT Message

VARIABLES
    phase,      \* "open", "closing", "draining", "closed"
    backlog,    \* messages that arrived and were not taken
    taken       \* messages the application has taken

cvars == <<phase, backlog, taken>>

CInit == phase = "open" /\ backlog = <<>> /\ taken = <<>>

Arrive ==
    /\ phase = "open"
    /\ \E m \in Message : backlog' = Append(backlog, m)
    /\ UNCHANGED <<phase, taken>>

\* A handler that does not suspend is given several messages in one step.
Take ==
    /\ \E n \in 1..Len(backlog) :
          /\ taken' = taken \o SubSeq(backlog, 1, n)
          /\ backlog' = SubSeq(backlog, n + 1, Len(backlog))
    /\ UNCHANGED phase

BeginToClose ==
    /\ phase = "open"
    /\ phase' \in {"closing", "draining", "closed"}
    /\ UNCHANGED <<backlog, taken>>

FinishClose ==
    /\ \/ phase = "closing"
       \/ phase = "draining" /\ backlog = <<>>
    /\ phase' = "closed"
    /\ UNCHANGED <<backlog, taken>>

CNext == Arrive \/ Take \/ BeginToClose \/ FinishClose

CSafeSpec == CInit /\ [][CNext]_cvars
CSpec ==
    /\ CSafeSpec
    /\ WF_cvars(FinishClose)
    /\ WF_cvars(phase = "draining" /\ Take)

=============================================================================
