----------------------------- MODULE MCSession -----------------------------
(***************************************************************************)
(* The runs of the session: what the module, its refinement of             *)
(* SessionContract and its inductive invariant state, in one place.        *)
(***************************************************************************)
EXTENDS SessionRefinement, SessionInvariant

\* Ways to call close(): not at all, without drain, with or without drain.
Never == {}
Plain == {FALSE}
Any == BOOLEAN

\* The frames a peer that behaves sends, and those a failing one may send.
WellBehaved == {"msg", "heartbeat"}
AnyFrame == {"msg", "end", "bad"}
OnlyMessages == {"msg"}
WithEnd == {"msg", "end"}

=============================================================================
