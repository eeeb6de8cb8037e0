----------------------------- MODULE MCSoupApp -----------------------------
(***************************************************************************)
(* The runs of the sessions of SoupBinTCP and FIX and of the application   *)
(* sessions: every role, with a peer that may end the session.             *)
(***************************************************************************)
EXTENDS SoupAppInvariant

AllRoles == {"client", "server", "fix", "app"}
MessagesAndEnd == {"msg", "end", "bad"}
Never == {}
Plain == {FALSE}
ThirdIsUndecodable == {3}

=============================================================================
