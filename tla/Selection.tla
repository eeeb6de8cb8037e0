----------------------------- MODULE Selection -----------------------------
(***************************************************************************)
(* The elements of a sequence that belong to a set, in their order.  This  *)
(* is SelectSeq with a set for its test, as a function that can be         *)
(* reasoned about.                                                         *)
(***************************************************************************)
EXTENDS Integers, Sequences

Selected(s, S) ==
    LET upTo[n \in 0..Len(s)] ==
            IF n = 0 THEN <<>>
            ELSE IF s[n] \in S THEN Append(upTo[n - 1], s[n]) ELSE upTo[n - 1]
    IN  upTo[Len(s)]

=============================================================================
