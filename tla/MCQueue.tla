------------------------------ MODULE MCQueue ------------------------------
(***************************************************************************)
(* The safety run of the queue: its readers and its dispatchers are alike. *)
(***************************************************************************)
EXTENDS MessageQueue, TLC

Alike == Permutations(Readers) \union Permutations(Dispatchers)

=============================================================================
