---------------------------- MODULE MCTxDispatcher ----------------------------
(* TxDispatcher for TLC. *)
EXTENDS TxDispatcher, TLC

Alike == Permutations(Jobs) \union Permutations(Processes)
=============================================================================
