------------------------------ MODULE MCWatcher ------------------------------
(* Instances of Watcher for TLC. *)
EXTENDS Watcher, TLC

Threads == Permutations(Callers) \union Permutations(Readers)
=============================================================================
