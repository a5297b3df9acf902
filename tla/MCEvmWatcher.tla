---------------------------- MODULE MCEvmWatcher -----------------------------
(* An instance of EvmWatcher for TLC. *)
EXTENDS EvmWatcher, TLC

Threads == Permutations(Callers) \union Permutations(Readers)
=============================================================================
