---------------------------- MODULE MCSubprocesses ---------------------------
(* An instance of Subprocesses for TLC. *)
EXTENDS Subprocesses, TLC
=============================================================================
