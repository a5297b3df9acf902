------------------------------- MODULE Service -------------------------------
(***************************************************************************)
(* What a watcher promises to the code that owns it: a service that is     *)
(* launched at most once, whose workers all run while it is running, that  *)
(* is shut down at most once, and that counts as stopped only when every   *)
(* worker has gone.  Watcher.tla is shown to implement it.                 *)
(***************************************************************************)
CONSTANT Workers        \* the background loops the service is made of

VARIABLES phase,        \* where the service is in its life
          live          \* the workers that are running

vars == <<phase, live>>

Phases == {"pending", "running", "draining", "stopped"}

Init == phase = "pending" /\ live = {}

\* All workers start together, once.
Launch == /\ phase = "pending"
          /\ phase' = "running"
          /\ live' = Workers

\* The workers are told to go; none of them has to have gone yet.
Shutdown == /\ phase = "running"
            /\ phase' = "draining"
            /\ UNCHANGED live

\* A worker goes; only a shutdown makes one go.
Retire(w) == /\ phase = "draining"
             /\ w \in live
             /\ live' = live \ {w}
             /\ UNCHANGED phase

\* The shutdown is over.
Stop == /\ phase = "draining"
        /\ live = {}
        /\ phase' = "stopped"
        /\ UNCHANGED live

Next == Launch \/ Shutdown \/ Stop \/ \E w \in Workers : Retire(w)

\* A shutdown that has begun is completed.
Fairness == WF_vars(Stop) /\ \A w \in Workers : WF_vars(Retire(w))

Safety == Init /\ [][Next]_vars

Spec == Safety /\ Fairness
=============================================================================
