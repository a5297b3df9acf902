------------------------------ MODULE MCQueries ------------------------------
(***************************************************************************)
(* The components around the trades, each on a small instance.  They share *)
(* no state, so a behaviour uses one of them, the one that Init chooses,   *)
(* and leaves the others as they are: their product would add nothing.     *)
(***************************************************************************)
EXTENDS SolPools, Watching, ApiCache, EvmPools, Transfers, Names, Instructions

VARIABLE use

\* The holdings of a vault: two unequal reserves, and none.
HoldingsMC == {[token |-> 1, sol |-> 2], [token |-> 0, sol |-> 0]}

vars == <<use, poolsVars, watchingVars, cacheVars, evmPoolsVars, transferVars,
          nameVars, instructionVars>>

Uses == {"pools", "watch", "connect", "wait", "cache", "evmpools", "transfers", "names",
         "instructions"}

Init ==
  /\ use \in Uses
  /\ PoolsInit
  /\ use # "pools" => token = [origin |-> "pumpfun", side |-> "base"]
  /\ WatchingInit /\ CacheInit /\ EvmPoolsInit /\ TransfersInit /\ NamesInit
  /\ InstructionsInit

Pools_ == use = "pools" /\ PoolsNext
          /\ UNCHANGED <<use, watchingVars, cacheVars, evmPoolsVars, transferVars,
                         nameVars, instructionVars>>

NotWatching == UNCHANGED <<use, poolsVars, cacheVars, evmPoolsVars, transferVars,
                           nameVars, instructionVars>>
\* Watches of transactions that land and are abandoned, with one failure of the
\* network; and of transactions that never land, with MaxDrops of them.
Watch_ == use = "watch" /\ WatchersNext /\ drops' <= 1 /\ NotWatching
Connect_ == use = "connect" /\ UNCHANGED landVars /\ WatchersNext /\ NotWatching
Wait_ == use = "wait" /\ WaitersNext /\ NotWatching

Cache_ == use = "cache" /\ CacheNext
          /\ UNCHANGED <<use, poolsVars, watchingVars, evmPoolsVars, transferVars,
                         nameVars, instructionVars>>

EvmPools_ == use = "evmpools" /\ EvmPoolsNext
             /\ UNCHANGED <<use, poolsVars, watchingVars, cacheVars, transferVars,
                            nameVars, instructionVars>>

Transfers_ == use = "transfers" /\ TransfersNext
              /\ UNCHANGED <<use, poolsVars, watchingVars, cacheVars, evmPoolsVars,
                             nameVars, instructionVars>>

Names_ == use = "names" /\ NamesNext
          /\ UNCHANGED <<use, poolsVars, watchingVars, cacheVars, evmPoolsVars,
                         transferVars, instructionVars>>

Instructions_ == use = "instructions" /\ InstructionsNext
                 /\ UNCHANGED <<use, poolsVars, watchingVars, cacheVars, evmPoolsVars,
                                transferVars, nameVars>>

Next ==
  \/ Pools_ \/ Watch_ \/ Connect_ \/ Wait_ \/ Cache_
  \/ EvmPools_ \/ Transfers_ \/ Names_ \/ Instructions_

\* The fairness of Watching.
Fairness ==
  /\ \A w \in Watchers : WF_vars(use \in {"watch", "connect"} /\ WatcherStep(w) /\ NotWatching)
  /\ \A r \in Waiters : WF_vars(use = "wait" /\ WaiterStep(r) /\ NotWatching)

Spec == Init /\ [][Next]_vars /\ Fairness
=============================================================================
