------------------------------- MODULE Watching ------------------------------
(***************************************************************************)
(* Waiting for a transaction: WatchTransaction and WsReconnect of          *)
(* sol/solana.go, WaitReceipt of evm/evm.go.                               *)
(*                                                                         *)
(* All watches of a Solana share s.client, a plain pointer.  WsReconnect   *)
(* replaces it without a lock, some time after it has made the connection, *)
(* so a goroutine that reads it may find any connection written since its  *)
(* own last write, and connections that are replaced stay open.  A         *)
(* signature is watched at the commitment "processed", whose block may     *)
(* still be abandoned.                                                     *)
(***************************************************************************)
EXTENDS Naturals, FiniteSets

CONSTANTS
  Watchers,     \* goroutines in WatchTransaction, each with its transaction
  Waiters,      \* goroutines in WaitReceipt, each with its transaction
  MaxDrops,     \* bound: how often the network fails a connection
  MaxMade       \* bound: connections there are, enough never to be used up

\* How many connections that many failures can cost: each makes every watcher
\* reconnect, and again for the broken connection that any other watcher had
\* made and not yet stored.
Cost(failures) == failures * Cardinality(Watchers) * Cardinality(Watchers)

ASSUME WatchingAssumption ==
  /\ IsFiniteSet(Watchers)
  /\ MaxDrops \in Nat
  /\ MaxMade \in Nat /\ MaxMade > 1 + Cost(MaxDrops)

Connections == 1 .. MaxMade

Outcomes == {"ok", "InstructionError", "other", "text"}
Told == {"nothing", "success", "ErrInstructionFailed", "ErrTransactionFailed",
         "timeout", "connection"}

VARIABLES
  node,         \* whether the websocket server can be reached
  link,         \* link[k]: "unmade", "up" or "down"
  drops,        \* how often the network failed
  visible,      \* visible[w]: the connections w may find in s.client
  watch,        \* watch[w]: where the call of w is
  heldBy,       \* heldBy[w]: the connection its subscription is on, or the one
                \* it has made and not stored
  since,        \* history: since[w]: drops when it subscribed
  landed,       \* landed[w]: the outcome of its transaction, or "no"
  undone,       \* history: undone[w]: its outcome in a block that was abandoned
  told,         \* told[w]: how its last call ended; "nothing" while one runs
  panicked,     \* the program has died of a panic
  wait,         \* wait[r]: where the call of r is
  cut,          \* cut[r]: the connection of its subscription is gone
  log,          \* log[r]: the log of its transaction: "none", "sent", "missed"
  heard         \* heard[r]: what r was told

nodeVars == <<node, link, drops>>
landVars == <<landed, undone>>
watchVars == <<visible, watch, heldBy, since, told, panicked>>
waitVars == <<wait, cut, log, heard>>
watchingVars == <<nodeVars, landVars, watchVars, waitVars>>

WatchingInit ==
  /\ node = "up"
  /\ link = [k \in Connections |-> IF k = 1 THEN "up" ELSE "unmade"]
  /\ drops = 0
  /\ visible = [w \in Watchers |-> {1}]
  /\ watch = [w \in Watchers |-> "idle"]
  /\ heldBy = [w \in Watchers |-> 0]
  /\ since = [w \in Watchers |-> 0]
  /\ landed = [w \in Watchers |-> "no"]
  /\ undone = [w \in Watchers |-> "no"]
  /\ told = [w \in Watchers |-> "nothing"]
  /\ panicked = FALSE
  /\ wait = [r \in Waiters |-> "idle"]
  /\ cut = [r \in Waiters |-> FALSE]
  /\ log = [r \in Waiters |-> "none"]
  /\ heard = [r \in Waiters |-> "nothing"]

-----------------------------------------------------------------------------
(* The network and the chain.                                              *)

\* Some connections break, or the server goes and takes all with it.
Drop ==
  /\ ~panicked
  /\ drops < MaxDrops
  /\ drops' = drops + 1
  /\ \E broken \in SUBSET {k \in Connections : link[k] = "up"} :
       /\ \/ broken # {} /\ node' = node
          \/ node = "up" /\ node' = "away" /\ \A k \in Connections : link[k] = "up" => k \in broken
       /\ link' = [k \in Connections |-> IF k \in broken THEN "down" ELSE link[k]]
  /\ UNCHANGED <<landVars, watchVars, waitVars>>

NodeBack ==
  /\ ~panicked
  /\ node = "away"
  /\ node' = "up"
  /\ UNCHANGED <<link, drops, landVars, watchVars, waitVars>>

\* A block with the transaction becomes the head.
Lands(w) ==
  /\ ~panicked
  /\ landed[w] = "no"
  /\ \E o \in Outcomes : landed' = [landed EXCEPT ![w] = o]
  /\ UNCHANGED <<undone, nodeVars, watchVars, waitVars>>

\* Blocks are abandoned, with some of the transactions; a bound: only once.
Abandoned ==
  /\ ~panicked
  /\ \A w \in Watchers : undone[w] = "no"
  /\ \E lost \in SUBSET {w \in Watchers : landed[w] # "no"} :
       /\ lost # {}
       /\ undone' = [w \in Watchers |-> IF w \in lost THEN landed[w] ELSE "no"]
       /\ landed' = [w \in Watchers |-> IF w \in lost THEN "no" ELSE landed[w]]
  /\ UNCHANGED <<nodeVars, watchVars, waitVars>>

-----------------------------------------------------------------------------
(* WatchTransaction and WsReconnect.                                       *)

WatchStart(w) ==
  /\ ~panicked
  /\ watch[w] = "idle"
  /\ watch' = [watch EXCEPT ![w] = "subscribing"]
  /\ told' = [told EXCEPT ![w] = "nothing"]
  /\ UNCHANGED <<nodeVars, landVars, visible, heldBy, since, panicked, waitVars>>

\* SignatureSubscribe on whatever connection s.client shows.
Subscribed(w) ==
  /\ ~panicked
  /\ watch[w] = "subscribing"
  /\ \E k \in visible[w] :
       /\ link[k] = "up"
       /\ heldBy' = [heldBy EXCEPT ![w] = k]
  /\ since' = [since EXCEPT ![w] = drops]
  /\ watch' = [watch EXCEPT ![w] = "receiving"]
  /\ UNCHANGED <<nodeVars, landVars, visible, told, panicked, waitVars>>

\* Mutant of SubscribeFails: it subscribes again without a new connection.
SubscribeFailsAgain(w) ==
  /\ ~panicked
  /\ watch[w] = "subscribing"
  /\ \E k \in visible[w] : link[k] # "up"
  /\ UNCHANGED watchingVars

SubscribeFails(w) ==
  /\ ~panicked
  /\ watch[w] = "subscribing"
  /\ \E k \in visible[w] : link[k] # "up"
  /\ watch' = [watch EXCEPT ![w] = "connecting"]
  /\ UNCHANGED <<nodeVars, landVars, visible, heldBy, since, told, panicked, waitVars>>

\* The request fails on a connection that is up, which counts as a failure of
\* the network.
SubscribeRefused(w) ==
  /\ ~panicked
  /\ watch[w] = "subscribing"
  /\ \E k \in visible[w] : link[k] = "up"
  /\ drops < MaxDrops
  /\ drops' = drops + 1
  /\ watch' = [watch EXCEPT ![w] = "connecting"]
  /\ UNCHANGED <<node, link, landVars, visible, heldBy, since, told, panicked, waitVars>>

\* ws.Connect, repeated until it works: a connection that was not made yet.
Dials(w) ==
  /\ ~panicked
  /\ watch[w] = "connecting"
  /\ node = "up"
  /\ \E k \in Connections :
       /\ link[k] = "unmade" /\ \A j \in 1 .. k - 1 : link[j] # "unmade"
       /\ link' = [link EXCEPT ![k] = "up"]
       /\ heldBy' = [heldBy EXCEPT ![w] = k]
  /\ watch' = [watch EXCEPT ![w] = "storing"]
  /\ UNCHANGED <<node, drops, landVars, visible, since, told, panicked, waitVars>>

\* The new connection is in s.client: for w nothing older is visible.
Replaced(w, k) ==
  visible' = [v \in Watchers |-> IF v = w THEN {k} ELSE visible[v] \union {k}]

\* Mutant of Stores: the connection that is replaced is closed.
StoresAndCloses(w) ==
  /\ ~panicked
  /\ watch[w] = "storing"
  /\ Replaced(w, heldBy[w])
  /\ link' = [k \in Connections |->
                IF k \in visible[w] \ {heldBy[w]} /\ link[k] = "up" THEN "down" ELSE link[k]]
  /\ heldBy' = [heldBy EXCEPT ![w] = 0]
  /\ watch' = [watch EXCEPT ![w] = "subscribing"]
  /\ UNCHANGED <<node, drops, landVars, since, told, panicked, waitVars>>

\* Mutant of Stores: s.client is not assigned.
StoresNothing(w) ==
  /\ ~panicked
  /\ watch[w] = "storing"
  /\ heldBy' = [heldBy EXCEPT ![w] = 0]
  /\ watch' = [watch EXCEPT ![w] = "subscribing"]
  /\ UNCHANGED <<nodeVars, landVars, visible, since, told, panicked, waitVars>>

\* s.client = conn, whatever became of the connection meanwhile.
Stores(w) ==
  /\ ~panicked
  /\ watch[w] = "storing"
  /\ Replaced(w, heldBy[w])
  /\ heldBy' = [heldBy EXCEPT ![w] = 0]
  /\ watch' = [watch EXCEPT ![w] = "subscribing"]
  /\ UNCHANGED <<nodeVars, landVars, since, told, panicked, waitVars>>

\* The call returns; the deferred Unsubscribe leaves the connection open.
WatchEnds(w, how) ==
  /\ ~panicked
  /\ watch[w] = "receiving"
  /\ watch' = [watch EXCEPT ![w] = "idle"]
  /\ heldBy' = [heldBy EXCEPT ![w] = 0]
  /\ since' = [since EXCEPT ![w] = 0]
  /\ told' = [told EXCEPT ![w] = how]
  /\ UNCHANGED <<nodeVars, landVars, visible, panicked, waitVars>>

\* What is made of the error of a transaction that landed.
Verdict(outcome) ==
  CASE outcome = "ok" -> "success"
    [] outcome = "InstructionError" -> "ErrInstructionFailed"
    [] OTHER -> "ErrTransactionFailed"

\* The notification; the type assertion on an error that is a text panics.
Received(w) ==
  /\ watch[w] = "receiving"
  /\ landed[w] \in Outcomes \ {"text"}
  /\ link[heldBy[w]] = "up"
  /\ WatchEnds(w, Verdict(landed[w]))

ReceivedText(w) ==
  /\ ~panicked
  /\ watch[w] = "receiving"
  /\ landed[w] = "text"
  /\ link[heldBy[w]] = "up"
  /\ panicked' = TRUE
  /\ UNCHANGED <<nodeVars, landVars, visible, watch, heldBy, since, told, waitVars>>

TimedOut(w) == WatchEnds(w, "timeout")

\* The error of a subscription whose connection is gone.
ConnectionLost(w) ==
  /\ watch[w] = "receiving"
  /\ link[heldBy[w]] # "up"
  /\ WatchEnds(w, "connection")

-----------------------------------------------------------------------------
(* WaitReceipt, which shares nothing with the rest: only the subscription  *)
(* is under the timeout.                                                   *)

WaitStart(r) ==
  /\ wait[r] = "idle"
  /\ wait' = [wait EXCEPT ![r] = "subscribing"]
  /\ UNCHANGED <<nodeVars, landVars, watchVars, cut, log, heard>>

\* Logs from before the subscription are not sent.
WaitSubscribed(r) ==
  /\ wait[r] = "subscribing"
  /\ wait' = [wait EXCEPT ![r] = "waiting"]
  /\ cut' = [cut EXCEPT ![r] = FALSE]
  /\ log' = [log EXCEPT ![r] = IF @ = "none" THEN "none" ELSE "missed"]
  /\ UNCHANGED <<nodeVars, landVars, watchVars, heard>>

WaitEnds(r, how) ==
  /\ wait' = [wait EXCEPT ![r] = "idle"]
  /\ heard' = [heard EXCEPT ![r] = how]
  /\ UNCHANGED <<nodeVars, landVars, watchVars, cut, log>>

\* The error of SubscribeFilterLogs, its timeout included.
WaitRefused(r) ==
  /\ wait[r] = "subscribing"
  /\ WaitEnds(r, "error")

\* sub.Err(), which yields nothing while the connection is up.
WaitBroken(r) ==
  /\ wait[r] = "waiting" /\ cut[r]
  /\ WaitEnds(r, "error")

\* A log with the right transaction hash; others are passed over.
WaitHeard(r) ==
  /\ wait[r] = "waiting" /\ log[r] = "sent"
  /\ WaitEnds(r, "receipt")

\* The connection of the EVM client breaks.
WireBreaks ==
  /\ cut' = [r \in Waiters |-> cut[r] \/ wait[r] = "waiting"]
  /\ cut' # cut
  /\ UNCHANGED <<nodeVars, landVars, watchVars, wait, log, heard>>

\* A transaction is mined that has a log; one without never shows.
Logs(r) ==
  /\ log[r] = "none"
  /\ log' = [log EXCEPT ![r] = IF wait[r] = "waiting" /\ ~cut[r] THEN "sent" ELSE "missed"]
  /\ UNCHANGED <<nodeVars, landVars, watchVars, wait, cut, heard>>

-----------------------------------------------------------------------------
WatcherStep(w) ==
  \/ Subscribed(w) \/ SubscribeFails(w) \/ Dials(w) \/ Stores(w)
  \/ Received(w) \/ ReceivedText(w) \/ TimedOut(w) \/ ConnectionLost(w)

WaiterStep(r) == WaitSubscribed(r) \/ WaitRefused(r) \/ WaitBroken(r) \/ WaitHeard(r)

WatchersNext ==
  \/ Drop \/ NodeBack \/ Abandoned
  \/ \E w \in Watchers :
       \/ Lands(w) \/ WatchStart(w) \/ SubscribeRefused(w) \/ WatcherStep(w)

WaitersNext ==
  \/ WireBreaks
  \/ \E r \in Waiters : WaitStart(r) \/ Logs(r) \/ WaiterStep(r)

WatchingNext == WatchersNext \/ WaitersNext

\* Goroutines run and timers fire.  The server need not come back.
WatchingFairness ==
  /\ \A w \in Watchers : WF_watchingVars(WatcherStep(w))
  /\ \A r \in Waiters : WF_watchingVars(WaiterStep(r))

WatchingSpec == WatchingInit /\ [][WatchingNext]_watchingVars /\ WatchingFairness

-----------------------------------------------------------------------------
\* The outcomes the transaction of w has or had in a block that was the head.
Seen(w) == {landed[w], undone[w]}

\* Whatever connection the watchers found in s.client and whoever replaced it
\* meanwhile: what a caller is told of its transaction was true of a block that
\* was the head, so it stands unless that block has been abandoned since (the
\* watch is at the commitment "processed"); a subscription finds its connection
\* down only if the network has failed since it was made, whatever connections
\* others have put in the place of its own; only a textual error kills the
\* program; and a receipt is reported only of a transaction that was mined.
WatchTold ==
  /\ \A w \in Watchers :
       /\ told[w] = "success" => "ok" \in Seen(w)
       /\ told[w] = "ErrInstructionFailed" => "InstructionError" \in Seen(w)
       /\ told[w] = "ErrTransactionFailed" => "other" \in Seen(w)
       /\ watch[w] = "receiving" => link[heldBy[w]] = "up" \/ drops > since[w]
  /\ panicked => \E w \in Watchers : "text" \in Seen(w)
  /\ \A r \in Waiters : heard[r] = "receipt" => log[r] # "none"

\* The connections that were ever made; none of them is ever closed.
Made == {k \in Connections : link[k] # "unmade"}

\* WsReconnect leaves every connection it replaces open, but how many it makes
\* is bounded by how often the network failed: a watcher does not go on making
\* connections because others replace the one it has made.
ConnectionsBounded == Cardinality(Made) <= 1 + Cost(drops)

\* A watch returns, although connections break and are replaced under it,
\* unless the server goes away: then it reconnects for as long as that lasts,
\* whatever its Duration.  A wait for a receipt returns once its log has been
\* sent to it or its connection has broken; if neither happens it need not.
WatchReturns ==
  /\ \A w \in Watchers : watch[w] # "idle" ~> watch[w] = "idle" \/ panicked \/ node = "away"
  /\ \A r \in Waiters :
       (wait[r] = "waiting" /\ (log[r] = "sent" \/ cut[r])) ~> wait[r] = "idle"
=============================================================================
