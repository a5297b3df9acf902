------------------------------- MODULE Watcher -------------------------------
(***************************************************************************)
(* The background watcher of a network (sol/watcher.go, evm/watcher.go).   *)
(*                                                                         *)
(* Start and Close are the same code in both packages: a life-cycle state  *)
(* guarded by stateMu, a context that Close cancels, and a WaitGroup of    *)
(* loops that Close waits for while it still holds stateMu.  The loops are *)
(* those of sol/watcher.go: each waits for its interval or for the         *)
(* cancellation, asks the RPC server, and publishes the answer under a     *)
(* read-write lock of its own.  (The loops of evm/watcher.go never run,    *)
(* see EvmWatcher.)                                                        *)
(*                                                                         *)
(* Time is kept as ages that stop counting when nothing can tell larger    *)
(* values apart, so the state space is finite without a horizon.           *)
(***************************************************************************)
EXTENDS Naturals, FiniteSets

CONSTANTS
  Callers,        \* threads of the application that call Start and Close
  Readers,        \* threads of the application that call the getters
  NoOne,          \* "no thread" and "no feed"
  InitState,      \* the state the package's NewWatcher leaves the watcher in
  Getters,        \* the feeds the package has a getter for
  Feeds,          \* the feeds Start spawns a loop for: sol leaves "hash" out
                  \* when withBlockHash is false
  MaxAge,         \* 3000 ms: the age up to which a block hash is handed out
  MaxLatency      \* bound: the age an answer may have reached when published

States == {"unset", "pending", "open", "closed"}

ASSUME WatcherAssumption ==
  /\ NoOne \notin Callers \union Getters
  /\ Feeds \subseteq Getters
  /\ InitState \in {"unset", "pending"}
  /\ MaxAge \in Nat
  /\ MaxLatency \in Nat

VARIABLES
  state,        \* w.state; "unset" is the zero value no constant names
  stateMu,      \* the thread that holds w.stateMu across a blocking wait
  ctxDone,      \* w.cancel() has been called
  pc,           \* what each caller is doing
  ret,          \* how each caller's last call ended
  wins,         \* history: how many calls have reported each kind of success
  loop,         \* where each loop is
  published,    \* w.price and w.hash: "zero", "fetched", or "torn" (half written)
  sinceUpdate,  \* time.Since(w.hashUpdatedAt)
  blockAge,     \* history: how long ago the server produced w.hash
  flight,       \* history: how long ago the server produced the pending answer
  reading,      \* the feed each reader holds the read lock of
  handed        \* history: what each reader's last getter returned

callerVars == <<state, stateMu, ctxDone, pc, ret, wins>>
ageVars    == <<sinceUpdate, blockAge>>
readerVars == <<reading, handed>>
vars == <<callerVars, loop, published, ageVars, flight, readerVars>>

\* Saturates: ages beyond what the getters and the properties tell apart are
\* one.  The code's time.Since has no such bound.
Older(age, cap) == IF age < cap THEN age + 1 ELSE age

MaxBlockAge == MaxAge + MaxLatency

\* What a Start and a Close report when they have done their work.
Successes == {"started", "closed"}

\* A goroutine counted by w.subprocesses' WaitGroup.
Running(f) == loop[f] \notin {"idle", "exited"}

Init ==
  /\ state = InitState
  /\ stateMu = NoOne
  /\ ctxDone = FALSE
  /\ pc = [c \in Callers |-> "idle"]
  /\ ret = [c \in Callers |-> "none"]
  /\ wins = [how \in Successes |-> 0]
  /\ loop = [f \in Feeds |-> "idle"]
  /\ published = [f \in Feeds |-> "zero"]
  /\ sinceUpdate = MaxAge + 1
  /\ blockAge = MaxBlockAge + 1
  /\ flight = 0
  /\ reading = [r \in Readers |-> NoOne]
  /\ handed = [r \in Readers |-> <<NoOne, "nothing">>]

-----------------------------------------------------------------------------
(* Start and Close.  Nothing but Start and Close takes stateMu, and only   *)
(* the wait in Close blocks while holding it, so the rest of each body is  *)
(* one step.                                                               *)

Call(c) ==
  /\ pc[c] = "idle"
  /\ \E at \in {"starting", "closing"} : pc' = [pc EXCEPT ![c] = at]
  /\ UNCHANGED <<state, stateMu, ctxDone, ret, wins, loop, published, ageVars, flight, readerVars>>

Return(c, how) ==
  /\ pc' = [pc EXCEPT ![c] = "idle"]
  /\ ret' = [ret EXCEPT ![c] = how]
  /\ wins' = [w \in Successes |-> IF w = how THEN wins[w] + 1 ELSE wins[w]]

\* The price loop queries before it waits, the hash loop waits first.
FirstStep(f) == IF f = "price" THEN "rpc" ELSE "select"

\* Mutant of StartOpens: the state is not advanced.
StartOpensStaysPending(c) ==
  /\ pc[c] = "starting"
  /\ stateMu = NoOne
  /\ state = "pending"
  /\ loop' = [f \in Feeds |-> FirstStep(f)]
  /\ Return(c, "started")
  /\ UNCHANGED <<state, stateMu, ctxDone, published, ageVars, flight, readerVars>>

StartOpens(c) ==
  /\ pc[c] = "starting"
  /\ stateMu = NoOne
  /\ state = "pending"
  /\ state' = "open"
  /\ loop' = [f \in Feeds |-> FirstStep(f)]
  /\ Return(c, "started")
  /\ UNCHANGED <<stateMu, ctxDone, published, ageVars, flight, readerVars>>

\* A refused Start unlocks stateMu first and then, because succeed is still
\* false, runs its deferred w.Close().
StartRefused(c) ==
  /\ pc[c] = "starting"
  /\ stateMu = NoOne
  /\ state # "pending"
  /\ pc' = [pc EXCEPT ![c] = "cleanup"]
  /\ UNCHANGED <<state, stateMu, ctxDone, ret, wins, loop, published, ageVars, flight, readerVars>>

\* A refused Start reports its own error, whatever its deferred Close did.
CloseRefused(c) ==
  /\ pc[c] \in {"closing", "cleanup"}
  /\ stateMu = NoOne
  /\ state # "open"
  /\ Return(c, IF pc[c] = "cleanup" THEN "startError" ELSE "closeError")
  /\ UNCHANGED <<state, stateMu, ctxDone, loop, published, ageVars, flight, readerVars>>

\* Mutant of CloseBegins: stateMu is released before the wait.
CloseBeginsUnlocked(c) ==
  /\ pc[c] \in {"closing", "cleanup"}
  /\ stateMu = NoOne
  /\ state = "open"
  /\ state' = "closed"
  /\ ctxDone' = TRUE
  /\ pc' = [pc EXCEPT ![c] = IF @ = "cleanup" THEN "cleanupWait" ELSE "closeWait"]
  /\ UNCHANGED <<stateMu, ret, wins, loop, published, ageVars, flight, readerVars>>

\* Mutant of CloseBegins: the state is not advanced.
CloseBeginsStaysOpen(c) ==
  /\ pc[c] \in {"closing", "cleanup"}
  /\ stateMu = NoOne
  /\ state = "open"
  /\ ctxDone' = TRUE
  /\ stateMu' = c
  /\ pc' = [pc EXCEPT ![c] = IF @ = "cleanup" THEN "cleanupWait" ELSE "closeWait"]
  /\ UNCHANGED <<state, ret, wins, loop, published, ageVars, flight, readerVars>>

CloseBegins(c) ==
  /\ pc[c] \in {"closing", "cleanup"}
  /\ stateMu = NoOne
  /\ state = "open"
  /\ state' = "closed"
  /\ ctxDone' = TRUE
  /\ stateMu' = c
  /\ pc' = [pc EXCEPT ![c] = IF @ = "cleanup" THEN "cleanupWait" ELSE "closeWait"]
  /\ UNCHANGED <<ret, wins, loop, published, ageVars, flight, readerVars>>

\* Mutant of CloseEnds: no subprocesses.Wait().
CloseEndsAtOnce(c) ==
  /\ pc[c] \in {"closeWait", "cleanupWait"}
  /\ stateMu' = NoOne
  /\ Return(c, IF pc[c] = "cleanupWait" THEN "startError" ELSE "closed")
  /\ UNCHANGED <<state, ctxDone, loop, published, ageVars, flight, readerVars>>

CloseEnds(c) ==
  /\ pc[c] \in {"closeWait", "cleanupWait"}
  /\ \A f \in Feeds : ~Running(f)
  /\ stateMu' = NoOne
  /\ Return(c, IF pc[c] = "cleanupWait" THEN "startError" ELSE "closed")
  /\ UNCHANGED <<state, ctxDone, loop, published, ageVars, flight, readerVars>>

-----------------------------------------------------------------------------
(* The loops.                                                              *)

Goto(f, from, to) ==
  /\ loop[f] = from
  /\ loop' = [loop EXCEPT ![f] = to]

\* case <-time.After(interval); it may win although the context is done.
IntervalOver(f) ==
  /\ Goto(f, "select", "rpc")
  /\ UNCHANGED <<callerVars, published, ageVars, flight, readerVars>>

\* Mutant of LoopExits: the price loop does not select on the context.
LoopExitsHashOnly(f) ==
  /\ ctxDone
  /\ f # "price"
  /\ Goto(f, "select", "exited")
  /\ UNCHANGED <<callerVars, published, ageVars, flight, readerVars>>

\* case <-w.ctx.Done()
LoopExits(f) ==
  /\ ctxDone
  /\ Goto(f, "select", "exited")
  /\ UNCHANGED <<callerVars, published, ageVars, flight, readerVars>>

\* The server produces an answer; it then travels, and waits for the lock.
\* The price is asked for under w.ctx, the hash under context.Background().
RpcAnswered(f) ==
  /\ f = "price" => ~ctxDone
  /\ Goto(f, "rpc", "answered")
  /\ flight' = IF f = "hash" THEN 0 ELSE flight
  /\ UNCHANGED <<callerVars, published, ageVars, readerVars>>

\* Mutant of RpcFailed: an error ends the loop.
RpcFailedExits(f) ==
  /\ Goto(f, "rpc", "exited") \/ Goto(f, "answered", "exited")
  /\ UNCHANGED <<callerVars, published, ageVars, flight, readerVars>>

\* The call fails, before or after the server produced its answer; the last
\* published value stays as it is.
RpcFailed(f) ==
  /\ Goto(f, "rpc", "select") \/ Goto(f, "answered", "select")
  /\ UNCHANGED <<callerVars, published, ageVars, flight, readerVars>>

\* Lock() first shuts out new readers, then waits for the present ones.
LockRequested(f) ==
  /\ Goto(f, "answered", "locking")
  /\ UNCHANGED <<callerVars, published, ageVars, flight, readerVars>>

WriteBegins(f) ==
  /\ \A r \in Readers : reading[r] # f
  /\ Goto(f, "locking", "writing")
  /\ published' = [published EXCEPT ![f] = "torn"]
  /\ UNCHANGED <<callerVars, ageVars, flight, readerVars>>

\* Mutant of WriteEnds: no Unlock().
WriteEndsLocked(f) ==
  /\ Goto(f, "writing", "writing")
  /\ published' = [published EXCEPT ![f] = "fetched"]
  /\ IF f = "hash"
     THEN sinceUpdate' = 0 /\ blockAge' = flight
     ELSE UNCHANGED ageVars
  /\ UNCHANGED <<callerVars, flight, readerVars>>

\* The value, its time stamp for a hash, and Unlock().
WriteEnds(f) ==
  /\ Goto(f, "writing", "select")
  /\ published' = [published EXCEPT ![f] = "fetched"]
  /\ IF f = "hash"
     THEN sinceUpdate' = 0 /\ blockAge' = flight
     ELSE UNCHANGED ageVars
  /\ UNCHANGED <<callerVars, flight, readerVars>>

-----------------------------------------------------------------------------
(* The getters.                                                            *)

\* RLock(); a writer that holds or awaits the lock shuts readers out.
ReadBegins(r, f) ==
  /\ reading[r] = NoOne
  /\ loop[f] \notin {"locking", "writing"}
  /\ reading' = [reading EXCEPT ![r] = f]
  /\ UNCHANGED <<callerVars, loop, published, ageVars, flight, handed>>

\* Mutant of Outcome: GetRecentBlockHash does not look at the age.
OutcomeOfAnyAge(f) ==
  IF f = "hash" /\ published[f] = "fetched" /\ blockAge > MaxBlockAge THEN "stale"
  ELSE published[f]

\* GetSolPrice copies whatever is there; GetRecentBlockHash refuses a hash
\* that was stored too long ago.
Outcome(f) ==
  IF f = "hash" /\ sinceUpdate > MaxAge THEN "refused"
  ELSE IF f = "hash" /\ published[f] = "fetched" /\ blockAge > MaxBlockAge THEN "stale"
  ELSE published[f]

ReadEnds(r) ==
  /\ reading[r] # NoOne
  /\ handed' = [handed EXCEPT ![r] = <<reading[r], Outcome(reading[r])>>]
  /\ reading' = [reading EXCEPT ![r] = NoOne]
  /\ UNCHANGED <<callerVars, loop, published, ageVars, flight>>

\* if !w.withBlockHash: no lock is taken.
HashNotWatched(r) ==
  /\ reading[r] = NoOne
  /\ "hash" \in Getters \ Feeds
  /\ handed' = [handed EXCEPT ![r] = <<"hash", "refused">>]
  /\ UNCHANGED <<callerVars, loop, published, ageVars, flight, reading>>

-----------------------------------------------------------------------------
\* A block hash answer that has been produced and not yet published.
HashPending ==
  \E f \in Feeds : f = "hash" /\ loop[f] \in {"answered", "locking", "writing"}

\* One unit of time.  A reader's critical section takes no time, and an
\* answer is published before it is MaxLatency old.
Tick ==
  /\ \A r \in Readers : reading[r] = NoOne
  /\ HashPending => flight < MaxLatency
  /\ flight' = IF HashPending THEN flight + 1 ELSE flight
  /\ sinceUpdate' = Older(sinceUpdate, MaxAge + 1)
  /\ blockAge' = Older(blockAge, MaxBlockAge + 1)
  /\ UNCHANGED <<callerVars, loop, published, readerVars>>

Progress(f) ==
  \/ RpcAnswered(f) \/ RpcFailed(f)
  \/ LockRequested(f) \/ WriteBegins(f) \/ WriteEnds(f)

LoopStep(f) == IntervalOver(f) \/ LoopExits(f) \/ Progress(f)

CallerStep(c) ==
  \/ Call(c) \/ StartOpens(c) \/ StartRefused(c)
  \/ CloseRefused(c) \/ CloseBegins(c) \/ CloseEnds(c)

Next ==
  \/ \E c \in Callers : CallerStep(c)
  \/ \E f \in Feeds : LoopStep(f)
  \/ \E r \in Readers : (\E f \in Feeds : ReadBegins(r, f)) \/ ReadEnds(r) \/ HashNotWatched(r)
  \/ Tick

\* The scheduler runs every goroutine, an RPC call ends one way or the other
\* (the HTTP client has a timeout), and select does not for ever prefer the
\* timer to a cancelled context: it chooses at random.
Fairness ==
  /\ \A c \in Callers :
       /\ WF_vars(StartOpens(c) \/ StartRefused(c))
       /\ WF_vars(CloseRefused(c) \/ CloseBegins(c))
       /\ WF_vars(CloseEnds(c))
  /\ \A f \in Feeds :
       /\ WF_vars(Progress(f))
       /\ SF_vars(LoopExits(f))
  /\ \A r \in Readers : WF_vars(ReadEnds(r))

Safety == Init /\ [][Next]_vars

Spec == Safety /\ Fairness

-----------------------------------------------------------------------------
(* Properties.                                                             *)

TypeOK ==
  /\ state \in States
  /\ stateMu \in Callers \union {NoOne}
  /\ ctxDone \in BOOLEAN
  /\ pc \in [Callers -> {"idle", "starting", "closing", "cleanup", "closeWait", "cleanupWait"}]
  /\ ret \in [Callers -> {"none", "started", "startError", "closed", "closeError"}]
  /\ wins \in [Successes -> Nat]
  /\ loop \in [Feeds -> {"idle", "select", "rpc", "answered", "locking", "writing", "exited"}]
  /\ published \in [Feeds -> {"zero", "fetched", "torn"}]
  /\ sinceUpdate \in 0 .. MaxAge + 1
  /\ blockAge \in 0 .. MaxBlockAge + 1
  /\ flight \in 0 .. MaxLatency
  /\ reading \in [Readers -> Feeds \union {NoOne}]
  /\ handed \in [Readers -> (Getters \union {NoOne}) \X
                             {"nothing", "refused", "zero", "fetched", "torn", "stale"}]

\* Close has come back, or never found anything to close.
CloseOver == state = "closed" /\ stateMu = NoOne

\* A loop runs exactly from Start until it has seen the cancellation: none
\* dies while the watcher is open, and when Close returns none is left.
LoopsFollowState ==
  /\ state \in {"unset", "pending"} => \A f \in Feeds : loop[f] = "idle"
  /\ state = "open" => \A f \in Feeds : Running(f)
  /\ CloseOver => \A f \in Feeds : loop[f] = "exited"

\* What a getter returns was written in one piece, and a block hash that is
\* handed out was fetched and is no older than MaxAge plus the time its
\* answer took to arrive.
HandedOutSound ==
  \A r \in Readers :
    /\ handed[r][2] \notin {"torn", "stale"}
    /\ handed[r] # <<"hash", "zero">>

\* Once Close has returned nothing is published any more, and the watcher
\* cannot be brought back.
QuietAfterClose ==
  [][CloseOver => CloseOver' /\ UNCHANGED <<loop, published>>]_vars

\* The errors tell the truth: a Start refused with "cannot Start() watcher
\* that has already been started" was called on a watcher that some Start had
\* opened, a Start reports success only of a watcher that has been opened, and
\* a Close only when the watcher is closed and its loops have been waited for.
ErrorsTellTheTruth ==
  \A c \in Callers :
    /\ ret[c] \in {"started", "startError"} => state \in {"open", "closed"}
    /\ ret[c] = "closed" => CloseOver

\* However many callers race, over the whole life of a watcher at most one
\* Start reports success, and a Close does at most once and only when a Start
\* has: the states are advanced under stateMu, also around the wait in Close
\* and for the deferred Close of a refused Start, which may take the place of
\* the Close that would have succeeded.
OneSuccess == wins["started"] <= 1 /\ wins["closed"] <= wins["started"]

\* Every call of Start and Close comes back, also the Close that waits for
\* the loops and the calls queued behind it on stateMu.
CallsReturn == \A c \in Callers : pc[c] # "idle" ~> pc[c] = "idle"

\* A loop that has asked for the write lock of its feed gets past the readers,
\* publishes its answer whole and lets go of the lock, so that the getters it
\* shuts out meanwhile are let in again.
AnswerPublished ==
  \A f \in Feeds :
    loop[f] \in {"locking", "writing"} ~> loop[f] = "select" /\ published[f] = "fetched"

\* A call of Start that comes back with an error has not disturbed the
\* watcher it was called on.
RefusedStartIsHarmless ==
  [][\A c \in Callers : pc[c] = "cleanup" => state' = state \/ pc'[c] = "cleanup"]_vars

\* The life cycle as its owner sees it.
Phase ==
  CASE state \in {"unset", "pending"} -> "pending"
    [] state = "open" -> "running"
    [] state = "closed" /\ stateMu # NoOne -> "draining"
    [] OTHER -> "stopped"

Abstract == INSTANCE Service
              WITH Workers <- Feeds,
                   phase <- Phase,
                   live <- {f \in Feeds : Running(f)}

\* The watcher implements the abstract service.
ImplementsService == Abstract!Spec
=============================================================================
