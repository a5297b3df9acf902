---------------------------- MODULE WatcherProofs ----------------------------
(***************************************************************************)
(* Proofs about Watcher, for any number of callers, readers and feeds and  *)
(* any age bounds.                                                         *)
(***************************************************************************)
EXTENDS Watcher, TLAPS


LEMMA InitType == Init => TypeOK
<1> SUFFICES ASSUME Init PROVE TypeOK
    OBVIOUS
<1>1. /\ sinceUpdate \in 0 .. MaxAge + 1
      /\ blockAge \in 0 .. MaxBlockAge + 1
      /\ flight \in 0 .. MaxLatency
  BY WatcherAssumption DEF Init, MaxBlockAge
<1>2. handed \in [Readers -> (Getters \union {NoOne}) \X
                             {"nothing", "refused", "zero", "fetched", "torn", "stale"}]
  BY DEF Init
<1> QED BY <1>1, <1>2, WatcherAssumption DEF Init, TypeOK, States, Successes

\* Every step keeps the variables within their types.
LEMMA NextType == TypeOK /\ [Next]_vars => TypeOK'
<1> SUFFICES ASSUME TypeOK, [Next]_vars PROVE TypeOK'
    OBVIOUS
<1> USE WatcherAssumption DEF callerVars, ageVars, readerVars
<1>1. ASSUME NEW c \in Callers, CallerStep(c) PROVE TypeOK'
  <2>1. CASE Call(c) BY <2>1 DEF TypeOK, Call
  <2>2. CASE StartOpens(c) BY <2>2 DEF TypeOK, StartOpens, Return, FirstStep, States, Successes
  <2>3. CASE StartRefused(c) BY <2>3 DEF TypeOK, StartRefused
  <2>4. CASE CloseRefused(c) BY <2>4 DEF TypeOK, CloseRefused, Return, Successes
  <2>5. CASE CloseBegins(c) BY <2>5 DEF TypeOK, CloseBegins, States
  <2>6. CASE CloseEnds(c) BY <2>6 DEF TypeOK, CloseEnds, Return, Successes
  <2> QED BY <1>1, <2>1, <2>2, <2>3, <2>4, <2>5, <2>6 DEF CallerStep
<1>2. ASSUME NEW f \in Feeds, LoopStep(f) PROVE TypeOK'
  <2> USE DEF Goto
  <2>1. CASE IntervalOver(f) BY <2>1 DEF TypeOK, IntervalOver
  <2>2. CASE LoopExits(f) BY <2>2 DEF TypeOK, LoopExits
  <2>3. CASE RpcAnswered(f) BY <2>3 DEF TypeOK, RpcAnswered
  <2>4. CASE RpcFailed(f) BY <2>4 DEF TypeOK, RpcFailed
  <2>5. CASE LockRequested(f) BY <2>5 DEF TypeOK, LockRequested
  <2>6. CASE WriteBegins(f) BY <2>6 DEF TypeOK, WriteBegins
  <2>7. CASE WriteEnds(f) BY <2>7 DEF TypeOK, WriteEnds, MaxBlockAge
  <2> QED BY <1>2, <2>1, <2>2, <2>3, <2>4, <2>5, <2>6, <2>7 DEF LoopStep, Progress
<1>3. ASSUME NEW r \in Readers, NEW f \in Feeds, ReadBegins(r, f) PROVE TypeOK'
  BY <1>3 DEF TypeOK, ReadBegins
<1>4. ASSUME NEW r \in Readers, ReadEnds(r) PROVE TypeOK'
  BY <1>4 DEF TypeOK, ReadEnds, Outcome
<1>5. ASSUME NEW r \in Readers, HashNotWatched(r) PROVE TypeOK'
  BY <1>5 DEF TypeOK, HashNotWatched
<1>6. CASE Tick
  BY <1>6 DEF TypeOK, Tick, Older, MaxBlockAge
<1>7. CASE UNCHANGED vars
  BY <1>7 DEF TypeOK, vars
<1> QED BY <1>1, <1>2, <1>3, <1>4, <1>5, <1>6, <1>7 DEF Next

\* The watcher's variables always have their types.
THEOREM TypeCorrect == Safety => []TypeOK
BY InitType, NextType, PTL DEF Safety

-----------------------------------------------------------------------------
(* The life cycle.                                                         *)

\* What holds a loop in step with the life-cycle state.  Beside the property
\* itself it says who holds stateMu, and that the context is done exactly
\* when the watcher is closed: without that a loop could exit early.
LifeInv ==
  /\ LoopsFollowState
  /\ ctxDone <=> state = "closed"
  /\ stateMu # NoOne => state = "closed"
  /\ \A c \in Callers : pc[c] \in {"closeWait", "cleanupWait"} <=> stateMu = c
  /\ state = "closed" => \A f \in Feeds : loop[f] # "idle"

LEMMA InitLife == Init => LifeInv
BY WatcherAssumption DEF Init, LifeInv, LoopsFollowState, Running, CloseOver

LEMMA NextLife == TypeOK /\ LifeInv /\ [Next]_vars => LifeInv'
<1> SUFFICES ASSUME TypeOK, LifeInv, [Next]_vars PROVE LifeInv'
    OBVIOUS
<1> USE WatcherAssumption DEF callerVars, ageVars, readerVars, LifeInv,
                              LoopsFollowState, Running, CloseOver
<1>1. ASSUME NEW c \in Callers, CallerStep(c) PROVE LifeInv'
  <2>1. CASE Call(c) BY <2>1 DEF TypeOK, Call
  <2>2. CASE StartOpens(c) BY <2>2 DEF TypeOK, StartOpens, Return, FirstStep
  <2>3. CASE StartRefused(c) BY <2>3 DEF TypeOK, StartRefused
  <2>4. CASE CloseRefused(c) BY <2>4 DEF TypeOK, CloseRefused, Return
  <2>5. CASE CloseBegins(c) BY <2>5 DEF TypeOK, CloseBegins
  <2>6. CASE CloseEnds(c) BY <2>6 DEF TypeOK, CloseEnds, Return
  <2> QED BY <1>1, <2>1, <2>2, <2>3, <2>4, <2>5, <2>6 DEF CallerStep
<1>2. ASSUME NEW f \in Feeds, LoopStep(f) PROVE LifeInv'
  <2> USE DEF Goto
  <2>1. CASE IntervalOver(f) BY <2>1 DEF TypeOK, IntervalOver
  <2>2. CASE LoopExits(f) BY <2>2 DEF TypeOK, LoopExits
  <2>3. CASE RpcAnswered(f) BY <2>3 DEF TypeOK, RpcAnswered
  <2>4. CASE RpcFailed(f) BY <2>4 DEF TypeOK, RpcFailed
  <2>5. CASE LockRequested(f) BY <2>5 DEF TypeOK, LockRequested
  <2>6. CASE WriteBegins(f) BY <2>6 DEF TypeOK, WriteBegins
  <2>7. CASE WriteEnds(f) BY <2>7 DEF TypeOK, WriteEnds
  <2> QED BY <1>2, <2>1, <2>2, <2>3, <2>4, <2>5, <2>6, <2>7 DEF LoopStep, Progress
<1>3. ASSUME UNCHANGED <<callerVars, loop>> PROVE LifeInv'
  BY <1>3
<1> QED BY <1>1, <1>2, <1>3
        DEF Next, ReadBegins, ReadEnds, HashNotWatched, Tick, vars

\* A loop runs exactly from Start until it has seen the cancellation.
THEOREM LoopsInStep == Safety => []LoopsFollowState
<1>1. LifeInv => LoopsFollowState BY DEF LifeInv
<1> QED BY <1>1, TypeCorrect, InitLife, NextLife, PTL DEF Safety

\* After Close has returned nothing is published and nothing restarts.
THEOREM Quiet == Safety => QuietAfterClose
<1>1. TypeOK /\ LifeInv /\ [Next]_vars
        => [CloseOver => CloseOver' /\ UNCHANGED <<loop, published>>]_vars
  <2> SUFFICES ASSUME TypeOK, LifeInv, Next, CloseOver
               PROVE  CloseOver' /\ UNCHANGED <<loop, published>>
      BY DEF vars
  <2> USE DEF callerVars, CloseOver
  <2>1. \A f \in Feeds : loop[f] = "exited"
    BY DEF LifeInv, LoopsFollowState
  <2>2. ASSUME NEW c \in Callers, CallerStep(c)
        PROVE  CloseOver' /\ UNCHANGED <<loop, published>>
    BY <2>2 DEF CallerStep, Call, StartOpens, StartRefused, CloseRefused,
                CloseBegins, CloseEnds
  <2>3. ASSUME NEW f \in Feeds PROVE ~LoopStep(f)
    BY <2>1 DEF LoopStep, Progress, IntervalOver, LoopExits, RpcAnswered, RpcFailed,
                LockRequested, WriteBegins, WriteEnds, Goto
  <2> QED BY <2>2, <2>3 DEF Next, ReadBegins, ReadEnds, HashNotWatched, Tick
<1> QED BY <1>1, TypeCorrect, InitLife, NextLife, PTL DEF Safety, QuietAfterClose

-----------------------------------------------------------------------------
(* The errors.                                                             *)

\* A call is on its way to an error of Start only if the watcher had been
\* started; it is here that NewWatcher must have set the state.
ErrorInv ==
  /\ state # "unset"
  /\ ErrorsTellTheTruth
  /\ \A c \in Callers : pc[c] \in {"cleanup", "cleanupWait"} => state \in {"open", "closed"}

LEMMA NextError == TypeOK /\ LifeInv /\ ErrorInv /\ [Next]_vars => ErrorInv'
<1> SUFFICES ASSUME TypeOK, LifeInv, ErrorInv, [Next]_vars PROVE ErrorInv'
    OBVIOUS
<1> USE WatcherAssumption DEF callerVars, LifeInv, ErrorInv, ErrorsTellTheTruth, CloseOver
<1>1. ASSUME NEW c \in Callers, CallerStep(c) PROVE ErrorInv'
  <2>1. CASE Call(c) BY <2>1 DEF TypeOK, Call
  <2>2. CASE StartOpens(c) BY <2>2 DEF TypeOK, StartOpens, Return
  <2>3. CASE StartRefused(c) BY <2>3 DEF TypeOK, StartRefused, States
  <2>4. CASE CloseRefused(c) BY <2>4 DEF TypeOK, CloseRefused, Return
  <2>5. CASE CloseBegins(c) BY <2>5 DEF TypeOK, CloseBegins
  <2>6. CASE CloseEnds(c) BY <2>6 DEF TypeOK, CloseEnds, Return
  <2> QED BY <1>1, <2>1, <2>2, <2>3, <2>4, <2>5, <2>6 DEF CallerStep
<1>2. ASSUME UNCHANGED callerVars PROVE ErrorInv'
  BY <1>2
<1> QED BY <1>1, <1>2
        DEF Next, LoopStep, Progress, IntervalOver, LoopExits, RpcAnswered, RpcFailed,
            LockRequested, WriteBegins, WriteEnds, ReadBegins, ReadEnds,
            HashNotWatched, Tick, vars

\* A watcher that NewWatcher left pending never reports a wrong error.
THEOREM TruthfulErrors ==
  ASSUME InitState = "pending"
  PROVE  Safety => []ErrorsTellTheTruth
<1>1. Init => ErrorInv
  BY DEF Init, ErrorInv, ErrorsTellTheTruth
<1>2. ErrorInv => ErrorsTellTheTruth
  BY DEF ErrorInv
<1> QED BY <1>1, <1>2, TypeCorrect, InitLife, NextLife, NextError, PTL DEF Safety

-----------------------------------------------------------------------------
(* The successes.                                                          *)

\* The state counts the successes: none while the watcher has not been opened,
\* one Start once it has, and no Close before the one that closed it has let
\* go of stateMu.
WinInv ==
  /\ state \in {"unset", "pending"} => wins["started"] = 0
  /\ state \in {"open", "closed"} => wins["started"] = 1
  /\ state # "closed" \/ stateMu # NoOne => wins["closed"] = 0
  /\ wins["closed"] <= 1

LEMMA NextWin == TypeOK /\ LifeInv /\ WinInv /\ [Next]_vars => WinInv'
<1> SUFFICES ASSUME TypeOK, LifeInv, WinInv, [Next]_vars PROVE WinInv'
    OBVIOUS
<1> USE WatcherAssumption DEF callerVars, WinInv, Successes
<1>1. ASSUME NEW c \in Callers, CallerStep(c) PROVE WinInv'
  <2>1. CASE Call(c) BY <2>1 DEF TypeOK, Call
  <2>2. CASE StartOpens(c) BY <2>2 DEF TypeOK, StartOpens, Return
  <2>3. CASE StartRefused(c) BY <2>3 DEF TypeOK, StartRefused
  <2>4. CASE CloseRefused(c) BY <2>4 DEF TypeOK, CloseRefused, Return
  <2>5. CASE CloseBegins(c) BY <2>5 DEF TypeOK, CloseBegins
  <2>6. CASE CloseEnds(c)
    <3>1. state = "closed" /\ stateMu # NoOne
      BY <2>6 DEF CloseEnds, LifeInv
    <3> QED BY <2>6, <3>1 DEF TypeOK, CloseEnds, Return
  <2> QED BY <1>1, <2>1, <2>2, <2>3, <2>4, <2>5, <2>6 DEF CallerStep
<1>2. ASSUME UNCHANGED callerVars PROVE WinInv'
  BY <1>2
<1> QED BY <1>1, <1>2
        DEF Next, LoopStep, Progress, IntervalOver, LoopExits, RpcAnswered, RpcFailed,
            LockRequested, WriteBegins, WriteEnds, ReadBegins, ReadEnds,
            HashNotWatched, Tick, vars

\* Over the life of a watcher at most one Start and one Close report success,
\* and no Close does before a Start has.
THEOREM SuccessOnce == Safety => []OneSuccess
<1>1. Init => WinInv
  BY WatcherAssumption DEF Init, WinInv, Successes
<1>2. TypeOK /\ WinInv => OneSuccess
  BY DEF TypeOK, WinInv, OneSuccess, States, Successes
<1> QED BY <1>1, <1>2, TypeCorrect, InitLife, NextLife, NextWin, PTL DEF Safety

-----------------------------------------------------------------------------
(* The answers.                                                            *)

\* What is published, as the locks and the time stamps bound it: a value is
\* half written only inside its loop's critical section, into which no reader
\* gets, and a hash stored recently was produced recently.
FeedInv ==
  /\ \A f \in Feeds : published[f] = "torn" <=> loop[f] = "writing"
  /\ \A r \in Readers : reading[r] \in Feeds => loop[reading[r]] # "writing"
  /\ sinceUpdate <= MaxAge => blockAge <= sinceUpdate + MaxLatency
  /\ sinceUpdate <= MaxAge => \A f \in Feeds : f = "hash" => published[f] # "zero"
  /\ HandedOutSound

LEMMA InitFeed == Init => FeedInv
<1> SUFFICES ASSUME Init PROVE FeedInv
    OBVIOUS
<1>1. ~(sinceUpdate <= MaxAge)
  BY WatcherAssumption DEF Init
<1>2. HandedOutSound
  BY WatcherAssumption DEF Init, HandedOutSound
<1> QED BY <1>1, <1>2, WatcherAssumption DEF Init, FeedInv

\* What a reader copies under the read lock is whole and fresh.
LEMMA OutcomeSound ==
  ASSUME TypeOK, FeedInv, NEW r \in Readers, reading[r] # NoOne
  PROVE  /\ Outcome(reading[r]) \notin {"torn", "stale"}
         /\ reading[r] = "hash" => Outcome(reading[r]) # "zero"
<1> DEFINE f == reading[r]
<1>1. f \in Feeds BY DEF TypeOK
<1>2. published[f] \in {"zero", "fetched"} BY <1>1 DEF TypeOK, FeedInv
<1>3. CASE f = "hash" /\ sinceUpdate <= MaxAge
  <2>1. blockAge <= MaxBlockAge
    BY <1>3, WatcherAssumption DEF TypeOK, FeedInv, MaxBlockAge
  <2>2. published[f] = "fetched" BY <1>1, <1>2, <1>3 DEF FeedInv
  <2>3. ~(sinceUpdate > MaxAge) /\ ~(blockAge > MaxBlockAge)
    BY <1>3, <2>1, WatcherAssumption DEF TypeOK, MaxBlockAge
  <2> QED BY <2>2, <2>3 DEF Outcome
<1>4. CASE f = "hash" /\ ~(sinceUpdate <= MaxAge)
  <2>1. sinceUpdate > MaxAge BY <1>4, WatcherAssumption DEF TypeOK
  <2> QED BY <1>4, <2>1 DEF Outcome
<1>5. CASE f # "hash"
  BY <1>2, <1>5 DEF Outcome
<1> QED BY <1>3, <1>4, <1>5

LEMMA NextFeed == TypeOK /\ LifeInv /\ FeedInv /\ [Next]_vars => FeedInv'
<1> SUFFICES ASSUME TypeOK, LifeInv, FeedInv, [Next]_vars PROVE FeedInv'
    OBVIOUS
<1> USE WatcherAssumption DEF callerVars, ageVars, readerVars
<1>1. ASSUME NEW c \in Callers, CallerStep(c) PROVE FeedInv'
  <2>1. CASE StartOpens(c)
    BY <2>1 DEF TypeOK, LifeInv, LoopsFollowState, FeedInv, HandedOutSound, StartOpens,
                Return, FirstStep
  <2> QED BY <1>1, <2>1 DEF CallerStep, Call, StartRefused, CloseRefused, CloseBegins,
                            CloseEnds, FeedInv, HandedOutSound
<1>2. ASSUME NEW f \in Feeds, LoopStep(f) PROVE FeedInv'
  <2> USE DEF Goto, FeedInv, HandedOutSound, TypeOK
  <2>1. CASE IntervalOver(f) BY <2>1 DEF IntervalOver
  <2>2. CASE LoopExits(f) BY <2>2 DEF LoopExits
  <2>3. CASE RpcAnswered(f) BY <2>3 DEF RpcAnswered
  <2>4. CASE RpcFailed(f) BY <2>4 DEF RpcFailed
  <2>5. CASE LockRequested(f) BY <2>5 DEF LockRequested
  <2>6. CASE WriteBegins(f) BY <2>6 DEF WriteBegins
  <2>7. CASE WriteEnds(f) BY <2>7 DEF WriteEnds
  <2> QED BY <1>2, <2>1, <2>2, <2>3, <2>4, <2>5, <2>6, <2>7 DEF LoopStep, Progress
<1>3. ASSUME NEW r \in Readers, NEW f \in Feeds, ReadBegins(r, f) PROVE FeedInv'
  BY <1>3 DEF TypeOK, FeedInv, HandedOutSound, ReadBegins
<1>4. ASSUME NEW r \in Readers, ReadEnds(r) PROVE FeedInv'
  <2>1. HandedOutSound'
    BY <1>4, OutcomeSound DEF ReadEnds, HandedOutSound, FeedInv, TypeOK
  <2> QED BY <1>4, <2>1 DEF TypeOK, FeedInv, ReadEnds
<1>5. ASSUME NEW r \in Readers, HashNotWatched(r) PROVE FeedInv'
  BY <1>5 DEF TypeOK, FeedInv, HandedOutSound, HashNotWatched
<1>6. CASE Tick
  <2>1. sinceUpdate' <= MaxAge => sinceUpdate' = sinceUpdate + 1 /\ sinceUpdate <= MaxAge
    BY <1>6 DEF TypeOK, Tick, Older
  <2>2. blockAge' <= blockAge + 1
    BY <1>6 DEF TypeOK, Tick, Older, MaxBlockAge
  <2>3. blockAge' \in Nat /\ sinceUpdate \in Nat /\ blockAge \in Nat
    BY <1>6 DEF TypeOK, Tick, Older, MaxBlockAge
  <2>4. sinceUpdate' <= MaxAge => blockAge' <= sinceUpdate' + MaxLatency
    BY <2>1, <2>2, <2>3 DEF FeedInv
  <2> QED BY <1>6, <2>1, <2>4 DEF FeedInv, HandedOutSound, Tick
<1>7. CASE UNCHANGED vars
  BY <1>7 DEF FeedInv, HandedOutSound, vars
<1> QED BY <1>1, <1>2, <1>3, <1>4, <1>5, <1>6, <1>7 DEF Next

\* A getter hands out only what was written in one piece, and a block hash
\* only when it has been fetched and is at most MaxAge + MaxLatency old.
THEOREM AnswersSound == Safety => []HandedOutSound
<1>1. FeedInv => HandedOutSound BY DEF FeedInv
<1> QED BY <1>1, TypeCorrect, InitLife, NextLife, InitFeed, NextFeed, PTL DEF Safety

-----------------------------------------------------------------------------
(* The refinement.                                                         *)

LEMMA InitService == Init => Abstract!Init
BY WatcherAssumption DEF Init, Abstract!Init, Phase, Running

\* Every step of the watcher is a step of the abstract service, or none.
LEMMA NextService ==
  TypeOK /\ LifeInv /\ [Next]_vars => [Abstract!Next]_Abstract!vars
<1> SUFFICES ASSUME TypeOK, LifeInv, [Next]_vars
             PROVE  Abstract!Next \/ UNCHANGED Abstract!vars
    BY DEF Abstract!vars
<1> USE WatcherAssumption
    DEF callerVars, ageVars, readerVars, LifeInv, LoopsFollowState, Running, CloseOver,
        Abstract!vars, Phase
<1>1. ASSUME NEW c \in Callers, CallerStep(c)
      PROVE  Abstract!Next \/ UNCHANGED Abstract!vars
  <2>1. CASE Call(c) BY <2>1 DEF Call
  <2>2. CASE StartOpens(c)
    <3>1. Abstract!Launch
      BY <2>2 DEF TypeOK, StartOpens, Return, FirstStep, Abstract!Launch
    <3> QED BY <3>1 DEF Abstract!Next
  <2>3. CASE StartRefused(c) BY <2>3 DEF StartRefused
  <2>4. CASE CloseRefused(c) BY <2>4 DEF CloseRefused, Return
  <2>5. CASE CloseBegins(c)
    <3>1. Abstract!Shutdown
      BY <2>5 DEF TypeOK, CloseBegins, Abstract!Shutdown
    <3> QED BY <3>1 DEF Abstract!Next
  <2>6. CASE CloseEnds(c)
    <3>1. Abstract!Stop
      BY <2>6 DEF TypeOK, CloseEnds, Abstract!Stop
    <3> QED BY <3>1 DEF Abstract!Next
  <2> QED BY <1>1, <2>1, <2>2, <2>3, <2>4, <2>5, <2>6 DEF CallerStep
<1>2. ASSUME NEW f \in Feeds, LoopStep(f)
      PROVE  Abstract!Next \/ UNCHANGED Abstract!vars
  <2>1. CASE LoopExits(f)
    <3>1. Abstract!Retire(f)
      BY <2>1 DEF TypeOK, LoopExits, Goto, Abstract!Retire
    <3> QED BY <3>1 DEF Abstract!Next
  <2>2. CASE IntervalOver(f) BY <2>2 DEF TypeOK, IntervalOver, Goto
  <2>3. CASE Progress(f)
    BY <2>3 DEF TypeOK, Progress, RpcAnswered, RpcFailed, LockRequested,
                WriteBegins, WriteEnds, Goto
  <2> QED BY <1>2, <2>1, <2>2, <2>3 DEF LoopStep
<1>3. ASSUME UNCHANGED <<callerVars, loop>>
      PROVE  Abstract!Next \/ UNCHANGED Abstract!vars
  BY <1>3
<1> QED BY <1>1, <1>2, <1>3
        DEF Next, ReadBegins, ReadEnds, HashNotWatched, Tick, vars

\* The watcher implements the safety part of the abstract service: started
\* and stopped at most once, its loops all there while it is open and all
\* gone when Close returns.
THEOREM ImplementsServiceSafety == Safety => Abstract!Safety
BY TypeCorrect, InitLife, NextLife, InitService, NextService, PTL
   DEF Safety, Abstract!Safety

-----------------------------------------------------------------------------
(* A watcher that NewWatcher did not leave pending: EvmWatcher.            *)

\* No sequence of calls brings such a watcher to life: no Start succeeds, no
\* loop runs, and the getters answer zero for ever.  Transact and GetBaseGas
\* of evm therefore work with a gas price of zero.
Inert ==
  /\ state = "unset"
  /\ \A c \in Callers : ret[c] \notin {"started", "closed"}
  /\ \A f \in Feeds : loop[f] = "idle" /\ published[f] = "zero"
  /\ \A r \in Readers : handed[r][2] \in {"nothing", "zero"}

\* Inert and typed; nobody is within a Close that found something to close.
InertInv ==
  /\ TypeOK /\ Inert
  /\ \A c \in Callers : pc[c] \in {"idle", "starting", "closing", "cleanup"}

\* An EVM watcher stays inert, whatever is called on it and in which order.
THEOREM NeverAlive ==
  ASSUME InitState = "unset", "hash" \notin Getters
  PROVE  Safety => []Inert
<1> USE WatcherAssumption DEF InertInv, Inert
<1>1. Init => InertInv
  BY InitType DEF Init
<1>2. InertInv /\ [Next]_vars => InertInv'
  <2> SUFFICES ASSUME InertInv, [Next]_vars PROVE InertInv'
      OBVIOUS
  <2> USE DEF callerVars, ageVars, readerVars
  <2>0. TypeOK'
    BY NextType
  <2> HIDE DEF TypeOK
  <2>1. ASSUME NEW c \in Callers, CallerStep(c) PROVE InertInv'
    <3> USE <2>0 DEF TypeOK
    <3>1. CASE CloseRefused(c) BY <3>1 DEF CloseRefused, Return
    <3>2. CASE CloseEnds(c) BY <3>2 DEF CloseEnds, Return
    <3>3. CASE Call(c) BY <3>3 DEF Call
    <3>4. CASE StartRefused(c) BY <3>4 DEF StartRefused
    <3> QED BY <2>1, <3>1, <3>2, <3>3, <3>4 DEF CallerStep, StartOpens, CloseBegins
  <2>2. ASSUME NEW f \in Feeds PROVE ~LoopStep(f)
    BY DEF LoopStep, Progress, IntervalOver, LoopExits, RpcAnswered, RpcFailed,
           LockRequested, WriteBegins, WriteEnds, Goto
  <2>3. ASSUME NEW r \in Readers, NEW f \in Feeds, ReadBegins(r, f) PROVE InertInv'
    BY <2>0, <2>3 DEF ReadBegins, TypeOK
  <2>4. ASSUME NEW r \in Readers, ReadEnds(r) PROVE InertInv'
    BY <2>0, <2>4 DEF ReadEnds, Outcome, TypeOK
  <2>5. ASSUME NEW r \in Readers PROVE ~HashNotWatched(r)
    BY DEF HashNotWatched
  <2>6. CASE UNCHANGED <<callerVars, loop, published, readerVars>>
    BY <2>0, <2>6
  <2> QED BY <2>1, <2>2, <2>3, <2>4, <2>5, <2>6 DEF Next, Tick, vars
<1> QED BY <1>1, <1>2, PTL DEF Safety
=============================================================================
