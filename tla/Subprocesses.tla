---------------------------- MODULE Subprocesses -----------------------------
(***************************************************************************)
(* utils.Subprocesses: goroutines started with Go and waited for with      *)
(* Wait, calls of BlockForAtMostMany on top of them, and one goroutine of  *)
(* RepeatWithCancel.  BlockForAtMost is the call with one function: its    *)
(* channel is closed where Many's is sent to, and neither ever blocks.     *)
(*                                                                         *)
(* The WaitGroup is the set of goroutines counted and not yet done, with   *)
(* one goroutine that waits for it.  As in package sync, the Done that     *)
(* brings the count to zero wakes the waiter in a step of its own, the     *)
(* waiter looks at the count again before Wait returns, and a Go that gets *)
(* in between makes one side or the other panic.                           *)
(***************************************************************************)
EXTENDS Naturals, Sequences, FiniteSets

CONSTANTS
  Callers,     \* goroutines that call BlockForAtMostMany, once each
  MaxFuncs     \* bound: functions per call

ASSUME SubprocessesAssumption == MaxFuncs \in Nat

Goroutines == Callers \X (1 .. MaxFuncs)
Repeater == <<"repeater", 0>>

VARIABLES
  pc,          \* where each call is
  n,           \* len(fs)
  started,     \* how many of its goroutines it has started
  run,         \* where each goroutine is
  done,        \* the call's channel
  fired,       \* its timer has fired
  expired,     \* the context of its functions is done
  oks, ok,     \* what it returns
  counted,     \* s.wg
  waiter,      \* a goroutine that calls Wait
  panicked,    \* the WaitGroup has panicked, and the program with it
  repeater,    \* the goroutine of RepeatWithCancel
  tick,        \* a tick waits in its ticker's channel
  cancelled    \* its context is done

callVars == <<pc, n, started, run, done, fired, expired, oks, ok>>
repeatVars == <<repeater, tick, cancelled>>
vars == <<callVars, counted, waiter, panicked, repeatVars>>

Init ==
  /\ pc = [c \in Callers |-> "idle"]
  /\ n = [c \in Callers |-> 0]
  /\ started = [c \in Callers |-> 0]
  /\ run = [g \in Goroutines |-> "none"]
  /\ done = [c \in Callers |-> << >>]
  /\ fired = [c \in Callers |-> FALSE]
  /\ expired = [c \in Callers |-> FALSE]
  /\ oks = [c \in Callers |-> {}]
  /\ ok = [c \in Callers |-> FALSE]
  /\ counted = {}
  /\ waiter = "out" /\ panicked = FALSE
  /\ repeater = "none" /\ tick = FALSE /\ cancelled = FALSE

\* The program runs, and this step does not end it.
Alive == panicked = FALSE /\ UNCHANGED panicked

\* The count has just come to zero, and whoever brought it there has not woken
\* the waiter yet.
Waking == waiter = "waiting" /\ counted = {}

-----------------------------------------------------------------------------
(* A call of BlockForAtMostMany.                                           *)

Call(c) ==
  /\ Alive
  /\ pc[c] = "idle"
  /\ pc' = [pc EXCEPT ![c] = "starting"]
  /\ \E k \in 0 .. MaxFuncs : n' = [n EXCEPT ![c] = k]
  /\ UNCHANGED <<started, run, done, fired, expired, oks, ok, counted, waiter, repeatVars>>

\* Go: count, then start.
Start(c) ==
  /\ Alive
  /\ ~Waking
  /\ pc[c] = "starting" /\ started[c] < n[c]
  /\ started' = [started EXCEPT ![c] = @ + 1]
  /\ run' = [run EXCEPT ![<<c, started'[c]>>] = "running"]
  /\ counted' = counted \union {<<c, started'[c]>>}
  /\ UNCHANGED <<pc, n, done, fired, expired, oks, ok, waiter, repeatVars>>

\* The timer is set when every function has been started.
Arm(c) ==
  /\ Alive
  /\ pc[c] = "starting" /\ started[c] = n[c]
  /\ pc' = [pc EXCEPT ![c] = "select"]
  /\ UNCHANGED <<n, started, run, done, fired, expired, oks, ok, counted, waiter, repeatVars>>

TimerFires(c) ==
  /\ Alive
  /\ pc[c] = "select" /\ ~fired[c]
  /\ fired' = [fired EXCEPT ![c] = TRUE]
  /\ UNCHANGED <<pc, n, started, run, done, expired, oks, ok, counted, waiter, repeatVars>>

\* The functions' context ends with d, which begins before the timer's, or
\* with the caller's own context, which the call does not look at.
Expire(c) ==
  /\ Alive
  /\ pc[c] \in {"starting", "select"} /\ ~expired[c]
  /\ expired' = [expired EXCEPT ![c] = TRUE]
  /\ UNCHANGED <<pc, n, started, run, done, fired, oks, ok, counted, waiter, repeatVars>>

\* Returning cancels the functions' context (defer childCancel).
Return(c, answer) ==
  /\ pc' = [pc EXCEPT ![c] = "returned"]
  /\ ok' = [ok EXCEPT ![c] = answer]
  /\ expired' = [expired EXCEPT ![c] = TRUE]

\* One select: either branch may be taken when both are ready.
Receive(c) ==
  /\ Alive
  /\ pc[c] = "select" /\ done[c] # << >>
  /\ oks' = [oks EXCEPT ![c] = @ \union {Head(done[c])}]
  /\ done' = [done EXCEPT ![c] = Tail(@)]
  /\ IF Cardinality(oks'[c]) = n[c] THEN Return(c, TRUE) ELSE UNCHANGED <<pc, ok, expired>>
  /\ UNCHANGED <<n, started, run, fired, counted, waiter, repeatVars>>

\* Mutant of TimedOut: the timer is only waited for until a function finishes.
TimedOutBeforeAny(c) ==
  /\ Alive
  /\ pc[c] = "select" /\ fired[c] /\ oks[c] = {}
  /\ Return(c, FALSE)
  /\ UNCHANGED <<n, started, run, done, fired, oks, counted, waiter, repeatVars>>

TimedOut(c) ==
  /\ Alive
  /\ pc[c] = "select" /\ fired[c]
  /\ Return(c, FALSE)
  /\ UNCHANGED <<n, started, run, done, fired, oks, counted, waiter, repeatVars>>

-----------------------------------------------------------------------------
(* The goroutine of function i of call c: the function, the report on the  *)
(* call's channel, the deferred Done.                                      *)

FunctionReturns(c, i) ==
  /\ Alive
  /\ run[<<c, i>>] = "running"
  /\ run' = [run EXCEPT ![<<c, i>>] = "finished"]
  /\ UNCHANGED <<pc, n, started, done, fired, expired, oks, ok, counted, waiter, repeatVars>>

\* Mutant of Capacity: room for one report.
CapacityOne(c) == 1

\* make(chan int, len(fs))
Capacity(c) == n[c]

\* Mutant of Report: the report does not wait for the function.
ReportEarly(c, i) ==
  /\ Alive
  /\ \/ /\ run[<<c, i>>] = "running"
        /\ Len(done[c]) < Capacity(c)
        /\ done' = [done EXCEPT ![c] = Append(@, i)]
        /\ UNCHANGED run
     \/ /\ run[<<c, i>>] = "finished"
        /\ run' = [run EXCEPT ![<<c, i>>] = "reported"]
        /\ UNCHANGED done
  /\ UNCHANGED <<pc, n, started, fired, expired, oks, ok, counted, waiter, repeatVars>>

Report(c, i) ==
  /\ Alive
  /\ run[<<c, i>>] = "finished"
  /\ Len(done[c]) < Capacity(c)
  /\ done' = [done EXCEPT ![c] = Append(@, i)]
  /\ run' = [run EXCEPT ![<<c, i>>] = "reported"]
  /\ UNCHANGED <<pc, n, started, fired, expired, oks, ok, counted, waiter, repeatVars>>

\* Mutant of Done: not deferred to the end.
DoneAtOnce(c, i) ==
  /\ Alive
  /\ run[<<c, i>>] \in {"running", "reported"}
  /\ counted' = counted \ {<<c, i>>}
  /\ run' = [run EXCEPT ![<<c, i>>] = IF @ = "reported" THEN "gone" ELSE @]
  /\ UNCHANGED <<pc, n, started, done, fired, expired, oks, ok, waiter, repeatVars>>

Done(c, i) ==
  /\ Alive
  /\ run[<<c, i>>] = "reported"
  /\ run' = [run EXCEPT ![<<c, i>>] = "gone"]
  /\ counted' = counted \ {<<c, i>>}
  /\ UNCHANGED <<pc, n, started, done, fired, expired, oks, ok, waiter, repeatVars>>

-----------------------------------------------------------------------------
(* Wait, which may be called at any time, and RepeatWithCancel.            *)

\* A Wait that finds nothing counted returns at once, without a step here.
Wait ==
  /\ Alive
  /\ waiter = "out" /\ counted # {}
  /\ waiter' = "waiting"
  /\ UNCHANGED <<callVars, counted, repeatVars>>

\* The Done that brought the count to zero releases the waiter.
Release ==
  /\ Alive
  /\ Waking
  /\ waiter' = "woken"
  /\ UNCHANGED <<callVars, counted, repeatVars>>

\* Go finds a waiter that is about to be woken: "Add called concurrently with
\* Wait".
AddPanics ==
  /\ ~panicked
  /\ Waking
  /\ repeater = "none" \/ \E c \in Callers : pc[c] = "starting" /\ started[c] < n[c]
  /\ panicked' = TRUE
  /\ UNCHANGED <<callVars, counted, waiter, repeatVars>>

WaitOver ==
  /\ Alive
  /\ waiter = "woken" /\ counted = {}
  /\ waiter' = "out"
  /\ UNCHANGED <<callVars, counted, repeatVars>>

\* The woken waiter finds a goroutine that a Go has counted meanwhile:
\* "WaitGroup is reused before previous Wait has returned".
WaitPanics ==
  /\ ~panicked
  /\ waiter = "woken" /\ counted # {}
  /\ panicked' = TRUE
  /\ UNCHANGED <<callVars, counted, waiter, repeatVars>>

Repeat ==
  /\ Alive
  /\ ~Waking
  /\ repeater = "none"
  /\ repeater' = "select"
  /\ counted' = counted \union {Repeater}
  /\ UNCHANGED <<callVars, waiter, tick, cancelled>>

\* A ticker keeps one tick and drops the others.
Tick ==
  /\ Alive
  /\ repeater \in {"select", "busy"} /\ ~tick
  /\ tick' = TRUE
  /\ UNCHANGED <<callVars, counted, waiter, repeater, cancelled>>

Cancel ==
  /\ Alive
  /\ ~cancelled
  /\ cancelled' = TRUE
  /\ UNCHANGED <<callVars, counted, waiter, repeater, tick>>

TakeTick ==
  /\ Alive
  /\ repeater = "select" /\ tick
  /\ repeater' = "busy" /\ tick' = FALSE
  /\ UNCHANGED <<callVars, counted, waiter, cancelled>>

RepeatedReturns ==
  /\ Alive
  /\ repeater = "busy"
  /\ repeater' = "select"
  /\ UNCHANGED <<callVars, counted, waiter, tick, cancelled>>

SeeCancel ==
  /\ Alive
  /\ repeater = "select" /\ cancelled
  /\ repeater' = "gone"
  /\ counted' = counted \ {Repeater}
  /\ UNCHANGED <<callVars, waiter, tick, cancelled>>

-----------------------------------------------------------------------------
CallStep(c) == Call(c) \/ Start(c) \/ Arm(c) \/ Receive(c) \/ TimedOut(c)
Clock(c) == TimerFires(c) \/ Expire(c)
GoroutineStep(c, i) == FunctionReturns(c, i) \/ Report(c, i) \/ Done(c, i)
WaitStep == Wait \/ Release \/ AddPanics \/ WaitOver \/ WaitPanics
RepeaterStep == Repeat \/ Tick \/ Cancel \/ TakeTick \/ RepeatedReturns \/ SeeCancel

Next ==
  \/ \E c \in Callers : CallStep(c) \/ Clock(c)
  \/ \E c \in Callers, i \in 1 .. MaxFuncs : GoroutineStep(c, i)
  \/ WaitStep
  \/ RepeaterStep

Safety == Init /\ [][Next]_vars

\* The scheduler runs every goroutine that can run, timers fire, and a select
\* with two ready branches does not refuse one of them for ever.  Functions
\* return once their context is done; nothing is assumed before that, and the
\* context need not be done before the call itself ends it.
FunctionHeeds(c, i) == expired[c] /\ FunctionReturns(c, i)

Fairness ==
  /\ \A c \in Callers :
       /\ WF_vars(Start(c)) /\ WF_vars(Arm(c)) /\ WF_vars(Receive(c)) /\ WF_vars(TimedOut(c))
       /\ WF_vars(TimerFires(c))
  /\ \A c \in Callers, i \in 1 .. MaxFuncs :
       WF_vars(FunctionHeeds(c, i)) /\ WF_vars(Report(c, i)) /\ WF_vars(Done(c, i))
  /\ WF_vars(Release) /\ WF_vars(WaitOver \/ WaitPanics)
  /\ WF_vars(RepeatedReturns) /\ SF_vars(SeeCancel)

Spec == Safety /\ Fairness

-----------------------------------------------------------------------------
(* Properties.                                                             *)

TypeOK ==
  /\ pc \in [Callers -> {"idle", "starting", "select", "returned"}]
  /\ n \in [Callers -> 0 .. MaxFuncs]
  /\ started \in [Callers -> 0 .. MaxFuncs]
  /\ run \in [Goroutines -> {"none", "running", "finished", "reported", "gone"}]
  /\ done \in [Callers -> Seq(1 .. MaxFuncs)]
  /\ fired \in [Callers -> BOOLEAN] /\ expired \in [Callers -> BOOLEAN]
  /\ oks \in [Callers -> SUBSET (1 .. MaxFuncs)] /\ ok \in [Callers -> BOOLEAN]
  /\ counted \subseteq Goroutines \union {Repeater}
  /\ waiter \in {"out", "waiting", "woken"} /\ panicked \in BOOLEAN
  /\ repeater \in {"none", "select", "busy", "gone"}
  /\ tick \in BOOLEAN /\ cancelled \in BOOLEAN

HasFinished(c, i) == run[<<c, i>>] \in {"finished", "reported", "gone"}

\* A call returns true only when all its functions have finished, counts as
\* finished only those that have, each once, and gives up only after d.
AnswerTrue ==
  \A c \in Callers :
    /\ \A i \in oks[c] : HasFinished(c, i)
    /\ pc[c] = "returned" =>
         /\ ok[c] => oks[c] = 1 .. n[c]
         /\ ~ok[c] => fired[c]

\* Wait returns only when no goroutine is left, those included that a call
\* gave up on, those of the repeater, and those started since the waiter was
\* woken: it then panics instead.
WaitSound ==
  [][waiter # "out" /\ waiter' = "out" =>
       /\ \A g \in Goroutines : run[g] \in {"none", "gone"}
       /\ repeater \in {"none", "gone"}]_vars

\* A call returns even if its functions do not before it does, unless the
\* program panics.
CallsReturn == \A c \in Callers : pc[c] = "starting" ~> pc[c] = "returned" \/ panicked

\* Once the repeater is cancelled Wait returns or panics, whatever the calls
\* have given up on: a late report never blocks on a channel nobody reads any
\* more.
WaitReturns == waiter = "waiting" /\ cancelled ~> waiter = "out" \/ panicked

\* "If all fs finished, returns true"
TrueWhenFinished ==
  [][\A c \in Callers :
       pc[c] = "select" /\ pc'[c] = "returned" /\ (\A i \in 1 .. n[c] : HasFinished(c, i))
         => ok'[c]]_vars
=============================================================================
