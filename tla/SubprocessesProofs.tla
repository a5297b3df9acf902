------------------------- MODULE SubprocessesProofs --------------------------
(***************************************************************************)
(* Proofs about Subprocesses, for any number of calls and functions.       *)
(***************************************************************************)
EXTENDS Subprocesses, FiniteSetTheorems, SequenceTheorems, TLAPS

\* The WaitGroup counts exactly the goroutines started and not gone.
Counting ==
  /\ \A g \in Goroutines : g \in counted <=> run[g] \in {"running", "finished", "reported"}
  /\ Repeater \in counted <=> repeater \in {"select", "busy"}

\* What a call knows of its functions is true, before and after it returns.
Knowledge(c) ==
  /\ started[c] <= n[c]
  /\ pc[c] = "idle" => started[c] = 0
  /\ \A i \in 1 .. MaxFuncs : run[<<c, i>>] # "none" => i <= started[c]
  /\ \A k \in 1 .. Len(done[c]) : HasFinished(c, done[c][k])
  /\ \A i \in oks[c] : HasFinished(c, i)
  /\ pc[c] = "returned" => (ok[c] => oks[c] = 1 .. n[c]) /\ (~ok[c] => fired[c])

IInv == TypeOK /\ Counting /\ \A c \in Callers : Knowledge(c)

\* It holds at the start.
LEMMA InitIInv == Init => IInv
<1> SUFFICES ASSUME Init PROVE IInv
    OBVIOUS
<1> USE SubprocessesAssumption
<1>1. TypeOK
  <2>1. << >> \in Seq(1 .. MaxFuncs) /\ 0 \in 0 .. MaxFuncs /\ {} \subseteq 1 .. MaxFuncs
    OBVIOUS
  <2>2. done \in [Callers -> Seq(1 .. MaxFuncs)]
    BY <2>1 DEF Init
  <2> QED BY <2>1, <2>2 DEF Init, TypeOK
<1>2. Counting
  <2>1. \A g \in Goroutines : run[g] = "none" /\ g \notin counted
    BY DEF Init
  <2>2. repeater = "none" /\ Repeater \notin counted
    BY DEF Init
  <2> QED BY <2>1, <2>2 DEF Counting
<1>3. ASSUME NEW c \in Callers PROVE Knowledge(c)
  BY DEF Init, Knowledge, Goroutines
<1> QED BY <1>1, <1>2, <1>3 DEF IInv

\* Its first part is inductive by itself.
LEMMA NextType == TypeOK /\ [Next]_vars => TypeOK'
<1> SUFFICES ASSUME TypeOK, [Next]_vars PROVE TypeOK'
    OBVIOUS
<1> USE SubprocessesAssumption DEF Alive, callVars, repeatVars, Goroutines
<1>1. ASSUME NEW c \in Callers, CallStep(c) \/ Clock(c) PROVE TypeOK'
  <2>1. CASE Call(c) BY <2>1 DEF TypeOK, Call
  <2>2. CASE Start(c)
    <3>1. started[c] + 1 \in 1 .. MaxFuncs
      BY <2>2 DEF TypeOK, Start
    <3>2. started'[c] = started[c] + 1
      BY <2>2 DEF TypeOK, Start
    <3> QED BY <2>2, <3>1, <3>2 DEF TypeOK, Start
  <2>3. CASE Arm(c) BY <2>3 DEF TypeOK, Arm
  <2>4. CASE Receive(c)
    <3>1. Head(done[c]) \in 1 .. MaxFuncs /\ Tail(done[c]) \in Seq(1 .. MaxFuncs)
      BY <2>4, HeadTailProperties DEF TypeOK, Receive
    <3>2. /\ oks' \in [Callers -> SUBSET (1 .. MaxFuncs)]
          /\ done' \in [Callers -> Seq(1 .. MaxFuncs)]
      BY <2>4, <3>1 DEF TypeOK, Receive
    <3>3. /\ pc' \in [Callers -> {"idle", "starting", "select", "returned"}]
          /\ ok' \in [Callers -> BOOLEAN] /\ expired' \in [Callers -> BOOLEAN]
      BY <2>4 DEF TypeOK, Receive, Return
    <3> QED BY <2>4, <3>2, <3>3 DEF TypeOK, Receive
  <2>5. CASE TimedOut(c) BY <2>5 DEF TypeOK, TimedOut, Return
  <2>6. CASE TimerFires(c) BY <2>6 DEF TypeOK, TimerFires
  <2>7. CASE Expire(c) BY <2>7 DEF TypeOK, Expire
  <2> QED BY <1>1, <2>1, <2>2, <2>3, <2>4, <2>5, <2>6, <2>7 DEF CallStep, Clock
<1>2. ASSUME NEW c \in Callers, NEW i \in 1 .. MaxFuncs, GoroutineStep(c, i) PROVE TypeOK'
  <2>1. CASE FunctionReturns(c, i) BY <2>1 DEF TypeOK, FunctionReturns
  <2>2. CASE Report(c, i)
    <3>1. Append(done[c], i) \in Seq(1 .. MaxFuncs)
      BY AppendProperties DEF TypeOK
    <3> QED BY <2>2, <3>1 DEF TypeOK, Report
  <2>3. CASE Done(c, i) BY <2>3 DEF TypeOK, Done
  <2> QED BY <1>2, <2>1, <2>2, <2>3 DEF GoroutineStep
<1>3. CASE WaitStep
  BY <1>3 DEF TypeOK, WaitStep, Wait, Release, AddPanics, WaitOver, WaitPanics
<1>4. CASE RepeaterStep
  BY <1>4 DEF TypeOK, RepeaterStep, Repeat, Tick, Cancel, TakeTick, RepeatedReturns, SeeCancel
<1>5. CASE UNCHANGED vars BY <1>5 DEF TypeOK, vars
<1> QED BY <1>1, <1>2, <1>3, <1>4, <1>5 DEF Next

\* Every goroutine is counted before it starts and until it is gone.
LEMMA NextCounting == IInv /\ [Next]_vars => Counting'
<1> SUFFICES ASSUME IInv, [Next]_vars PROVE Counting'
    OBVIOUS
<1> USE SubprocessesAssumption DEF Alive, callVars, repeatVars, Goroutines, Counting
<1>1. TypeOK /\ Counting
  BY DEF IInv
<1>2. Repeater \notin Goroutines
  BY DEF Repeater
<1>3. ASSUME NEW c \in Callers, CallStep(c) \/ Clock(c) PROVE Counting'
  <2>1. CASE Start(c)
    <3> DEFINE g == <<c, started[c] + 1>>
    <3>1. g \in Goroutines /\ started'[c] = started[c] + 1
      BY <1>1, <2>1 DEF TypeOK, Start
    <3>2. /\ run' = [run EXCEPT ![g] = "running"]
          /\ counted' = counted \union {g}
          /\ UNCHANGED repeater
      BY <2>1, <3>1 DEF Start
    <3>3. DOMAIN run = Goroutines
      BY <1>1 DEF TypeOK
    <3> HIDE DEF g, Goroutines
    <3> QED BY <1>1, <1>2, <3>1, <3>2, <3>3
  <2>2. CASE UNCHANGED <<run, counted, repeater>>
    BY <1>1, <2>2
  <2>3. Start(c) \/ UNCHANGED <<run, counted, repeater>>
    BY <1>3 DEF CallStep, Clock, Call, Arm, Receive, TimedOut, TimerFires, Expire
  <2> QED BY <2>1, <2>2, <2>3
<1>4. ASSUME NEW c \in Callers, NEW i \in 1 .. MaxFuncs, GoroutineStep(c, i) PROVE Counting'
  <2>1. <<c, i>> \in Goroutines /\ <<c, i>> # Repeater
    BY <1>2
  <2>2. DOMAIN run = Goroutines
    BY <1>1 DEF TypeOK
  <2> HIDE DEF Goroutines
  <2>3. CASE FunctionReturns(c, i) BY <1>1, <2>1, <2>2, <2>3 DEF FunctionReturns
  <2>4. CASE Report(c, i) BY <1>1, <2>1, <2>2, <2>4 DEF Report
  <2>5. CASE Done(c, i) BY <1>1, <2>1, <2>2, <2>5 DEF Done
  <2> QED BY <1>4, <2>3, <2>4, <2>5 DEF GoroutineStep
<1>5. CASE WaitStep
  BY <1>1, <1>5 DEF WaitStep, Wait, Release, AddPanics, WaitOver, WaitPanics
<1>6. CASE RepeaterStep
  <2> HIDE DEF Goroutines
  <2> QED BY <1>1, <1>2, <1>6 DEF RepeaterStep, Repeat, Tick, Cancel, TakeTick,
        RepeatedReturns, SeeCancel
<1>7. CASE UNCHANGED vars BY <1>1, <1>7 DEF vars
<1> QED BY <1>3, <1>4, <1>5, <1>6, <1>7 DEF Next

\* A finished function stays finished.
LEMMA FinishedStays ==
  ASSUME IInv, [Next]_vars, NEW c \in Callers, NEW i \in 1 .. MaxFuncs, HasFinished(c, i)
  PROVE  HasFinished(c, i)'
<1> USE DEF HasFinished, callVars, repeatVars
<1>1. DOMAIN run = Goroutines /\ <<c, i>> \in Goroutines
  BY DEF IInv, TypeOK, Goroutines
<1>2. ASSUME NEW d \in Callers, Start(d) PROVE HasFinished(c, i)'
  <2>1. run' = [run EXCEPT ![<<d, started'[d]>>] = "running"]
    BY <1>2 DEF Start
  <2>2. <<d, started'[d]>> # <<c, i>>
    <3>1. d = c => started'[d] = started[c] + 1
      BY <1>2 DEF Start, IInv, TypeOK
    <3>2. i <= started[c] /\ started[c] \in Nat
      BY SubprocessesAssumption DEF IInv, Knowledge, TypeOK
    <3> QED BY <3>1, <3>2
  <2> QED BY <1>1, <2>1, <2>2
<1>3. ASSUME NEW d \in Callers, NEW j \in 1 .. MaxFuncs, GoroutineStep(d, j)
      PROVE HasFinished(c, i)'
  BY <1>1, <1>3 DEF GoroutineStep, FunctionReturns, Report, Done
<1>4. ASSUME UNCHANGED run PROVE HasFinished(c, i)'
  BY <1>4
<1> QED BY <1>2, <1>3, <1>4 DEF Next, CallStep, Clock, Call, Arm, Receive, TimedOut,
      TimerFires, Expire, WaitStep, Wait, Release, AddPanics, WaitOver, WaitPanics,
          RepeaterStep, Repeat, Tick, Cancel, TakeTick,
      RepeatedReturns, SeeCancel, vars

\* A call that has heard of as many functions as it has heard of all.
LEMMA AllHeard ==
  ASSUME NEW k \in Nat, NEW S \in SUBSET (1 .. k), Cardinality(S) = k
  PROVE  S = 1 .. k
<1>1. IsFiniteSet(1 .. k) /\ Cardinality(1 .. k) = k
  BY FS_Interval
<1> QED BY <1>1, FS_Subset

\* What a call has heard of its functions stays true of them.
LEMMA NextKnowledge ==
  ASSUME IInv, [Next]_vars, NEW c \in Callers
  PROVE  Knowledge(c)'
<1> USE SubprocessesAssumption DEF callVars, repeatVars
<1>1. TypeOK /\ Knowledge(c) /\ MaxFuncs \in Nat
  BY DEF IInv
<1>2. /\ n[c] \in 0 .. MaxFuncs /\ started[c] \in 0 .. MaxFuncs
      /\ done[c] \in Seq(1 .. MaxFuncs) /\ oks[c] \subseteq 1 .. MaxFuncs
      /\ DOMAIN run = Goroutines
      /\ \A i \in 1 .. MaxFuncs : <<c, i>> \in Goroutines
  BY <1>1 DEF TypeOK, Goroutines
<1>3. \A i \in 1 .. MaxFuncs : HasFinished(c, i) => HasFinished(c, i)'
  BY FinishedStays
<1>4. \A k \in 1 .. Len(done[c]) : done[c][k] \in 1 .. MaxFuncs
  BY <1>2
\* Nothing but the functions of c has moved.
<1>5. ASSUME UNCHANGED <<pc[c], n[c], started[c], done[c], oks[c], ok[c]>>,
             fired[c] => fired'[c],
             \A i \in 1 .. MaxFuncs : run[<<c, i>>] = "none" => run'[<<c, i>>] = "none"
      PROVE  Knowledge(c)'
  BY <1>1, <1>2, <1>3, <1>4, <1>5 DEF Knowledge
<1>6. ASSUME NEW d \in Callers, CallStep(d) \/ Clock(d), d # c PROVE Knowledge(c)'
  <2>1. UNCHANGED <<pc[c], n[c], started[c], done[c], oks[c], ok[c], fired[c]>>
    BY <1>1, <1>6 DEF TypeOK, CallStep, Clock, Call, Start, Arm, Receive, TimedOut,
         TimerFires, Expire, Return
  <2>2. \A i \in 1 .. MaxFuncs : run'[<<c, i>>] = run[<<c, i>>]
    BY <1>2, <1>6 DEF CallStep, Clock, Call, Start, Arm, Receive, TimedOut, TimerFires, Expire
  <2> QED BY <1>5, <2>1, <2>2
<1>7. CASE Call(c)
  <2>1. started[c] = 0 /\ n'[c] \in Nat /\ pc'[c] = "starting"
    BY <1>1, <1>7 DEF Call, Knowledge, TypeOK
  <2>2. UNCHANGED <<started, run, done, oks, ok, fired>>
    BY <1>7 DEF Call
  <2> QED BY <1>1, <1>2, <1>3, <1>4, <2>1, <2>2 DEF Knowledge
<1>8. CASE Start(c)
  <2>1. /\ started'[c] = started[c] + 1 /\ started[c] < n[c]
        /\ run' = [run EXCEPT ![<<c, started[c] + 1>>] = "running"]
        /\ pc[c] = "starting"
    BY <1>1, <1>8 DEF Start, TypeOK
  <2>2. UNCHANGED <<pc, n, done, oks, ok, fired>>
    BY <1>8 DEF Start
  <2>3. \A i \in 1 .. MaxFuncs : run'[<<c, i>>] # "none" => i <= started'[c]
    BY <1>1, <1>2, <2>1 DEF Knowledge
  <2> QED BY <1>1, <1>2, <1>3, <1>4, <2>1, <2>2, <2>3 DEF Knowledge
<1>9. CASE Arm(c)
  BY <1>1, <1>2, <1>3, <1>4, <1>9 DEF Knowledge, Arm, TypeOK
<1>10. CASE Receive(c)
  <2>1. /\ pc[c] = "select" /\ done[c] # << >>
        /\ oks'[c] = oks[c] \union {Head(done[c])} /\ done'[c] = Tail(done[c])
        /\ UNCHANGED <<n, started, run, fired>>
    BY <1>1, <1>10 DEF Receive, TypeOK
  <2>2. Len(done[c]) \in Nat \ {0} /\ Head(done[c]) = done[c][1]
    BY <1>2, <2>1
  <2>3. HasFinished(c, Head(done[c])) /\ Head(done[c]) \in 1 .. MaxFuncs
    BY <1>1, <1>4, <2>2 DEF Knowledge
  <2>4. \A k \in 1 .. Len(done'[c]) : HasFinished(c, done[c][k])'
    <3>1. Len(done'[c]) = Len(done[c]) - 1
            /\ \A k \in 1 .. Len(done'[c]) : done'[c][k] = done[c][k + 1]
      BY <1>2, <2>1, HeadTailProperties
    <3>2. \A k \in 1 .. Len(done'[c]) : k + 1 \in 1 .. Len(done[c])
      BY <2>2, <3>1
    <3> SUFFICES ASSUME NEW k \in 1 .. Len(done'[c]) PROVE HasFinished(c, done[c][k])'
        OBVIOUS
    <3>3. PICK e \in 1 .. MaxFuncs : e = done[c][k + 1] /\ HasFinished(c, e)
      BY <1>1, <1>4, <3>2 DEF Knowledge
    <3>4. HasFinished(c, e)' /\ done'[c][k] = e
      BY <1>3, <3>1, <3>3
    <3> QED BY <3>4 DEF HasFinished
  <2>5. \A i \in oks'[c] : HasFinished(c, i)'
    BY <1>1, <1>2, <1>3, <2>1, <2>3 DEF Knowledge
  <2>6. oks'[c] \subseteq 1 .. n[c]
    <3> SUFFICES ASSUME NEW i \in oks'[c] PROVE i \in 1 .. n[c]
        OBVIOUS
    <3>1. i \in 1 .. MaxFuncs /\ run[<<c, i>>] # "none"
      BY <1>1, <1>2, <2>1, <2>3 DEF Knowledge, HasFinished
    <3> QED BY <1>1, <1>2, <3>1 DEF Knowledge
  <2>7. pc'[c] = "returned" => ok'[c] /\ oks'[c] = 1 .. n'[c]
    <3> SUFFICES ASSUME pc'[c] = "returned" PROVE ok'[c] /\ oks'[c] = 1 .. n[c]
        BY <2>1
    <3>1. Cardinality(oks'[c]) = n[c] /\ ok'[c]
      BY <1>1, <1>10, <2>1 DEF Receive, Return, TypeOK
    <3>2. n[c] \in Nat
      BY <1>2
    <3> QED BY <2>6, <3>1, <3>2, AllHeard
  <2>8. pc'[c] # "idle"
    BY <1>1, <1>10, <2>1 DEF Receive, Return, TypeOK
  <2> QED BY <1>1, <2>1, <2>4, <2>5, <2>7, <2>8 DEF Knowledge, HasFinished
<1>11. CASE TimedOut(c)
  BY <1>1, <1>2, <1>3, <1>4, <1>11 DEF Knowledge, TimedOut, Return, TypeOK
<1>12. CASE Clock(c)
  BY <1>1, <1>2, <1>5, <1>12 DEF Clock, TimerFires, Expire, TypeOK
<1>13. ASSUME NEW d \in Callers, NEW j \in 1 .. MaxFuncs, GoroutineStep(d, j)
       PROVE  Knowledge(c)'
  <2>1. \A i \in 1 .. MaxFuncs : run[<<c, i>>] = "none" => run'[<<c, i>>] = "none"
    BY <1>2, <1>13 DEF GoroutineStep, FunctionReturns, Report, Done
  <2>2. CASE UNCHANGED done
    BY <1>5, <1>13, <2>1, <2>2 DEF GoroutineStep, FunctionReturns, Report, Done
  <2>3. CASE Report(d, j) /\ d # c
    <3>1. done'[c] = done[c]
      BY <1>1, <2>3 DEF Report, TypeOK
    <3> QED BY <1>5, <2>1, <2>3, <3>1 DEF Report
  <2>4. CASE Report(c, j)
    <3>1. /\ done'[c] = Append(done[c], j) /\ run[<<c, j>>] = "finished"
          /\ UNCHANGED <<pc, n, started, fired, oks, ok>>
      BY <1>1, <2>4 DEF Report, TypeOK
    <3>2. HasFinished(c, j)
      BY <3>1 DEF HasFinished
    <3>3. /\ Len(done'[c]) = Len(done[c]) + 1 /\ done'[c][Len(done[c]) + 1] = j
          /\ \A k \in 1 .. Len(done[c]) : done'[c][k] = done[c][k]
      BY <1>2, <3>1, AppendProperties
    <3>4. \A k \in 1 .. Len(done'[c]) : k \in 1 .. Len(done[c]) \/ k = Len(done[c]) + 1
      BY <1>2, <3>3
    <3>5. \A k \in 1 .. Len(done'[c]) : HasFinished(c, done[c][k])'
      <4> SUFFICES ASSUME NEW k \in 1 .. Len(done'[c]) PROVE HasFinished(c, done[c][k])'
          OBVIOUS
      <4>1. PICK e \in 1 .. MaxFuncs : e = done'[c][k] /\ HasFinished(c, e)
        BY <1>1, <1>4, <3>2, <3>3, <3>4 DEF Knowledge
      <4>2. HasFinished(c, e)'
        BY <1>3, <4>1
      <4> QED BY <4>1, <4>2 DEF HasFinished
    <3>6. \A i \in oks'[c] : HasFinished(c, i)'
      BY <1>1, <1>2, <1>3, <3>1 DEF Knowledge
    <3>7. \A i \in 1 .. MaxFuncs : run'[<<c, i>>] # "none" => i <= started'[c]
      BY <1>1, <2>1, <3>1 DEF Knowledge
    <3>8. /\ started'[c] <= n'[c] /\ (pc'[c] = "idle" => started'[c] = 0)
          /\ pc'[c] = "returned" => (ok'[c] => oks'[c] = 1 .. n'[c]) /\ (~ok'[c] => fired'[c])
      BY <1>1, <3>1 DEF Knowledge
    <3> QED BY <3>5, <3>6, <3>7, <3>8 DEF Knowledge
  <2> QED BY <1>13, <2>2, <2>3, <2>4 DEF GoroutineStep, FunctionReturns, Done
<1>14. ASSUME UNCHANGED callVars PROVE Knowledge(c)'
  BY <1>5, <1>14
<1> QED BY <1>6, <1>7, <1>8, <1>9, <1>10, <1>11, <1>12, <1>13, <1>14
      DEF Next, CallStep, WaitStep, Wait, Release, AddPanics, WaitOver, WaitPanics,
          RepeaterStep, Repeat, Tick, Cancel, TakeTick,
          RepeatedReturns, SeeCancel, vars

\* In every reachable state.
LEMMA Invariance == Safety => []IInv
<1>1. IInv /\ [Next]_vars => IInv'
  <2>1. IInv /\ [Next]_vars => TypeOK'
    BY NextType DEF IInv
  <2>2. IInv /\ [Next]_vars => (\A c \in Callers : Knowledge(c))'
    BY NextKnowledge
  <2> QED BY <2>1, <2>2, NextCounting DEF IInv
<1> QED BY <1>1, InitIInv, PTL DEF Safety

\* The answer of every call is true of the functions it was given.
THEOREM AnswersTrue == Safety => []AnswerTrue
<1>1. IInv => AnswerTrue
  BY DEF IInv, Knowledge, AnswerTrue
<1> QED BY <1>1, Invariance, PTL

\* Wait never returns while a goroutine is left, be it one that a Go has slipped
\* in between the wake-up and the return.
THEOREM WaitsForAll == Safety => WaitSound
<1>1. ASSUME IInv, [Next]_vars, waiter # "out", waiter' = "out"
      PROVE  /\ \A g \in Goroutines : run[g] \in {"none", "gone"}
             /\ repeater \in {"none", "gone"}
  <2>1. counted = {}
    BY <1>1 DEF Next, WaitStep, Wait, Release, AddPanics, WaitOver, WaitPanics,
         CallStep, Clock, GoroutineStep, RepeaterStep, Call,
         Start, Arm, Receive, TimedOut, TimerFires, Expire, FunctionReturns, Report, Done,
         Repeat, Tick, Cancel, TakeTick, RepeatedReturns, SeeCancel, vars
  <2> QED BY <1>1, <2>1 DEF IInv, Counting, TypeOK
<1>2. IInv /\ [Next]_vars =>
        [waiter # "out" /\ waiter' = "out" =>
           /\ \A g \in Goroutines : run[g] \in {"none", "gone"}
           /\ repeater \in {"none", "gone"}]_vars
  BY <1>1
<1> QED BY <1>2, Invariance, PTL DEF Safety, WaitSound

-----------------------------------------------------------------------------
(* The channel of a call.                                                *)

\* The goroutine has sent its report.
Reported(c, i) == run[<<c, i>>] \in {"reported", "gone"}

\* Every report of call c is in its channel or taken from it, and only once.
Reports(c) ==
  /\ \A k \in 1 .. Len(done[c]) : Reported(c, done[c][k])
  /\ \A k, l \in 1 .. Len(done[c]) : done[c][k] = done[c][l] => k = l
  /\ \A i \in oks[c] : Reported(c, i) /\ \A k \in 1 .. Len(done[c]) : done[c][k] # i
  /\ \A i \in 1 .. MaxFuncs :
       Reported(c, i) => i \in oks[c] \/ \E k \in 1 .. Len(done[c]) : done[c][k] = i

ReportInv == IInv /\ \A c \in Callers : Reports(c)

\* At the start nothing has been reported.
LEMMA InitReports == Init => \A c \in Callers : Reports(c)
<1> SUFFICES ASSUME Init, NEW c \in Callers PROVE Reports(c)
    OBVIOUS
<1>1. done[c] = << >> /\ Len(done[c]) = 0 /\ oks[c] = {}
  BY DEF Init
<1>2. \A i \in 1 .. MaxFuncs : run[<<c, i>>] = "none"
  BY DEF Init, Goroutines
<1> QED BY <1>1, <1>2 DEF Reports, Reported

\* A report passes from its function into the channel and from there to the
\* call, and is neither dropped nor repeated on the way.
LEMMA NextReports ==
  ASSUME ReportInv, [Next]_vars, NEW c \in Callers
  PROVE  Reports(c)'
<1> USE SubprocessesAssumption DEF callVars, repeatVars
<1>1. TypeOK /\ Knowledge(c) /\ Reports(c) /\ MaxFuncs \in Nat
  BY DEF ReportInv, IInv
<1>2. /\ n[c] \in 0 .. MaxFuncs /\ started[c] \in 0 .. MaxFuncs
      /\ done[c] \in Seq(1 .. MaxFuncs) /\ oks[c] \subseteq 1 .. MaxFuncs
      /\ DOMAIN run = Goroutines
      /\ \A i \in 1 .. MaxFuncs : <<c, i>> \in Goroutines
  BY <1>1 DEF TypeOK, Goroutines
<1>3. Len(done[c]) \in Nat /\ \A k \in 1 .. Len(done[c]) : done[c][k] \in 1 .. MaxFuncs
  BY <1>2
\* No report of c is sent or received.
<1>4. ASSUME UNCHANGED <<done[c], oks[c]>>,
             \A i \in 1 .. MaxFuncs : Reported(c, i)' <=> Reported(c, i)
      PROVE  Reports(c)'
  <2>1. \A k \in 1 .. Len(done[c]) : \E e \in 1 .. MaxFuncs : e = done[c][k] /\ Reported(c, e)'
    BY <1>1, <1>3, <1>4 DEF Reports
  <2>2. \A k \in 1 .. Len(done'[c]) : Reported(c, done[c][k])'
    BY <1>4, <2>1 DEF Reported
  <2>3. \A i \in oks[c] : Reported(c, i)'
    BY <1>1, <1>2, <1>4 DEF Reports
  <2> QED BY <1>1, <1>4, <2>2, <2>3 DEF Reports
<1>5. ASSUME NEW d \in Callers, Start(d) PROVE Reports(c)'
  <2>1. run' = [run EXCEPT ![<<d, started'[d]>>] = "running"] /\ UNCHANGED <<done, oks>>
    BY <1>5 DEF Start
  <2>2. started[c] \in Nat /\ (d = c => started'[d] = started[c] + 1)
    BY <1>1, <1>2, <1>5 DEF Start, TypeOK
  <2>3. \A i \in 1 .. MaxFuncs : Reported(c, i) => i <= started[c]
    BY <1>1 DEF Knowledge, Reported
  <2>4. \A i \in 1 .. MaxFuncs : Reported(c, i)' <=> Reported(c, i)
    BY <1>2, <2>1, <2>2, <2>3 DEF Reported
  <2> QED BY <1>4, <2>1, <2>4
<1>6. CASE Receive(c)
  <2>1. /\ done[c] # << >> /\ oks'[c] = oks[c] \union {Head(done[c])}
        /\ done'[c] = Tail(done[c]) /\ UNCHANGED run
    BY <1>1, <1>6 DEF Receive, TypeOK
  <2>2. Len(done[c]) \in Nat \ {0} /\ Head(done[c]) = done[c][1]
    BY <1>2, <2>1
  <2>3. /\ Len(done'[c]) = Len(done[c]) - 1
        /\ \A k \in 1 .. Len(done'[c]) : done'[c][k] = done[c][k + 1]
    BY <1>2, <2>1, HeadTailProperties
  <2>4. \A k \in 1 .. Len(done'[c]) : k + 1 \in 1 .. Len(done[c]) /\ k + 1 # 1
    BY <2>2, <2>3
  <2>5. 1 \in 1 .. Len(done[c])
    BY <2>2
  <2>6. \A k \in 1 .. Len(done'[c]) : Reported(c, done[c][k])'
    <3>1. \A k \in 1 .. Len(done'[c]) : Reported(c, done'[c][k])
      BY <1>1, <2>3, <2>4 DEF Reports
    <3> QED BY <2>1, <3>1 DEF Reported
  <2>7. ASSUME NEW k \in 1 .. Len(done'[c]), NEW l \in 1 .. Len(done'[c]),
               done'[c][k] = done'[c][l]
        PROVE  k = l
    <3>1. \A i, j \in 1 .. Len(done[c]) : done[c][i] = done[c][j] => i = j
      BY <1>1 DEF Reports
    <3>2. done[c][k + 1] = done[c][l + 1]
      BY <2>3, <2>7
    <3>3. k + 1 \in 1 .. Len(done[c]) /\ l + 1 \in 1 .. Len(done[c])
      BY <2>4, <2>7
    <3>4. k + 1 = l + 1
      BY <3>1, <3>2, <3>3, Zenon
    <3> QED BY <3>4
  <2>8. ASSUME NEW i \in oks'[c]
        PROVE  Reported(c, i)' /\ \A k \in 1 .. Len(done'[c]) : done'[c][k] # i
    <3>1. CASE i \in oks[c]
      BY <1>1, <2>1, <2>3, <2>4, <3>1 DEF Reports, Reported
    <3>2. CASE i = done[c][1]
      <4>1. Reported(c, i)'
        BY <1>1, <2>1, <2>5, <3>2 DEF Reports, Reported
      <4>2. \A k \in 1 .. Len(done'[c]) : done[c][k + 1] # done[c][1]
        BY <1>1, <2>4, <2>5 DEF Reports
      <4> QED BY <2>3, <3>2, <4>1, <4>2
    <3> QED BY <2>1, <2>2, <2>8, <3>1, <3>2
  <2>9. ASSUME NEW i \in 1 .. MaxFuncs, Reported(c, i)'
        PROVE  i \in oks'[c] \/ \E k \in 1 .. Len(done'[c]) : done'[c][k] = i
    <3>1. Reported(c, i)
      BY <2>1, <2>9 DEF Reported
    <3>2. CASE i \in oks[c]
      BY <2>1, <3>2
    <3>3. ASSUME NEW k \in 1 .. Len(done[c]), done[c][k] = i
          PROVE  i \in oks'[c] \/ \E j \in 1 .. Len(done'[c]) : done'[c][j] = i
      <4>1. CASE k = 1
        BY <2>1, <2>2, <3>3, <4>1
      <4>2. CASE k # 1
        <5>1. k - 1 \in 1 .. Len(done'[c]) /\ (k - 1) + 1 = k
          BY <2>2, <2>3, <4>2
        <5>2. done'[c][k - 1] = done[c][k]
          BY <2>3, <5>1
        <5> QED BY <3>3, <5>1, <5>2
      <4> QED BY <4>1, <4>2
    <3> QED BY <1>1, <3>1, <3>2, <3>3 DEF Reports
  <2> QED BY <2>6, <2>7, <2>8, <2>9 DEF Reports
<1>7. CASE \E j \in 1 .. MaxFuncs : Report(c, j)
  <2>1. PICK j \in 1 .. MaxFuncs : Report(c, j)
    BY <1>7
  <2>2. /\ done'[c] = Append(done[c], j) /\ run[<<c, j>>] = "finished"
        /\ run' = [run EXCEPT ![<<c, j>>] = "reported"] /\ UNCHANGED oks
    BY <1>1, <2>1 DEF Report, TypeOK
  <2>3. /\ Len(done'[c]) = Len(done[c]) + 1 /\ done'[c][Len(done[c]) + 1] = j
        /\ \A k \in 1 .. Len(done[c]) : done'[c][k] = done[c][k]
    BY <1>2, <2>2, AppendProperties
  <2>4. /\ \A k \in 1 .. Len(done'[c]) : k \in 1 .. Len(done[c]) \/ k = Len(done[c]) + 1
        /\ \A k \in 1 .. Len(done[c]) : k \in 1 .. Len(done'[c])
        /\ Len(done[c]) + 1 \in 1 .. Len(done'[c])
    BY <1>3, <2>3
  <2>5. /\ \A i \in 1 .. MaxFuncs : Reported(c, i)' <=> (Reported(c, i) \/ i = j)
        /\ ~Reported(c, j)
    BY <1>2, <2>2 DEF Reported
  <2>6. /\ \A k \in 1 .. Len(done[c]) : done[c][k] # j
        /\ j \notin oks[c]
    BY <1>1, <2>5 DEF Reports
  <2>7. \A k \in 1 .. Len(done'[c]) : Reported(c, done[c][k])'
    <3>1. \A k \in 1 .. Len(done'[c]) :
             \E e \in 1 .. MaxFuncs : e = done'[c][k] /\ Reported(c, e)'
      BY <1>1, <1>3, <2>3, <2>4, <2>5 DEF Reports
    <3> QED BY <3>1 DEF Reported
  <2>8. \A k, l \in 1 .. Len(done'[c]) : done'[c][k] = done'[c][l] => k = l
    BY <1>1, <2>3, <2>4, <2>6 DEF Reports
  <2>9. \A i \in oks'[c] :
          Reported(c, i)' /\ \A k \in 1 .. Len(done'[c]) : done'[c][k] # i
    BY <1>1, <1>2, <2>2, <2>3, <2>4, <2>5, <2>6 DEF Reports
  <2>10. ASSUME NEW i \in 1 .. MaxFuncs, Reported(c, i)'
         PROVE  i \in oks'[c] \/ \E k \in 1 .. Len(done'[c]) : done'[c][k] = i
    BY <1>1, <2>2, <2>3, <2>4, <2>5, <2>10 DEF Reports
  <2> QED BY <2>7, <2>8, <2>9, <2>10 DEF Reports
<1>8. ASSUME NEW d \in Callers, NEW j \in 1 .. MaxFuncs,
             FunctionReturns(d, j) \/ Done(d, j) \/ (Report(d, j) /\ d # c)
      PROVE  Reports(c)'
  <2>1. UNCHANGED <<done[c], oks[c]>>
    BY <1>1, <1>8 DEF FunctionReturns, Report, Done, TypeOK
  <2>2. \A i \in 1 .. MaxFuncs : Reported(c, i)' <=> Reported(c, i)
    BY <1>2, <1>8 DEF FunctionReturns, Report, Done, Reported
  <2> QED BY <1>4, <2>1, <2>2
<1>9. ASSUME NEW d \in Callers, d # c, Receive(d) PROVE Reports(c)'
  <2>1. UNCHANGED <<done[c], oks[c], run>>
    BY <1>1, <1>9 DEF Receive, TypeOK
  <2> QED BY <1>4, <2>1 DEF Reported
<1>10. ASSUME UNCHANGED <<run, done, oks>> PROVE Reports(c)'
  BY <1>4, <1>10 DEF Reported
<1> QED BY <1>5, <1>6, <1>7, <1>8, <1>9, <1>10
      DEF Next, CallStep, Clock, GoroutineStep, Call, Arm, TimedOut, TimerFires, Expire,
          WaitStep, Wait, Release, AddPanics, WaitOver, WaitPanics,
          RepeaterStep, Repeat, Tick, Cancel, TakeTick, RepeatedReturns,
          SeeCancel, vars

\* In every reachable state.
LEMMA ReportInvariance == Safety => []ReportInv
<1>1. Init => ReportInv
  BY InitIInv, InitReports DEF ReportInv
<1>2. ReportInv /\ [Next]_vars => ReportInv'
  <2>1. IInv /\ [Next]_vars => IInv'
    <3>1. IInv /\ [Next]_vars => TypeOK'
      BY NextType DEF IInv
    <3>2. IInv /\ [Next]_vars => (\A c \in Callers : Knowledge(c))'
      BY NextKnowledge
    <3> QED BY <3>1, <3>2, NextCounting DEF IInv
  <2>2. ReportInv /\ [Next]_vars => (\A c \in Callers : Reports(c))'
    BY NextReports
  <2> QED BY <2>1, <2>2 DEF ReportInv
<1> QED BY <1>1, <1>2, PTL DEF Safety

\* There are k numbers from 1 to k.
LEMMA Counted ==
  ASSUME NEW k \in Nat PROVE IsFiniteSet(1 .. k) /\ Cardinality(1 .. k) = k
BY FS_Interval

\* The channel of every call has room for the report of each of its functions
\* that has finished, whether or not the call has returned: no goroutine is
\* ever stopped on a channel that nobody reads.
ReportsFit ==
  \A c \in Callers, i \in 1 .. MaxFuncs :
    run[<<c, i>>] = "finished" => Len(done[c]) < Capacity(c)

\* The send of BlockForAtMostMany never blocks: reports in a channel are from
\* different functions, and none of them from the one about to report.  It is
\* what lets Wait return after calls that gave up.
THEOREM ReportsNeverBlock == Safety => []ReportsFit
<1>1. ASSUME ReportInv, NEW c \in Callers, NEW i \in 1 .. MaxFuncs, run[<<c, i>>] = "finished"
      PROVE  Len(done[c]) < Capacity(c)
  <2> DEFINE L == Len(done[c])
             Others == (1 .. n[c]) \ {i}
             sent == [k \in 1 .. L |-> done[c][k]]
  <2>1. /\ n[c] \in Nat /\ L \in Nat /\ i \in 1 .. n[c]
        /\ \A k \in 1 .. L : done[c][k] \in 1 .. MaxFuncs
    <3>1. TypeOK /\ Knowledge(c) /\ MaxFuncs \in Nat
      BY <1>1, SubprocessesAssumption DEF ReportInv, IInv
    <3>2. n[c] \in Nat /\ started[c] \in Nat /\ done[c] \in Seq(1 .. MaxFuncs)
      BY <3>1 DEF TypeOK
    <3>3. i <= started[c] /\ started[c] <= n[c]
      BY <1>1, <3>1 DEF Knowledge
    <3> QED BY <3>1, <3>2, <3>3
  <2>2. \A k \in 1 .. L : done[c][k] \in Others
    <3> SUFFICES ASSUME NEW k \in 1 .. L PROVE done[c][k] \in Others
        OBVIOUS
    <3>1. Reported(c, done[c][k])
      BY <1>1 DEF ReportInv, Reports
    <3>2. done[c][k] # i /\ run[<<c, done[c][k]>>] # "none"
      BY <1>1, <3>1 DEF Reported
    <3>3. done[c][k] <= started[c] /\ started[c] <= n[c] /\ started[c] \in Nat
      BY <1>1, <2>1, <3>2, SubprocessesAssumption DEF ReportInv, IInv, Knowledge, TypeOK
    <3> QED BY <2>1, <3>2, <3>3
  <2>3. \A k, l \in 1 .. L : done[c][k] = done[c][l] => k = l
    BY <1>1 DEF ReportInv, Reports
  <2>4. sent \in Injection(1 .. L, Others)
    BY <2>2, <2>3 DEF Injection, IsInjective
  <2>5. IsFiniteSet(Others) /\ Cardinality(Others) = n[c] - 1
    <3>1. IsFiniteSet(1 .. n[c]) /\ Cardinality(1 .. n[c]) = n[c]
      BY <2>1, Counted
    <3> QED BY <2>1, <3>1, FS_RemoveElement
  <2>6. Cardinality(1 .. L) = L
    BY <2>1, Counted
  <2>7. L <= n[c] - 1
    <3> HIDE DEF L, Others, sent
    <3> QED BY <2>4, <2>5, <2>6, FS_Injection
  <2> QED BY <2>1, <2>7 DEF Capacity
<1>2. ReportInv => ReportsFit
  BY <1>1 DEF ReportsFit
<1> QED BY <1>2, ReportInvariance, PTL

\* No report is lost: when every function of a call in its select has reported
\* and it has not heard of all of them, its channel is not empty.
NoReportLost ==
  \A c \in Callers :
    /\ pc[c] = "select" /\ oks[c] # 1 .. n[c]
    /\ \A i \in 1 .. n[c] : Reported(c, i)
    => done[c] # << >>

\* A call that waits although all its functions have reported has a report to
\* receive, so its select is not stuck until the timer.
THEOREM ReportsReachTheCall == Safety => []NoReportLost
<1>1. ASSUME ReportInv, NEW c \in Callers, oks[c] # 1 .. n[c],
             \A i \in 1 .. n[c] : Reported(c, i)
      PROVE  done[c] # << >>
  <2>1. TypeOK /\ Knowledge(c) /\ Reports(c) /\ MaxFuncs \in Nat
    BY <1>1, SubprocessesAssumption DEF ReportInv, IInv
  <2>2. n[c] \in 0 .. MaxFuncs /\ started[c] \in Nat /\ oks[c] \subseteq 1 .. MaxFuncs
    BY <2>1 DEF TypeOK
  <2>3. oks[c] \subseteq 1 .. n[c]
    <3> SUFFICES ASSUME NEW i \in oks[c] PROVE i \in 1 .. n[c]
        OBVIOUS
    <3>1. i \in 1 .. MaxFuncs /\ run[<<c, i>>] # "none"
      BY <2>1, <2>2 DEF Reports, Reported
    <3> QED BY <2>1, <2>2, <3>1 DEF Knowledge
  <2>4. PICK i \in 1 .. n[c] : i \notin oks[c]
    BY <1>1, <2>3
  <2>5. Reported(c, i) /\ i \in 1 .. MaxFuncs
    <3>1. i \in 1 .. MaxFuncs
      BY <2>1, <2>2
    <3> QED BY <1>1, <3>1
  <2>6. \E k \in 1 .. Len(done[c]) : done[c][k] = i
    BY <2>1, <2>4, <2>5 DEF Reports
  <2> QED BY <2>6
<1>2. ReportInv => NoReportLost
  BY <1>1 DEF NoReportLost
<1> QED BY <1>2, ReportInvariance, PTL
=============================================================================
