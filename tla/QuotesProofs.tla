---------------------------- MODULE QuotesProofs -----------------------------
(***************************************************************************)
(* What the arithmetic of a trade guarantees for every word size, ratio    *)
(* base and input.                                                         *)
(***************************************************************************)
EXTENDS Quotes, AmountsProofs

\* What is computed is computed from legal inputs.
Answers ==
  /\ in \in Inputs
  /\ out = None \/ out = Computed

LEMMA AnswersInvariant == Spec => []Answers
<1>1. Init => Answers
  BY DEF Init, Answers
<1>2. Answers /\ [Next]_<<in, out>> => Answers'
  BY DEF Answers, Next, Answer, Computed
<1> QED BY <1>1, <1>2, PTL DEF Spec

\* Whatever wraps: limits are never laxer than accepted, fees never more
\* than their ratio.
THEOREM NeverLax == Spec => []LimitsNeverLax
<1>1. Answers => LimitsNeverLax
  <2> SUFFICES ASSUME in \in Inputs, out = Computed PROVE LimitsNeverLax
      BY DEF Answers, LimitsNeverLax, Answered
  <2>1. in.amount \in Uint64 /\ in.amount \in Nat /\ in.ratio \in 0 .. Bps
    BY QuotesAssumption, AmountsAssumption DEF Inputs, Uint64
  <2>2. /\ Share(in.amount, in.ratio) <= (in.amount * in.ratio) \div Bps
        /\ MinOut(in.amount, in.ratio) >= in.amount - (in.amount * in.ratio) \div Bps
        /\ MaxCost(in.amount, in.ratio) <= in.amount + (in.amount * in.ratio) \div Bps
    BY <2>1, ShareBelow, LimitsStrict
  <2> QED BY <2>2 DEF LimitsNeverLax, Computed
<1> QED BY <1>1, AnswersInvariant, PTL

\* No trade paid by the exact quote takes value out of a pool.
THEOREM ProductNeverFalls == Spec => []QuoteKeepsProduct
<1>1. Answers => QuoteKeepsProduct
  <2> SUFFICES ASSUME in \in Inputs, out = Computed PROVE QuoteKeepsProduct
      BY DEF Answers, QuoteKeepsProduct, Answered
  <2>1. in.amount \in Nat \ {0} /\ in.near \in Nat /\ in.far \in Nat
    BY QuotesAssumption DEF Inputs, Uint64
  <2>2. (in.near + in.amount) * (in.far - CalculateOutputBigInt(in.amount, in.near, in.far))
          >= in.near * in.far
    BY <2>1, ProductKept
  <2> QED BY <2>2 DEF QuoteKeepsProduct, Computed
<1> QED BY <1>1, AnswersInvariant, PTL

\* The decimal quotes are the exact ones but for one unit, at any precision.
THEOREM QuotesNear == Spec => []QuoteNearFloor
<1>1. Answers => QuoteNearFloor
  <2> SUFFICES ASSUME in \in Inputs, out = Computed, NoWrap PROVE QuoteNearFloor
      BY DEF Answers, QuoteNearFloor, Answered
  <2>1. in.amount \in Nat \ {0} /\ in.near \in Nat /\ in.far \in Uint64 /\ in.amount + in.near < Word
    BY QuotesAssumption, AmountsAssumption DEF Inputs, Uint64, NoWrap
  <2>2. out.quote = CalculateOutput(in.amount, in.near, in.far)
        /\ out.exact = CalculateOutputBigInt(in.amount, in.near, in.far)
    BY DEF Computed
  <2> QED BY <2>1, <2>2, QuoteNear DEF QuoteNearFloor
<1> QED BY <1>1, AnswersInvariant, PTL

\* No initial buy asks for more than the curve sells or than it offers to pay.
THEOREM InitialBuysAffordable == Spec => []InitialBuyAffordable
<1>1. Answers => InitialBuyAffordable
  <2> SUFFICES ASSUME in \in Inputs, out = Computed, NoWrap PROVE InitialBuyAffordable
      BY DEF Answers, InitialBuyAffordable, Answered
  <2>1. /\ in.amount \in Nat \ {0} /\ in.near \in Nat /\ in.far \in Uint64 \ {0}
        /\ in.real \in Uint64 /\ in.near + in.amount < Word
    BY QuotesAssumption, AmountsAssumption DEF Inputs, Uint64, NoWrap
  <2>2. out.initial = GetInitialBuyPrice(in.near, in.far, in.real, in.amount)
    BY DEF Computed
  <2> QED BY <2>1, <2>2, InitialBuyCovered DEF InitialBuyAffordable
<1> QED BY <1>1, AnswersInvariant, PTL

\* The chain never charges more for priority than the gas of the user.
THEOREM PriorityCharged == Spec => []PriorityWithinGas
<1>1. Answers => PriorityWithinGas
  <2> SUFFICES ASSUME in \in Inputs, out = Computed PROVE PriorityWithinGas
      BY DEF Answers, PriorityWithinGas, Answered
  <2>1. in.amount \in Nat /\ in.near + 1 \in Nat \ {0}
    BY QuotesAssumption, AmountsAssumption DEF Inputs, Uint64
  <2>2. out.price = GasPrice(in.amount, in.near + 1)
    BY DEF Computed
  <2> QED BY <2>1, <2>2, PriorityCovered DEF PriorityWithinGas
<1> QED BY <1>1, AnswersInvariant, PTL
=============================================================================
