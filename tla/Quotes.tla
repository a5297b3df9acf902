------------------------------- MODULE Quotes --------------------------------
(***************************************************************************)
(* Amounts over every small input: a quote is asked for and answered.      *)
(***************************************************************************)
EXTENDS Amounts

CONSTANT MaxInput      \* bound: no input is larger

ASSUME QuotesAssumption == MaxInput \in Uint64

VARIABLES in,          \* the arguments of a trade
          out          \* everything computed from them

Inputs == [amount : 1 .. MaxInput, near : 0 .. MaxInput, far : 1 .. MaxInput,
           real : 0 .. MaxInput, ratio : 0 .. Bps]

None == [quote |-> 0]

Init == in \in Inputs /\ out = None

\* One caller's arithmetic.
Computed ==
  [quote |-> CalculateOutput(in.amount, in.near, in.far),
   exact |-> CalculateOutputBigInt(in.amount, in.near, in.far),
   share |-> Share(in.amount, in.ratio),
   minOut |-> MinOut(in.amount, in.ratio),
   maxCost |-> MaxCost(in.amount, in.ratio),
   initial |-> GetInitialBuyPrice(in.near, in.far, in.real, in.amount),
   price |-> GasPrice(in.amount, in.near + 1)]

\* A sum that wraps to zero panics: no answer.
Answer ==
  /\ out = None
  /\ Wrap(in.amount + in.near) # 0
  /\ out' = Computed
  /\ UNCHANGED in

Next == Answer

Spec == Init /\ [][Next]_<<in, out>>

-----------------------------------------------------------------------------
Answered == out # None

NoWrap == in.amount + in.near < Word

\* The decimal quote of CalculateOutput is the exact floor as long as the
\* divisor has fewer digits than the precision; beyond, rounding may make it
\* one more, and it never reaches past the reserve it is paid from.
QuoteNearFloor ==
  Answered /\ NoWrap =>
    /\ in.amount + in.near < 2 * Scale => out.quote = out.exact
    /\ out.quote \in {out.exact, out.exact + 1}
    /\ out.quote <= in.far

\* A swap paid by the exact quote never takes value out of the pool: the
\* product of its reserves does not fall.
QuoteKeepsProduct ==
  Answered => (in.near + in.amount) * (in.far - out.exact) >= in.near * in.far

\* However the products wrap, the limits sent with a trade are never laxer
\* than the slippage the user accepted, and the fee never more than its ratio.
LimitsNeverLax ==
  Answered =>
    /\ out.share <= (in.amount * in.ratio) \div Bps
    /\ out.minOut >= in.amount - (in.amount * in.ratio) \div Bps
    /\ out.maxCost <= in.amount + (in.amount * in.ratio) \div Bps

\* The tokens an initial buy asks for are on the curve and cost no more than
\* the SOL it offers, whether or not they are all that the curve sells.
InitialBuyAffordable ==
  Answered /\ NoWrap /\ out.initial > 0 =>
    /\ out.initial < in.far /\ out.initial <= in.real
    /\ CurveCost(in.near, in.far, out.initial) <= in.amount

\* The priority fee charged at the computed price is within the user's gas.
PriorityWithinGas ==
  Answered => PriorityFee(out.price, in.near + 1) <= in.amount
=============================================================================
