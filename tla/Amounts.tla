------------------------------- MODULE Amounts -------------------------------
(***************************************************************************)
(* The arithmetic of a trade: quotes, shares in basis points, limits and   *)
(* gas.  The uint64 operations of the code wrap; its decimals divide with  *)
(* a fixed number of digits, rounding half up; its big.Ints are exact.     *)
(***************************************************************************)
EXTENDS Integers

CONSTANTS
  Word,       \* 2^64: the values of a uint64 are 0 .. Word - 1
  Bps,        \* 10000: slippage and fee ratios are counted in 1/Bps
  Scale,      \* 10^16: decimal.DivisionPrecision is 16 digits
  MicroUnit   \* 10^6: the price of a compute unit is in millionths of a lamport

ASSUME AmountsAssumption ==
  /\ Word \in Nat \ {0}
  /\ Bps \in Nat \ {0}
  /\ Scale \in Nat \ {0}
  /\ MicroUnit \in Nat \ {0}

Uint64 == 0 .. Word - 1

Wrap(x) == x % Word

\* decimal.Div: n / d to the nearest multiple of 1/Scale, as that multiple.
DivRound(n, d) == (2 * n * Scale + d) \div (2 * d)

\* Mutant of CalculateOutput: the input is left out of the divisor.
OutputAtOldPrice(inputA, reserveA, reserveB) ==
  Wrap(DivRound(inputA * reserveB, reserveA + 1) \div Scale)

\* The output of a swap by the constant product formula, in decimals.  The
\* sum is taken in uint64 first; decimal panics when it is zero.
CalculateOutput(inputA, reserveA, reserveB) ==
  Wrap(DivRound(inputA * reserveB, Wrap(inputA + reserveA)) \div Scale)

\* Mutant of CalculateOutputBigInt: the reserve without the input.
OutputOfOldReserve(inputA, reserveA, reserveB) ==
  (inputA * reserveB) \div (reserveA + 1)

\* The same in big.Int.
CalculateOutputBigInt(inputA, reserveA, reserveB) ==
  (inputA * reserveB) \div (inputA + reserveA)

\* Mutant of Share: rounded up.
ShareRoundedUp(x, ratio) == (x * ratio + Bps - 1) \div Bps

\* x * ratio / 10000 in uint64: the bot's fee, or the slippage allowed.
Share(x, ratio) == Wrap(x * ratio) \div Bps

\* minAmountOut -= minAmountOut * slippage / 10000
MinOut(out, slippage) == Wrap(out - Share(out, slippage))

\* solAmount += solAmount * slippage / 10000
MaxCost(sol, slippage) == Wrap(sol + Share(sol, slippage))

\* Mutant of GetInitialBuyPrice: the quotient is not increased.
InitialBuyUnrounded(virtualSol, virtualToken, realToken, solAmount) ==
  LET s == virtualToken - (virtualSol * virtualToken) \div Wrap(virtualSol + solAmount)
  IN IF solAmount = 0 THEN 0 ELSE IF s < realToken THEN Wrap(s) ELSE Wrap(realToken)

\* What an initial buy gets from a fresh curve.  The quotient is increased by
\* one before it is subtracted, so that the cost of s never exceeds solAmount.
\* A negative difference would come out of Uint64() without its sign.
GetInitialBuyPrice(virtualSol, virtualToken, realToken, solAmount) ==
  LET i == Wrap(virtualSol + solAmount)
      s == virtualToken - ((virtualSol * virtualToken) \div i + 1)
  IN IF solAmount = 0 THEN 0
     ELSE IF s < realToken THEN Wrap(IF s < 0 THEN -s ELSE s)
     ELSE Wrap(realToken)

\* The compute unit price that spends gasFee lamports on gasLimit units.
GasPrice(gasFee, gasLimit) == Wrap((MicroUnit * gasFee) \div gasLimit)

\* What the chain charges for gasLimit units at that price, rounded up.
PriorityFee(price, gasLimit) == (price * gasLimit + MicroUnit - 1) \div MicroUnit

\* What the curve charges for tokens, with its reserves at (sol, token).
CurveCost(sol, token, tokens) == (sol * tokens) \div (token - tokens) + 1
=============================================================================
