---------------------------- MODULE AmountsProofs ----------------------------
(***************************************************************************)
(* Lemmas about the arithmetic of a trade, for every word size, ratio base *)
(* and input.                                                              *)
(***************************************************************************)
EXTENDS Amounts, TLAPS

\* A quotient is a natural number, and the largest whose product fits.
LEMMA DivFits ==
  ASSUME NEW n \in Nat, NEW d \in Nat \ {0}
  PROVE  /\ n \div d \in Nat
         /\ d * (n \div d) <= n
         /\ n < d * (n \div d + 1)
OBVIOUS

\* Division keeps the order.
LEMMA DivMonotone ==
  ASSUME NEW m \in Nat, NEW n \in Nat, NEW d \in Nat \ {0}, m <= n
  PROVE  m \div d <= n \div d
<1> DEFINE a == m \div d
           b == n \div d
<1>1. a \in Nat /\ b \in Nat /\ d * a <= m /\ n < d * (b + 1)
  BY DivFits
<1> HIDE DEF a, b
<1>2. SUFFICES ASSUME b + 1 <= a PROVE FALSE
  BY <1>1 DEF a, b
<1>3. d * (b + 1) <= d * a
  BY <1>1, <1>2
<1> QED BY <1>1, <1>3

\* Wrapping gives a uint64 and never more than the exact value.
LEMMA WrapBelow ==
  ASSUME NEW x \in Nat
  PROVE  Wrap(x) \in Uint64 /\ Wrap(x) <= x
BY AmountsAssumption DEF Wrap, Uint64

\* Multiplication keeps the order.
LEMMA TimesMonotone ==
  ASSUME NEW x \in Nat, NEW a \in Nat, NEW b \in Nat, a <= b
  PROVE  x * a <= x * b /\ x * a \in Nat /\ x * b \in Nat
OBVIOUS

\* A share is at most the exact share, and with a ratio of at most Bps no
\* more than the whole.
LEMMA ShareBelow ==
  ASSUME NEW x \in Nat, NEW ratio \in 0 .. Bps
  PROVE  /\ Share(x, ratio) \in Nat
         /\ Share(x, ratio) <= (x * ratio) \div Bps
         /\ (x * ratio) \div Bps <= x
<1> USE AmountsAssumption
<1>1. x * ratio \in Nat /\ x * ratio <= x * Bps
  BY TimesMonotone
<1>2. Wrap(x * ratio) \in Nat /\ Wrap(x * ratio) <= x * ratio
  BY <1>1, WrapBelow DEF Uint64
<1>3. Share(x, ratio) <= (x * ratio) \div Bps
  BY <1>1, <1>2, DivMonotone DEF Share
<1>4. (x * ratio) \div Bps <= x
  <2> DEFINE q == (x * ratio) \div Bps
  <2>1. q \in Nat /\ Bps * q <= x * Bps
    BY <1>1, DivFits
  <2> HIDE DEF q
  <2>2. SUFFICES ASSUME x + 1 <= q PROVE FALSE
    BY <2>1 DEF q
  <2>3. Bps * (x + 1) <= Bps * q
    BY <2>1, <2>2, TimesMonotone
  <2> QED BY <2>1, <2>3
<1> QED BY <1>2, <1>3, <1>4, DivFits DEF Share

\* The limits of a trade are never laxer than the slippage accepted.
LEMMA LimitsStrict ==
  ASSUME NEW x \in Uint64, NEW ratio \in 0 .. Bps
  PROVE  /\ MinOut(x, ratio) = x - Share(x, ratio)
         /\ MinOut(x, ratio) >= x - (x * ratio) \div Bps
         /\ MaxCost(x, ratio) <= x + (x * ratio) \div Bps
<1> USE AmountsAssumption
<1>1. /\ x \in Nat
      /\ Share(x, ratio) \in 0 .. x
      /\ (x * ratio) \div Bps \in Nat
      /\ Share(x, ratio) <= (x * ratio) \div Bps
  <2>1. x \in Nat /\ x * ratio \in Nat BY TimesMonotone DEF Uint64
  <2>2. (x * ratio) \div Bps \in Nat BY <2>1, DivFits
  <2> QED BY <2>1, <2>2, ShareBelow
<1> HIDE DEF Share
<1>2. MinOut(x, ratio) = x - Share(x, ratio)
  <2>1. x - Share(x, ratio) \in 0 .. Word - 1 BY <1>1 DEF Uint64
  <2> QED BY <2>1 DEF MinOut, Wrap
<1>3. MaxCost(x, ratio) <= x + Share(x, ratio)
  BY <1>1, WrapBelow DEF MaxCost
<1>4. MaxCost(x, ratio) \in Nat
  BY <1>1, WrapBelow DEF MaxCost, Uint64
<1> QED BY <1>1, <1>2, <1>3, <1>4

\* Paying the exact quote never lowers the product of the reserves.
LEMMA ProductKept ==
  ASSUME NEW a \in Nat \ {0}, NEW near \in Nat, NEW far \in Nat
  PROVE  (near + a) * (far - CalculateOutputBigInt(a, near, far)) >= near * far
<1> DEFINE d == near + a
           o == CalculateOutputBigInt(a, near, far)
<1>1. d \in Nat \ {0} /\ a * far \in Nat
  OBVIOUS
<1>2. o \in Nat /\ d * o <= a * far
  <2>1. o = (a * far) \div d BY DEF CalculateOutputBigInt
  <2> QED BY <1>1, <2>1, DivFits
<1> HIDE DEF o
<1>3. d * (far - o) = d * far - d * o
  BY <1>1, <1>2
<1>4. d * far = near * far + a * far
  OBVIOUS
<1>5. d * o \in Nat /\ near * far \in Nat
  BY <1>1, <1>2
<1>6. d * (far - o) >= near * far
  <2> HIDE DEF d
  <2> QED BY <1>1, <1>2, <1>3, <1>4, <1>5
<1> QED BY <1>6 DEF o

\* Two shares of an amount are together no more than the amount, as long as
\* their ratios are no more than the whole.
LEMMA SharesTogether ==
  ASSUME NEW x \in Nat, NEW a \in 0 .. Bps, NEW b \in 0 .. Bps, a + b <= Bps
  PROVE  Share(x, a) + Share(x, b) <= x
<1> USE AmountsAssumption
<1> DEFINE m == (x * a) \div Bps
           n == (x * b) \div Bps
<1>1. /\ Share(x, a) \in Nat /\ Share(x, a) <= m
      /\ Share(x, b) \in Nat /\ Share(x, b) <= n
  BY ShareBelow
<1>2. /\ x * a \in Nat /\ x * b \in Nat /\ x * (a + b) \in Nat
      /\ x * (a + b) <= x * Bps
      /\ x * (a + b) = x * a + x * b
  <2>1. a + b \in Nat OBVIOUS
  <2>2. x * (a + b) <= x * Bps /\ x * (a + b) \in Nat BY <2>1, TimesMonotone
  <2> QED BY <2>2, TimesMonotone
<1>3. m \in Nat /\ n \in Nat /\ Bps * m <= x * a /\ Bps * n <= x * b
  BY <1>2, DivFits
<1> HIDE DEF m, n
<1>4. Bps * m + Bps * n <= x * Bps
  <2>1. Bps * m \in Nat /\ Bps * n \in Nat /\ x * Bps \in Nat BY <1>3
  <2> QED BY <1>2, <1>3, <2>1
<1>5. m + n <= x
  <2> SUFFICES ASSUME x + 1 <= m + n PROVE FALSE
      BY <1>3
  <2>1. Bps * (x + 1) <= Bps * (m + n)
    <3>1. x + 1 \in Nat /\ m + n \in Nat BY <1>3
    <3> QED BY <3>1, TimesMonotone
  <2>2. Bps * (x + 1) = x * Bps + Bps /\ Bps * (m + n) = Bps * m + Bps * n
    BY <1>3
  <2>3. Bps * m \in Nat /\ Bps * n \in Nat /\ x * Bps \in Nat BY <1>3
  <2> QED BY <1>4, <2>1, <2>2, <2>3
<1> QED BY <1>1, <1>3, <1>5

\* Shares and limits of a uint64 are uint64.
LEMMA SharesAreWords ==
  ASSUME NEW x \in Uint64, NEW ratio \in Nat
  PROVE  /\ Share(x, ratio) \in Uint64
         /\ MinOut(x, ratio) \in Uint64
         /\ MaxCost(x, ratio) \in Uint64
<1> USE AmountsAssumption
<1>1. x \in Nat /\ x * ratio \in Nat
  BY DEF Uint64
<1>2. Wrap(x * ratio) \in Uint64
  BY <1>1, WrapBelow
<1>3. \A w \in Uint64 : w \div Bps \in Uint64
  <2> SUFFICES ASSUME NEW w \in Uint64 PROVE w \div Bps \in Uint64
      OBVIOUS
  <2> DEFINE q == w \div Bps
  <2>1. w \in Nat /\ w <= Word - 1 BY DEF Uint64
  <2>2. q \in Nat /\ Bps * q <= w BY <2>1, DivFits
  <2> HIDE DEF q
  <2>3. q * 1 <= q * Bps BY <2>2, TimesMonotone
  <2>4. q <= w BY <2>1, <2>2, <2>3
  <2>5. q \in Uint64 BY <2>1, <2>2, <2>4 DEF Uint64
  <2> QED BY <2>5 DEF q
<1>4. Share(x, ratio) \in Uint64
  BY <1>2, <1>3 DEF Share
<1>5. \A i \in Int : Wrap(i) \in Uint64
  BY DEF Wrap, Uint64
<1>6. x - Share(x, ratio) \in Int /\ x + Share(x, ratio) \in Int
  BY <1>4 DEF Uint64
<1> QED BY <1>4, <1>5, <1>6 DEF MinOut, MaxCost

\* The decimal quote is a uint64 whenever its divisor is not zero.
LEMMA QuoteIsWord ==
  ASSUME NEW a \in Nat, NEW near \in Nat, NEW far \in Nat, Wrap(a + near) # 0
  PROVE  CalculateOutput(a, near, far) \in Uint64
<1> USE AmountsAssumption
<1> DEFINE n == a * far
           d == Wrap(a + near)
<1>1. n \in Nat /\ d \in Nat \ {0}
  BY WrapBelow DEF Uint64
<1> HIDE DEF n, d
<1>2. 2 * n * Scale + d \in Nat /\ 2 * d \in Nat \ {0}
  BY <1>1
<1>3. DivRound(n, d) \in Nat
  BY <1>2, DivFits DEF DivRound
<1>4. DivRound(n, d) \div Scale \in Nat
  BY <1>3, DivFits
<1> QED BY <1>4, WrapBelow DEF CalculateOutput, n, d

\* The exact quote never empties the reserve it is paid from.
LEMMA QuoteBelowReserve ==
  ASSUME NEW a \in Nat, NEW near \in Nat \ {0}, NEW far \in Nat \ {0}
  PROVE  /\ CalculateOutputBigInt(a, near, far) \in Nat
         /\ CalculateOutputBigInt(a, near, far) < far
<1> DEFINE d == a + near
           o == CalculateOutputBigInt(a, near, far)
<1>1. d \in Nat \ {0} /\ a * far \in Nat
  OBVIOUS
<1>2. o \in Nat /\ d * o <= a * far
  BY <1>1, DivFits DEF CalculateOutputBigInt
<1>3. d * far = a * far + near * far /\ near * far \in Nat /\ near * far > 0
  OBVIOUS
<1> HIDE DEF o, d
<1>4. ASSUME far <= o PROVE FALSE
  <2>1. d * far <= d * o BY <1>1, <1>2, <1>4, TimesMonotone
  <2>2. d * o \in Nat /\ d * far \in Nat BY <1>1, <1>2
  <2> QED BY <1>1, <1>2, <1>3, <2>1, <2>2
<1> QED BY <1>2, <1>4 DEF o

\* A common factor can be left out of a comparison.
LEMMA Cancelled ==
  ASSUME NEW d \in Nat \ {0}, NEW a \in Nat, NEW b \in Nat, d * a < d * b
  PROVE  a < b
<1> SUFFICES ASSUME b <= a PROVE FALSE
    OBVIOUS
<1>1. d * b <= d * a /\ d * a \in Nat /\ d * b \in Nat
  BY TimesMonotone
<1> QED BY <1>1

\* A quotient is below whatever its dividend is below a multiple of.
LEMMA DivBelow ==
  ASSUME NEW n \in Nat, NEW d \in Nat \ {0}, NEW b \in Nat, n < d * b
  PROVE  n \div d < b
<1> DEFINE q == n \div d
<1>1. q \in Nat /\ d * q <= n
  BY DivFits
<1> HIDE DEF q
<1>2. d * q \in Nat /\ d * b \in Nat
  BY <1>1
<1>3. d * q < d * b
  BY <1>1, <1>2
<1> QED BY <1>1, <1>3, Cancelled DEF q

\* And not below what it is not.
LEMMA DivAbove ==
  ASSUME NEW n \in Nat, NEW d \in Nat \ {0}, NEW b \in Nat, d * b <= n
  PROVE  b <= n \div d
<1> DEFINE q == n \div d
<1>1. q \in Nat /\ n < d * (q + 1)
  BY DivFits
<1> HIDE DEF q
<1>2. d * b \in Nat /\ d * (q + 1) \in Nat
  BY <1>1
<1>3. d * b < d * (q + 1)
  BY <1>1, <1>2
<1>4. b < q + 1
  BY <1>1, <1>3, Cancelled
<1> QED BY <1>1, <1>4 DEF q

\* The fee charged at the computed price is within the gas offered.
LEMMA PriorityCovered ==
  ASSUME NEW a \in Nat, NEW units \in Nat \ {0}
  PROVE  PriorityFee(GasPrice(a, units), units) <= a
<1> USE AmountsAssumption
<1> DEFINE p == (MicroUnit * a) \div units
           w == Wrap(p)
<1>1. MicroUnit * a \in Nat
  OBVIOUS
<1>2. p \in Nat /\ units * p <= MicroUnit * a
  BY <1>1, DivFits
<1>3. w \in Nat /\ w <= p
  BY <1>2, WrapBelow DEF Uint64
<1>4. GasPrice(a, units) = w
  BY DEF GasPrice
<1> HIDE DEF p, w
<1>5. units * w <= units * p /\ units * w \in Nat /\ units * p \in Nat
  BY <1>2, <1>3, TimesMonotone
<1>6. w * units = units * w
  BY <1>3
<1> DEFINE x == w * units
<1>7. x \in Nat /\ x <= MicroUnit * a
  BY <1>1, <1>2, <1>5, <1>6
<1> HIDE DEF x
<1>8. MicroUnit * (a + 1) = MicroUnit * a + MicroUnit
  OBVIOUS
<1>9. x + MicroUnit - 1 < MicroUnit * (a + 1) /\ x + MicroUnit - 1 \in Nat
  BY <1>1, <1>7, <1>8
<1>10. (x + MicroUnit - 1) \div MicroUnit < a + 1
  BY <1>9, DivBelow
<1>11. (x + MicroUnit - 1) \div MicroUnit \in Nat
  BY <1>9, DivFits
<1>12. PriorityFee(w, units) = (x + MicroUnit - 1) \div MicroUnit
  BY DEF PriorityFee, x
<1> QED BY <1>4, <1>10, <1>11, <1>12

\* What an initial buy asks for is no more than the curve sells and worth no
\* more than what it offers, on a curve whose sum with the offer does not wrap.
LEMMA InitialBuyCovered ==
  ASSUME NEW sol \in Nat, NEW tokens \in Uint64 \ {0}, NEW real \in Uint64,
         NEW a \in Nat \ {0}, sol + a < Word
  PROVE  LET t == GetInitialBuyPrice(sol, tokens, real, a) IN
         t < tokens /\ t <= real /\ CurveCost(sol, tokens, t) <= a
<1> USE AmountsAssumption
<1> DEFINE i == sol + a
           n == sol * tokens
           q == n \div i
           s == tokens - (q + 1)
<1>1. tokens \in Nat \ {0} /\ i \in Nat \ {0} /\ n \in Nat /\ Wrap(sol + a) = i
  BY DEF Uint64, Wrap
<1>2. q \in Nat /\ i * q <= n /\ n < i * (q + 1)
  BY <1>1, DivFits
<1>3. GetInitialBuyPrice(sol, tokens, real, a) =
        IF s < real THEN Wrap(IF s < 0 THEN -s ELSE s) ELSE Wrap(real)
  BY <1>1 DEF GetInitialBuyPrice
<1>4. i * tokens = n + a * tokens /\ a * tokens \in Nat \ {0}
  BY <1>1
<1> HIDE DEF i, n, q
<1>5. n < i * tokens
  BY <1>1, <1>4
<1>6. q < tokens
  BY <1>1, <1>5, DivBelow DEF q
<1>7. s \in Nat /\ s < tokens /\ s < Word
  BY <1>1, <1>2, <1>6 DEF Uint64
<1> DEFINE t == IF s < real THEN s ELSE real
<1>8. GetInitialBuyPrice(sol, tokens, real, a) = t
  <2>1. ~(s < 0)
    BY <1>7
  <2>2. Wrap(s) = s /\ Wrap(real) = real
    BY <1>7 DEF Wrap, Uint64
  <2> HIDE DEF s
  <2> QED BY <1>3, <1>7, <2>1, <2>2
<1>9. tokens - s = q + 1
  BY <1>1, <1>2
<1>10. sol * s = n - sol * (q + 1)
  <2>1. sol * (tokens - (q + 1)) = sol * tokens - sol * (q + 1)
    BY <1>1, <1>2
  <2> QED BY <2>1 DEF n
<1>11. i * (q + 1) = sol * (q + 1) + (q + 1) * a
  BY <1>2 DEF i
<1> HIDE DEF s
<1>12. sol * s \in Nat /\ sol * (q + 1) \in Nat /\ (q + 1) * a \in Nat
  BY <1>2, <1>7
<1>13. sol * s < (q + 1) * a
  BY <1>1, <1>2, <1>10, <1>11, <1>12
<1>14. t \in Nat /\ t <= s /\ t <= real /\ real \in Nat
  BY <1>7 DEF Uint64
<1> HIDE DEF t
<1>15. tokens - t \in Nat \ {0} /\ q + 1 <= tokens - t
  BY <1>1, <1>2, <1>7, <1>9, <1>14
<1>16. sol * t \in Nat /\ sol * t < (tokens - t) * a
  <2>1. sol * t <= sol * s /\ sol * t \in Nat
    BY <1>7, <1>14, TimesMonotone
  <2>2. a * (q + 1) <= a * (tokens - t) /\ a * (tokens - t) \in Nat
    BY <1>2, <1>15, TimesMonotone
  <2>3. a * (q + 1) = (q + 1) * a /\ a * (tokens - t) = (tokens - t) * a
    BY <1>2, <1>15
  <2> QED BY <1>12, <1>13, <2>1, <2>2, <2>3
<1>17. (sol * t) \div (tokens - t) < a /\ (sol * t) \div (tokens - t) \in Nat
  BY <1>15, <1>16, DivBelow, DivFits
<1>18. CurveCost(sol, tokens, t) = (sol * t) \div (tokens - t) + 1
  BY DEF CurveCost
<1>19. t < tokens
  BY <1>1, <1>7, <1>14
<1> QED BY <1>8, <1>14, <1>17, <1>18, <1>19

\* The decimal quote is the exact one or the next, the exact one while the
\* divisor has few digits, and at most the reserve.
LEMMA QuoteNear ==
  ASSUME NEW a \in Nat \ {0}, NEW near \in Nat, NEW far \in Uint64, a + near < Word
  PROVE  LET quote == CalculateOutput(a, near, far)
             exact == CalculateOutputBigInt(a, near, far)
         IN /\ a + near < 2 * Scale => quote = exact
            /\ quote \in {exact, exact + 1}
            /\ quote <= far
<1> USE AmountsAssumption
<1> DEFINE d == a + near
           n == a * far
           o == n \div d
           m == 2 * n * Scale + d
           r == m \div (2 * d)
           t == r \div Scale
<1>1. d \in Nat \ {0} /\ n \in Nat /\ far \in Nat /\ Wrap(a + near) = d /\ n <= d * far
  <2>1. far \in Nat /\ d \in Nat \ {0} /\ Wrap(a + near) = d
    BY DEF Uint64, Wrap
  <2>2. d * far = a * far + near * far /\ a * far \in Nat /\ near * far \in Nat
    BY <2>1
  <2> QED BY <2>1, <2>2
<1>2. /\ CalculateOutputBigInt(a, near, far) = o
      /\ CalculateOutput(a, near, far) = Wrap(t)
  BY <1>1 DEF CalculateOutputBigInt, CalculateOutput, DivRound
<1>3. o \in Nat /\ d * o <= n /\ n < d * (o + 1)
  <2> HIDE DEF d, n
  <2> QED BY <1>1, DivFits
<1> HIDE DEF d, n, o
<1> DEFINE e == 2 * d
<1>4. e \in Nat \ {0} /\ m \in Nat
  BY <1>1
<1>5. r \in Nat
  BY <1>4, DivFits
<1>6. t \in Nat
  <2> HIDE DEF r
  <2> QED BY <1>5, DivFits
\* The rounded quotient is at least o and at most far, in multiples of 1/Scale.
<1>7. ASSUME NEW k \in Nat, d * k <= n PROVE k * Scale <= r
  <2>1. 2 * Scale * (d * k) <= 2 * Scale * n
    <3>1. d * k \in Nat /\ 2 * Scale \in Nat
      BY <1>1
    <3> QED BY <1>1, <1>7, <3>1, TimesMonotone
  <2>2. 2 * Scale * (d * k) = e * (k * Scale) /\ 2 * Scale * n = 2 * n * Scale
    BY <1>1
  <2>3. e * (k * Scale) \in Nat /\ 2 * n * Scale \in Nat /\ k * Scale \in Nat
    BY <1>1
  <2>4. e * (k * Scale) <= m
    BY <1>1, <2>1, <2>2, <2>3
  <2> HIDE DEF m, e
  <2>5. k * Scale <= m \div e
    BY <1>4, <2>3, <2>4, DivAbove
  <2> QED BY <2>5 DEF e
<1>8. ASSUME NEW k \in Nat, n <= d * k PROVE r <= k * Scale
  <2>1. 2 * Scale * n <= 2 * Scale * (d * k)
    <3>1. d * k \in Nat /\ 2 * Scale \in Nat
      BY <1>1
    <3> QED BY <1>1, <1>8, <3>1, TimesMonotone
  <2>2. 2 * Scale * (d * k) = e * (k * Scale) /\ 2 * Scale * n = 2 * n * Scale
    BY <1>1
  <2>3. e * (k * Scale) \in Nat /\ 2 * n * Scale \in Nat /\ k * Scale \in Nat
    BY <1>1
  <2>4. e * (k * Scale + 1) = e * (k * Scale) + 2 * d
    BY <1>1, <2>3
  <2>5. m < e * (k * Scale + 1)
    BY <1>1, <2>1, <2>2, <2>3, <2>4
  <2> HIDE DEF m, e
  <2>6. m \div e < k * Scale + 1
    BY <1>4, <2>3, <2>5, DivBelow
  <2> HIDE DEF r
  <2>7. r < k * Scale + 1
    BY <2>6 DEF e, r
  <2> QED BY <1>5, <2>3, <2>7
<1>9. d < 2 * Scale => r < (o + 1) * Scale
  <2> SUFFICES ASSUME d < 2 * Scale PROVE r < (o + 1) * Scale
      OBVIOUS
  <2>1. n + 1 <= d * (o + 1) /\ d * (o + 1) \in Nat
    BY <1>1, <1>3
  <2>2. 2 * Scale * (n + 1) <= 2 * Scale * (d * (o + 1))
    <3>1. 2 * Scale \in Nat /\ n + 1 \in Nat
      BY <1>1
    <3> QED BY <2>1, <3>1, TimesMonotone
  <2>3. 2 * Scale * (n + 1) = 2 * n * Scale + 2 * Scale
    BY <1>1
  <2>4. 2 * Scale * (d * (o + 1)) = e * ((o + 1) * Scale)
    BY <1>1, <1>3
  <2>5. 2 * n * Scale \in Nat /\ e * ((o + 1) * Scale) \in Nat /\ (o + 1) * Scale \in Nat
    BY <1>1, <1>3
  <2>6. m < e * ((o + 1) * Scale)
    BY <1>1, <2>2, <2>3, <2>4, <2>5
  <2> HIDE DEF m, e
  <2>7. m \div e < (o + 1) * Scale
    BY <1>4, <2>5, <2>6, DivBelow
  <2> QED BY <2>7 DEF e
<1> HIDE DEF r, m, e
<1>10. o <= t
  <2>1. Scale * o <= r
    BY <1>3, <1>7
  <2> QED BY <1>3, <1>5, <2>1, DivAbove
<1>11. t <= far
  <2>1. r < Scale * (far + 1)
    <3>1. r <= far * Scale /\ Scale * (far + 1) = far * Scale + Scale /\ far * Scale \in Nat
      BY <1>1, <1>8
    <3> QED BY <1>5, <3>1
  <2>2. t < far + 1
    BY <1>1, <1>5, <2>1, DivBelow
  <2> HIDE DEF t
  <2> QED BY <1>1, <1>6, <2>2
<1>12. t <= o + 1
  <2>1. d * (o + 1) \in Nat
    BY <1>1, <1>3
  <2>2. r <= (o + 1) * Scale
    <3>1. n <= d * (o + 1) /\ o + 1 \in Nat
      BY <1>1, <1>3, <2>1
    <3> QED BY <1>8, <3>1
  <2>3. r < Scale * (o + 2)
    <3>1. Scale * (o + 2) = (o + 1) * Scale + Scale /\ (o + 1) * Scale \in Nat
      BY <1>3
    <3> QED BY <1>5, <2>2, <3>1
  <2>4. t < o + 2
    BY <1>3, <1>5, <2>3, DivBelow
  <2> HIDE DEF t
  <2> QED BY <1>3, <1>6, <2>4
<1>13. d < 2 * Scale => t <= o
  <2> SUFFICES ASSUME d < 2 * Scale PROVE t <= o
      OBVIOUS
  <2>1. r < Scale * (o + 1)
    <3>1. Scale * (o + 1) = (o + 1) * Scale
      BY <1>3
    <3> QED BY <1>9, <3>1
  <2>2. t < o + 1
    BY <1>3, <1>5, <2>1, DivBelow
  <2> HIDE DEF t
  <2> QED BY <1>3, <1>6, <2>2
<1> HIDE DEF t
<1>14. Wrap(t) = t
  BY <1>1, <1>6, <1>11 DEF Wrap, Uint64
<1>15. (d < 2 * Scale => t = o) /\ (t = o \/ t = o + 1)
  BY <1>3, <1>6, <1>10, <1>12, <1>13
<1> QED BY <1>2, <1>11, <1>14, <1>15 DEF d
-----------------------------------------------------------------------------
(* What a trader can and cannot gain by choosing the size of its swaps.    *)

\* A larger input is never quoted a smaller output.
THEOREM ExactQuoteMonotone ==
  ASSUME NEW a \in Nat \ {0}, NEW b \in Nat, a <= b, NEW near \in Nat, NEW far \in Nat
  PROVE  CalculateOutputBigInt(a, near, far) <= CalculateOutputBigInt(b, near, far)
<1> DEFINE q == CalculateOutputBigInt(a, near, far)
           d == a + near
           e == b + near
<1>1. d \in Nat \ {0} /\ e \in Nat \ {0} /\ a * far \in Nat /\ b * far \in Nat
  OBVIOUS
<1>2. q \in Nat /\ d * q <= a * far
  BY <1>1, DivFits DEF CalculateOutputBigInt
<1> HIDE DEF q
<1>3. q <= far
  <2> SUFFICES ASSUME far + 1 <= q PROVE FALSE
      BY <1>2
  <2>1. a * (far + 1) <= a * q
    BY <1>2, TimesMonotone
  <2>2. a * (far + 1) = a * far + a
    OBVIOUS
  <2>3. d * q = a * q + near * q /\ a * q \in Nat /\ near * q \in Nat
    BY <1>2
  <2> QED BY <1>1, <1>2, <2>1, <2>2, <2>3
<1>4. e * q <= b * far
  <2>1. near * q <= a * (far - q)
    <3>1. d * q = a * q + near * q /\ a * (far - q) = a * far - a * q
      BY <1>2
    <3>2. a * q \in Nat /\ near * q \in Nat
      BY <1>2
    <3> HIDE DEF d
    <3> QED BY <1>1, <1>2, <3>1, <3>2
  <2>2. a * (far - q) <= b * (far - q)
    <3>1. far - q \in Nat
      BY <1>2, <1>3
    <3>2. (far - q) * a <= (far - q) * b
      BY <3>1, TimesMonotone
    <3> QED BY <3>1, <3>2
  <2>3. e * q = b * q + near * q /\ b * (far - q) = b * far - b * q
    BY <1>2
  <2>4. b * q \in Nat /\ near * q \in Nat /\ a * (far - q) \in Int
    BY <1>2
  <2> HIDE DEF e
  <2> QED BY <1>1, <2>1, <2>2, <2>3, <2>4
<1> HIDE DEF d, e
<1>5. q <= (b * far) \div e
  BY <1>1, <1>2, <1>4, DivAbove
<1> QED BY <1>5 DEF q, e, CalculateOutputBigInt

\* To sell what was just bought, or buy back what was just sold, never brings
\* more than the first swap cost.
THEOREM RoundTripNeverProfits ==
  ASSUME NEW a \in Nat \ {0}, NEW near \in Nat, NEW far \in Nat \ {0}
  PROVE  LET o == CalculateOutputBigInt(a, near, far)
         IN CalculateOutputBigInt(o, far - o, near + a) <= a
<1> DEFINE o == CalculateOutputBigInt(a, near, far)
           d == a + near
<1>1. d \in Nat \ {0} /\ a * far \in Nat
  OBVIOUS
<1>2. o \in Nat /\ d * o <= a * far
  BY <1>1, DivFits DEF CalculateOutputBigInt
<1> HIDE DEF o
<1>3. o * (near + a) = d * o /\ o + (far - o) = far
  BY <1>2
<1>4. CalculateOutputBigInt(o, far - o, near + a) = (d * o) \div far
  BY <1>3 DEF CalculateOutputBigInt
<1>5. d * o \in Nat /\ d * o < far * (a + 1)
  <2>1. d * o \in Nat
    BY <1>1, <1>2
  <2>2. far * (a + 1) = a * far + far
    OBVIOUS
  <2> HIDE DEF d
  <2> QED BY <1>1, <1>2, <2>1, <2>2
<1> HIDE DEF d
<1>6. (d * o) \div far < a + 1
  BY <1>5, DivBelow
<1>7. (d * o) \div far \in Nat
  BY <1>5, DivFits
<1> QED BY <1>4, <1>6, <1>7 DEF o

\* To split a swap in two never brings more than the whole.
THEOREM SplitNeverGains ==
  ASSUME NEW a \in Nat \ {0}, NEW b \in Nat \ {0}, NEW near \in Nat \ {0},
         NEW far \in Nat \ {0}
  PROVE  LET first  == CalculateOutputBigInt(a, near, far)
             second == CalculateOutputBigInt(b, near + a, far - first)
         IN first + second <= CalculateOutputBigInt(a + b, near, far)
<1> DEFINE f == CalculateOutputBigInt(a, near, far)
           rest == far - f
           s == CalculateOutputBigInt(b, near + a, rest)
           d == (a + b) + near
<1>1. f \in Nat /\ f < far
  BY QuoteBelowReserve
<1>2. (near + a) * rest >= near * far
  BY ProductKept
<1>3. rest \in Nat \ {0}
  BY <1>1
<1> HIDE DEF f
<1> HIDE DEF rest
<1>4. s \in Nat
  <2>1. near + a \in Nat \ {0}
    OBVIOUS
  <2> QED BY <1>3, <2>1, QuoteBelowReserve
<1>5. ((near + a) + b) * (rest - s) >= (near + a) * rest
  BY <1>3, ProductKept
<1> HIDE DEF s
<1>6. d * (rest - s) >= near * far
  <2>1. (near + a) + b = d
    OBVIOUS
  <2>2. d * (rest - s) \in Int /\ (near + a) * rest \in Int /\ near * far \in Int
    BY <1>3, <1>4
  <2> HIDE DEF d
  <2> QED BY <1>2, <1>5, <2>1, <2>2
<1>7. d * (f + s) <= (a + b) * far
  <2>1. d * (rest - s) = d * far - d * (f + s)
    BY <1>1, <1>4 DEF rest
  <2>2. d * far = (a + b) * far + near * far
    OBVIOUS
  <2>3. d * (f + s) \in Nat /\ (a + b) * far \in Nat /\ near * far \in Nat
    BY <1>1, <1>4
  <2> HIDE DEF d
  <2> QED BY <1>6, <2>1, <2>2, <2>3
<1>8. d \in Nat \ {0} /\ (a + b) * far \in Nat /\ f + s \in Nat
  BY <1>1, <1>4
<1> HIDE DEF d
<1>9. f + s <= ((a + b) * far) \div d
  BY <1>7, <1>8, DivAbove
<1> QED BY <1>9 DEF f, s, rest, d, CalculateOutputBigInt

\* The rounded quotient of a quote is at most the reserve, and grows with the
\* input.
LEMMA RoundedMonotone ==
  ASSUME NEW a \in Nat \ {0}, NEW b \in Nat, a <= b, NEW near \in Nat, NEW far \in Nat
  PROVE  /\ DivRound(a * far, a + near) \in Nat
         /\ DivRound(a * far, a + near) <= Scale * far
         /\ DivRound(a * far, a + near) <= DivRound(b * far, b + near)
<1> USE AmountsAssumption
<1> DEFINE d == a + near
           e == b + near
           F == 2 * Scale * far + 1
           r == DivRound(a * far, d)
           k == 2 * r
<1>1. d \in Nat \ {0} /\ e \in Nat \ {0} /\ F \in Nat
  OBVIOUS
<1>2. 2 * (a * far) * Scale + d = a * F + near /\ a * F \in Nat
  OBVIOUS
<1>3. 2 * (b * far) * Scale + e = b * F + near /\ b * F \in Nat
  OBVIOUS
<1>4. r = (a * F + near) \div (2 * d)
  BY <1>2 DEF DivRound
<1>5. r \in Nat /\ 2 * d * r <= a * F + near
  <2>1. a * F + near \in Nat /\ 2 * d \in Nat \ {0}
    BY <1>1, <1>2
  <2> HIDE DEF F, d, r
  <2> QED BY <1>4, <2>1, DivFits
<1> HIDE DEF F, r
<1>6. k \in Nat /\ 2 * d * r = a * k + near * k /\ a * k \in Nat /\ near * k \in Nat
  BY <1>5
<1>7. k <= F
  <2> SUFFICES ASSUME F + 1 <= k PROVE FALSE
      BY <1>1, <1>6
  <2>1. a * (F + 1) <= a * k /\ near * (F + 1) <= near * k
    BY <1>1, <1>6, TimesMonotone
  <2>2. a * (F + 1) = a * F + a /\ near * (F + 1) = near * F + near /\ near * F \in Nat
    BY <1>1
  <2> HIDE DEF k, d
  <2> QED BY <1>2, <1>5, <1>6, <2>1, <2>2
<1>8. r <= Scale * far
  <2>1. Scale * far \in Nat /\ F = 2 * (Scale * far) + 1
    BY DEF F
  <2> QED BY <1>5, <1>7, <2>1
<1>9. 2 * e * r <= b * F + near
  <2>1. near * k - near <= a * (F - k)
    <3>1. a * (F - k) = a * F - a * k
      BY <1>1, <1>6
    <3> HIDE DEF k, d
    <3> QED BY <1>2, <1>5, <1>6, <3>1
  <2>2. a * (F - k) <= b * (F - k) /\ b * (F - k) \in Int /\ a * (F - k) \in Int
    <3>1. F - k \in Nat
      BY <1>1, <1>6, <1>7
    <3> HIDE DEF k, F
    <3>2. (F - k) * a <= (F - k) * b
      BY <3>1, TimesMonotone
    <3> QED BY <3>1, <3>2
  <2>3. b * (F - k) = b * F - b * k /\ b * k \in Nat
    BY <1>1, <1>6
  <2>4. 2 * e * r = b * k + near * k
    BY <1>5
  <2> HIDE DEF k, e
  <2> QED BY <1>3, <1>6, <2>1, <2>2, <2>3, <2>4
<1>10. DivRound(b * far, e) = (b * F + near) \div (2 * e)
  BY <1>3 DEF DivRound
<1>11. r <= (b * F + near) \div (2 * e)
  <2>1. b * F + near \in Nat /\ 2 * e \in Nat \ {0}
    BY <1>1, <1>3
  <2> HIDE DEF e
  <2> QED BY <1>5, <1>9, <2>1, DivAbove
<1> QED BY <1>5, <1>8, <1>10, <1>11 DEF r

\* Nor is the quote of the decimals smaller for a larger input, as long as
\* the sums of the code do not wrap.
THEOREM QuoteMonotone ==
  ASSUME NEW a \in Nat \ {0}, NEW b \in Nat, a <= b, NEW near \in Nat, NEW far \in Uint64,
         b + near < Word
  PROVE  CalculateOutput(a, near, far) <= CalculateOutput(b, near, far)
<1> USE AmountsAssumption
<1> DEFINE r == DivRound(a * far, a + near)
           s == DivRound(b * far, b + near)
<1>1. far \in Nat /\ b \in Nat \ {0} /\ Wrap(a + near) = a + near /\ Wrap(b + near) = b + near
  BY DEF Uint64, Wrap
<1>2. r \in Nat /\ r <= s
  BY <1>1, RoundedMonotone
<1>3. s \in Nat /\ s <= Scale * far
  <2>1. b <= b
    OBVIOUS
  <2> HIDE DEF s
  <2> QED BY <1>1, <2>1, RoundedMonotone DEF s
<1>4. CalculateOutput(a, near, far) = Wrap(r \div Scale)
      /\ CalculateOutput(b, near, far) = Wrap(s \div Scale)
  BY <1>1 DEF CalculateOutput
<1> HIDE DEF r, s
<1>5. r \div Scale <= s \div Scale /\ r \div Scale \in Nat /\ s \div Scale \in Nat
  BY <1>2, <1>3, DivMonotone, DivFits
<1>6. s \div Scale < far + 1
  <2>1. s < Scale * (far + 1)
    <3>1. Scale * (far + 1) = Scale * far + Scale /\ Scale * far \in Nat
      BY <1>1
    <3> QED BY <1>3, <3>1
  <2> QED BY <1>1, <1>3, <2>1, DivBelow
<1>7. s \div Scale < Word
  BY <1>1, <1>5, <1>6 DEF Uint64
<1>8. Wrap(s \div Scale) = s \div Scale /\ Wrap(r \div Scale) = r \div Scale
  <2>1. \A x \in Nat : x < Word => Wrap(x) = x
    BY DEF Wrap
  <2> DEFINE u == s \div Scale
             v == r \div Scale
  <2>2. u \in Nat /\ v \in Nat /\ u < Word /\ v < Word
    BY <1>5, <1>7
  <2> HIDE DEF u, v
  <2> QED BY <2>1, <2>2 DEF u, v
<1> QED BY <1>4, <1>5, <1>8

\* With reserves of fewer digits than the precision, the quotes of the
\* decimals never profit from a round trip either.
THEOREM QuotedRoundTrip ==
  ASSUME NEW a \in Nat \ {0}, NEW near \in Nat, NEW far \in Uint64 \ {0},
         a + near < Word, a + near < 2 * Scale, far < 2 * Scale
  PROVE  LET o == CalculateOutput(a, near, far)
         IN o > 0 => CalculateOutput(o, far - o, near + a) <= a
<1> USE AmountsAssumption
<1> DEFINE o == CalculateOutput(a, near, far)
           back == CalculateOutput(o, far - o, near + a)
<1> SUFFICES ASSUME o > 0 PROVE back <= a
    OBVIOUS
<1>1. far \in Nat \ {0} /\ far \in Uint64 /\ far < Word
  BY DEF Uint64
<1>2. o = CalculateOutputBigInt(a, near, far) /\ o <= far
  BY <1>1, QuoteNear
<1>3. o \in Nat \ {0}
  <2>1. Wrap(a + near) # 0
    BY DEF Wrap
  <2>2. o \in Uint64
    BY <1>1, <2>1, QuoteIsWord
  <2> HIDE DEF o
  <2> QED BY <2>2 DEF Uint64
<1>4. CalculateOutputBigInt(o, far - o, near + a) <= a
  BY <1>1, <1>2, RoundTripNeverProfits
<1> HIDE DEF o
<1>5. far - o \in Nat /\ o + (far - o) = far /\ near + a \in Uint64
  BY <1>1, <1>2, <1>3 DEF Uint64
<1>6. back = CalculateOutputBigInt(o, far - o, near + a)
  <2>1. o + (far - o) < Word /\ o + (far - o) < 2 * Scale
    BY <1>1, <1>5
  <2> QED BY <1>3, <1>5, <2>1, QuoteNear
<1> QED BY <1>4, <1>6
=============================================================================
