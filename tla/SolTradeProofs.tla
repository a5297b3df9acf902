--------------------------- MODULE SolTradeProofs ----------------------------
(***************************************************************************)
(* Proofs about SolTrade, for any number of traders, any requests, ratios  *)
(* and reserves, and any width of the machine's words.                     *)
(***************************************************************************)
EXTENDS SolTrade, AmountsProofs, SequenceTheorems

SeenType == [open : BOOLEAN, balance : Nat, pool : PoolType]

\* Where a trader still has what it asked for and what it read.
HasRead(t) == at[t] \in {"read", "sent", "landed", "expired"}
HasAsked(t) == at[t] = "asked" \/ HasRead(t)
HasSent(t) == at[t] \in {"sent", "landed", "expired"}

\* What ties a transaction to the request it came from, whatever happened to
\* the chain in the meantime.
Lineage ==
  \A t \in Traders :
    /\ HasAsked(t) => req[t] \in Requests /\ quoted[t] \in PoolType
    /\ HasRead(t) => seen[t] \in SeenType
    /\ HasSent(t) => QuoteDefined(t) /\ tx[t] = Build(t)
    /\ outcome[t] = "success" => at[t] = "landed"

IInv == TypeOK /\ Lineage

-----------------------------------------------------------------------------
(* What the builders build.                                                *)

\* The figures a trade is built from.
LEMMA Figures ==
  ASSUME NEW t \in Traders, req[t] \in Requests, quoted[t] \in PoolType,
         seen[t] \in SeenType
  PROVE  /\ req[t] \in RequestType
         /\ req[t].amount \in Uint64 /\ req[t].amount \in Nat
         /\ req[t].tip \in Uint64 /\ req[t].tip \in Nat
         /\ req[t].slippage \in 0 .. Bps
         /\ Reserves(t) \in PoolType
         /\ NearReserve(t) \in Nat \ {0} /\ FarReserve(t) \in Nat \ {0}
         /\ SwapInput(t) \in Uint64 /\ SwapInput(t) \in Nat
         /\ SwapInput(t) <= req[t].amount
         /\ req[t].side = "buy" =>
              SwapInput(t) = Wrap(req[t].amount - Share(req[t].amount, FeeRatio))
         /\ Share(req[t].amount, FeeRatio) \in Uint64
         /\ Share(req[t].amount, FeeRatio) \in Nat
<1> USE AmountsAssumption, TradeAssumption
<1>1. /\ req[t] \in RequestType
      /\ req[t].amount \in Uint64 /\ req[t].tip \in Uint64
      /\ req[t].slippage \in 0 .. Bps
  BY DEF RequestType
<1>2. req[t].amount \in Nat /\ req[t].tip \in Nat
  BY <1>1 DEF Uint64
<1>3. Reserves(t) \in PoolType
  BY DEF Reserves, SeenType
<1>4. NearReserve(t) \in Nat \ {0} /\ FarReserve(t) \in Nat \ {0}
  BY <1>3 DEF NearReserve, FarReserve, PoolType
<1> DEFINE a == req[t].amount
           s == Share(a, FeeRatio)
<1>5. s \in Uint64 /\ s \in Nat /\ s <= a
  <2>1. s \in Uint64
    <3>1. FeeRatio \in Nat OBVIOUS
    <3> QED BY <1>1, <3>1, SharesAreWords
  <2>2. (a * FeeRatio) \div Bps \in Nat
    BY <1>2, DivFits
  <2>3. s \in Nat /\ s <= (a * FeeRatio) \div Bps /\ (a * FeeRatio) \div Bps <= a
    BY <1>2, ShareBelow
  <2> QED BY <1>2, <2>1, <2>2, <2>3
<1> HIDE DEF s
<1>6. a - s \in Uint64 /\ a - s \in Nat /\ a - s <= a
  BY <1>1, <1>2, <1>5 DEF Uint64
<1>7. Wrap(a - s) = a - s
  BY <1>6 DEF Wrap, Uint64
<1>8. SwapInput(t) = IF req[t].side = "sell" THEN a ELSE a - s
  BY DEF SwapInput, s
<1> QED BY <1>1, <1>2, <1>3, <1>4, <1>5, <1>6, <1>7, <1>8 DEF s

\* A sell, on either venue.
LEMMA BuildsSell ==
  ASSUME venue \in Venues,
         NEW t \in Traders, req[t] \in RequestType, req[t].side = "sell"
  PROVE  Build(t) =
    [side |-> "sell", amount |-> req[t].amount,
     limit |-> MinOut(Quote(t), req[t].slippage),
     opens |-> Temporary,
     closes |-> Temporary \union (IF PositionClosed(t) THEN {"ata"} ELSE {}),
     fee |-> Share(Quote(t), FeeRatio), tip |-> req[t].tip]
<1>1. Quote(t) = CalculateOutput(req[t].amount, Reserves(t).token, Reserves(t).quote)
  BY DEF Quote, SwapInput, NearReserve, FarReserve
<1>2. CASE venue = "raydium"
  BY <1>1, <1>2 DEF Build, RaydiumSell
<1>3. CASE venue = "pumpfun"
  <2>1. Build(t) = PumpfunSell(req[t], Reserves(t), PositionClosed(t))
    BY <1>3 DEF Build
  <2>2. Temporary = {}
    BY <1>3 DEF Temporary
  <2> QED BY <1>1, <2>1, <2>2 DEF PumpfunSell, RaydiumSell
<1> QED BY <1>2, <1>3, TradeAssumption

\* A buy, on each venue.
LEMMA BuildsBuy ==
  ASSUME venue \in Venues,
         NEW t \in Traders, req[t] \in Requests, quoted[t] \in PoolType,
         seen[t] \in SeenType, req[t].side = "buy"
  PROVE  Build(t) =
    [side |-> "buy",
     amount |-> IF venue = "raydium" THEN SwapInput(t) ELSE Quote(t),
     limit |-> IF venue = "raydium" THEN MinOut(Quote(t), req[t].slippage)
               ELSE MaxCost(SwapInput(t), req[t].slippage),
     opens |-> Temporary \union (IF seen[t].open THEN {} ELSE {"ata"}),
     closes |-> Temporary,
     fee |-> Share(req[t].amount, FeeRatio), tip |-> req[t].tip]
<1>1. SwapInput(t) = Wrap(req[t].amount - Share(req[t].amount, FeeRatio))
  BY Figures
<1>2. Quote(t) = CalculateOutput(SwapInput(t), Reserves(t).quote, Reserves(t).token)
  BY DEF Quote, NearReserve, FarReserve
<1>3. CASE venue = "raydium"
  <2>1. Build(t) = RaydiumBuy(req[t], Reserves(t), seen[t].open)
    BY <1>3 DEF Build
  <2> QED BY <1>1, <1>2, <1>3, <2>1 DEF RaydiumBuy
<1>4. CASE venue = "pumpfun"
  <2>1. Build(t) = PumpfunBuy(req[t], Reserves(t), seen[t].open)
    BY <1>4 DEF Build
  <2>2. Temporary = {}
    BY <1>4 DEF Temporary
  <2> QED BY <1>1, <1>2, <1>4, <2>1, <2>2 DEF PumpfunBuy
<1> QED BY <1>3, <1>4, TradeAssumption

\* Whatever is built is a transaction of machine words.
LEMMA BuildTyped ==
  ASSUME venue \in Venues,
         NEW t \in Traders, req[t] \in Requests, quoted[t] \in PoolType,
         seen[t] \in SeenType, QuoteDefined(t)
  PROVE  Quote(t) \in Uint64 /\ Quote(t) \in Nat /\ Build(t) \in TxType
<1> USE TradeAssumption
<1>1. /\ req[t] \in RequestType /\ req[t].side \in {"buy", "sell"}
      /\ req[t].slippage \in Nat
  BY Figures, AmountsAssumption DEF RequestType
<1>2. Quote(t) \in Uint64
  <2>1. SwapInput(t) \in Nat /\ NearReserve(t) \in Nat /\ FarReserve(t) \in Nat
    BY Figures
  <2> QED BY <2>1, QuoteIsWord DEF Quote, QuoteDefined
<1>3. Quote(t) \in Nat
  BY <1>2, AmountsAssumption DEF Uint64
<1>4. Temporary \in SUBSET {"wsol", "ata"}
  BY DEF Temporary
<1>5. /\ MinOut(Quote(t), req[t].slippage) \in Uint64
      /\ MaxCost(SwapInput(t), req[t].slippage) \in Uint64
      /\ Share(Quote(t), FeeRatio) \in Uint64
      /\ SwapInput(t) \in Uint64
  <2>1. SwapInput(t) \in Uint64 BY Figures
  <2>2. FeeRatio \in Nat BY AmountsAssumption
  <2> QED BY <1>1, <1>2, <2>1, <2>2, SharesAreWords
<1>6. /\ req[t].amount \in Uint64 /\ req[t].tip \in Uint64
      /\ Share(req[t].amount, FeeRatio) \in Uint64
  BY Figures
<1>7. ASSUME req[t].side = "sell" PROVE Build(t) \in TxType
  <2> DEFINE closes == Temporary \union (IF PositionClosed(t) THEN {"ata"} ELSE {})
             limit == MinOut(Quote(t), req[t].slippage)
             fee == Share(Quote(t), FeeRatio)
  <2>1. closes \in SUBSET {"wsol", "ata"} BY <1>4
  <2>2. limit \in Uint64 /\ fee \in Uint64 BY <1>5
  <2>3. Build(t) = [side |-> "sell", amount |-> req[t].amount, limit |-> limit,
                    opens |-> Temporary, closes |-> closes, fee |-> fee, tip |-> req[t].tip]
    BY <1>1, <1>7, BuildsSell
  <2> HIDE DEF closes, limit, fee
  <2> QED BY <1>4, <1>6, <2>1, <2>2, <2>3 DEF TxType
<1>8. ASSUME req[t].side = "buy" PROVE Build(t) \in TxType
  <2> DEFINE amount == IF venue = "raydium" THEN SwapInput(t) ELSE Quote(t)
             limit == IF venue = "raydium" THEN MinOut(Quote(t), req[t].slippage)
                      ELSE MaxCost(SwapInput(t), req[t].slippage)
             opens == Temporary \union (IF seen[t].open THEN {} ELSE {"ata"})
             fee == Share(req[t].amount, FeeRatio)
  <2>1. opens \in SUBSET {"wsol", "ata"} BY <1>4
  <2>2. amount \in Uint64 /\ limit \in Uint64 /\ fee \in Uint64 BY <1>2, <1>5, <1>6
  <2>3. Build(t) = [side |-> "buy", amount |-> amount, limit |-> limit,
                    opens |-> opens, closes |-> Temporary, fee |-> fee, tip |-> req[t].tip]
    BY <1>8, BuildsBuy
  <2> HIDE DEF amount, limit, opens, fee
  <2> QED BY <1>4, <1>6, <2>1, <2>2, <2>3 DEF TxType
<1> QED BY <1>1, <1>2, <1>3, <1>7, <1>8

-----------------------------------------------------------------------------
(* What a transaction that succeeds does.                                  *)

\* Nothing stood in the way of it.
LEMMA NoObstacle ==
  ASSUME NEW x, Obstacles(x) = {}
  PROVE  /\ WithinLimit(x, pool)
         /\ x.side = "sell" => ~(tokens < x.amount)
         /\ "ata" \in x.closes => tokens = x.amount
         /\ (x.side = "buy" /\ venue = "pumpfun" => x.amount < pool.token)
              => ~(Needed(x, pool) > sol) /\ ~(Left(x, pool) < 0)
<1> DEFINE Names == {"exists", MissingError, "balance", LimitError(x), "notEmpty", "funds"}
           In(why) ==
             \/ why = "exists" /\ "ata" \in x.opens /\ ataOpen
             \/ why = MissingError /\ "ata" \notin x.opens /\ ~ataOpen
             \/ why = "balance" /\ x.side = "sell" /\ tokens < x.amount
             \/ why = LimitError(x) /\ ~WithinLimit(x, pool)
             \/ why = "notEmpty" /\ "ata" \in x.closes /\ tokens # x.amount
             \/ why = "funds"
                  /\ (x.side = "buy" /\ venue = "pumpfun" => x.amount < pool.token)
                  /\ (Needed(x, pool) > sol \/ Left(x, pool) < 0)
<1>1. \A why \in Names : ~In(why)
  <2>1. Obstacles(x) = {why \in Names : In(why)}
    BY DEF Obstacles
  <2> HIDE DEF Names, In
  <2> QED BY <2>1
<1>2. ~In(LimitError(x)) /\ ~In("balance") /\ ~In("notEmpty") /\ ~In("funds")
  <2>1. LimitError(x) \in Names /\ "balance" \in Names /\ "notEmpty" \in Names
          /\ "funds" \in Names
    OBVIOUS
  <2> HIDE DEF Names, In
  <2> QED BY <1>1, <2>1
<1> HIDE DEF Names
<1> QED BY <1>2, Zenon

\* What the swap of a transaction moves, and what the pool keeps.
LEMMA MovesTyped ==
  ASSUME venue \in Venues, NEW x \in TxType, pool \in PoolType, WithinLimit(x, pool)
  PROVE  LET m == SwapMoves(x, pool) IN
         /\ m.lamports \in Int /\ m.tokens \in Int
         /\ pool.quote - m.lamports \in Nat \ {0}
         /\ pool.token - m.tokens \in Nat \ {0}
         /\ x.side = "sell" =>
              /\ m.tokens = -x.amount
              /\ m.lamports \in Nat /\ m.lamports >= x.limit
         /\ x.side = "buy" =>
              /\ m.tokens \in Nat /\ -m.lamports \in Nat
              /\ venue = "raydium" => m.tokens >= x.limit /\ -m.lamports = x.amount
              /\ venue = "pumpfun" => m.tokens = x.amount /\ -m.lamports <= x.limit
<1> USE TradeAssumption
<1> DEFINE m == SwapMoves(x, pool)
<1>1. /\ x.amount \in Nat /\ x.limit \in Nat /\ x.side \in {"buy", "sell"}
      /\ pool.quote \in Nat \ {0} /\ pool.token \in Nat \ {0}
  BY AmountsAssumption DEF TxType, Uint64, PoolType
<1>2. CASE x.side = "sell"
  <2> DEFINE o == CalculateOutputBigInt(x.amount, pool.token, pool.quote)
  <2>1. o \in Nat /\ o < pool.quote
    BY <1>1, QuoteBelowReserve
  <2>2. m.lamports = o /\ m.tokens = -x.amount
    BY <1>2 DEF SwapMoves
  <2>3. m.lamports >= x.limit
    BY <1>2 DEF WithinLimit
  <2> HIDE DEF o, m
  <2>4. m.lamports \in Nat /\ m.tokens \in Int /\ pool.quote - m.lamports \in Nat \ {0}
          /\ pool.token - m.tokens \in Nat \ {0}
    BY <1>1, <2>1, <2>2
  <2> QED BY <1>2, <2>2, <2>3, <2>4 DEF m
<1>3. CASE x.side = "buy" /\ venue = "raydium"
  <2> DEFINE o == CalculateOutputBigInt(x.amount, pool.quote, pool.token)
  <2>1. o \in Nat /\ o < pool.token
    BY <1>1, QuoteBelowReserve
  <2>2. m.lamports = -x.amount /\ m.tokens = o
    BY <1>3 DEF SwapMoves
  <2>3. m.tokens >= x.limit
    BY <1>3 DEF WithinLimit
  <2> HIDE DEF o, m
  <2>4. m.lamports \in Int /\ m.tokens \in Nat /\ pool.quote - m.lamports \in Nat \ {0}
          /\ pool.token - m.tokens \in Nat \ {0} /\ -m.lamports = x.amount
    BY <1>1, <2>1, <2>2
  <2> QED BY <1>1, <1>3, <2>3, <2>4 DEF m
<1>4. CASE x.side = "buy" /\ venue = "pumpfun"
  <2> DEFINE c == CurveCost(pool.quote, pool.token, x.amount)
  <2>1. x.amount < pool.token /\ -m.lamports <= x.limit
    BY <1>4 DEF WithinLimit
  <2>2. c \in Nat
    <3>1. pool.token - x.amount \in Nat \ {0} /\ pool.quote * x.amount \in Nat
      BY <1>1, <2>1
    <3> QED BY <3>1, DivFits DEF CurveCost
  <2>3. m.lamports = -c /\ m.tokens = x.amount
    BY <1>4 DEF SwapMoves
  <2> HIDE DEF c, m
  <2>4. m.lamports \in Int /\ m.tokens \in Nat /\ pool.quote - m.lamports \in Nat \ {0}
          /\ pool.token - m.tokens \in Nat \ {0} /\ -m.lamports \in Nat
    BY <1>1, <2>1, <2>2, <2>3
  <2> QED BY <1>1, <1>4, <2>1, <2>3, <2>4 DEF m
<1> QED BY <1>1, <1>2, <1>3, <1>4

\* Everything a landing that succeeds is known to do.
LEMMA Landing ==
  ASSUME IInv, NEW t \in Traders, Succeed(t)
  PROVE  LET x == Build(t)
             m == SwapMoves(x, pool) IN
         /\ tx[t] = x /\ x \in TxType
         /\ req[t] \in Requests /\ quoted[t] \in PoolType /\ seen[t] \in SeenType
         /\ QuoteDefined(t) /\ WithinLimit(x, pool)
         /\ "ata" \in x.closes => tokens = x.amount
         /\ sol' = Left(x, pool) /\ Left(x, pool) \in Nat
         /\ tokens' = tokens + m.tokens /\ tokens' \in Nat
         /\ ataOpen' = ("ata" \notin x.closes)
         /\ pool' = [quote |-> pool.quote - m.lamports, token |-> pool.token - m.tokens]
         /\ pool' \in PoolType
<1> DEFINE x == Build(t)
           m == SwapMoves(x, pool)
<1> USE TradeAssumption
<1>1. at[t] = "sent" /\ HasSent(t) /\ HasRead(t) /\ HasAsked(t)
  BY DEF Succeed, HasSent, HasRead, HasAsked
<1>2. /\ tx[t] = x /\ QuoteDefined(t)
      /\ req[t] \in Requests /\ quoted[t] \in PoolType /\ seen[t] \in SeenType
  BY <1>1 DEF IInv, Lineage
<1>3. x \in TxType
  BY <1>2, BuildTyped DEF IInv, TypeOK
<1>4. /\ Obstacles(x) = {}
      /\ sol' = Left(x, pool) /\ tokens' = tokens + m.tokens
      /\ ataOpen' = ("ata" \notin x.closes)
      /\ pool' = [quote |-> pool.quote - m.lamports, token |-> pool.token - m.tokens]
  BY <1>2 DEF Succeed
<1>5. /\ pool \in PoolType /\ pool.token \in Nat /\ tokens \in Nat /\ sol \in Nat
      /\ x.amount \in Nat /\ x.fee \in Nat /\ x.tip \in Nat
      /\ x.side \in {"buy", "sell"}
  BY <1>3, AmountsAssumption DEF IInv, TypeOK, TxType, Uint64, PoolType
<1> HIDE DEF x
<1>6. /\ WithinLimit(x, pool)
      /\ x.side = "sell" => ~(tokens < x.amount)
      /\ "ata" \in x.closes => tokens = x.amount
      /\ (x.side = "buy" /\ venue = "pumpfun" => x.amount < pool.token)
           => ~(Left(x, pool) < 0)
  BY <1>4, NoObstacle
<1>0. venue \in Venues
  BY DEF IInv, TypeOK
<1>7. /\ m.lamports \in Int /\ m.tokens \in Int
      /\ pool.quote - m.lamports \in Nat \ {0} /\ pool.token - m.tokens \in Nat \ {0}
      /\ x.side = "sell" => m.tokens = -x.amount
      /\ x.side = "buy" => m.tokens \in Nat
      /\ x.side = "buy" /\ venue = "pumpfun" => m.tokens = x.amount
  BY <1>0, <1>3, <1>5, <1>6, MovesTyped
<1>8. pool' \in PoolType
  BY <1>4, <1>7 DEF PoolType
<1> HIDE DEF m
<1>9. tokens' \in Nat
  BY <1>4, <1>5, <1>6, <1>7
<1>10. Left(x, pool) \in Nat
  <2>1. ~(Left(x, pool) < 0)
    <3>1. x.side = "buy" /\ venue = "pumpfun" => x.amount < pool.token
      BY <1>6 DEF WithinLimit
    <3> QED BY <1>6, <3>1
  <2>2. RentOf(x.opens) \in Nat /\ RentOf(x.closes) \in Nat
    BY DEF RentOf
  <2>3. Left(x, pool) \in Int
    BY <1>5, <1>7, <2>2 DEF Left, m
  <2> QED BY <2>1, <2>3
<1> QED BY <1>2, <1>3, <1>4, <1>6, <1>8, <1>9, <1>10 DEF x, m

-----------------------------------------------------------------------------
(* The invariant.                                                          *)

\* A transaction depends on nothing but what its trader asked for and read.
LEMMA BuildKept ==
  ASSUME venue' = venue, NEW t \in Traders,
         req'[t] = req[t], quoted'[t] = quoted[t], seen'[t] = seen[t]
  PROVE  Build(t)' = Build(t) /\ QuoteDefined(t)' = QuoteDefined(t)
<1>1. Reserves(t)' = Reserves(t) /\ PositionClosed(t)' = PositionClosed(t)
  BY DEF Reserves, PositionClosed
<1>2. Build(t)' = Build(t)
  BY <1>1 DEF Build, RaydiumBuy, RaydiumSell, PumpfunBuy, PumpfunSell, Temporary
<1>3. QuoteDefined(t)' = QuoteDefined(t)
  BY <1>1 DEF QuoteDefined, SwapInput, NearReserve
<1> QED BY <1>2, <1>3

\* It holds at the start.
LEMMA InitIInv == Init => IInv
<1> SUFFICES ASSUME Init PROVE IInv
    OBVIOUS
<1>1. TypeOK
  BY TradeAssumption DEF Init, TypeOK, Outcomes
<1>2. Lineage
  BY DEF Init, Lineage, HasAsked, HasRead, HasSent
<1> QED BY <1>1, <1>2 DEF IInv

\* The steps of one trader, and those of others, keep the types.
LEMMA NextType == IInv /\ [Next]_vars => TypeOK'
<1> SUFFICES ASSUME IInv, [Next]_vars PROVE TypeOK'
    OBVIOUS
<1> USE TradeAssumption DEF chainVars, walletVars, jobVars
<1>0. TypeOK BY DEF IInv
<1>1. ASSUME NEW t \in Traders, TraderStep(t) PROVE TypeOK'
  <2>1. CASE Ask(t) BY <1>0, <2>1 DEF TypeOK, Ask
  <2>2. CASE ReadAccounts(t) BY <1>0, <2>2 DEF TypeOK, ReadAccounts
  <2>3. CASE QueryFails(t) BY <1>0, <2>3 DEF TypeOK, QueryFails
  <2>4. CASE Send(t)
    <3>1. Build(t) \in TxType
      <4>1. HasRead(t) /\ HasAsked(t) /\ QuoteDefined(t)
        BY <2>4 DEF Send, HasRead, HasAsked
      <4> QED BY <4>1, BuildTyped DEF IInv, Lineage, TypeOK
    <3> QED BY <1>0, <2>4, <3>1 DEF TypeOK, Send
  <2>5. CASE PreflightFails(t) BY <1>0, <2>5 DEF TypeOK, PreflightFails, MapError
  <2>6. CASE Succeed(t)
    <3>1. sol' \in Nat /\ tokens' \in Nat /\ ataOpen' \in BOOLEAN /\ pool' \in PoolType
      BY <2>6, Landing
    <3> QED BY <1>0, <2>6, <3>1 DEF TypeOK, Succeed, Outcomes
  <2>7. CASE Fail(t)
    <3>1. Obstacles(tx[t]) \subseteq Outcomes
      BY DEF Obstacles, Outcomes, MissingError, LimitError
    <3>2. outcome' \in [Traders -> Outcomes]
      BY <1>0, <2>7, <3>1 DEF TypeOK, Fail
    <3> QED BY <1>0, <2>7, <3>2 DEF TypeOK, Fail
  <2>8. CASE Expire(t) BY <1>0, <2>8 DEF TypeOK, Expire
  <2>9. CASE GetTransaction(t) BY <1>0, <2>9 DEF TypeOK, GetTransaction
  <2>10. CASE Finish(t) BY <1>0, <2>10 DEF TypeOK, Finish, Outcomes
  <2> QED BY <1>1, <2>1, <2>2, <2>3, <2>4, <2>5, <2>6, <2>7, <2>8, <2>9, <2>10 DEF TraderStep
<1>2. CASE OutsideSwap
  <2>1. pool.quote \in Nat \ {0} /\ pool.token \in Nat \ {0} BY <1>0 DEF TypeOK, PoolType
  <2>2. /\ CalculateOutputBigInt(Outside, pool.quote, pool.token) \in Nat
        /\ CalculateOutputBigInt(Outside, pool.quote, pool.token) < pool.token
        /\ CalculateOutputBigInt(Outside, pool.token, pool.quote) \in Nat
        /\ CalculateOutputBigInt(Outside, pool.token, pool.quote) < pool.quote
    BY <2>1, QuoteBelowReserve
  <2>3. pool' \in PoolType BY <1>2, <2>1, <2>2 DEF OutsideSwap, PoolType
  <2> QED BY <1>0, <1>2, <2>3 DEF OutsideSwap, TypeOK
<1>3. CASE UNCHANGED vars BY <1>0, <1>3 DEF TypeOK, vars
<1> QED BY <1>1, <1>2, <1>3 DEF Next

\* Nothing that happens after a transaction was built changes what it was
\* built from.
LEMMA NextLineage == IInv /\ [Next]_vars => Lineage'
<1> SUFFICES ASSUME IInv, [Next]_vars, NEW u \in Traders
    PROVE  /\ HasAsked(u)' => (req[u] \in Requests /\ quoted[u] \in PoolType)'
           /\ HasRead(u)' => (seen[u] \in SeenType)'
           /\ HasSent(u)' => (QuoteDefined(u) /\ tx[u] = Build(u))'
           /\ (outcome[u] = "success" => at[u] = "landed")'
    BY DEF Lineage
<1> USE DEF chainVars, walletVars, jobVars, HasAsked, HasRead, HasSent
<1>1. /\ HasAsked(u) => req[u] \in Requests /\ quoted[u] \in PoolType
      /\ HasRead(u) => seen[u] \in SeenType
      /\ HasSent(u) => QuoteDefined(u) /\ tx[u] = Build(u)
      /\ outcome[u] = "success" => at[u] = "landed"
  BY DEF IInv, Lineage
<1>2. TypeOK BY DEF IInv
<1>3. ASSUME /\ req'[u] = req[u] /\ quoted'[u] = quoted[u] /\ seen'[u] = seen[u]
             /\ tx'[u] = tx[u] /\ outcome'[u] = outcome[u]
             /\ venue' = venue
             /\ at'[u] = at[u] \/ (HasSent(u) /\ outcome[u] # "success" /\ HasSent(u)')
      PROVE  /\ HasAsked(u)' => (req[u] \in Requests /\ quoted[u] \in PoolType)'
             /\ HasRead(u)' => (seen[u] \in SeenType)'
             /\ HasSent(u)' => (QuoteDefined(u) /\ tx[u] = Build(u))'
             /\ (outcome[u] = "success" => at[u] = "landed")'
  <2>1. Build(u)' = Build(u) /\ QuoteDefined(u)' = QuoteDefined(u)
    BY <1>3, BuildKept
  <2> QED BY <1>1, <1>3, <2>1
<1>4. ASSUME NEW t \in Traders, TraderStep(t), t # u
      PROVE  /\ req'[u] = req[u] /\ quoted'[u] = quoted[u] /\ seen'[u] = seen[u]
             /\ tx'[u] = tx[u] /\ outcome'[u] = outcome[u] /\ at'[u] = at[u]
             /\ venue' = venue
  <2>1. /\ DOMAIN req = Traders /\ DOMAIN quoted = Traders /\ DOMAIN seen = Traders
        /\ DOMAIN tx = Traders /\ DOMAIN outcome = Traders /\ DOMAIN at = Traders
    BY <1>2 DEF TypeOK
  <2>2. CASE Ask(t) BY <1>4, <2>1, <2>2 DEF Ask
  <2>3. CASE ReadAccounts(t) BY <1>4, <2>1, <2>3 DEF ReadAccounts
  <2>4. CASE QueryFails(t) BY <1>4, <2>1, <2>4 DEF QueryFails
  <2>5. CASE Send(t) BY <1>4, <2>1, <2>5 DEF Send
  <2>6. CASE PreflightFails(t) BY <1>4, <2>1, <2>6 DEF PreflightFails
  <2>7. CASE Succeed(t) BY <1>4, <2>1, <2>7 DEF Succeed
  <2>8. CASE Fail(t) BY <1>4, <2>1, <2>8 DEF Fail
  <2>9. CASE Expire(t) BY <1>4, <2>1, <2>9 DEF Expire
  <2>10. CASE GetTransaction(t) BY <1>4, <2>1, <2>10 DEF GetTransaction
  <2>11. CASE Finish(t) BY <1>4, <2>1, <2>11 DEF Finish
  <2> QED BY <1>4, <2>2, <2>3, <2>4, <2>5, <2>6, <2>7, <2>8, <2>9, <2>10, <2>11 DEF TraderStep
<1>5. CASE TraderStep(u)
  <2>1. CASE Ask(u) BY <1>1, <1>2, <2>1 DEF TypeOK, Ask
  <2>2. CASE ReadAccounts(u)
    BY <1>1, <1>2, <2>2 DEF TypeOK, ReadAccounts, SeenType
  <2>3. CASE QueryFails(u) BY <1>1, <1>2, <2>3 DEF TypeOK, QueryFails
  <2>4. CASE Send(u)
    <3>1. Build(u)' = Build(u) /\ QuoteDefined(u)' = QuoteDefined(u)
      BY <2>4, BuildKept DEF Send
    <3> QED BY <1>1, <1>2, <2>4, <3>1 DEF TypeOK, Send
  <2>5. CASE PreflightFails(u) BY <1>1, <1>2, <2>5 DEF TypeOK, PreflightFails
  <2>6. CASE Succeed(u) \/ Fail(u)
    <3>1. Build(u)' = Build(u) /\ QuoteDefined(u)' = QuoteDefined(u)
      BY <2>6, BuildKept DEF Succeed, Fail
    <3> QED BY <1>1, <1>2, <2>6, <3>1 DEF TypeOK, Succeed, Fail
  <2>7. CASE Expire(u) BY <1>1, <1>2, <1>3, <2>7 DEF TypeOK, Expire
  <2>8. CASE GetTransaction(u) BY <1>3, <2>8 DEF GetTransaction
  <2>9. CASE Finish(u) BY <1>1, <1>2, <2>9 DEF TypeOK, Finish
  <2> QED BY <1>5, <2>1, <2>2, <2>3, <2>4, <2>5, <2>6, <2>7, <2>8, <2>9 DEF TraderStep
<1>6. CASE OutsideSwap BY <1>3, <1>6 DEF OutsideSwap
<1>7. CASE UNCHANGED vars BY <1>3, <1>7 DEF vars
<1> QED BY <1>3, <1>4, <1>5, <1>6, <1>7 DEF Next

\* In every reachable state.
LEMMA Invariance == Spec => []IInv
<1>1. IInv /\ [Next]_vars => IInv'
  BY NextType, NextLineage DEF IInv
<1> QED BY <1>1, InitIInv, PTL DEF Spec

\* The variables of a trade always have their types.
THEOREM TradeTyped == Spec => []TypeOK
<1>1. IInv => TypeOK BY DEF IInv
<1> QED BY <1>1, Invariance, PTL

-----------------------------------------------------------------------------
(* The guarantees of a trade that lands.                                   *)

\* Only Succeed lands a trade.
LEMMA OnlySucceedLands ==
  ASSUME IInv, [Next]_vars, NEW u \in Traders, Lands(u)
  PROVE  Succeed(u)
<1> USE DEF chainVars, walletVars, jobVars
<1>1. at[u] = "sent" /\ outcome[u] # "success" /\ outcome'[u] = "success"
  BY DEF Lands, IInv, Lineage
<1>2. DOMAIN outcome = Traders
  BY DEF IInv, TypeOK
<1>3. outcome' # outcome /\ outcome'[u] # outcome[u]
  BY <1>1
<1>4. PICK t \in Traders : TraderStep(t)
  BY <1>3 DEF Next, OutsideSwap, vars
<1>5. Succeed(t) \/ Fail(t) \/ Finish(t)
  BY <1>3, <1>4 DEF TraderStep, Ask, ReadAccounts, QueryFails, Send, PreflightFails,
                    Expire, GetTransaction
<1>6. t = u
  <2>1. CASE Succeed(t) BY <1>2, <1>3, <2>1 DEF Succeed
  <2>2. CASE Fail(t) BY <1>2, <1>3, <2>2 DEF Fail
  <2>3. CASE Finish(t) BY <1>2, <1>3, <2>3 DEF Finish
  <2> QED BY <1>5, <2>1, <2>2, <2>3
<1>7. ~Finish(u)
  BY <1>1 DEF Finish
<1>8. ~Fail(u)
  <2>1. "success" \notin Obstacles(tx[u])
    BY DEF Obstacles, MissingError, LimitError
  <2> QED BY <1>1, <1>2, <2>1 DEF Fail
<1> QED BY <1>5, <1>6, <1>7, <1>8

\* Transact's PositionClosed is true of the transaction it sent, for every
\* interleaving of the wallet's trades.
THEOREM PositionTrue == Spec => PositionReportTrue
<1>1. ASSUME IInv, [Next]_vars, NEW t \in Traders, Lands(t)
      PROVE  /\ PositionClosed(t) <=> ~ataOpen'
             /\ ~ataOpen' => tokens' = 0
  <2> DEFINE x == Build(t)
  <2>0. venue \in Venues
    BY <1>1 DEF IInv, TypeOK
  <2>1. Succeed(t)
    BY <1>1, OnlySucceedLands
  <2>2. /\ x \in TxType /\ WithinLimit(x, pool)
        /\ req[t] \in Requests /\ quoted[t] \in PoolType /\ seen[t] \in SeenType
        /\ "ata" \in x.closes => tokens = x.amount
        /\ tokens' = tokens + SwapMoves(x, pool).tokens
        /\ ataOpen' = ("ata" \notin x.closes)
    BY <1>1, <2>1, Landing
  <2>3. req[t] \in RequestType /\ req[t].side \in {"buy", "sell"}
    BY <2>2, TradeAssumption DEF RequestType
  <2>4. "ata" \notin Temporary
    BY DEF Temporary
  <2>5. CASE req[t].side = "sell"
    <3>1. x.side = "sell" /\ ("ata" \in x.closes <=> PositionClosed(t))
      BY <2>0, <2>3, <2>4, <2>5, BuildsSell
    <3>2. SwapMoves(x, pool).tokens = -x.amount
      BY <3>1 DEF SwapMoves
    <3>3. x.amount \in Nat
      BY <2>2, AmountsAssumption DEF TxType, Uint64
    <3>4. tokens \in Nat
      BY <1>1 DEF IInv, TypeOK
    <3> HIDE DEF x
    <3>5. "ata" \in x.closes => tokens' = 0
      BY <2>2, <3>2, <3>3, <3>4
    <3> QED BY <2>2, <3>1, <3>5
  <2>6. CASE req[t].side = "buy"
    <3>1. "ata" \notin x.closes
      BY <2>0, <2>2, <2>4, <2>6, BuildsBuy
    <3> QED BY <2>2, <2>6, <3>1 DEF PositionClosed
  <2> QED BY <2>3, <2>5, <2>6
<1>2. IInv /\ [Next]_vars =>
        [\A t \in Traders : Lands(t) =>
           /\ PositionClosed(t) <=> ~ataOpen'
           /\ ~ataOpen' => tokens' = 0]_vars
  BY <1>1, Zenon
<1> QED BY <1>2, Invariance, PTL DEF Spec, PositionReportTrue

\* What a landed trade brings is within the slippage accepted on its quote.
THEOREM PriceKept == Spec => PriceProtected
<1>1. ASSUME IInv, [Next]_vars, NEW t \in Traders, Lands(t)
      PROVE  IF req[t].side = "sell" THEN pool.quote - pool'.quote >= Accepted(t)
             ELSE tokens' - tokens >= Accepted(t)
  <2> DEFINE x == Build(t)
             m == SwapMoves(x, pool)
             p == req[t].slippage
             cut == (Quote(t) * p) \div Bps
  <2>0. venue \in Venues
    BY <1>1 DEF IInv, TypeOK
  <2>1. Succeed(t)
    BY <1>1, OnlySucceedLands
  <2>2. /\ x \in TxType /\ WithinLimit(x, pool) /\ QuoteDefined(t)
        /\ req[t] \in Requests /\ quoted[t] \in PoolType /\ seen[t] \in SeenType
        /\ tokens' = tokens + m.tokens
        /\ pool' = [quote |-> pool.quote - m.lamports, token |-> pool.token - m.tokens]
    BY <1>1, <2>1, Landing
  <2>3. /\ req[t] \in RequestType /\ p \in 0 .. Bps /\ req[t].side \in {"buy", "sell"}
    BY <2>2, Figures DEF RequestType
  <2>4. Quote(t) \in Uint64 /\ Quote(t) \in Nat
    BY <2>0, <2>2, BuildTyped
  <2>5. cut \in Nat /\ MinOut(Quote(t), p) >= Quote(t) - cut
    <3>1. MinOut(Quote(t), p) >= Quote(t) - cut
      BY <2>3, <2>4, LimitsStrict
    <3>2. Quote(t) * p \in Nat
      BY <2>3, <2>4, AmountsAssumption
    <3> QED BY <3>1, <3>2, DivFits, AmountsAssumption
  <2>6. pool \in PoolType /\ pool.quote \in Nat /\ tokens \in Nat
    BY <1>1 DEF IInv, TypeOK, PoolType
  <2>7. Accepted(t) = Quote(t) - cut
    BY DEF Accepted
  <2>8. x.limit \in Nat
    BY <2>2, AmountsAssumption DEF TxType, Uint64
  <2>9. CASE req[t].side = "sell"
    <3>1. x.side = "sell" /\ x.limit = MinOut(Quote(t), p)
      BY <2>0, <2>3, <2>9, BuildsSell
    <3>2. m.lamports \in Nat /\ m.lamports >= x.limit
      BY <2>0, <2>2, <2>6, <3>1, MovesTyped
    <3> HIDE DEF x, m, cut, p
    <3>3. pool.quote - pool'.quote = m.lamports
      BY <2>2, <2>6, <3>2
    <3> QED BY <2>4, <2>5, <2>7, <2>8, <2>9, <3>1, <3>2, <3>3
  <2>10. CASE req[t].side = "buy"
    <3>1. /\ x.side = "buy"
          /\ venue = "raydium" => x.limit = MinOut(Quote(t), p)
          /\ venue = "pumpfun" => x.amount = Quote(t)
      BY <2>0, <2>2, <2>10, BuildsBuy, TradeAssumption
    <3>2. /\ m.tokens \in Nat
          /\ venue = "raydium" => m.tokens >= x.limit
          /\ venue = "pumpfun" => m.tokens = x.amount
      BY <2>0, <2>2, <2>6, <3>1, MovesTyped
    <3> HIDE DEF x, m, cut, p
    <3>3. tokens' - tokens = m.tokens
      BY <2>2, <2>6, <3>2
    <3>4. m.tokens >= Quote(t) - cut
      BY <2>0, <2>4, <2>5, <2>8, <3>1, <3>2, TradeAssumption
    <3> QED BY <2>7, <2>10, <3>3, <3>4
  <2> QED BY <2>3, <2>9, <2>10
<1>2. IInv /\ [Next]_vars =>
        [\A t \in Traders : Lands(t) =>
           IF req[t].side = "sell" THEN pool.quote - pool'.quote >= Accepted(t)
           ELSE tokens' - tokens >= Accepted(t)]_vars
  BY <1>1
<1> QED BY <1>2, Invariance, PTL DEF Spec, PriceProtected

\* A buy takes no more than its budget, however the pool has moved.
THEOREM SpendBounded == Spec => SpendBound
<1>1. ASSUME IInv, [Next]_vars, NEW t \in Traders, Lands(t), req[t].side = "buy"
      PROVE  sol - sol' <= Budget(req[t])
  <2> DEFINE x == Build(t)
             m == SwapMoves(x, pool)
             r == req[t]
             fee == Share(r.amount, FeeRatio)
             spare == (r.amount * r.slippage) \div Bps
             opened == RentOf(x.opens)
             closed == RentOf(x.closes)
  <2> USE TradeAssumption
  <2>0. venue \in Venues
    BY <1>1 DEF IInv, TypeOK
  <2>1. Succeed(t)
    BY <1>1, OnlySucceedLands
  <2>2. /\ x \in TxType /\ WithinLimit(x, pool) /\ QuoteDefined(t)
        /\ r \in Requests /\ quoted[t] \in PoolType /\ seen[t] \in SeenType
        /\ sol' = Left(x, pool)
    BY <1>1, <2>1, Landing
  <2>3. /\ r.amount \in Nat /\ r.tip \in Nat /\ fee \in Nat /\ r.slippage \in 0 .. Bps
        /\ SwapInput(t) \in Uint64 /\ SwapInput(t) \in Nat
        /\ SwapInput(t) = r.amount - fee
    BY <1>1, <2>2, Figures DEF SwapInput
  <2>4. pool \in PoolType /\ sol \in Nat
    BY <1>1 DEF IInv, TypeOK
  <2>5. /\ x.side = "buy" /\ x.fee = fee /\ x.tip = r.tip
        /\ x.opens = Temporary \union (IF seen[t].open THEN {} ELSE {"ata"})
        /\ x.closes = Temporary
        /\ venue = "raydium" => x.amount = SwapInput(t)
        /\ venue = "pumpfun" => x.limit = MaxCost(SwapInput(t), r.slippage)
    BY <1>1, <2>0, <2>2, BuildsBuy
  <2>6. opened \in Nat /\ closed \in Nat /\ opened - closed <= Rent
    BY <2>5 DEF RentOf, Temporary
  <2>7. /\ m.lamports \in Int
        /\ venue = "raydium" => -m.lamports = x.amount
        /\ venue = "pumpfun" => -m.lamports <= x.limit
    BY <2>0, <2>2, <2>4, <2>5, MovesTyped
  <2>8. sol' = sol - NetFee + m.lamports - opened + closed - fee - r.tip
    BY <2>2, <2>5 DEF Left
  <2>9. spare \in Nat
    BY <2>3, DivFits, AmountsAssumption
  <2>10. -m.lamports + fee <= r.amount + (IF venue = "pumpfun" THEN spare ELSE 0)
    <3>1. CASE venue = "raydium"
      <4> HIDE DEF x, m, fee
      <4> QED BY <2>3, <2>5, <2>7, <3>1
    <3>2. CASE venue = "pumpfun"
      <4> DEFINE s == SwapInput(t)
                 limit == MaxCost(s, r.slippage)
                 part == (s * r.slippage) \div Bps
      <4>1. limit <= s + part
        BY <2>3, LimitsStrict
      <4>2. part <= spare
        <5>1. s <= r.amount
          <6> HIDE DEF fee
          <6> QED BY <2>3
        <5>2. s * r.slippage <= r.amount * r.slippage
                /\ s * r.slippage \in Nat /\ r.amount * r.slippage \in Nat
          <6>1. r.slippage \in Nat BY <2>3, AmountsAssumption
          <6> QED BY <2>3, <5>1, <6>1, TimesMonotone
        <5> QED BY <5>2, DivMonotone, AmountsAssumption
      <4>3. part \in Nat
        BY <2>3, DivFits, AmountsAssumption
      <4>4. limit \in Nat /\ x.limit = limit
        <5>1. r.slippage \in Nat BY <2>3, AmountsAssumption
        <5>2. limit \in Uint64 BY <2>3, <5>1, SharesAreWords
        <5> QED BY <2>5, <3>2, <5>2, AmountsAssumption DEF Uint64
      <4> HIDE DEF x, m, fee, spare, limit, part
      <4> QED BY <2>3, <2>7, <2>9, <3>2, <4>1, <4>2, <4>3, <4>4
    <3> QED BY <2>0, <3>1, <3>2
  <2>11. Budget(r) = r.amount + r.tip + Rent + NetFee + (IF venue = "pumpfun" THEN spare ELSE 0)
    BY DEF Budget
  <2> HIDE DEF x, m, fee, spare, opened, closed
  <2> QED BY <2>3, <2>4, <2>6, <2>7, <2>8, <2>9, <2>10, <2>11
<1>2. IInv /\ [Next]_vars =>
        [\A t \in Traders :
           Lands(t) /\ req[t].side = "buy" => sol - sol' <= Budget(req[t])]_vars
  BY <1>1
<1> QED BY <1>2, Invariance, PTL DEF Spec, SpendBound

\* A sell that lands costs no more than its tip and the network's fee.
THEOREM SellFree == Spec => SellNeverCosts
<1>1. ASSUME IInv, [Next]_vars, NEW t \in Traders, Lands(t), req[t].side = "sell",
             req[t].slippage + FeeRatio <= Bps
      PROVE  sol' >= sol - NetFee - req[t].tip
  <2> DEFINE x == Build(t)
             m == SwapMoves(x, pool)
             r == req[t]
             fee == Share(Quote(t), FeeRatio)
             cut == Share(Quote(t), r.slippage)
             opened == RentOf(x.opens)
             closed == RentOf(x.closes)
  <2> USE TradeAssumption
  <2>0. venue \in Venues
    BY <1>1 DEF IInv, TypeOK
  <2>1. Succeed(t)
    BY <1>1, OnlySucceedLands
  <2>2. /\ x \in TxType /\ WithinLimit(x, pool) /\ QuoteDefined(t)
        /\ r \in Requests /\ quoted[t] \in PoolType /\ seen[t] \in SeenType
        /\ sol' = Left(x, pool)
    BY <1>1, <2>1, Landing
  <2>3. r \in RequestType /\ r.tip \in Nat /\ r.slippage \in 0 .. Bps
    BY <2>2, Figures
  <2>4. pool \in PoolType /\ sol \in Nat
    BY <1>1 DEF IInv, TypeOK
  <2>5. Quote(t) \in Uint64 /\ Quote(t) \in Nat
    BY <2>0, <2>2, BuildTyped
  <2>6. /\ x.side = "sell" /\ x.fee = fee /\ x.tip = r.tip
        /\ x.limit = MinOut(Quote(t), r.slippage)
        /\ x.opens = Temporary
        /\ x.closes = Temporary \union (IF PositionClosed(t) THEN {"ata"} ELSE {})
    BY <1>1, <2>0, <2>3, BuildsSell
  <2>7. opened \in Nat /\ closed \in Nat /\ closed >= opened
    BY <2>6 DEF RentOf, Temporary
  <2>8. m.lamports \in Nat /\ m.lamports >= x.limit
    BY <2>0, <2>2, <2>4, <2>6, MovesTyped
  <2>9. fee \in Nat /\ cut \in Nat /\ fee + cut <= Quote(t)
    <3>1. FeeRatio \in 0 .. Bps /\ FeeRatio + r.slippage <= Bps
      BY <1>1, <2>3, AmountsAssumption
    <3>2. fee + cut <= Quote(t)
      BY <2>3, <2>5, <3>1, SharesTogether
    <3> QED BY <2>3, <2>5, <3>1, <3>2, ShareBelow
  <2>10. x.limit = Quote(t) - cut
    BY <2>3, <2>5, <2>6, LimitsStrict
  <2>11. sol' = sol - NetFee + m.lamports - opened + closed - fee - r.tip
    BY <2>2, <2>6 DEF Left
  <2> HIDE DEF x, m, fee, cut, opened, closed
  <2> QED BY <2>3, <2>4, <2>5, <2>7, <2>8, <2>9, <2>10, <2>11
<1>2. IInv /\ [Next]_vars =>
        [\A t \in Traders :
           Lands(t) /\ req[t].side = "sell" /\ req[t].slippage + FeeRatio <= Bps
             => sol' >= sol - NetFee - req[t].tip]_vars
  BY <1>1
<1> QED BY <1>2, Invariance, PTL DEF Spec, SellNeverCosts

-----------------------------------------------------------------------------
(* The report.                                                             *)

\* The swap that landed moved what the transaction names, and what has been
\* reported of it was read off its instructions.
Reported ==
  /\ DOMAIN moved = Traders /\ DOMAIN report = Traders
  /\ \A t \in Traders :
       /\ at[t] = "landed" /\ outcome[t] = "success" =>
            /\ tx[t] \in TxType
            /\ moved[t] \in [lamports : Int, tokens : Int]
            /\ tx[t].side = "sell" => moved[t].tokens = -tx[t].amount
            /\ tx[t].side = "buy" /\ venue = "raydium" => moved[t].lamports = -tx[t].amount
            /\ tx[t].side = "buy" /\ venue = "pumpfun" => moved[t].tokens = tx[t].amount
       /\ "sol" \in DOMAIN report[t] =>
            /\ at[t] = "landed" /\ outcome[t] = "success"
            /\ report[t] = Parsed(t)

\* What two sequences of one element make when they are joined.
LEMMA PairJoined ==
  ASSUME NEW a, NEW b, NEW s, s = <<a>> \o <<b>>
  PROVE  DOMAIN s = {1, 2} /\ s[1] = a /\ s[2] = b
<1>1. <<a>> \in Seq({a, b}) /\ <<b>> \in Seq({a, b}) /\ Len(<<a>>) = 1 /\ Len(<<b>>) = 1
  OBVIOUS
<1>2. s \in Seq({a, b}) /\ Len(s) = 2
      /\ \A i \in 1 .. 2 : s[i] = IF i <= 1 THEN <<a>>[i] ELSE <<b>>[i - 1]
  BY <1>1, ConcatProperties
<1> QED BY <1>2

\* The fee the parsers take for the bot's is the one the builders paid.
LEMMA FeeFound ==
  ASSUME NEW x \in TxType
  PROVE  BotFee(x) = x.fee
<1> DEFINE s == SystemTransfers(x)
           f == Transfer("wallet", "feeRecipient", x.fee)
           j == Transfer("wallet", "jito", x.tip)
           paid == {i \in DOMAIN s : s[i].to = "feeRecipient"}
<1>1. BotFee(x) = IF paid = {} THEN 0 ELSE s[CHOOSE i \in paid : \A k \in paid : k <= i].amount
  BY DEF BotFee
<1>2. f.to = "feeRecipient" /\ f.amount = x.fee /\ j.to = "jito"
  BY DEF Transfer
<1>3. CASE x.fee # 0
  <2>1. /\ 1 \in DOMAIN s /\ s[1] = f
        /\ \A i \in DOMAIN s : i # 1 => s[i] = j
    <3>1. CASE x.tip # 0
      <4>1. s = <<f>> \o <<j>>
        BY <1>3, <3>1 DEF SystemTransfers
      <4> HIDE DEF s, f, j
      <4>2. DOMAIN s = {1, 2} /\ s[1] = f /\ s[2] = j
        BY <4>1, PairJoined
      <4> QED BY <4>2
    <3>2. CASE x.tip = 0
      <4>1. s = <<f>>
        BY <1>3, <3>2 DEF SystemTransfers
      <4> HIDE DEF s, f, j
      <4> QED BY <4>1
    <3> QED BY <3>1, <3>2
  <2> HIDE DEF s, f, j
  <2>2. paid = {1}
    BY <1>2, <2>1
  <2> HIDE DEF paid
  <2>3. (CHOOSE i \in paid : \A k \in paid : k <= i) = 1
    BY <2>2
  <2> QED BY <1>1, <1>2, <2>1, <2>2, <2>3
<1>4. CASE x.fee = 0
  <2>1. \A i \in DOMAIN s : s[i] = j
    <3>1. CASE x.tip # 0
      <4>1. s = <<j>>
        BY <1>4, <3>1 DEF SystemTransfers
      <4> HIDE DEF s, f, j
      <4> QED BY <4>1
    <3>2. CASE x.tip = 0
      <4>1. s = << >>
        BY <1>4, <3>2 DEF SystemTransfers
      <4> HIDE DEF s, f, j
      <4> QED BY <4>1
    <3> QED BY <3>1, <3>2
  <2> HIDE DEF s, f, j
  <2>2. paid = {}
    BY <1>2, <2>1
  <2> QED BY <1>1, <1>4, <2>2
<1> QED BY <1>3, <1>4

\* What the parsers make of the inner instructions is what the swap moved.
LEMMA ParsedTrue ==
  ASSUME NEW t \in Traders, venue \in Venues, tx[t] \in TxType,
         moved[t] \in [lamports : Int, tokens : Int],
         tx[t].side = "sell" => moved[t].tokens = -tx[t].amount,
         tx[t].side = "buy" /\ venue = "raydium" => moved[t].lamports = -tx[t].amount,
         tx[t].side = "buy" /\ venue = "pumpfun" => moved[t].tokens = tx[t].amount
  PROVE  Parsed(t) = [sol |-> moved[t].lamports, token |-> moved[t].tokens, fee |-> tx[t].fee]
<1> DEFINE x == tx[t]
           m == moved[t]
           inner == Inner(x, m)
           swap == IF venue = "raydium" THEN ParseSwap(inner)
                   ELSE IF x.side = "buy" THEN ParseBuy(inner) ELSE ParseSell(inner)
<1>1. x.amount \in Nat /\ m.lamports \in Int /\ m.tokens \in Int /\ x.side \in {"buy", "sell"}
      /\ venue \in {"raydium", "pumpfun"}
  BY AmountsAssumption, TradeAssumption DEF TxType, Uint64
<1>2. Parsed(t) = [sol |-> swap.sol, token |-> swap.token, fee |-> BotFee(x)]
  BY DEF Parsed
<1>3. BotFee(x) = x.fee
  BY FeeFound
<1> DEFINE n == x.amount
           l == m.lamports
           k == m.tokens
<1>4. swap.sol = m.lamports /\ swap.token = m.tokens
  <2>1. CASE venue = "raydium" /\ x.side = "sell"
    <3>1. inner = <<Transfer("ata", "vault", n), Transfer("vault", "wsol", l)>>
      BY <2>1 DEF Inner
    <3>2. inner[1].from = "ata" /\ inner[2].amount = l /\ inner[1].amount = n
      BY <3>1 DEF Transfer
    <3> HIDE DEF inner
    <3>3. swap = [sol |-> l, token |-> -n]
      BY <2>1, <3>2 DEF ParseSwap
    <3> QED BY <2>1, <3>3
  <2>2. CASE venue = "raydium" /\ x.side = "buy"
    <3>1. inner = <<Transfer("wsol", "vault", n), Transfer("vault", "ata", k)>>
      BY <2>2 DEF Inner
    <3>2. inner[1].from = "wsol" /\ inner[2].to = "ata" /\ inner[1].amount = n /\ inner[2].amount = k
      BY <3>1 DEF Transfer
    <3> HIDE DEF inner
    <3>3. swap = [sol |-> -n, token |-> k]
      BY <2>2, <3>2 DEF ParseSwap
    <3> QED BY <2>2, <3>3
  <2>3. CASE venue = "pumpfun" /\ x.side = "sell"
    <3>1. inner = <<Transfer("ata", "vault", n), [sol |-> l, token |-> n]>>
      BY <2>3 DEF Inner
    <3>2. inner[2] = [sol |-> l, token |-> n]
      BY <3>1
    <3> HIDE DEF inner
    <3>3. swap = [sol |-> l, token |-> -n]
      BY <2>3, <3>2 DEF ParseSell
    <3> QED BY <2>3, <3>3
  <2>4. CASE venue = "pumpfun" /\ x.side = "buy"
    <3>1. inner = <<Transfer("vault", "ata", n), Transfer("wallet", "vault", -l),
                    Transfer("wallet", "venue", 0), [sol |-> -l, token |-> n]>>
      BY <2>4 DEF Inner
    <3>2. inner[4] = [sol |-> -l, token |-> n]
      BY <3>1
    <3> HIDE DEF inner
    <3>3. swap = [sol |-> -(-l), token |-> n]
      BY <2>4, <3>2 DEF ParseBuy
    <3> QED BY <1>1, <2>4, <3>3
  <2> QED BY <1>1, <2>1, <2>2, <2>3, <2>4
<1> HIDE DEF swap
<1> QED BY <1>2, <1>3, <1>4

\* A report depends on the transaction and what it moved only.
LEMMA ParsedKept ==
  ASSUME NEW t \in Traders, venue' = venue, tx'[t] = tx[t], moved'[t] = moved[t]
  PROVE  Parsed(t)' = Parsed(t)
BY DEF Parsed, Inner, ParseSwap, ParseBuy, ParseSell, BotFee, SystemTransfers, Transfer

\* What a landed swap moved is recorded in the step in which it lands.
LEMMA NextReported == IInv /\ Reported /\ [Next]_vars => Reported'
<1> SUFFICES ASSUME IInv, Reported, [Next]_vars PROVE Reported'
    OBVIOUS
<1> USE DEF chainVars, walletVars, jobVars
<1>0. TypeOK /\ DOMAIN moved = Traders /\ DOMAIN report = Traders /\ DOMAIN outcome = Traders
      /\ DOMAIN at = Traders /\ DOMAIN tx = Traders /\ venue' = venue
  <2>1. venue' = venue
    BY DEF Next, OutsideSwap, TraderStep, Ask, ReadAccounts, QueryFails, Send, PreflightFails,
           Succeed, Fail, Expire, GetTransaction, Finish, vars
  <2> QED BY <2>1 DEF IInv, TypeOK, Reported
<1> DEFINE Good(u) ==
       /\ at[u] = "landed" /\ outcome[u] = "success" =>
            /\ tx[u] \in TxType
            /\ moved[u] \in [lamports : Int, tokens : Int]
            /\ tx[u].side = "sell" => moved[u].tokens = -tx[u].amount
            /\ tx[u].side = "buy" /\ venue = "raydium" => moved[u].lamports = -tx[u].amount
            /\ tx[u].side = "buy" /\ venue = "pumpfun" => moved[u].tokens = tx[u].amount
       /\ "sol" \in DOMAIN report[u] =>
            /\ at[u] = "landed" /\ outcome[u] = "success"
            /\ report[u] = Parsed(u)
<1>1. ASSUME NEW u \in Traders, at'[u] = at[u], outcome'[u] = outcome[u], tx'[u] = tx[u],
             moved'[u] = moved[u], report'[u] = report[u]
      PROVE  Good(u)'
  <2>1. Good(u)
    BY DEF Reported
  <2>2. Parsed(u)' = Parsed(u)
    BY <1>0, <1>1, ParsedKept
  <2> QED BY <1>0, <1>1, <2>1, <2>2
<1>2. ASSUME NEW u \in Traders, at'[u] # "landed", "sol" \notin DOMAIN report'[u]
      PROVE  Good(u)'
  BY <1>2
<1>3. ASSUME NEW t \in Traders, TraderStep(t)
      PROVE  /\ Good(t)'
             /\ DOMAIN moved' = Traders /\ DOMAIN report' = Traders
             /\ \A u \in Traders : u # t => Good(u)'
  <2>0. Good(t)
    BY DEF Reported
  <2>1. /\ DOMAIN moved' = Traders /\ DOMAIN report' = Traders
        /\ \A u \in Traders : u # t =>
             /\ at'[u] = at[u] /\ outcome'[u] = outcome[u] /\ tx'[u] = tx[u]
             /\ moved'[u] = moved[u] /\ report'[u] = report[u]
    <3>1. CASE Ask(t) BY <1>0, <3>1 DEF Ask
    <3>2. CASE ReadAccounts(t) BY <1>0, <3>2 DEF ReadAccounts
    <3>3. CASE QueryFails(t) BY <1>0, <3>3 DEF QueryFails
    <3>4. CASE Send(t) BY <1>0, <3>4 DEF Send
    <3>5. CASE PreflightFails(t) BY <1>0, <3>5 DEF PreflightFails
    <3>6. CASE Succeed(t) BY <1>0, <3>6 DEF Succeed
    <3>7. CASE Fail(t) BY <1>0, <3>7 DEF Fail
    <3>8. CASE Expire(t) BY <1>0, <3>8 DEF Expire
    <3>9. CASE GetTransaction(t) BY <1>0, <3>9 DEF GetTransaction
    <3>10. CASE Finish(t) BY <1>0, <3>10 DEF Finish
    <3> QED BY <1>3, <3>1, <3>2, <3>3, <3>4, <3>5, <3>6, <3>7, <3>8, <3>9, <3>10 DEF TraderStep
  <2>2. \A u \in Traders : u # t => Good(u)'
    <3> HIDE DEF Good
    <3> QED BY <1>1, <2>1
  <2>3. Good(t)'
    <3>1. ASSUME Ask(t) \/ ReadAccounts(t) \/ QueryFails(t) \/ Send(t) \/ PreflightFails(t) \/ Expire(t)
          PROVE  at'[t] # "landed" /\ "sol" \notin DOMAIN report'[t]
      <4>1. at[t] # "landed"
        BY <3>1 DEF Ask, ReadAccounts, QueryFails, Send, PreflightFails, Expire
      <4>2. "sol" \notin DOMAIN report[t]
        BY <2>0, <4>1
      <4>3. report' = report
        BY <3>1 DEF Ask, ReadAccounts, QueryFails, Send, PreflightFails, Expire
      <4>4. at'[t] # "landed"
        BY <1>0, <3>1 DEF Ask, ReadAccounts, QueryFails, Send, PreflightFails, Expire
      <4> QED BY <4>2, <4>3, <4>4
    <3>2. CASE Succeed(t)
      <4>1. LET x == Build(t)
                m == SwapMoves(x, pool) IN
            /\ tx[t] = x /\ x \in TxType /\ WithinLimit(x, pool)
        BY <3>2, Landing
      <4>2. tx[t] \in TxType /\ WithinLimit(tx[t], pool) /\ venue \in Venues /\ pool \in PoolType
        BY <1>0, <4>1 DEF TypeOK
      <4> DEFINE m == SwapMoves(tx[t], pool)
      <4>3. /\ m.lamports \in Int /\ m.tokens \in Int
            /\ tx[t].side = "sell" => m.tokens = -tx[t].amount
            /\ tx[t].side = "buy" /\ venue = "raydium" => -m.lamports = tx[t].amount
            /\ tx[t].side = "buy" /\ venue = "pumpfun" => m.tokens = tx[t].amount
        BY <4>2, MovesTyped
      <4>4. m = [lamports |-> m.lamports, tokens |-> m.tokens]
        BY DEF SwapMoves
      <4>5. moved'[t] = m /\ tx'[t] = tx[t] /\ report'[t] = report[t] /\ at[t] = "sent"
        BY <1>0, <3>2 DEF Succeed
      <4>6. "sol" \notin DOMAIN report'[t]
        BY <2>0, <4>5
      <4> HIDE DEF m
      <4>7. tx[t].side = "buy" /\ venue = "raydium" => m.lamports = -tx[t].amount
        BY <4>3
      <4>8. m \in [lamports : Int, tokens : Int]
        BY <4>3, <4>4
      <4> QED BY <1>0, <4>2, <4>3, <4>5, <4>6, <4>7, <4>8
    <3>3. CASE Fail(t)
      <4>1. "success" \notin Obstacles(tx[t])
        BY DEF Obstacles, MissingError, LimitError
      <4>2. outcome'[t] # "success"
        BY <1>0, <3>3, <4>1 DEF Fail
      <4>3. at[t] = "sent" /\ report' = report
        BY <3>3 DEF Fail
      <4> QED BY <2>0, <4>2, <4>3
    <3>4. CASE GetTransaction(t)
      <4>1. at' = at /\ tx' = tx /\ outcome' = outcome /\ moved' = moved
        BY <3>4 DEF GetTransaction
      <4>2. Parsed(t)' = Parsed(t)
        BY <1>0, <4>1, ParsedKept
      <4>3. \/ \E e : report'[t] = [error |-> e]
            \/ at[t] = "landed" /\ outcome[t] = "success" /\ report'[t] = Parsed(t)
        BY <1>0, <3>4 DEF GetTransaction
      <4>4. \A e : "sol" \notin DOMAIN [error |-> e]
        OBVIOUS
      <4> QED BY <1>0, <2>0, <4>1, <4>2, <4>3, <4>4
    <3>5. CASE Finish(t)
      <4>1. at'[t] = "idle" /\ report'[t] = Nothing
        BY <1>0, <3>5 DEF Finish
      <4>2. "sol" \notin DOMAIN Nothing
        BY DEF Nothing
      <4> QED BY <4>1, <4>2
    <3> HIDE DEF Good
    <3> QED BY <1>2, <1>3, <3>1, <3>2, <3>3, <3>4, <3>5 DEF TraderStep
  <2> QED BY <2>1, <2>2, <2>3
<1>4. CASE OutsideSwap \/ UNCHANGED vars
  <2>1. UNCHANGED <<at, outcome, tx, moved, report>>
    BY <1>4 DEF OutsideSwap, vars
  <2>2. \A u \in Traders : Good(u)'
    <3> HIDE DEF Good
    <3> QED BY <1>1, <2>1
  <2> QED BY <1>0, <2>1, <2>2 DEF Reported
<1> HIDE DEF Good
<1>5. (DOMAIN moved' = Traders /\ DOMAIN report' = Traders /\ \A u \in Traders : Good(u)') => Reported'
  BY DEF Reported, Good
<1> QED BY <1>3, <1>4, <1>5 DEF Next

\* GetTransaction tells the wallet exactly what its trade moved and what fee it
\* paid, for any trades and any figures.
THEOREM ReportsTrue == Spec => []ReportTrue
<1>1. Init => Reported
  BY DEF Init, Reported, Nothing
<1>2. IInv /\ Reported => ReportTrue
  <2> SUFFICES ASSUME IInv, Reported, NEW t \in Traders, at[t] = "landed",
                      outcome[t] = "success", "sol" \in DOMAIN report[t]
               PROVE  report[t] = [sol |-> moved[t].lamports, token |-> moved[t].tokens,
                                   fee |-> tx[t].fee]
      BY DEF ReportTrue
  <2>1. venue \in Venues /\ report[t] = Parsed(t)
    BY DEF IInv, TypeOK, Reported
  <2> QED BY <2>1, ParsedTrue DEF Reported
<1> QED BY <1>1, <1>2, NextReported, Invariance, PTL DEF Spec

-----------------------------------------------------------------------------
(* The refinement.                                                         *)

\* No trade has been asked for yet, and no order placed.
LEMMA InitOrder == Init => Abstract!Init
<1> SUFFICES ASSUME Init PROVE Abstract!Init
    OBVIOUS
<1>1. OrderTold = [t \in Traders |-> "none"]
  BY DEF Init, OrderTold, Nothing
<1> QED BY <1>1, TradeAssumption
        DEF Init, OrderTerms, OrderStage, OrderAnswer, Abstract!Init, Abstract!NoTerms, Nothing

\* A step of one trader leaves the orders of the others alone.
LEMMA OrdersApart ==
  ASSUME IInv, DOMAIN report = Traders, NEW t \in Traders, TraderStep(t)
  PROVE  /\ OrderTerms' = [OrderTerms EXCEPT ![t] = OrderTerms'[t]]
         /\ OrderStage' = [OrderStage EXCEPT ![t] = OrderStage'[t]]
         /\ OrderAnswer' = [OrderAnswer EXCEPT ![t] = OrderAnswer'[t]]
         /\ OrderTold' = [OrderTold EXCEPT ![t] = OrderTold'[t]]
<1>1. \A u \in Traders : u # t =>
        /\ at'[u] = at[u] /\ req'[u] = req[u] /\ outcome'[u] = outcome[u]
        /\ reply'[u] = reply[u] /\ report'[u] = report[u]
  <2> SUFFICES ASSUME NEW u \in Traders, u # t
               PROVE  /\ at'[u] = at[u] /\ req'[u] = req[u] /\ outcome'[u] = outcome[u]
                      /\ reply'[u] = reply[u] /\ report'[u] = report[u]
      OBVIOUS
  <2>1. /\ DOMAIN req = Traders /\ DOMAIN reply = Traders /\ DOMAIN report = Traders
        /\ DOMAIN outcome = Traders /\ DOMAIN at = Traders
    BY DEF IInv, TypeOK
  <2>2. CASE Ask(t) BY <2>1, <2>2 DEF Ask
  <2>3. CASE ReadAccounts(t) BY <2>1, <2>3 DEF ReadAccounts
  <2>4. CASE QueryFails(t) BY <2>1, <2>4 DEF QueryFails
  <2>5. CASE Send(t) BY <2>1, <2>5 DEF Send
  <2>6. CASE PreflightFails(t) BY <2>1, <2>6 DEF PreflightFails
  <2>7. CASE Succeed(t) BY <2>1, <2>7 DEF Succeed
  <2>8. CASE Fail(t) BY <2>1, <2>8 DEF Fail
  <2>9. CASE Expire(t) BY <2>1, <2>9 DEF Expire
  <2>10. CASE GetTransaction(t) BY <2>1, <2>10 DEF GetTransaction
  <2>11. CASE Finish(t) BY <2>1, <2>11 DEF Finish
  <2> QED BY <2>2, <2>3, <2>4, <2>5, <2>6, <2>7, <2>8, <2>9, <2>10, <2>11 DEF TraderStep
<1>2. OrderTerms' = [OrderTerms EXCEPT ![t] = OrderTerms'[t]]
  BY <1>1 DEF OrderTerms
<1>3. OrderStage' = [OrderStage EXCEPT ![t] = OrderStage'[t]]
  BY <1>1 DEF OrderStage
<1>4. OrderAnswer' = [OrderAnswer EXCEPT ![t] = OrderAnswer'[t]]
  BY <1>1 DEF OrderAnswer
<1>5. OrderTold' = [OrderTold EXCEPT ![t] = OrderTold'[t]]
  BY <1>1 DEF OrderTold
<1> QED BY <1>2, <1>3, <1>4, <1>5

\* What t's own step makes of its order.
LEMMA OrderMoves ==
  ASSUME IInv, DOMAIN report = Traders, NEW t \in Traders, TraderStep(t)
  PROVE  Abstract!Next \/ UNCHANGED Abstract!vars
<1> USE DEF chainVars, walletVars, jobVars, Abstract!vars
<1>1. TypeOK /\ Lineage BY DEF IInv
<1>2. /\ DOMAIN OrderTerms = Traders /\ DOMAIN OrderStage = Traders
      /\ DOMAIN OrderAnswer = Traders /\ DOMAIN OrderTold = Traders
      /\ OrderTerms' = [OrderTerms EXCEPT ![t] = OrderTerms'[t]]
      /\ OrderStage' = [OrderStage EXCEPT ![t] = OrderStage'[t]]
      /\ OrderAnswer' = [OrderAnswer EXCEPT ![t] = OrderAnswer'[t]]
      /\ OrderTold' = [OrderTold EXCEPT ![t] = OrderTold'[t]]
  BY OrdersApart DEF OrderTerms, OrderStage, OrderAnswer, OrderTold
<1>0. /\ OrderTerms = [u \in Traders |-> OrderTerms[u]]
      /\ OrderStage = [u \in Traders |-> OrderStage[u]]
      /\ OrderAnswer = [u \in Traders |-> OrderAnswer[u]]
      /\ OrderTold = [u \in Traders |-> OrderTold[u]]
  BY DEF OrderTerms, OrderStage, OrderAnswer, OrderTold
<1>3. /\ OrderTerms'[t] = OrderTerms[t] => OrderTerms' = OrderTerms
      /\ OrderStage'[t] = OrderStage[t] => OrderStage' = OrderStage
      /\ OrderAnswer'[t] = OrderAnswer[t] => OrderAnswer' = OrderAnswer
      /\ OrderTold'[t] = OrderTold[t] => OrderTold' = OrderTold
  BY <1>0, <1>2
<1>4. OrderStage[t] = "sent" /\ OrderStage'[t] = "void"
        => {t} \in SUBSET Abstract!Sent /\ OrderStage' = Abstract!AllVoid({t})
  BY <1>2 DEF Abstract!Sent, Abstract!AllVoid
<1>5. {} \in SUBSET Abstract!Sent /\ Abstract!AllVoid({}) = OrderStage
  BY <1>0 DEF Abstract!AllVoid
<1>6. CASE Ask(t)
  <2>1. PICK r \in Requests : req' = [req EXCEPT ![t] = r]
    BY <1>6 DEF Ask
  <2>2. /\ OrderStage[t] = "idle" /\ OrderStage'[t] = "open"
        /\ OrderTerms'[t] = TermsOf(r)
        /\ OrderAnswer' = OrderAnswer /\ OrderTold' = OrderTold /\ tokens' = tokens
    BY <1>1, <1>6, <2>1 DEF Ask, TypeOK, OrderStage, OrderTerms, OrderAnswer, OrderTold
  <2>3. Abstract!Place(t)
    BY <1>2, <2>2 DEF Abstract!Place
  <2> QED BY <2>3 DEF Abstract!Next
<1>7. CASE ReadAccounts(t)
  <2>1. OrderStage'[t] = OrderStage[t] /\ OrderTerms'[t] = OrderTerms[t]
    BY <1>1, <1>7 DEF ReadAccounts, TypeOK, OrderStage, OrderTerms
  <2>2. OrderAnswer' = OrderAnswer /\ OrderTold' = OrderTold /\ tokens' = tokens
    BY <1>7 DEF ReadAccounts, OrderAnswer, OrderTold
  <2> QED BY <1>3, <2>1, <2>2
<1>8. CASE QueryFails(t) \/ PreflightFails(t)
  <2>1. /\ at[t] \in {"asked", "read"} /\ at'[t] = "over" /\ req' = req
        /\ reply'[t] \in {"error", "ErrSlippage", "ErrAccountNotInitialized"}
        /\ report' = report /\ tokens' = tokens
    BY <1>1, <1>8 DEF QueryFails, PreflightFails, MapError, TypeOK
  <2>2. /\ OrderStage[t] = "open" /\ OrderStage'[t] = "refused"
        /\ OrderTerms'[t] = OrderTerms[t] /\ OrderAnswer'[t] = "error"
        /\ OrderTold' = OrderTold
    BY <2>1 DEF OrderStage, OrderTerms, OrderAnswer, OrderTold
  <2>3. OrderStage' = [Abstract!AllVoid({}) EXCEPT ![t] = "refused"]
    BY <1>2, <1>5, <2>2
  <2>4. Abstract!Refuse(t)
    BY <1>2, <1>3, <1>5, <2>1, <2>2, <2>3 DEF Abstract!Refuse
  <2> QED BY <2>4 DEF Abstract!Next
<1>9. CASE Send(t)
  <2>1. /\ at[t] = "read" /\ at'[t] = "sent" /\ req' = req /\ reply'[t] \in {"ok", "error"}
        /\ report' = report /\ tokens' = tokens
    BY <1>1, <1>9 DEF Send, TypeOK
  <2>2. /\ OrderStage[t] = "open" /\ OrderStage'[t] = "sent"
        /\ OrderTerms'[t] = OrderTerms[t] /\ OrderAnswer'[t] \in {"ok", "error"}
        /\ OrderTold' = OrderTold
    BY <2>1 DEF OrderStage, OrderTerms, OrderAnswer, OrderTold
  <2>3. OrderStage' = [Abstract!AllVoid({}) EXCEPT ![t] = "sent"]
    BY <1>2, <1>5, <2>2
  <2>4. Abstract!Submit(t)
    BY <1>2, <1>3, <1>5, <2>1, <2>2, <2>3 DEF Abstract!Submit
  <2> QED BY <2>4 DEF Abstract!Next
<1>10. CASE Succeed(t)
  <2>1. /\ at[t] = "sent" /\ at'[t] = "landed" /\ outcome'[t] = "success"
        /\ req' = req /\ reply' = reply /\ report' = report
    BY <1>1, <1>10 DEF Succeed, TypeOK
  <2>2. /\ OrderStage[t] = "sent" /\ OrderStage'[t] = "filled"
        /\ OrderTerms'[t] = OrderTerms[t] /\ OrderTerms[t] = TermsOf(req[t])
        /\ OrderAnswer' = OrderAnswer /\ OrderTold' = OrderTold
    BY <2>1 DEF OrderStage, OrderTerms, OrderAnswer, OrderTold
  <2>3. tokens' \in Nat /\ Abstract!Effect(TermsOf(req[t]), tokens, tokens')
    <3> DEFINE x == Build(t)
               m == SwapMoves(x, pool)
    <3>1. /\ x \in TxType /\ WithinLimit(x, pool) /\ venue \in Venues /\ pool \in PoolType
          /\ req[t] \in RequestType /\ req[t] \in Requests /\ quoted[t] \in PoolType
          /\ seen[t] \in SeenType
          /\ tokens' = tokens + m.tokens /\ tokens' \in Nat /\ tokens \in Nat
      BY <1>1, <1>10, Landing, TradeAssumption DEF TypeOK
    <3>2. /\ m.tokens \in Int
          /\ x.side = "sell" => m.tokens = -x.amount
          /\ x.side = "buy" => m.tokens \in Nat
      BY <3>1, MovesTyped
    <3>3. req[t].side \in {"buy", "sell"} /\ req[t].amount \in Nat
      BY <3>1, Figures DEF RequestType
    <3>4. CASE req[t].side = "sell"
      <4>1. x.side = "sell" /\ x.amount = req[t].amount
        BY <3>1, <3>4, BuildsSell
      <4> HIDE DEF x, m
      <4>2. tokens' = tokens - req[t].amount
        BY <3>1, <3>2, <3>3, <4>1
      <4> QED BY <3>1, <3>4, <4>2 DEF Abstract!Effect, TermsOf
    <3>5. CASE req[t].side = "buy"
      <4>1. x.side = "buy"
        BY <3>1, <3>5, BuildsBuy
      <4> HIDE DEF x, m
      <4>2. tokens' >= tokens
        BY <3>1, <3>2, <4>1
      <4> QED BY <3>1, <3>5, <4>2 DEF Abstract!Effect, TermsOf
    <3> QED BY <3>3, <3>4, <3>5
  <2>4. OrderStage' = [OrderStage EXCEPT ![t] = "filled"] /\ OrderTerms' = OrderTerms
    BY <1>2, <1>3, <2>2
  <2>5. Abstract!Fill(t)
    BY <2>2, <2>3, <2>4 DEF Abstract!Fill
  <2> QED BY <2>5 DEF Abstract!Next
<1>11. CASE Fail(t) \/ Expire(t)
  <2>1. /\ at[t] = "sent" /\ req' = req /\ reply' = reply /\ report' = report /\ tokens' = tokens
        /\ at'[t] = "expired" \/ (at'[t] = "landed" /\ outcome'[t] # "success")
    <3>1. "success" \notin Obstacles(tx[t])
      BY DEF Obstacles, MissingError, LimitError
    <3> QED BY <1>1, <1>11, <3>1 DEF Fail, Expire, TypeOK
  <2>2. /\ OrderStage[t] = "sent" /\ OrderStage'[t] = "void"
        /\ OrderTerms'[t] = OrderTerms[t]
        /\ OrderAnswer' = OrderAnswer /\ OrderTold' = OrderTold
    BY <2>1 DEF OrderStage, OrderTerms, OrderAnswer, OrderTold
  <2>3. Abstract!Lose({t})
    BY <1>3, <1>4, <2>1, <2>2 DEF Abstract!Lose
  <2>4. {t} \in SUBSET Abstract!Sent
    BY <1>4, <2>2
  <2> QED BY <2>3, <2>4 DEF Abstract!Next
<1>12. CASE GetTransaction(t)
  <2>1. /\ at[t] \in {"sent", "landed", "expired"} /\ at' = at /\ req' = req /\ reply' = reply
        /\ outcome' = outcome /\ tokens' = tokens
        /\ \E answered \in BOOLEAN : report'[t] =
             IF ~answered THEN [error |-> "error"]
             ELSE IF at[t] # "landed" THEN [error |-> "ErrTxNotLand"]
             ELSE IF outcome[t] = "success" THEN Parsed(t)
             ELSE [error |-> FailureReport(outcome[t])]
    BY <1>12 DEF GetTransaction
  <2>2. /\ OrderStage[t] \in {"sent", "filled", "void"} /\ OrderStage' = OrderStage
        /\ OrderTerms' = OrderTerms /\ OrderAnswer' = OrderAnswer
    BY <2>1 DEF OrderStage, OrderTerms, OrderAnswer
  <2>3. OrderTold'[t] \in Abstract!Tellable(OrderStage[t]) \union {"unknown"}
    <3>1. CASE report'[t] = [error |-> "error"]
      BY <3>1 DEF OrderTold
    <3>2. CASE at[t] # "landed" /\ report'[t] = [error |-> "ErrTxNotLand"]
      <4>1. OrderTold'[t] = "notLanded" /\ OrderStage[t] \in {"sent", "void"}
        BY <2>1, <3>2 DEF OrderTold, OrderStage
      <4> QED BY <4>1 DEF Abstract!Tellable
    <3>3. CASE at[t] = "landed" /\ outcome[t] = "success" /\ report'[t] = Parsed(t)
      <4>1. "error" \notin DOMAIN Parsed(t) /\ "sol" \in DOMAIN Parsed(t)
        BY DEF Parsed
      <4>2. OrderTold'[t] = "filled" /\ OrderStage[t] = "filled"
        BY <3>3, <4>1 DEF OrderTold, OrderStage
      <4> QED BY <4>2 DEF Abstract!Tellable
    <3>4. CASE /\ at[t] = "landed" /\ outcome[t] # "success"
               /\ report'[t] = [error |-> FailureReport(outcome[t])]
      <4>0. PICK e \in {"ErrSlippage", "ErrTransactionFailed"} : report'[t] = [error |-> e]
        BY <3>4 DEF FailureReport
      <4>1. OrderTold'[t] = "failed" /\ OrderStage[t] = "void"
        BY <3>4, <4>0 DEF OrderTold, OrderStage
      <4> QED BY <4>1 DEF Abstract!Tellable
    <3> QED BY <2>1, <3>1, <3>2, <3>3, <3>4
  <2>4. Abstract!Inquire(t)
    BY <1>2, <2>1, <2>2, <2>3 DEF Abstract!Inquire
  <2> QED BY <2>4 DEF Abstract!Next
<1>13. CASE Finish(t)
  <2>1. /\ at[t] \in {"landed", "expired", "over"} /\ at'[t] = "idle" /\ reply'[t] = "none"
        /\ report'[t] = Nothing /\ tokens' = tokens
    BY <1>1, <1>13 DEF Finish, TypeOK
  <2>2. /\ OrderStage[t] \in {"refused", "filled", "void"} /\ OrderStage'[t] = "idle"
        /\ OrderTerms'[t] = Abstract!NoTerms /\ OrderAnswer'[t] = "none"
    BY <2>1 DEF OrderStage, OrderTerms, OrderAnswer, Abstract!NoTerms, Nothing
  <2>3. OrderTold'[t] = "none"
    BY <2>1 DEF OrderTold, Nothing
  <2>4. Abstract!Retire(t)
    BY <1>2, <2>1, <2>2, <2>3 DEF Abstract!Retire
  <2> QED BY <2>4 DEF Abstract!Next
<1> QED BY <1>6, <1>7, <1>8, <1>9, <1>10, <1>11, <1>12, <1>13 DEF TraderStep

\* Every step of a trade is a step of the abstract order, or none.
LEMMA NextOrder == IInv /\ Reported /\ [Next]_vars => [Abstract!Next]_Abstract!vars
<1> SUFFICES ASSUME IInv, Reported, [Next]_vars PROVE [Abstract!Next]_Abstract!vars
    OBVIOUS
<1>1. CASE OutsideSwap \/ UNCHANGED vars
  <2>1. UNCHANGED <<at, req, outcome, reply, report, tokens>>
    BY <1>1 DEF OutsideSwap, vars, chainVars, walletVars, jobVars
  <2>2. UNCHANGED Abstract!vars
    BY <2>1 DEF Abstract!vars, OrderTerms, OrderStage, OrderAnswer, OrderTold
  <2> QED BY <2>2
<1>2. ASSUME NEW t \in Traders, TraderStep(t) PROVE [Abstract!Next]_Abstract!vars
  BY <1>2, OrderMoves DEF Reported
<1> QED BY <1>1, <1>2 DEF Next

\* Every trade is an order that takes effect once and as a whole, or never,
\* whatever the wallet's other trades do meanwhile; the wallet's tokens change
\* in no other way, and GetTransaction tells what became of it.
THEOREM TradesAreOrders == Spec => ImplementsOrder
<1>1. Init => Reported
  BY DEF Init, Reported, Nothing
<1> QED BY <1>1, InitOrder, NextOrder, NextReported, Invariance, PTL
        DEF Spec, ImplementsOrder, Abstract!Safety

\* No trade is reported as sent that has not been, and none as landed or failed
\* that has not landed, or failed, by then.
THEOREM OrdersHonest == Spec => []Abstract!Honest
<1>1. /\ DOMAIN OrderStage = Traders /\ DOMAIN OrderAnswer = Traders
      /\ DOMAIN OrderTold = Traders
  BY DEF OrderStage, OrderAnswer, OrderTold
<1>2. Abstract!Init => Abstract!Honest
  BY DEF Abstract!Init, Abstract!Honest
<1>3. Abstract!Honest /\ [Abstract!Next]_Abstract!vars => Abstract!Honest'
  <2> SUFFICES ASSUME Abstract!Honest, [Abstract!Next]_Abstract!vars PROVE Abstract!Honest'
      OBVIOUS
  <2> USE DEF Abstract!Honest
  <2>1. ASSUME NEW lost \in SUBSET Abstract!Sent
        PROVE  \A c \in Traders :
                 /\ Abstract!AllVoid(lost)[c] \in {"void", OrderStage[c]}
                 /\ OrderStage[c] # "sent" => Abstract!AllVoid(lost)[c] = OrderStage[c]
    BY DEF Abstract!Sent, Abstract!AllVoid
  <2>2. CASE \E lost \in SUBSET Abstract!Sent : Abstract!Lose(lost)
    <3>1. PICK lost \in SUBSET Abstract!Sent :
            /\ OrderStage' = Abstract!AllVoid(lost)
            /\ OrderAnswer' = OrderAnswer /\ OrderTold' = OrderTold
      BY <2>2 DEF Abstract!Lose
    <3> QED BY <2>1, <3>1
  <2>3. ASSUME NEW c \in Traders, Abstract!Refuse(c) \/ Abstract!Submit(c)
        PROVE  Abstract!Honest'
    <3>1. PICK lost \in SUBSET Abstract!Sent, s \in {"refused", "sent"} :
            /\ OrderStage' = [Abstract!AllVoid(lost) EXCEPT ![c] = s]
            /\ s = "refused" => OrderAnswer'[c] = "error"
      BY <1>1, <2>3 DEF Abstract!Refuse, Abstract!Submit
    <3>2. /\ OrderStage[c] = "open" /\ OrderTold' = OrderTold
          /\ \A d \in Traders : d # c => OrderAnswer'[d] = OrderAnswer[d]
      BY <1>1, <2>3 DEF Abstract!Refuse, Abstract!Submit
    <3>3. DOMAIN Abstract!AllVoid(lost) = Traders
      BY DEF Abstract!AllVoid
    <3>4. /\ OrderStage'[c] = s
          /\ \A d \in Traders : d # c => OrderStage'[d] = Abstract!AllVoid(lost)[d]
      BY <3>1, <3>3
    <3> QED BY <2>1, <3>1, <3>2, <3>4
  <2>4. ASSUME NEW c \in Traders,
               Abstract!Place(c) \/ Abstract!Fill(c) \/ Abstract!Inquire(c) \/ Abstract!Retire(c)
        PROVE  Abstract!Honest'
    <3>1. CASE Abstract!Place(c) BY <1>1, <3>1 DEF Abstract!Place
    <3>2. CASE Abstract!Fill(c) BY <1>1, <3>2 DEF Abstract!Fill
    <3>3. CASE Abstract!Inquire(c) BY <1>1, <3>3 DEF Abstract!Inquire, Abstract!Tellable
    <3>4. CASE Abstract!Retire(c) BY <1>1, <3>4 DEF Abstract!Retire
    <3> QED BY <2>4, <3>1, <3>2, <3>3, <3>4
  <2>5. CASE UNCHANGED Abstract!vars
    BY <2>5 DEF Abstract!vars
  <2> QED BY <2>2, <2>3, <2>4, <2>5 DEF Abstract!Next
<1> QED BY <1>2, <1>3, TradesAreOrders, PTL DEF ImplementsOrder, Abstract!Safety
-----------------------------------------------------------------------------
(* The failures: which trades the two findings about them can concern.     *)

\* What stood in the way of a trade that failed, in terms of the transaction,
\* and what has been reported of it.
Failures ==
  /\ DOMAIN report = Traders
  /\ \A t \in Traders :
       /\ outcome[t] = "TooLittleSolReceived" => venue = "pumpfun" /\ tx[t].side = "sell"
       /\ outcome[t] # "none" => at[t] = "landed"
       /\ /\ "error" \in DOMAIN report[t]
          /\ report[t].error \in {"ErrSlippage", "ErrTransactionFailed"}
          => at[t] = "landed" /\ report[t].error = FailureReport(outcome[t])

\* A limit is named as its venue names it.
LEMMA ObstacleNamed ==
  ASSUME NEW x, NEW why \in Obstacles(x)
  PROVE  /\ why = "TooLittleSolReceived" => venue # "raydium" /\ x.side # "buy"
         /\ why = "exists" => "ata" \in x.opens /\ ataOpen
         /\ why \in {"AccountNotInitialized", "InvalidAccount"} => "ata" \notin x.opens /\ ~ataOpen
         /\ why = "notEmpty" => "ata" \in x.closes /\ tokens # x.amount
BY DEF Obstacles, LimitError, MissingError

\* What was sent is a buy or a sale, as was asked for.
LEMMA SentTyped ==
  ASSUME IInv, NEW t \in Traders, HasSent(t)
  PROVE  tx[t].side \in {"buy", "sell"} /\ tx[t].side = req[t].side
<1>1. /\ venue \in Venues /\ req[t] \in Requests /\ quoted[t] \in PoolType
      /\ seen[t] \in SeenType /\ tx[t] = Build(t) /\ req[t] \in RequestType
  BY TradeAssumption DEF IInv, TypeOK, Lineage, HasAsked, HasRead, HasSent
<1>2. req[t].side \in {"buy", "sell"}
  BY <1>1 DEF RequestType
<1>3. Build(t).side = req[t].side
  BY <1>1, <1>2, BuildsSell, BuildsBuy
<1> QED BY <1>1, <1>2, <1>3

\* A buy opens the account that was seen closed; a sale closes it only when it
\* sells all that was seen.
LEMMA SentAccounts ==
  ASSUME IInv, NEW t \in Traders, HasSent(t)
  PROVE  /\ "ata" \in tx[t].opens <=> req[t].side = "buy" /\ ~seen[t].open
         /\ "ata" \in tx[t].closes => seen[t].balance = tx[t].amount
<1>1. /\ venue \in Venues /\ req[t] \in Requests /\ quoted[t] \in PoolType
      /\ seen[t] \in SeenType /\ tx[t] = Build(t) /\ req[t] \in RequestType
  BY TradeAssumption DEF IInv, TypeOK, Lineage, HasAsked, HasRead, HasSent
<1>2. "ata" \notin Temporary /\ req[t].side \in {"buy", "sell"}
  BY <1>1 DEF Temporary, RequestType
<1>3. CASE req[t].side = "sell"
  BY <1>1, <1>2, <1>3, BuildsSell DEF PositionClosed
<1>4. CASE req[t].side = "buy"
  BY <1>1, <1>2, <1>4, BuildsBuy DEF SeenType
<1> QED BY <1>2, <1>3, <1>4

\* A step of one trader leaves what is known of the others' trades alone.
LEMMA TradesApart ==
  ASSUME IInv, DOMAIN report = Traders, NEW t \in Traders, TraderStep(t)
  PROVE  /\ DOMAIN report' = Traders /\ venue' = venue
         /\ \A u \in Traders : u # t =>
              /\ at'[u] = at[u] /\ req'[u] = req[u] /\ seen'[u] = seen[u] /\ tx'[u] = tx[u]
              /\ outcome'[u] = outcome[u] /\ report'[u] = report[u]
<1> USE DEF chainVars, jobVars
<1>1. /\ DOMAIN req = Traders /\ DOMAIN seen = Traders /\ DOMAIN tx = Traders
      /\ DOMAIN outcome = Traders /\ DOMAIN at = Traders
  BY DEF IInv, TypeOK
<1>2. CASE Ask(t) BY <1>1, <1>2 DEF Ask
<1>3. CASE ReadAccounts(t) BY <1>1, <1>3 DEF ReadAccounts
<1>4. CASE QueryFails(t) BY <1>1, <1>4 DEF QueryFails
<1>5. CASE Send(t) BY <1>1, <1>5 DEF Send
<1>6. CASE PreflightFails(t) BY <1>1, <1>6 DEF PreflightFails
<1>7. CASE Succeed(t) BY <1>1, <1>7 DEF Succeed
<1>8. CASE Fail(t) BY <1>1, <1>8 DEF Fail
<1>9. CASE Expire(t) BY <1>1, <1>9 DEF Expire
<1>10. CASE GetTransaction(t) BY <1>1, <1>10 DEF GetTransaction
<1>11. CASE Finish(t) BY <1>1, <1>11 DEF Finish
<1> QED BY <1>2, <1>3, <1>4, <1>5, <1>6, <1>7, <1>8, <1>9, <1>10, <1>11 DEF TraderStep

\* A failure is recorded when the transaction lands, and reported from that.
LEMMA NextFailures == IInv /\ Failures /\ [Next]_vars => Failures'
<1> SUFFICES ASSUME IInv, Failures, [Next]_vars PROVE Failures'
    OBVIOUS
<1> USE DEF chainVars, walletVars, jobVars
<1> DEFINE Told(u) ==
       /\ outcome[u] = "TooLittleSolReceived" => venue = "pumpfun" /\ tx[u].side = "sell"
       /\ outcome[u] # "none" => at[u] = "landed"
       /\ /\ "error" \in DOMAIN report[u]
          /\ report[u].error \in {"ErrSlippage", "ErrTransactionFailed"}
          => at[u] = "landed" /\ report[u].error = FailureReport(outcome[u])
<1>0. TypeOK /\ DOMAIN report = Traders /\ \A u \in Traders : Told(u)
  BY DEF IInv, Failures
<1>1. ASSUME NEW u \in Traders, venue' = venue, at'[u] = at[u], outcome'[u] = outcome[u],
             tx'[u] = tx[u], report'[u] = report[u]
      PROVE  Told(u)'
  BY <1>0, <1>1
<1>2. ASSUME NEW t \in Traders, TraderStep(t) PROVE Failures'
  <2>0. Told(t) /\ venue \in {"raydium", "pumpfun"}
    BY <1>0, TradeAssumption DEF TypeOK
  <2>1. DOMAIN report' = Traders /\ venue' = venue /\ \A u \in Traders : u # t => Told(u)'
    <3> HIDE DEF Told
    <3> QED BY <1>0, <1>1, <1>2, TradesApart
  <2>2. Told(t)'
    <3>1. CASE Ask(t) \/ ReadAccounts(t) \/ QueryFails(t) \/ PreflightFails(t) \/ Expire(t)
      <4>1. outcome' = outcome /\ report' = report /\ at[t] # "landed"
        BY <3>1 DEF Ask, ReadAccounts, QueryFails, PreflightFails, Expire
      <4> QED BY <2>0, <4>1
    <3>2. CASE Send(t)
      <4>1. outcome' = outcome /\ report' = report /\ at[t] # "landed"
        BY <3>2 DEF Send
      <4> QED BY <2>0, <4>1
    <3>3. CASE Succeed(t)
      <4>1. /\ outcome'[t] = "success" /\ report' = report /\ at'[t] = "landed"
            /\ at[t] # "landed"
        BY <1>0, <3>3 DEF Succeed, TypeOK
      <4> QED BY <2>0, <4>1
    <3>4. CASE Fail(t)
      <4>1. PICK why \in Obstacles(tx[t]) : outcome' = [outcome EXCEPT ![t] = why]
        BY <3>4 DEF Fail
      <4>2. /\ outcome'[t] = why /\ report' = report /\ at'[t] = "landed" /\ tx' = tx
            /\ at[t] = "sent"
        BY <1>0, <3>4, <4>1 DEF Fail, TypeOK
      <4>3. tx[t].side \in {"buy", "sell"}
        BY <4>2, SentTyped DEF HasSent
      <4>4. why = "TooLittleSolReceived" => venue = "pumpfun" /\ tx[t].side = "sell"
        BY <2>0, <4>3, ObstacleNamed
      <4> QED BY <2>0, <2>1, <4>2, <4>4
    <3>5. CASE GetTransaction(t)
      <4>1. /\ at' = at /\ tx' = tx /\ outcome' = outcome
            /\ \/ \E e \in {"error", "ErrTxNotLand"} : report'[t] = [error |-> e]
               \/ report'[t] = Parsed(t)
               \/ at[t] = "landed" /\ report'[t] = [error |-> FailureReport(outcome[t])]
        BY <1>0, <3>5 DEF GetTransaction
      <4>2. "error" \notin DOMAIN Parsed(t)
        BY DEF Parsed
      <4>3. \A e : [error |-> e].error = e
        OBVIOUS
      <4> QED BY <2>0, <2>1, <4>1, <4>2, <4>3
    <3>6. CASE Finish(t)
      <4>1. outcome'[t] = "none" /\ report'[t] = Nothing
        BY <1>0, <3>6 DEF Finish, TypeOK
      <4>2. "error" \notin DOMAIN Nothing
        BY DEF Nothing
      <4> QED BY <4>1, <4>2
    <3> HIDE DEF Told
    <3> QED BY <1>2, <3>1, <3>2, <3>3, <3>4, <3>5, <3>6 DEF TraderStep
  <2> QED BY <2>1, <2>2 DEF Failures
<1>3. CASE OutsideSwap \/ UNCHANGED vars
  <2>1. UNCHANGED <<venue, at, outcome, tx, report>>
    BY <1>3 DEF OutsideSwap, vars
  <2>2. \A u \in Traders : Told(u)'
    <3> HIDE DEF Told
    <3> QED BY <1>1, <2>1
  <2> QED BY <1>0, <2>1, <2>2 DEF Failures
<1> QED BY <1>2, <1>3 DEF Next

\* The only slippage failure that is reported as something else is that of a
\* sell on pumpfun: on raydium, and for buys, GetTransaction says ErrSlippage.
SlippageToldButForPumpfunSells ==
  \A t \in Traders :
    /\ "error" \in DOMAIN report[t] /\ at[t] = "landed"
    /\ report[t].error \in {"ErrSlippage", "ErrTransactionFailed"}
    /\ outcome[t] \in {"TooMuchSolRequired", "TooLittleSolReceived",
                       "exceeds desired slippage limit"}
    => report[t].error = "ErrSlippage" \/ (venue = "pumpfun" /\ req[t].side = "sell")

\* In every reachable state.
LEMMA FailuresInvariance == Spec => []Failures
<1>1. Init => Failures
  BY DEF Init, Failures, Nothing
<1> QED BY <1>1, NextFailures, Invariance, PTL DEF Spec

\* The finding about slippage errors is confined to the sells on pumpfun: every
\* other failure on a limit is told as ErrSlippage by GetTransaction.
THEOREM SlippageTold == Spec => []SlippageToldButForPumpfunSells
<1>1. ASSUME IInv, Failures, NEW t \in Traders, at[t] = "landed",
             "error" \in DOMAIN report[t],
             report[t].error \in {"ErrSlippage", "ErrTransactionFailed"},
             outcome[t] \in {"TooMuchSolRequired", "TooLittleSolReceived",
                             "exceeds desired slippage limit"}
      PROVE  report[t].error = "ErrSlippage" \/ (venue = "pumpfun" /\ req[t].side = "sell")
  <2>1. report[t].error = FailureReport(outcome[t])
    BY <1>1 DEF Failures
  <2>2. CASE outcome[t] # "TooLittleSolReceived"
    BY <1>1, <2>1, <2>2 DEF FailureReport
  <2>3. CASE outcome[t] = "TooLittleSolReceived"
    <3>1. venue = "pumpfun" /\ tx[t].side = "sell"
      BY <2>3, <1>1 DEF Failures
    <3>2. tx[t].side = req[t].side
      BY <1>1, SentTyped DEF HasSent
    <3> QED BY <3>1, <3>2
  <2> QED BY <2>2, <2>3
<1>2. IInv /\ Failures => SlippageToldButForPumpfunSells
  BY <1>1 DEF SlippageToldButForPumpfunSells
<1> QED BY <1>2, FailuresInvariance, Invariance, PTL

\* Where no sell on pumpfun is asked for, the mapping of slippage errors is
\* complete.
THEOREM SlippageReportedElsewhere ==
  ASSUME "pumpfun" \notin Venues \/ \A r \in Requests : r.side = "buy"
  PROVE  Spec => []SlippageReported
<1>1. ASSUME IInv, SlippageToldButForPumpfunSells, NEW t \in Traders, at[t] = "landed",
             "error" \in DOMAIN report[t],
             report[t].error \in {"ErrSlippage", "ErrTransactionFailed"},
             outcome[t] \in {"TooMuchSolRequired", "TooLittleSolReceived",
                             "exceeds desired slippage limit"}
      PROVE  report[t].error = "ErrSlippage"
  <2>1. venue \in Venues /\ req[t] \in Requests
    BY <1>1 DEF IInv, TypeOK, Lineage, HasAsked, HasRead
  <2>2. ~(venue = "pumpfun" /\ req[t].side = "sell")
    BY <2>1
  <2> QED BY <1>1, <2>2 DEF SlippageToldButForPumpfunSells
<1>2. IInv /\ SlippageToldButForPumpfunSells => SlippageReported
  BY <1>1 DEF SlippageReported
<1> QED BY <1>2, SlippageTold, Invariance, PTL

-----------------------------------------------------------------------------
(* A wallet used by one trader at a time.                                  *)

\* What the trader has read of the wallet is still true when its transaction
\* lands, and so nothing about the token account can make it fail but that a
\* sell was asked for without one.
Undisturbed ==
  \A t \in Traders :
    /\ at[t] \in {"read", "sent"} => seen[t].open = ataOpen /\ seen[t].balance = tokens
    /\ outcome[t] \notin {"exists", "notEmpty"}
    /\ at[t] = "landed" /\ req[t].side = "buy"
         => outcome[t] \notin {"AccountNotInitialized", "InvalidAccount"}

\* A wallet whose trades do not overlap never meets the finding about the
\* creation of its account: only another trade of the same wallet makes a
\* creation fail, or the closing of an account that is not empty.
THEOREM LoneTraderUndisturbed ==
  ASSUME NEW one, Traders = {one}
  PROVE  Spec => [](CreateIsIdempotent /\ Undisturbed)
<1>1. Init => Undisturbed
  BY DEF Init, Undisturbed
<1>2. ASSUME IInv, Undisturbed, [Next]_vars PROVE Undisturbed'
  <2> USE DEF chainVars, walletVars, jobVars
  <2>1. TypeOK /\ one \in Traders
    BY <1>2 DEF IInv
  <2>2. /\ at[one] \in {"read", "sent"} => seen[one].open = ataOpen /\ seen[one].balance = tokens
        /\ outcome[one] \notin {"exists", "notEmpty"}
        /\ at[one] = "landed" /\ req[one].side = "buy"
             => outcome[one] \notin {"AccountNotInitialized", "InvalidAccount"}
    BY <1>2, <2>1 DEF Undisturbed
  <2> SUFFICES
        /\ at'[one] \in {"read", "sent"} => seen'[one].open = ataOpen' /\ seen'[one].balance = tokens'
        /\ outcome'[one] \notin {"exists", "notEmpty"}
        /\ at'[one] = "landed" /\ req'[one].side = "buy"
             => outcome'[one] \notin {"AccountNotInitialized", "InvalidAccount"}
      BY DEF Undisturbed
  <2>3. CASE Ask(one) BY <2>1, <2>2, <2>3 DEF Ask, TypeOK
  <2>4. CASE ReadAccounts(one) BY <2>1, <2>2, <2>4 DEF ReadAccounts, TypeOK
  <2>5. CASE QueryFails(one) BY <2>1, <2>2, <2>5 DEF QueryFails, TypeOK
  <2>6. CASE Send(one) BY <2>1, <2>2, <2>6 DEF Send, TypeOK
  <2>7. CASE PreflightFails(one) BY <2>1, <2>2, <2>7 DEF PreflightFails, TypeOK
  <2>8. CASE Succeed(one) BY <2>1, <2>2, <2>8 DEF Succeed, TypeOK
  <2>9. CASE Expire(one) BY <2>1, <2>2, <2>9 DEF Expire, TypeOK
  <2>10. CASE GetTransaction(one) BY <2>1, <2>2, <2>10 DEF GetTransaction, TypeOK
  <2>11. CASE Finish(one) BY <2>1, <2>2, <2>11 DEF Finish, TypeOK
  <2>12. CASE Fail(one)
    <3>1. PICK why \in Obstacles(tx[one]) : outcome' = [outcome EXCEPT ![one] = why]
      BY <2>12 DEF Fail
    <3>2. /\ outcome'[one] = why /\ at'[one] = "landed" /\ at[one] = "sent" /\ req' = req
          /\ seen[one].open = ataOpen /\ seen[one].balance = tokens
      BY <2>1, <2>2, <2>12, <3>1 DEF Fail, TypeOK
    <3>3. /\ why = "exists" => "ata" \in tx[one].opens /\ ataOpen
          /\ why \in {"AccountNotInitialized", "InvalidAccount"}
               => "ata" \notin tx[one].opens /\ ~ataOpen
          /\ why = "notEmpty" => "ata" \in tx[one].closes /\ tokens # tx[one].amount
      BY ObstacleNamed
    <3>4. /\ "ata" \in tx[one].opens <=> req[one].side = "buy" /\ ~seen[one].open
          /\ "ata" \in tx[one].closes => seen[one].balance = tx[one].amount
      BY <1>2, <2>1, <3>2, SentAccounts DEF HasSent
    <3> QED BY <3>2, <3>3, <3>4
  <2>13. CASE OutsideSwap \/ UNCHANGED vars
    BY <2>2, <2>13 DEF OutsideSwap, vars
  <2> QED BY <1>2, <2>3, <2>4, <2>5, <2>6, <2>7, <2>8, <2>9, <2>10, <2>11, <2>12, <2>13
        DEF Next, TraderStep
<1>3. Undisturbed => CreateIsIdempotent
  BY DEF Undisturbed, CreateIsIdempotent
<1> QED BY <1>1, <1>2, <1>3, Invariance, PTL DEF Spec
=============================================================================
