------------------------------ MODULE SolTrade -------------------------------
(***************************************************************************)
(* A trade on Solana, from Transact (sol/solana.go) through the SendBuy    *)
(* and SendSell of a venue (sol/raydium/swap.go, sol/pumpfun/pumpfun.go)   *)
(* to its landing on the chain and the report of GetTransaction.           *)
(*                                                                         *)
(* Traders are threads of the application that trade one token for one     *)
(* wallet at the same time.  Each decides on what it has seen: the         *)
(* reserves the request was quoted at (raydium) or those it reads itself   *)
(* (pumpfun), and whether the wallet's associated token account existed    *)
(* and what it held.  The transaction executes later, in one step, on the  *)
(* chain as it is then; or it never lands.                                 *)
(***************************************************************************)
EXTENDS Amounts, FiniteSets, Sequences

CONSTANTS
  Traders,        \* threads of the application that call Transact
  Venues,         \* where the token may be traded
  Requests,       \* the trades asked for: [side, amount, slippage, tip]
  FeeRatio,       \* the bot's fee, in 1/Bps
  Rent,           \* lamports that keep a token account alive
  NetFee,         \* what the chain charges for a transaction, landed or failed
  Outside,        \* the size of the swaps of other wallets
  InitialSol, InitialTokens, InitialPool,
  MaxTrades,      \* bound: requests of all traders
  MaxOutside      \* bound: swaps of other wallets

PoolType == [quote : Nat \ {0}, token : Nat \ {0}]

RequestType == [side : {"buy", "sell"}, amount : Uint64, slippage : 0 .. Bps, tip : Uint64]

ASSUME TradeAssumption ==
  /\ Venues \subseteq {"raydium", "pumpfun"}
  /\ Requests \subseteq RequestType
  /\ FeeRatio \in 0 .. Bps
  /\ Rent \in Nat /\ NetFee \in Nat /\ Outside \in Nat
  /\ InitialSol \in Nat /\ InitialTokens \in Nat
  /\ InitialPool \in PoolType
  /\ MaxTrades \in Nat /\ MaxOutside \in Nat

VARIABLES
  venue,      \* req.Dex: where the token is traded
  sol,        \* the wallet's lamports
  ataOpen,    \* the wallet's associated token account exists
  tokens,     \* what it holds
  pool,       \* the reserves of the pool, or of the bonding curve
  at,         \* where each trader is
  req,        \* its request
  quoted,     \* the reserves the request was quoted at
  seen,       \* what Transact read: the account, its balance, the reserves
  tx,         \* the transaction sent
  reply,      \* what Transact answered
  outcome,    \* history: what became of the transaction
  moved,      \* history: what its swap moved
  report,     \* what GetTransaction answered
  trades,     \* history: requests so far
  outsideSwaps

walletVars == <<sol, ataOpen, tokens>>
chainVars  == <<venue, walletVars, pool, outsideSwaps>>
jobVars    == <<at, req, quoted, seen, tx, reply, outcome, moved, report, trades>>
vars == <<chainVars, jobVars>>

Nothing == [none |-> TRUE]

Init ==
  /\ venue \in Venues
  /\ sol = InitialSol
  /\ ataOpen = (InitialTokens > 0)
  /\ tokens = InitialTokens
  /\ pool = InitialPool
  /\ at = [t \in Traders |-> "idle"]
  /\ req = [t \in Traders |-> Nothing]
  /\ quoted = [t \in Traders |-> Nothing]
  /\ seen = [t \in Traders |-> Nothing]
  /\ tx = [t \in Traders |-> Nothing]
  /\ reply = [t \in Traders |-> "none"]
  /\ outcome = [t \in Traders |-> "none"]
  /\ moved = [t \in Traders |-> Nothing]
  /\ report = [t \in Traders |-> Nothing]
  /\ trades = 0
  /\ outsideSwaps = 0

-----------------------------------------------------------------------------
(* Building a transaction.  A record stands for the instruction list of a  *)
(* SendBuy or SendSell: the swap and its limit, the accounts it opens      *)
(* before and closes after the swap, and the transfers it ends with.       *)

\* CreateAndInitWsolTokenAccount: a raydium swap pays from, or into, a wsol
\* account that lives for this transaction.
Temporary == IF venue = "raydium" THEN {"wsol"} ELSE {}

\* Mutant of RaydiumBuy: the fee is paid on top of the amount.
RaydiumBuyFeeOnTop(r, reserves, open) ==
  [side |-> "buy", amount |-> r.amount,
   limit |-> MinOut(CalculateOutput(r.amount, reserves.quote, reserves.token), r.slippage),
   opens |-> Temporary \union (IF open THEN {} ELSE {"ata"}), closes |-> Temporary,
   fee |-> Share(r.amount, FeeRatio), tip |-> r.tip]

\* Mutant of RaydiumBuy: the slippage is taken of the input, not the output.
RaydiumBuyLimitOfInput(r, reserves, open) ==
  LET fee == Share(r.amount, FeeRatio)
      in  == Wrap(r.amount - fee)
  IN [side |-> "buy", amount |-> in,
      limit |-> Wrap(CalculateOutput(in, reserves.quote, reserves.token) - Share(in, r.slippage)),
      opens |-> Temporary \union (IF open THEN {} ELSE {"ata"}), closes |-> Temporary,
      fee |-> fee, tip |-> r.tip]

\* raydium.SendBuy
RaydiumBuy(r, reserves, open) ==
  LET fee == Share(r.amount, FeeRatio)
      in  == Wrap(r.amount - fee)
  IN [side |-> "buy", amount |-> in,
      limit |-> MinOut(CalculateOutput(in, reserves.quote, reserves.token), r.slippage),
      opens |-> Temporary \union (IF open THEN {} ELSE {"ata"}), closes |-> Temporary,
      fee |-> fee, tip |-> r.tip]

\* Mutant of PumpfunBuy: the limit doubles the slippage.
PumpfunBuyLax(r, reserves, open) ==
  LET fee == Share(r.amount, FeeRatio)
      in  == Wrap(r.amount - fee)
  IN [side |-> "buy", amount |-> CalculateOutput(in, reserves.quote, reserves.token),
      limit |-> MaxCost(MaxCost(r.amount, r.slippage), r.slippage),
      opens |-> IF open THEN {} ELSE {"ata"}, closes |-> {},
      fee |-> fee, tip |-> r.tip]

\* pumpfun.SendBuy: the amount is in tokens, the limit in lamports.
PumpfunBuy(r, reserves, open) ==
  LET fee == Share(r.amount, FeeRatio)
      in  == Wrap(r.amount - fee)
  IN [side |-> "buy", amount |-> CalculateOutput(in, reserves.quote, reserves.token),
      limit |-> MaxCost(in, r.slippage),
      opens |-> IF open THEN {} ELSE {"ata"}, closes |-> {},
      fee |-> fee, tip |-> r.tip]

\* Mutant of RaydiumSell: the limit leaves room for the fee, which is not
\* divided.
SellFeeUndivided(r, reserves, sellAll) ==
  LET out == CalculateOutput(r.amount, reserves.token, reserves.quote)
  IN [side |-> "sell", amount |-> r.amount,
      limit |-> MinOut(MinOut(out, r.slippage), FeeRatio),
      opens |-> Temporary,
      closes |-> Temporary \union (IF sellAll THEN {"ata"} ELSE {}),
      fee |-> Wrap(out * FeeRatio), tip |-> r.tip]

\* raydium.SendSell: the fee is a share of the quote.
RaydiumSell(r, reserves, sellAll) ==
  LET out == CalculateOutput(r.amount, reserves.token, reserves.quote)
  IN [side |-> "sell", amount |-> r.amount, limit |-> MinOut(out, r.slippage),
      opens |-> Temporary,
      closes |-> Temporary \union (IF sellAll THEN {"ata"} ELSE {}),
      fee |-> Share(out, FeeRatio), tip |-> r.tip]

\* pumpfun.SendSell: the same figures, without the temporary account.
PumpfunSell(r, reserves, sellAll) ==
  [RaydiumSell(r, reserves, sellAll) EXCEPT
     !.opens = {}, !.closes = IF sellAll THEN {"ata"} ELSE {}]

\* The reserves a trade is priced at.
Reserves(t) == IF venue = "raydium" THEN quoted[t] ELSE seen[t].pool

\* tokenBalance == req.InAmount.Uint64(), for a sell
PositionClosed(t) == req[t].side = "sell" /\ seen[t].balance = req[t].amount

\* Mutant of Build: createAta where positionClosed belongs.
BuildCreateForClose(t) ==
  CASE venue = "raydium" /\ req[t].side = "buy" -> RaydiumBuy(req[t], quoted[t], seen[t].open)
    [] venue = "raydium" /\ req[t].side = "sell" -> RaydiumSell(req[t], quoted[t], ~seen[t].open)
    [] venue = "pumpfun" /\ req[t].side = "buy" -> PumpfunBuy(req[t], seen[t].pool, seen[t].open)
    [] OTHER -> PumpfunSell(req[t], seen[t].pool, ~seen[t].open)

\* The branches of Transact.
Build(t) ==
  CASE venue = "raydium" /\ req[t].side = "buy" ->
         RaydiumBuy(req[t], Reserves(t), seen[t].open)
    [] venue = "raydium" /\ req[t].side = "sell" ->
         RaydiumSell(req[t], Reserves(t), PositionClosed(t))
    [] venue = "pumpfun" /\ req[t].side = "buy" ->
         PumpfunBuy(req[t], Reserves(t), seen[t].open)
    [] OTHER -> PumpfunSell(req[t], Reserves(t), PositionClosed(t))

\* The input of the swap, and the reserve it is added to.
SwapInput(t) ==
  IF req[t].side = "sell" THEN req[t].amount
  ELSE req[t].amount - Share(req[t].amount, FeeRatio)
NearReserve(t) == IF req[t].side = "sell" THEN Reserves(t).token ELSE Reserves(t).quote
FarReserve(t)  == IF req[t].side = "sell" THEN Reserves(t).quote ELSE Reserves(t).token

\* CalculateOutput panics when its sum wraps to zero.
QuoteDefined(t) == Wrap(SwapInput(t) + NearReserve(t)) # 0

-----------------------------------------------------------------------------
(* The chain.  It is external to the repository: constant product pools    *)
(* without their own fee, the token program and the account program.       *)

\* What the swap of x moves: lamports and tokens, as the wallet sees them.
SwapMoves(x, p) ==
  IF x.side = "sell"
  THEN [lamports |-> CalculateOutputBigInt(x.amount, p.token, p.quote), tokens |-> -x.amount]
  ELSE IF venue = "raydium"
  THEN [lamports |-> -x.amount, tokens |-> CalculateOutputBigInt(x.amount, p.quote, p.token)]
  ELSE [lamports |-> -CurveCost(p.quote, p.token, x.amount), tokens |-> x.amount]

WithinLimit(x, p) ==
  IF x.side = "buy" /\ venue = "pumpfun"
  THEN x.amount < p.token /\ -SwapMoves(x, p).lamports <= x.limit
  ELSE IF x.side = "buy" THEN SwapMoves(x, p).tokens >= x.limit
  ELSE SwapMoves(x, p).lamports >= x.limit

\* How the venue names a limit that was not met.
LimitError(x) ==
  IF venue = "raydium" THEN "exceeds desired slippage limit"
  ELSE IF x.side = "buy" THEN "TooMuchSolRequired" ELSE "TooLittleSolReceived"

\* How the venue names a token account that is missing; only pumpfun's
\* framework calls it by the name Transact looks for.
MissingError == IF venue = "pumpfun" THEN "AccountNotInitialized" ELSE "InvalidAccount"

RentOf(accounts) ==
  (IF "wsol" \in accounts THEN Rent ELSE 0) + (IF "ata" \in accounts THEN Rent ELSE 0)

\* The lamports a transaction leaves the wallet, and those it needs on the way.
Left(x, p) ==
  sol - NetFee + SwapMoves(x, p).lamports - RentOf(x.opens) + RentOf(x.closes) - x.fee - x.tip
Needed(x, p) ==
  NetFee + RentOf(x.opens) + (IF x.side = "buy" THEN -SwapMoves(x, p).lamports ELSE 0)

\* What stands in the way of x: it succeeds when there is nothing.  Create
\* is the only way the account program understands an instruction without
\* data, and the way associatedtokenaccount.NewCreateInstruction asks for:
\* it fails when the account exists.
Obstacles(x) ==
  { why \in {"exists", MissingError, "balance", LimitError(x), "notEmpty", "funds"} :
      \/ why = "exists" /\ "ata" \in x.opens /\ ataOpen
      \/ why = MissingError /\ "ata" \notin x.opens /\ ~ataOpen
      \/ why = "balance" /\ x.side = "sell" /\ tokens < x.amount
      \/ why = LimitError(x) /\ ~WithinLimit(x, pool)
      \/ why = "notEmpty" /\ "ata" \in x.closes /\ tokens # x.amount
      \/ why = "funds"
           /\ (x.side = "buy" /\ venue = "pumpfun" => x.amount < pool.token)
           /\ (Needed(x, pool) > sol \/ Left(x, pool) < 0) }

-----------------------------------------------------------------------------
(* Transact.                                                               *)

\* A request, quoted at the pool as it is now.
Ask(t) ==
  /\ at[t] = "idle" /\ trades < MaxTrades
  /\ at' = [at EXCEPT ![t] = "asked"]
  /\ \E r \in Requests : req' = [req EXCEPT ![t] = r]
  /\ quoted' = [quoted EXCEPT ![t] = pool]
  /\ trades' = trades + 1
  /\ UNCHANGED <<chainVars, seen, tx, reply, outcome, moved, report>>

\* GetMultipleAccounts: the token account and the market or bonding curve.
ReadAccounts(t) ==
  /\ at[t] = "asked"
  /\ at' = [at EXCEPT ![t] = "read"]
  /\ seen' = [seen EXCEPT ![t] = [open |-> ataOpen, balance |-> tokens, pool |-> pool]]
  /\ UNCHANGED <<chainVars, req, quoted, tx, reply, outcome, moved, report, trades>>

\* The accounts, or the block hash, cannot be read: nothing is sent.
QueryFails(t) ==
  /\ at[t] \in {"asked", "read"}
  /\ at' = [at EXCEPT ![t] = "over"]
  /\ reply' = [reply EXCEPT ![t] = "error"]
  /\ UNCHANGED <<chainVars, req, quoted, seen, tx, outcome, moved, report, trades>>

\* Mutant of MapError: the account error keeps its text.
MapSlippageOnly(why) ==
  IF why \in {"TooMuchSolRequired", "exceeds desired slippage limit"} THEN "ErrSlippage"
  ELSE IF why = "AccountNotInitialized" THEN why ELSE "error"

\* How Transact maps the text of an error.
MapError(why) ==
  IF why = "AccountNotInitialized" THEN "ErrAccountNotInitialized"
  ELSE IF why \in {"TooMuchSolRequired", "exceeds desired slippage limit"} THEN "ErrSlippage"
  ELSE "error"

\* The transaction is on its way.  The answer may be lost: then Transact
\* reports an error of a transaction that may still land.
Send(t) ==
  /\ at[t] = "read" /\ QuoteDefined(t)
  /\ at' = [at EXCEPT ![t] = "sent"]
  /\ tx' = [tx EXCEPT ![t] = Build(t)]
  /\ \E answer \in {"ok", "error"} : reply' = [reply EXCEPT ![t] = answer]
  /\ UNCHANGED <<chainVars, req, quoted, seen, outcome, moved, report, trades>>

\* Only with a tip is the preflight not skipped: the server tries the
\* transaction and refuses to send what would fail now.
PreflightFails(t) ==
  /\ at[t] = "read" /\ QuoteDefined(t)
  /\ req[t].tip # 0
  /\ \E why \in Obstacles(Build(t)) : reply' = [reply EXCEPT ![t] = MapError(why)]
  /\ at' = [at EXCEPT ![t] = "over"]
  /\ UNCHANGED <<chainVars, req, quoted, seen, tx, outcome, moved, report, trades>>

-----------------------------------------------------------------------------
(* Landing, and GetTransaction.                                            *)

Succeed(t) ==
  /\ at[t] = "sent"
  /\ Obstacles(tx[t]) = {}
  /\ LET x == tx[t]
         m == SwapMoves(x, pool)
     IN /\ sol' = Left(x, pool)
        /\ tokens' = tokens + m.tokens
        /\ ataOpen' = ("ata" \notin x.closes)
        /\ pool' = [quote |-> pool.quote - m.lamports, token |-> pool.token - m.tokens]
        /\ moved' = [moved EXCEPT ![t] = m]
  /\ at' = [at EXCEPT ![t] = "landed"]
  /\ outcome' = [outcome EXCEPT ![t] = "success"]
  /\ UNCHANGED <<venue, outsideSwaps, req, quoted, seen, tx, reply, report, trades>>

\* A transaction that fails changes nothing and costs the network's fee.
Fail(t) ==
  /\ at[t] = "sent"
  /\ sol >= NetFee
  /\ sol' = sol - NetFee
  /\ \E why \in Obstacles(tx[t]) : outcome' = [outcome EXCEPT ![t] = why]
  /\ at' = [at EXCEPT ![t] = "landed"]
  /\ UNCHANGED <<venue, ataOpen, tokens, pool, outsideSwaps, req, quoted, seen, tx, reply, moved,
                 report, trades>>

\* The block hash is too old, or the transaction was dropped.
Expire(t) ==
  /\ at[t] = "sent"
  /\ at' = [at EXCEPT ![t] = "expired"]
  /\ UNCHANGED <<chainVars, req, quoted, seen, tx, reply, outcome, moved, report, trades>>

\* Another wallet trades with the pool, in either direction.
OutsideSwap ==
  /\ outsideSwaps < MaxOutside
  /\ outsideSwaps' = outsideSwaps + 1
  /\ \/ pool' = [quote |-> pool.quote + Outside,
                 token |-> pool.token - CalculateOutputBigInt(Outside, pool.quote, pool.token)]
     \/ pool' = [quote |-> pool.quote - CalculateOutputBigInt(Outside, pool.token, pool.quote),
                 token |-> pool.token + Outside]
  /\ UNCHANGED <<venue, walletVars, jobVars>>

\* What GetTransaction will find of the swap.  Raydium moves the input to
\* the pool and then the output to the wallet; pumpfun ends its inner
\* instructions with an event, after three transfers for a buy and one for
\* a sell.
Transfer(from, to, n) == [from |-> from, to |-> to, amount |-> n]

Inner(x, m) ==
  IF venue = "raydium" THEN
    IF x.side = "sell"
    THEN <<Transfer("ata", "vault", x.amount), Transfer("vault", "wsol", m.lamports)>>
    ELSE <<Transfer("wsol", "vault", x.amount), Transfer("vault", "ata", m.tokens)>>
  ELSE
    IF x.side = "sell"
    THEN <<Transfer("ata", "vault", x.amount),
           [sol |-> m.lamports, token |-> x.amount]>>
    ELSE <<Transfer("vault", "ata", x.amount), Transfer("wallet", "vault", -m.lamports),
           Transfer("wallet", "venue", 0),
           [sol |-> -m.lamports, token |-> x.amount]>>

\* Mutant of ParseSwap: the amounts of a sell are exchanged.
ParseSwapExchanged(moves) ==
  IF moves[1].from = "ata" THEN [sol |-> moves[1].amount, token |-> -moves[2].amount]
  ELSE IF moves[2].to = "ata" THEN [sol |-> -moves[1].amount, token |-> moves[2].amount]
  ELSE [sol |-> 0, token |-> 0]

\* raydium.ParseSwapInstruction: which of the two transfers touches the ata
\* tells a sell from a buy.
ParseSwap(moves) ==
  IF moves[1].from = "ata" THEN [sol |-> moves[2].amount, token |-> -moves[1].amount]
  ELSE IF moves[2].to = "ata" THEN [sol |-> -moves[1].amount, token |-> moves[2].amount]
  ELSE [sol |-> 0, token |-> 0]

\* pumpfun.ParseBuyInstruction and ParseSellInstruction
ParseBuy(moves)  == [sol |-> -moves[4].sol, token |-> moves[4].token]
ParseSell(moves) == [sol |-> moves[2].sol, token |-> -moves[2].token]

\* The instructions of x that GetTransaction looks at, in their order.
SystemTransfers(x) ==
  (IF x.fee # 0 THEN <<Transfer("wallet", "feeRecipient", x.fee)>> ELSE << >>)
    \o (IF x.tip # 0 THEN <<Transfer("wallet", "jito", x.tip)>> ELSE << >>)

\* Mutant of BotFee: the last transfer, whoever it pays.
BotFeeLast(x) ==
  IF SystemTransfers(x) = << >> THEN 0 ELSE SystemTransfers(x)[Len(SystemTransfers(x))].amount

\* The last of them that pays the fee recipient.
BotFee(x) ==
  LET paid == {i \in DOMAIN SystemTransfers(x) : SystemTransfers(x)[i].to = "feeRecipient"}
  IN IF paid = {} THEN 0
     ELSE SystemTransfers(x)[CHOOSE i \in paid : \A j \in paid : j <= i].amount

Parsed(t) ==
  LET inner == Inner(tx[t], moved[t])
      swap == IF venue = "raydium" THEN ParseSwap(inner)
              ELSE IF tx[t].side = "buy" THEN ParseBuy(inner) ELSE ParseSell(inner)
  IN [sol |-> swap.sol, token |-> swap.token, fee |-> BotFee(tx[t])]

\* The error GetTransaction gives for a transaction that failed.
FailureReport(why) ==
  IF why \in {"TooMuchSolRequired", "exceeds desired slippage limit"} THEN "ErrSlippage"
  ELSE "ErrTransactionFailed"

\* The query itself may fail.
GetTransaction(t) ==
  /\ at[t] \in {"sent", "landed", "expired"}
  /\ \E answered \in BOOLEAN : report' = [report EXCEPT ![t] =
       IF ~answered THEN [error |-> "error"]
       ELSE IF at[t] # "landed" THEN [error |-> "ErrTxNotLand"]
       ELSE IF outcome[t] = "success" THEN Parsed(t)
       ELSE [error |-> FailureReport(outcome[t])]]
  /\ UNCHANGED <<chainVars, at, req, quoted, seen, tx, reply, outcome, moved, trades>>

\* The trader is ready for another request; what the call kept is gone.
Finish(t) ==
  /\ at[t] \in {"landed", "expired", "over"}
  /\ at' = [at EXCEPT ![t] = "idle"]
  /\ req' = [req EXCEPT ![t] = Nothing]
  /\ quoted' = [quoted EXCEPT ![t] = Nothing]
  /\ seen' = [seen EXCEPT ![t] = Nothing]
  /\ tx' = [tx EXCEPT ![t] = Nothing]
  /\ reply' = [reply EXCEPT ![t] = "none"]
  /\ outcome' = [outcome EXCEPT ![t] = "none"]
  /\ moved' = [moved EXCEPT ![t] = Nothing]
  /\ report' = [report EXCEPT ![t] = Nothing]
  /\ UNCHANGED <<chainVars, trades>>

TraderStep(t) ==
  \/ Ask(t) \/ ReadAccounts(t) \/ QueryFails(t) \/ Send(t) \/ PreflightFails(t)
  \/ Succeed(t) \/ Fail(t) \/ Expire(t) \/ GetTransaction(t) \/ Finish(t)

Next == OutsideSwap \/ \E t \in Traders : TraderStep(t)

Spec == Init /\ [][Next]_vars

-----------------------------------------------------------------------------
(* Properties.                                                             *)

TxType == [side : {"buy", "sell"}, amount : Uint64, limit : Uint64,
           opens : SUBSET {"wsol", "ata"}, closes : SUBSET {"wsol", "ata"},
           fee : Uint64, tip : Uint64]

Outcomes ==
  {"none", "success", "exists", "balance", "notEmpty", "funds", "AccountNotInitialized",
   "InvalidAccount", "exceeds desired slippage limit", "TooMuchSolRequired",
   "TooLittleSolReceived"}

TypeOK ==
  /\ venue \in Venues
  /\ sol \in Nat /\ tokens \in Nat /\ ataOpen \in BOOLEAN /\ pool \in PoolType
  /\ at \in [Traders -> {"idle", "asked", "read", "sent", "landed", "expired", "over"}]
  /\ req \in [Traders -> Requests \union {Nothing}]
  /\ quoted \in [Traders -> PoolType \union {Nothing}]
  /\ seen \in [Traders -> [open : BOOLEAN, balance : Nat, pool : PoolType] \union {Nothing}]
  /\ tx \in [Traders -> TxType \union {Nothing}]
  /\ reply \in [Traders -> {"none", "ok", "error", "ErrSlippage", "ErrAccountNotInitialized"}]
  /\ outcome \in [Traders -> Outcomes]
  /\ trades \in 0 .. MaxTrades
  /\ outsideSwaps \in 0 .. MaxOutside

\* The step in which t's transaction succeeds.
Lands(t) == at[t] = "sent" /\ outcome'[t] = "success"

\* PositionClosed in Transact's answer is decided on a balance read before
\* the transaction lands; whatever other trades land in between, a trade
\* that lands has closed the account if and only if it was reported so, and
\* no token goes with the account.
PositionReportTrue ==
  [][\A t \in Traders : Lands(t) =>
       /\ PositionClosed(t) <=> ~ataOpen'
       /\ ~ataOpen' => tokens' = 0]_vars

\* A buy takes no more from the wallet than its amount, the slippage allowed
\* on it (pumpfun), the tip, the rent of the token account and the network's
\* fee, however the pool has moved; the temporary wsol account leaves nothing
\* behind.
Budget(r) ==
  r.amount + r.tip + Rent + NetFee
    + (IF venue = "pumpfun" THEN (r.amount * r.slippage) \div Bps ELSE 0)

SpendBound ==
  [][\A t \in Traders :
       Lands(t) /\ req[t].side = "buy" => sol - sol' <= Budget(req[t])]_vars

\* What a trade that lands brings is within the accepted slippage of what its
\* reserves promised, in exact arithmetic.
Quote(t) == CalculateOutput(SwapInput(t), NearReserve(t), FarReserve(t))

Accepted(t) == Quote(t) - (Quote(t) * req[t].slippage) \div Bps

PriceProtected ==
  [][\A t \in Traders : Lands(t) =>
       IF req[t].side = "sell" THEN pool.quote - pool'.quote >= Accepted(t)
       ELSE tokens' - tokens >= Accepted(t)]_vars

\* The fee of a sell is a share of the quote and not of the proceeds; still,
\* a sell that lands never costs the wallet more than tip and network fee, as
\* long as slippage and fee together are at most the whole.
SellNeverCosts ==
  [][\A t \in Traders :
       Lands(t) /\ req[t].side = "sell" /\ req[t].slippage + FeeRatio <= Bps
         => sol' >= sol - NetFee - req[t].tip]_vars

\* GetTransaction reports exactly what the transaction did to the wallet:
\* sign and size of both amounts, and the bot's fee.
ReportTrue ==
  \A t \in Traders :
    at[t] = "landed" /\ outcome[t] = "success" /\ "sol" \in DOMAIN report[t] =>
      report[t] = [sol |-> moved[t].lamports, token |-> moved[t].tokens, fee |-> tx[t].fee]

\* A transaction that creates the token account does not fail because it is
\* there already ("CreateIdempotentInstruction").
CreateIsIdempotent == \A t \in Traders : outcome[t] # "exists"

\* A trade found to have failed on its slippage limit is reported as
\* ErrSlippage.
SlippageReported ==
  \A t \in Traders :
    "error" \in DOMAIN report[t] /\ at[t] = "landed"
      /\ report[t].error \in {"ErrSlippage", "ErrTransactionFailed"}
      /\ outcome[t] \in {"TooMuchSolRequired", "TooLittleSolReceived",
                         "exceeds desired slippage limit"}
      => report[t].error = "ErrSlippage"

-----------------------------------------------------------------------------
(* A trade as the one who asked for it sees it: an order.                  *)

TermsOf(r) == [side |-> r.side, amount |-> r.amount]

OrderTerms == [t \in Traders |-> IF at[t] = "idle" THEN Nothing ELSE TermsOf(req[t])]

OrderStage ==
  [t \in Traders |->
     CASE at[t] = "idle" -> "idle"
       [] at[t] \in {"asked", "read"} -> "open"
       [] at[t] = "over" -> "refused"
       [] at[t] = "sent" -> "sent"
       [] at[t] = "landed" /\ outcome[t] = "success" -> "filled"
       [] OTHER -> "void"]

OrderAnswer == [t \in Traders |-> IF reply[t] \in {"none", "ok"} THEN reply[t] ELSE "error"]

OrderTold ==
  [t \in Traders |->
     IF "error" \notin DOMAIN report[t]
     THEN IF "sol" \in DOMAIN report[t] THEN "filled" ELSE "none"
     ELSE CASE report[t].error = "error" -> "unknown"
            [] report[t].error = "ErrTxNotLand" -> "notLanded"
            [] OTHER -> "failed"]

Abstract == INSTANCE Order
              WITH Clients <- Traders,
                   Terms <- {TermsOf(r) : r \in Requests},
                   holdings <- tokens,
                   terms <- OrderTerms,
                   stage <- OrderStage,
                   answer <- OrderAnswer,
                   told <- OrderTold

\* A trade is an order that takes effect once and as a whole, or never, with
\* every interleaving of the wallet's trades; the wallet's tokens change in no
\* other way, and what GetTransaction tells of it is what became of it.
ImplementsOrder == Abstract!Safety
=============================================================================
