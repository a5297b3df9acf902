------------------------------- MODULE EvmTrade ------------------------------
(***************************************************************************)
(* Transact, Withdraw and SendNative of evm/evm.go for one wallet, called  *)
(* by several goroutines at once.  A call reads state from a node, builds  *)
(* its transactions on it, numbers each with the node's pending nonce and  *)
(* sends it; a sell whose allowance is too small first sends an approval   *)
(* and polls for it.  The chain mines the wallet's transactions in the     *)
(* order of their nonces, some time later or never.                        *)
(*                                                                         *)
(* Each caller makes one call.  The node keeps what it has accepted until  *)
(* it is mined, or replaced under the same nonce at a higher price.        *)
(***************************************************************************)
EXTENDS Amounts, Sequences, FiniteSets

CONSTANTS
  Callers,        \* goroutines that make a call each
  Requests,       \* what they ask for: [op, amount, slippage, price]
  BasePrice,      \* v.GetGasPrice(): the gas price of approvals and transfers
  Unlimited,      \* unlimitedApproveAmount
  MaxPolls,       \* 30 seconds in steps of 500 milliseconds
  Outside,        \* the size of the swaps of other wallets
  InitialTokens, InitialAllowance, InitialPool,
  MaxOutside      \* bound: swaps of other wallets

PoolType == [quote : Nat \ {0}, token : Nat \ {0}]
RequestType ==
  [op : {"buy", "sell", "send"}, amount : Nat, slippage : 0 .. Bps, price : Nat]

ASSUME EvmTradeAssumption ==
  /\ Requests \subseteq RequestType
  /\ BasePrice \in Nat /\ Unlimited \in Nat /\ MaxPolls \in Nat \ {0}
  /\ Outside \in Nat /\ MaxOutside \in Nat
  /\ InitialTokens \in Nat /\ InitialAllowance \in Nat /\ InitialPool \in PoolType

Kinds == {"approve", "swap", "send"}
Fates == {"none", "pending", "replaced", "success", "reverted"}

VARIABLES
  tokens, allowance,    \* of the wallet; the allowance is the router's
  pool,                 \* the pair's reserves
  outsideSwaps,
  mined,                \* the wallet's nonces mined so far
  next,                 \* its pending nonce
  mempool,              \* its transactions accepted and not mined
  pc, kind,             \* where each call is, and what it is sending
  req,                  \* its request
  quoted,               \* reserves and allowance it was quoted (GetPool)
  balance,              \* initialTokenBalance
  nonce,                \* the nonce read for its transaction
  polls,                \* last, in steps
  reply,                \* what the call answered
  fate,                 \* history: what became of its transactions
  moved,                \* history: what its swap moved
  alone                 \* history: no other swap landed since its balance was read

chainVars == <<tokens, allowance, pool, outsideSwaps>>
nodeVars  == <<mined, next, mempool>>
callVars  == <<pc, kind, req, quoted, balance, nonce, polls, reply>>
pastVars  == <<fate, moved, alone>>
vars == <<chainVars, nodeVars, callVars, pastVars>>

Nothing == [none |-> TRUE]

Init ==
  /\ tokens = InitialTokens /\ allowance = InitialAllowance /\ pool = InitialPool
  /\ outsideSwaps = 0
  /\ mined = 0 /\ next = 0 /\ mempool = {}
  /\ pc = [c \in Callers |-> "idle"]
  /\ kind = [c \in Callers |-> "none"]
  /\ req = [c \in Callers |-> Nothing]
  /\ quoted = [c \in Callers |-> Nothing]
  /\ balance = [c \in Callers |-> 0]
  /\ nonce = [c \in Callers |-> 0]
  /\ polls = [c \in Callers |-> 0]
  /\ reply = [c \in Callers |-> "none"]
  /\ fate = [c \in Callers |-> [k \in Kinds |-> "none"]]
  /\ moved = [c \in Callers |-> Nothing]
  /\ alone = [c \in Callers |-> TRUE]

-----------------------------------------------------------------------------
(* What Transact makes of a request.                                       *)

\* The input of the swap: of a buy, what 1 percent for the router leaves.
SwapInput(c) ==
  IF req[c].op = "buy" THEN (req[c].amount * 99) \div 100 ELSE req[c].amount

Quote(c) ==
  IF req[c].op = "buy"
  THEN CalculateOutputBigInt(SwapInput(c), quoted[c].pool.quote, quoted[c].pool.token)
  ELSE CalculateOutputBigInt(SwapInput(c), quoted[c].pool.token, quoted[c].pool.quote)

\* Mutant of MinAmountOut: the slippage is taken of the input.
SlipOfInput(c) == Quote(c) - (SwapInput(c) * req[c].slippage) \div Bps

MinAmountOut(c) == Quote(c) - (Quote(c) * req[c].slippage) \div Bps

\* req.InAmount.Cmp(req.Allowance) > 0: the allowance of the quote.
NeedsApproval(c) == req[c].op = "sell" /\ req[c].amount > quoted[c].allowance

\* Mutant of PositionClosed: also when something is left.
PositionClosedOfPart(c) == req[c].op = "sell" /\ req[c].amount <= balance[c]

PositionClosed(c) == req[c].op = "sell" /\ req[c].amount = balance[c]

\* req.Gas plus req.Tip for a swap, the watcher's price for anything else.
Price(c) == IF kind[c] = "swap" THEN req[c].price ELSE BasePrice

-----------------------------------------------------------------------------
(* The router and the pair, which are external: the router keeps 1 percent *)
(* of the ether, the pair is a constant product without a fee of its own.  *)

RouterFee(x) == x \div 100

\* What the pair takes in or pays out in wrapped ether, and in tokens.
Moves(c) ==
  IF req[c].op = "buy"
  THEN LET in == req[c].amount - RouterFee(req[c].amount)
       IN [weth |-> in, tokens |-> CalculateOutputBigInt(in, pool.quote, pool.token)]
  ELSE [weth |-> CalculateOutputBigInt(req[c].amount, pool.token, pool.quote),
        tokens |-> req[c].amount]

\* The swap of c would go through now.
Executes(c) ==
  IF req[c].op = "buy" THEN Moves(c).tokens >= MinAmountOut(c)
  ELSE /\ tokens >= req[c].amount /\ allowance >= req[c].amount
       /\ Moves(c).weth >= MinAmountOut(c)

-----------------------------------------------------------------------------
(* A call.                                                                 *)

Goto(c, where) == pc' = [pc EXCEPT ![c] = where]
Answer(c, what) == reply' = [reply EXCEPT ![c] = what] /\ Goto(c, "over")

\* A request, quoted by a GetPool at the pool and allowance as they are now.
Ask(c) ==
  /\ pc[c] = "idle"
  /\ \E r \in Requests :
       /\ req' = [req EXCEPT ![c] = r]
       /\ IF r.op = "send"
          THEN Goto(c, "number") /\ kind' = [kind EXCEPT ![c] = "send"]
          ELSE Goto(c, "asked") /\ UNCHANGED kind
  /\ quoted' = [quoted EXCEPT ![c] = [pool |-> pool, allowance |-> allowance]]
  /\ UNCHANGED <<chainVars, nodeVars, balance, nonce, polls, reply, pastVars>>

ReadBalance(c) ==
  /\ pc[c] = "asked"
  /\ balance' = [balance EXCEPT ![c] = tokens]
  /\ alone' = [alone EXCEPT ![c] = TRUE]
  /\ kind' = [kind EXCEPT ![c] = IF NeedsApproval(c) THEN "approve" ELSE "swap"]
  /\ Goto(c, "estimate")
  /\ UNCHANGED <<chainVars, nodeVars, req, quoted, nonce, polls, reply, fate, moved>>

\* The binding has the node try the transaction to learn its gas, and sends
\* nothing that would fail now.
Estimate(c) ==
  /\ pc[c] = "estimate"
  /\ IF kind[c] = "swap" /\ ~Executes(c)
     THEN Answer(c, "error")
     ELSE Goto(c, "number") /\ UNCHANGED reply
  /\ UNCHANGED <<chainVars, nodeVars, kind, req, quoted, balance, nonce, polls, pastVars>>

\* Mutant of ReadNonce: counts the call's own approval once more.
ReadNonceCounted(c) ==
  /\ pc[c] = "number"
  /\ nonce' = [nonce EXCEPT ![c] = IF fate[c].approve = "none" THEN next ELSE next + 1]
  /\ Goto(c, "submit")
  /\ UNCHANGED <<chainVars, nodeVars, kind, req, quoted, balance, polls, reply, pastVars>>

\* PendingNonceAt
ReadNonce(c) ==
  /\ pc[c] = "number"
  /\ nonce' = [nonce EXCEPT ![c] = next]
  /\ Goto(c, "submit")
  /\ UNCHANGED <<chainVars, nodeVars, kind, req, quoted, balance, polls, reply, pastVars>>

\* The node refuses the transaction, or cannot be reached.
Refused(c) ==
  /\ pc[c] = "submit"
  /\ Answer(c, "error")
  /\ UNCHANGED <<chainVars, nodeVars, kind, req, quoted, balance, nonce, polls, pastVars>>

\* Mutant of Accepted: a call that loses the answer sends once more.
AcceptedRetried(c) ==
  LET x == [owner |-> c, kind |-> kind[c], price |-> Price(c), nonce |-> nonce[c]]
      rivals == {y \in mempool : y.nonce = x.nonce}
  IN /\ pc[c] = "submit"
     /\ x.nonce >= mined /\ \A y \in rivals : x.price > y.price
     /\ mempool' = (mempool \ rivals) \union {x}
     /\ next' = IF x.nonce = next THEN next + 1 ELSE next
     /\ fate' = [d \in Callers |-> [k \in Kinds |->
          IF d = c /\ k = kind[c] THEN "pending"
          ELSE IF \E y \in rivals : y.owner = d /\ y.kind = k THEN "replaced"
          ELSE fate[d][k]]]
     /\ \/ Goto(c, "number") /\ UNCHANGED reply
        \/ kind[c] = "approve" /\ Goto(c, "watch") /\ UNCHANGED reply
        \/ kind[c] # "approve" /\ Answer(c, "sent")
     /\ UNCHANGED <<chainVars, mined, kind, req, quoted, balance, nonce, polls, moved, alone>>

\* The node takes it, in the place of one of the same nonce if it pays more.
\* The answer may be lost.
Accepted(c) ==
  LET x == [owner |-> c, kind |-> kind[c], price |-> Price(c), nonce |-> nonce[c]]
      rivals == {y \in mempool : y.nonce = x.nonce}
  IN /\ pc[c] = "submit"
     /\ x.nonce >= mined /\ \A y \in rivals : x.price > y.price
     /\ mempool' = (mempool \ rivals) \union {x}
     /\ next' = IF x.nonce = next THEN next + 1 ELSE next
     /\ fate' = [d \in Callers |-> [k \in Kinds |->
          IF d = c /\ k = kind[c] THEN "pending"
          ELSE IF \E y \in rivals : y.owner = d /\ y.kind = k THEN "replaced"
          ELSE fate[d][k]]]
     /\ \/ Answer(c, "error")
        \/ kind[c] = "approve" /\ Goto(c, "watch") /\ UNCHANGED reply
        \/ kind[c] # "approve" /\ Answer(c, "sent")
     /\ UNCHANGED <<chainVars, mined, kind, req, quoted, balance, nonce, polls, moved, alone>>

\* Mutant of Poll: last is not counted up.
PollForEver(c) ==
  /\ pc[c] = "watch"
  /\ IF fate[c].approve \in {"success", "reverted"}
     THEN /\ kind' = [kind EXCEPT ![c] = "swap"] /\ Goto(c, "estimate")
          /\ UNCHANGED <<polls, reply>>
     ELSE UNCHANGED <<pc, kind, polls, reply>>
  /\ UNCHANGED <<chainVars, nodeVars, req, quoted, balance, nonce, pastVars>>

\* Mutant of Poll: a transaction found is enough, pending or not.
PollFound(c) ==
  /\ pc[c] = "watch"
  /\ IF fate[c].approve \in {"pending", "success", "reverted"}
     THEN /\ kind' = [kind EXCEPT ![c] = "swap"] /\ Goto(c, "estimate")
          /\ UNCHANGED <<polls, reply>>
     ELSE /\ polls' = [polls EXCEPT ![c] = @ + 1]
          /\ IF polls'[c] >= MaxPolls THEN Answer(c, "ErrTransactionInvalid")
             ELSE UNCHANGED <<pc, reply>>
          /\ UNCHANGED kind
  /\ UNCHANGED <<chainVars, nodeVars, req, quoted, balance, nonce, pastVars>>

\* A turn of WatchTransaction: the approval has been mined, well or not, or
\* it has not, or is not found, and a step of the waiting time passes.
Poll(c) ==
  /\ pc[c] = "watch"
  /\ IF fate[c].approve \in {"success", "reverted"}
     THEN /\ kind' = [kind EXCEPT ![c] = "swap"] /\ Goto(c, "estimate")
          /\ UNCHANGED <<polls, reply>>
     ELSE /\ polls' = [polls EXCEPT ![c] = @ + 1]
          /\ IF polls'[c] >= MaxPolls THEN Answer(c, "ErrTransactionInvalid")
             ELSE UNCHANGED <<pc, reply>>
          /\ UNCHANGED kind
  /\ UNCHANGED <<chainVars, nodeVars, req, quoted, balance, nonce, pastVars>>

\* A query fails and the call returns its error.
QueryFails(c) ==
  /\ pc[c] \in {"asked", "estimate", "number", "watch"}
  /\ Answer(c, "error")
  /\ UNCHANGED <<chainVars, nodeVars, kind, req, quoted, balance, nonce, polls, pastVars>>

-----------------------------------------------------------------------------
(* The chain.                                                              *)

\* Whose turn it is, and that x is mined.
Mined(x, result) ==
  /\ x \in mempool /\ x.nonce = mined
  /\ mempool' = mempool \ {x}
  /\ mined' = mined + 1
  /\ fate' = [fate EXCEPT ![x.owner][x.kind] = result]
  /\ UNCHANGED <<next, callVars>>

MineSend(x) ==
  /\ x.kind = "send" /\ Mined(x, "success")
  /\ UNCHANGED <<chainVars, moved, alone>>

\* An approval may revert: a token is free to refuse it.
MineApprove(x) ==
  /\ x.kind = "approve"
  /\ \/ Mined(x, "success") /\ allowance' = Unlimited
     \/ Mined(x, "reverted") /\ UNCHANGED allowance
  /\ UNCHANGED <<tokens, pool, outsideSwaps, moved, alone>>

MineSwap(x) ==
  /\ x.kind = "swap" /\ Executes(x.owner) /\ Mined(x, "success")
  /\ LET m == Moves(x.owner)
     IN /\ moved' = [moved EXCEPT ![x.owner] = m]
        /\ IF req[x.owner].op = "buy"
           THEN /\ pool' = [quote |-> pool.quote + m.weth, token |-> pool.token - m.tokens]
                /\ tokens' = tokens + m.tokens /\ UNCHANGED allowance
           ELSE /\ pool' = [quote |-> pool.quote - m.weth, token |-> pool.token + m.tokens]
                /\ tokens' = tokens - m.tokens
                /\ allowance' = IF allowance = Unlimited THEN allowance
                                ELSE allowance - m.tokens
  /\ alone' = [d \in Callers |-> d = x.owner /\ alone[d]]
  /\ UNCHANGED outsideSwaps

\* It does not go through, or its deadline has passed: an hour after it was
\* sent, by a clock the model does not keep.
MineReverted(x) ==
  /\ x.kind = "swap" /\ Mined(x, "reverted")
  /\ UNCHANGED <<chainVars, moved, alone>>

\* Another wallet trades with the pair, in either direction.
OutsideSwap ==
  /\ outsideSwaps < MaxOutside
  /\ outsideSwaps' = outsideSwaps + 1
  /\ \/ pool' = [quote |-> pool.quote + Outside,
                 token |-> pool.token - CalculateOutputBigInt(Outside, pool.quote, pool.token)]
     \/ pool' = [quote |-> pool.quote - CalculateOutputBigInt(Outside, pool.token, pool.quote),
                 token |-> pool.token + Outside]
  /\ UNCHANGED <<tokens, allowance, nodeVars, callVars, pastVars>>

\* The next step of a call whose queries are answered.
CallStep(c) ==
  ReadBalance(c) \/ Estimate(c) \/ ReadNonce(c) \/ Refused(c) \/ Accepted(c) \/ Poll(c)

Next ==
  \/ \E c \in Callers : Ask(c) \/ CallStep(c) \/ QueryFails(c)
  \/ \E x \in mempool : MineSend(x) \/ MineApprove(x) \/ MineSwap(x) \/ MineReverted(x)
  \/ OutsideSwap

Safety == Init /\ [][Next]_vars

\* The node answers every request; it need not accept or mine anything.
Spec == Safety /\ \A c \in Callers : WF_vars(CallStep(c))

-----------------------------------------------------------------------------
(* GetTransaction.                                                         *)

\* The Transfer events of a swap in the order of the receipt.
Log(contract, from, to, n) == [contract |-> contract, from |-> from, to |-> to, value |-> n]

Logs(c) ==
  IF req[c].op = "buy"
  THEN <<Log("weth", "router", "pair", moved[c].weth),
         Log("token", "pair", "wallet", moved[c].tokens)>>
  ELSE <<Log("token", "wallet", "pair", moved[c].tokens),
         Log("weth", "pair", "router", moved[c].weth)>>

\* tx.Value(): ether is sent along with a buy only.
Value(c) == IF req[c].op = "buy" THEN req[c].amount ELSE 0

FirstOf(logs, contract) ==
  logs[CHOOSE i \in DOMAIN logs :
         logs[i].contract = contract /\ \A k \in 1 .. i - 1 : logs[k].contract # contract]

\* Mutant of GetTransaction: the fee of a sell is not taken off.
GetTransactionGross(c) ==
  LET token == FirstOf(Logs(c), "token")
      weth  == FirstOf(Logs(c), "weth")
      fee   == IF Value(c) > 0 THEN Value(c) - weth.value ELSE weth.value \div 100
  IN [token |-> IF token.from = "wallet" THEN -token.value ELSE token.value,
      native |-> IF Value(c) > 0 THEN -Value(c) ELSE weth.value,
      botFee |-> fee]

GetTransaction(c) ==
  LET token == FirstOf(Logs(c), "token")
      weth  == FirstOf(Logs(c), "weth")
      fee   == IF Value(c) > 0 THEN Value(c) - weth.value ELSE weth.value \div 100
  IN [token |-> IF token.from = "wallet" THEN -token.value ELSE token.value,
      native |-> IF Value(c) > 0 THEN -Value(c) ELSE weth.value - fee,
      botFee |-> fee]

-----------------------------------------------------------------------------
(* Properties.                                                             *)

TxType == [owner : Callers, kind : Kinds, price : Nat, nonce : Nat]

TypeOK ==
  /\ tokens \in Nat /\ allowance \in Nat /\ pool \in PoolType
  /\ outsideSwaps \in 0 .. MaxOutside
  /\ mined \in Nat /\ next \in Nat /\ mempool \subseteq TxType
  /\ pc \in [Callers -> {"idle", "asked", "estimate", "number", "submit", "watch", "over"}]
  /\ kind \in [Callers -> Kinds \union {"none"}]
  /\ req \in [Callers -> Requests \union {Nothing}]
  /\ quoted \in [Callers -> [pool : PoolType, allowance : Nat] \union {Nothing}]
  /\ balance \in [Callers -> Nat] /\ nonce \in [Callers -> Nat]
  /\ polls \in [Callers -> 0 .. MaxPolls]
  /\ reply \in [Callers -> {"none", "sent", "error", "ErrTransactionInvalid"}]
  /\ fate \in [Callers -> [Kinds -> Fates]]
  /\ alone \in [Callers -> BOOLEAN]

\* However the calls of a wallet race for nonces, none of them leaves a gap:
\* every transaction the node has accepted can be mined, because each nonce
\* below its own is mined or pending.
NoGap ==
  \A x \in mempool : \A n \in mined .. x.nonce : \E y \in mempool : y.nonce = n

\* A sell that needed an approval is sent only when the approval has been
\* mined, never beside it or after it has been lost.
ApprovalFirst ==
  \A x \in mempool : x.kind = "swap" =>
    fate[x.owner].approve \in {"none", "success", "reverted"}

\* The step in which the swap of c succeeds.
Lands(c) == fate[c].swap = "pending" /\ fate'[c].swap = "success"

\* PositionClosed compares with a balance read before the approval was even
\* sent.  It is true of a sell that lands as long as no other swap of the
\* wallet has landed since that balance was read.
PositionTrueIfAlone ==
  [][\A c \in Callers :
       Lands(c) /\ req[c].op = "sell" /\ alone[c] => (PositionClosed(c) <=> tokens' = 0)]_vars

\* What a swap moves when it lands is within the accepted slippage of its
\* quote, however long its approval took and whatever else happened.
PriceProtected ==
  [][\A c \in Callers : Lands(c) =>
       LET accepted == Quote(c) - (Quote(c) * req[c].slippage) \div Bps
       IN IF req[c].op = "buy" THEN tokens' - tokens >= accepted
          ELSE pool.quote - pool'.quote >= accepted]_vars

\* GetTransaction reports what the swap did to the wallet and what the router
\* kept, with the right signs, from the first events of a receipt.
ReportTrue ==
  \A c \in Callers : fate[c].swap = "success" =>
    GetTransaction(c) =
      IF req[c].op = "buy"
      THEN [token |-> moved[c].tokens, native |-> -req[c].amount,
            botFee |-> RouterFee(req[c].amount)]
      ELSE [token |-> -moved[c].tokens, native |-> moved[c].weth - RouterFee(moved[c].weth),
            botFee |-> RouterFee(moved[c].weth)]

\* Every call returns, also when its approval is replaced by another call's
\* transaction or never mined.
CallsReturn == \A c \in Callers : pc[c] # "idle" ~> pc[c] = "over"

-----------------------------------------------------------------------------
(* A call as the one who made it sees it: an order.                        *)

TermsOf(r) == [side |-> r.op, amount |-> r.amount]

\* The transaction the call is about; an approval only prepares it.
Main(c) == IF req[c].op = "send" THEN "send" ELSE "swap"

OrderTerms == [c \in Callers |-> IF pc[c] = "idle" THEN Nothing ELSE TermsOf(req[c])]

OrderStage ==
  [c \in Callers |->
     IF pc[c] = "idle" THEN "idle"
     ELSE CASE fate[c][Main(c)] = "none" -> IF pc[c] = "over" THEN "refused" ELSE "open"
            [] fate[c][Main(c)] = "pending" -> "sent"
            [] fate[c][Main(c)] = "success" -> "filled"
            [] OTHER -> "void"]

OrderAnswer ==
  [c \in Callers |->
     CASE reply[c] = "none" -> "none"
       [] reply[c] = "sent" -> "ok"
       [] OTHER -> "error"]

\* GetTransaction is an operator here, and no call of it is kept.
OrderTold == [c \in Callers |-> "none"]

Abstract == INSTANCE Order
              WITH Clients <- Callers,
                   Terms <- {TermsOf(r) : r \in Requests},
                   holdings <- tokens,
                   terms <- OrderTerms,
                   stage <- OrderStage,
                   answer <- OrderAnswer,
                   told <- OrderTold

\* A call is an order that takes effect once and as a whole, or never, however
\* the calls of the wallet race for nonces and take each other's place; the
\* wallet's tokens change in no other way.
ImplementsOrder == Abstract!Safety
=============================================================================
