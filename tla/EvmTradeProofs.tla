---------------------------- MODULE EvmTradeProofs ---------------------------
(***************************************************************************)
(* Proofs about EvmTrade, for any number of concurrent calls, any requests *)
(* and prices, and any time the chain takes.                               *)
(***************************************************************************)
EXTENDS EvmTrade, AmountsProofs

QuotedType == [pool : PoolType, allowance : Nat]
Settled == {"none", "success", "reverted"}

\* How the node's nonces and those read by calls lie.
Numbered ==
  /\ mined <= next
  /\ \A x \in mempool : mined <= x.nonce /\ x.nonce < next
  /\ \A n \in mined .. next - 1 : \E x \in mempool : x.nonce = n
  /\ \A x \in mempool : \A y \in mempool : x.nonce = y.nonce => x = y
  /\ \A c \in Callers : pc[c] = "submit" => nonce[c] <= next

\* What is pending, and that no swap of a call is beside its approval.
Ordered ==
  \A x \in mempool :
    /\ fate[x.owner][x.kind] = "pending"
    /\ kind[x.owner] # "none"
    /\ x.kind = "swap" => kind[x.owner] = "swap" /\ fate[x.owner]["approve"] \in Settled
    /\ \A y \in mempool : x.owner = y.owner /\ x.kind = y.kind => x = y

\* Where call c is.
Placed(c) ==
  /\ pc[c] # "idle" => req[c] \in Requests /\ quoted[c] \in QuotedType
  /\ pc[c] \in {"idle", "asked"} =>
       kind[c] = "none" /\ \A k \in Kinds : fate[c][k] = "none"
  /\ pc[c] \in {"estimate", "number", "submit"} =>
       /\ kind[c] \in Kinds /\ fate[c][kind[c]] = "none"
       /\ fate[c]["swap"] = "none"
       /\ kind[c] = "swap" => fate[c]["approve"] \in Settled
  /\ pc[c] = "watch" => kind[c] = "approve" /\ fate[c]["swap"] = "none"
  /\ pc[c] # "over" => polls[c] < MaxPolls

\* The balance a call has read stays true until another swap lands.
Fresh ==
  \A c \in Callers :
    kind[c] \in {"approve", "swap"} /\ alone[c] /\ fate[c]["swap"] \in {"none", "pending"}
      => tokens = balance[c]

IInv == TypeOK /\ Numbered /\ Ordered /\ (\A c \in Callers : Placed(c)) /\ Fresh

-----------------------------------------------------------------------------
(* The types.                                                              *)

\* What the pair and the router move.
LEMMA MovesFit ==
  ASSUME NEW c \in Callers, req[c] \in Requests, pool \in PoolType
  PROVE  LET m == Moves(c) IN
         /\ m.weth \in Nat /\ m.tokens \in Nat
         /\ req[c].op = "buy" =>
              [quote |-> pool.quote + m.weth, token |-> pool.token - m.tokens] \in PoolType
         /\ req[c].op # "buy" =>
              /\ m.tokens = req[c].amount
              /\ [quote |-> pool.quote - m.weth, token |-> pool.token + m.tokens] \in PoolType
<1> USE EvmTradeAssumption
<1> DEFINE a == req[c].amount
           m == Moves(c)
<1>1. a \in Nat /\ pool.quote \in Nat \ {0} /\ pool.token \in Nat \ {0}
  BY DEF RequestType, PoolType
<1>2. CASE req[c].op = "buy"
  <2> DEFINE in == a - RouterFee(a)
             out == CalculateOutputBigInt(in, pool.quote, pool.token)
  <2>1. in \in Nat
    BY <1>1 DEF RouterFee
  <2> HIDE DEF in
  <2>2. out \in Nat /\ out < pool.token
    BY <1>1, <2>1, QuoteBelowReserve
  <2>3. m.weth = in /\ m.tokens = out
    BY <1>2 DEF Moves, in
  <2> HIDE DEF out, m
  <2>4. pool.quote + m.weth \in Nat \ {0} /\ pool.token - m.tokens \in Nat \ {0}
    BY <1>1, <2>1, <2>2, <2>3
  <2> QED BY <1>2, <2>1, <2>2, <2>3, <2>4 DEF PoolType, m
<1>3. CASE req[c].op # "buy"
  <2> DEFINE out == CalculateOutputBigInt(a, pool.token, pool.quote)
  <2>1. out \in Nat /\ out < pool.quote
    BY <1>1, QuoteBelowReserve
  <2>2. m.weth = out /\ m.tokens = a
    BY <1>3 DEF Moves
  <2> HIDE DEF out, m
  <2>3. pool.quote - m.weth \in Nat \ {0} /\ pool.token + m.tokens \in Nat \ {0}
    BY <1>1, <2>1, <2>2
  <2> QED BY <1>1, <1>3, <2>1, <2>2, <2>3 DEF PoolType, m
<1> QED BY <1>2, <1>3

\* Whose transaction is mined, and what is known of its owner.
LEMMA OwnerKnown ==
  ASSUME IInv, NEW x \in mempool
  PROVE  /\ x \in TxType /\ x.owner \in Callers /\ x.kind \in Kinds
         /\ fate[x.owner][x.kind] = "pending" /\ kind[x.owner] # "none"
         /\ pc[x.owner] # "idle" /\ req[x.owner] \in Requests
<1>1. x \in TxType /\ x.owner \in Callers /\ x.kind \in Kinds
  BY DEF IInv, TypeOK, TxType
<1>2. fate[x.owner][x.kind] = "pending" /\ kind[x.owner] # "none"
  BY DEF IInv, Ordered
<1>3. Placed(x.owner)
  BY <1>1 DEF IInv
<1> QED BY <1>1, <1>2, <1>3 DEF Placed

\* It holds at the start.
LEMMA InitIInv == Init => IInv
<1> SUFFICES ASSUME Init PROVE IInv
    OBVIOUS
<1> USE EvmTradeAssumption DEF Init
<1>1. TypeOK BY DEF TypeOK, Fates
<1>2. Numbered BY DEF Numbered
<1>3. Ordered BY DEF Ordered
<1>4. \A c \in Callers : Placed(c) BY DEF Placed
<1>5. Fresh BY DEF Fresh
<1> QED BY <1>1, <1>2, <1>3, <1>4, <1>5 DEF IInv

\* Types are kept, given the rest.
LEMMA NextType == IInv /\ [Next]_vars => TypeOK'
<1> SUFFICES ASSUME IInv, [Next]_vars PROVE TypeOK'
    OBVIOUS
<1> USE EvmTradeAssumption DEF chainVars, nodeVars, callVars, pastVars, Answer, Goto
<1>0. TypeOK BY DEF IInv
<1>1. ASSUME NEW c \in Callers, Ask(c) \/ CallStep(c) \/ QueryFails(c) PROVE TypeOK'
  <2>1. CASE Ask(c)
    <3>1. req' \in [Callers -> Requests \union {Nothing}]
      BY <1>0, <2>1 DEF TypeOK, Ask
    <3>2. quoted' \in [Callers -> [pool : PoolType, allowance : Nat] \union {Nothing}]
      BY <1>0, <2>1 DEF TypeOK, Ask
    <3>3. /\ pc' \in [Callers -> {"idle", "asked", "estimate", "number", "submit", "watch", "over"}]
          /\ kind' \in [Callers -> Kinds \union {"none"}]
      BY <1>0, <2>1 DEF TypeOK, Ask, Kinds
    <3> QED BY <1>0, <2>1, <3>1, <3>2, <3>3 DEF TypeOK, Ask
  <2>2. CASE ReadBalance(c) BY <1>0, <2>2 DEF TypeOK, ReadBalance, Kinds
  <2>3. CASE Estimate(c) BY <1>0, <2>3 DEF TypeOK, Estimate
  <2>4. CASE ReadNonce(c) BY <1>0, <2>4 DEF TypeOK, ReadNonce
  <2>5. CASE Refused(c) BY <1>0, <2>5 DEF TypeOK, Refused
  <2>6. CASE Accepted(c)
    <3> DEFINE x == [owner |-> c, kind |-> kind[c], price |-> Price(c), nonce |-> nonce[c]]
               rivals == {y \in mempool : y.nonce = x.nonce}
    <3>1. /\ pc[c] = "submit"
          /\ mempool' = (mempool \ rivals) \union {x}
          /\ next' = IF x.nonce = next THEN next + 1 ELSE next
          /\ fate' = [d \in Callers |-> [k \in Kinds |->
               IF d = c /\ k = kind[c] THEN "pending"
               ELSE IF \E y \in rivals : y.owner = d /\ y.kind = k THEN "replaced"
               ELSE fate[d][k]]]
          /\ UNCHANGED <<chainVars, mined, kind, req, quoted, balance, nonce, polls, moved, alone>>
      BY <1>0, <2>6 DEF TypeOK, Accepted
    <3>2. x \in TxType
      <4>1. Placed(c) BY DEF IInv
      <4>2. kind[c] \in Kinds /\ req[c] \in Requests BY <3>1, <4>1 DEF Placed
      <4>3. Price(c) \in Nat BY <4>2 DEF Price, RequestType
      <4> QED BY <1>0, <4>2, <4>3 DEF TypeOK, TxType
    <3>3. fate' \in [Callers -> [Kinds -> Fates]]
      <4> HIDE DEF rivals
      <4> QED BY <1>0, <3>1 DEF TypeOK, Fates
    <3>4. next' \in Nat /\ mempool' \subseteq TxType
      <4> HIDE DEF x
      <4>1. next \in Nat /\ mempool \subseteq TxType BY <1>0 DEF TypeOK
      <4> QED BY <3>1, <3>2, <4>1
    <3>5. \/ Answer(c, "error") \/ Answer(c, "sent")
          \/ Goto(c, "watch") /\ UNCHANGED reply
      BY <2>6 DEF Accepted
    <3>6. /\ pc' \in [Callers -> {"idle", "asked", "estimate", "number", "submit", "watch", "over"}]
          /\ reply' \in [Callers -> {"none", "sent", "error", "ErrTransactionInvalid"}]
      BY <1>0, <3>5 DEF TypeOK
    <3> HIDE DEF x, rivals
    <3> QED BY <1>0, <3>1, <3>3, <3>4, <3>6 DEF TypeOK
  <2>7. CASE Poll(c)
    <3>1. polls' \in [Callers -> 0 .. MaxPolls]
      <4>1. CASE UNCHANGED polls BY <1>0, <4>1 DEF TypeOK
      <4>2. CASE polls' = [polls EXCEPT ![c] = @ + 1] /\ polls[c] + 1 <= MaxPolls
        BY <1>0, <4>2 DEF TypeOK
      <4>3. polls[c] \in 0 .. MaxPolls /\ polls[c] + 1 <= MaxPolls
        <5>1. pc[c] = "watch" BY <2>7 DEF Poll
        <5>2. polls[c] < MaxPolls BY <5>1 DEF IInv, Placed
        <5>3. polls[c] \in 0 .. MaxPolls BY <1>0 DEF TypeOK
        <5> QED BY <5>2, <5>3
      <4> QED BY <4>1, <4>2, <4>3, <2>7 DEF Poll
    <3> QED BY <1>0, <2>7, <3>1 DEF TypeOK, Poll, Kinds
  <2>8. CASE QueryFails(c) BY <1>0, <2>8 DEF TypeOK, QueryFails
  <2> QED BY <1>1, <2>1, <2>2, <2>3, <2>4, <2>5, <2>6, <2>7, <2>8 DEF CallStep
<1>2. ASSUME NEW x \in mempool,
             MineSend(x) \/ MineApprove(x) \/ MineSwap(x) \/ MineReverted(x)
      PROVE  TypeOK'
  <2>1. x.owner \in Callers /\ x.kind \in Kinds /\ req[x.owner] \in Requests
    BY OwnerKnown
  <2>2. ASSUME NEW result \in {"success", "reverted"}, Mined(x, result)
        PROVE  /\ mined' \in Nat /\ next' \in Nat /\ mempool' \subseteq TxType
               /\ fate' \in [Callers -> [Kinds -> Fates]] /\ UNCHANGED callVars
    BY <1>0, <2>1, <2>2 DEF TypeOK, Mined, Fates
  <2>3. CASE MineSend(x) \/ MineReverted(x)
    BY <1>0, <2>2, <2>3 DEF TypeOK, MineSend, MineReverted
  <2>4. CASE MineApprove(x)
    BY <1>0, <2>2, <2>4 DEF TypeOK, MineApprove
  <2>5. CASE MineSwap(x)
    <3> DEFINE m == Moves(x.owner)
    <3>1. /\ m.weth \in Nat /\ m.tokens \in Nat
          /\ req[x.owner].op # "buy" => m.tokens = req[x.owner].amount
      BY <1>0, <2>1, MovesFit DEF TypeOK
    <3>2. pool' \in PoolType
      BY <1>0, <2>1, <2>5, MovesFit DEF TypeOK, MineSwap
    <3>3. tokens' \in Nat /\ allowance' \in Nat
      <4>1. req[x.owner].op # "buy" => tokens >= req[x.owner].amount /\ allowance >= req[x.owner].amount
        BY <2>5 DEF MineSwap, Executes
      <4>2. /\ req[x.owner].op = "buy" => tokens' = tokens + m.tokens /\ allowance' = allowance
            /\ req[x.owner].op # "buy" =>
                 /\ tokens' = tokens - m.tokens
                 /\ allowance' \in {allowance, allowance - m.tokens}
        BY <2>5 DEF MineSwap
      <4> HIDE DEF m
      <4> QED BY <1>0, <3>1, <4>1, <4>2 DEF TypeOK
    <3>4. alone' \in [Callers -> BOOLEAN]
      BY <1>0, <2>5 DEF TypeOK, MineSwap
    <3> QED BY <1>0, <2>2, <2>5, <3>2, <3>3, <3>4 DEF TypeOK, MineSwap
  <2> QED BY <1>2, <2>3, <2>4, <2>5
<1>3. CASE OutsideSwap
  <2>1. pool.quote \in Nat \ {0} /\ pool.token \in Nat \ {0}
    BY <1>0 DEF TypeOK, PoolType
  <2> DEFINE o == CalculateOutputBigInt(Outside, pool.quote, pool.token)
             p == CalculateOutputBigInt(Outside, pool.token, pool.quote)
  <2>2. o \in Nat /\ o < pool.token /\ p \in Nat /\ p < pool.quote
    BY <2>1, QuoteBelowReserve
  <2>3. pool' = [quote |-> pool.quote + Outside, token |-> pool.token - o]
          \/ pool' = [quote |-> pool.quote - p, token |-> pool.token + Outside]
    BY <1>3 DEF OutsideSwap
  <2> HIDE DEF o, p
  <2>4. pool' \in PoolType
    BY <2>1, <2>2, <2>3 DEF PoolType
  <2> QED BY <1>0, <1>3, <2>4 DEF TypeOK, OutsideSwap
<1>4. CASE UNCHANGED vars BY <1>0, <1>4 DEF TypeOK, vars
<1> QED BY <1>1, <1>2, <1>3, <1>4 DEF Next

-----------------------------------------------------------------------------
(* The nonces.                                                             *)

\* Nonces that were read are no larger than the node's next one, and each has
\* one transaction.
LEMMA NextNumbered == IInv /\ [Next]_vars => Numbered'
<1> SUFFICES ASSUME IInv, [Next]_vars PROVE Numbered'
    OBVIOUS
<1> USE DEF chainVars, nodeVars, callVars, pastVars, Answer, Goto
<1>0. /\ Numbered /\ mined \in Nat /\ next \in Nat
      /\ pc \in [Callers -> {"idle", "asked", "estimate", "number", "submit", "watch", "over"}]
      /\ nonce \in [Callers -> Nat] /\ \A x \in mempool : x.nonce \in Nat
  BY DEF IInv, TypeOK, TxType
<1>1. ASSUME NEW c \in Callers, Ask(c) \/ CallStep(c) \/ QueryFails(c) PROVE Numbered'
  <2>1. ASSUME UNCHANGED <<nodeVars, nonce>>,
               \A d \in Callers : pc'[d] = "submit" => pc[d] = "submit"
        PROVE  Numbered'
    BY <1>0, <2>1 DEF Numbered
  <2>2. CASE ReadNonce(c)
    <3>1. \A d \in Callers : pc'[d] = "submit" => nonce'[d] <= next
      BY <1>0, <2>2 DEF ReadNonce, Numbered
    <3> QED BY <1>0, <2>2, <3>1 DEF ReadNonce, Numbered
  <2>3. CASE Accepted(c)
    <3> DEFINE x == [owner |-> c, kind |-> kind[c], price |-> Price(c), nonce |-> nonce[c]]
    <3>1. /\ pc[c] = "submit" /\ x.nonce = nonce[c] /\ nonce[c] >= mined
          /\ mempool' = (mempool \ {y \in mempool : y.nonce = x.nonce}) \union {x}
          /\ next' = IF x.nonce = next THEN next + 1 ELSE next
          /\ UNCHANGED <<mined, nonce>>
          /\ \A d \in Callers : pc'[d] = "submit" => pc[d] = "submit"
      BY <1>0, <2>3 DEF Accepted
    <3> HIDE DEF x
    <3>2. x.nonce <= next /\ x.nonce \in Nat
      BY <1>0, <3>1 DEF Numbered
    <3>3. \A n \in mined .. next' - 1 : \E y \in mempool' : y.nonce = n
      <4> SUFFICES ASSUME NEW n \in mined .. next' - 1
                   PROVE  \E y \in mempool' : y.nonce = n
          OBVIOUS
      <4>1. CASE n = x.nonce BY <3>1, <4>1
      <4>2. CASE n # x.nonce
        <5>1. n \in mined .. next - 1
          BY <1>0, <3>1, <3>2, <4>2
        <5>2. PICK y \in mempool : y.nonce = n
          BY <1>0, <5>1 DEF Numbered
        <5> QED BY <3>1, <4>2, <5>2
      <4> QED BY <4>1, <4>2
    <3>4. \A y \in mempool' : mined <= y.nonce /\ y.nonce < next'
      BY <1>0, <3>1, <3>2 DEF Numbered
    <3>5. next' \in Nat /\ next <= next'
      BY <1>0, <3>1
    <3>6. \A d \in Callers : pc'[d] = "submit" => nonce'[d] <= next'
      <4>1. ASSUME NEW d \in Callers, pc'[d] = "submit" PROVE nonce'[d] <= next'
        <5>1. nonce'[d] = nonce[d] /\ nonce[d] <= next /\ nonce[d] \in Nat
          BY <1>0, <3>1, <4>1 DEF Numbered
        <5> QED BY <1>0, <3>5, <5>1
      <4> QED BY <4>1
    <3>7. mined' <= next'
      BY <1>0, <3>1, <3>5 DEF Numbered
    <3>8. \A y \in mempool' : \A z \in mempool' : y.nonce = z.nonce => y = z
      BY <1>0, <3>1 DEF Numbered
    <3> QED BY <3>1, <3>3, <3>4, <3>6, <3>7, <3>8 DEF Numbered
  <2>4. CASE Ask(c) BY <1>0, <2>1, <2>4 DEF Ask
  <2>5. CASE ReadBalance(c) BY <1>0, <2>1, <2>5 DEF ReadBalance
  <2>6. CASE Estimate(c) BY <1>0, <2>1, <2>6 DEF Estimate
  <2>7. CASE Refused(c) BY <1>0, <2>1, <2>7 DEF Refused
  <2>8. CASE Poll(c) BY <1>0, <2>1, <2>8 DEF Poll
  <2>9. CASE QueryFails(c) BY <1>0, <2>1, <2>9 DEF QueryFails
  <2> QED BY <1>1, <2>2, <2>3, <2>4, <2>5, <2>6, <2>7, <2>8, <2>9 DEF CallStep
<1>2. ASSUME NEW x \in mempool,
             MineSend(x) \/ MineApprove(x) \/ MineSwap(x) \/ MineReverted(x)
      PROVE  Numbered'
  <2>1. PICK result : Mined(x, result)
    BY <1>2 DEF MineSend, MineApprove, MineSwap, MineReverted
  <2>2. /\ x.nonce = mined /\ mempool' = mempool \ {x} /\ mined' = mined + 1
        /\ UNCHANGED <<next, pc, nonce>>
    BY <2>1 DEF Mined
  <2>3. mined < next /\ \A y \in mempool' : y.nonce # mined
    BY <1>0, <2>2 DEF Numbered
  <2> QED BY <1>0, <2>2, <2>3 DEF Numbered
<1>3. CASE OutsideSwap BY <1>0, <1>3 DEF Numbered, OutsideSwap
<1>4. CASE UNCHANGED vars BY <1>0, <1>4 DEF Numbered, vars
<1> QED BY <1>1, <1>2, <1>3, <1>4 DEF Next

-----------------------------------------------------------------------------
(* What is pending, and where the calls are.                               *)

\* A call sends each kind of transaction once.
LEMMA NextOrdered == IInv /\ [Next]_vars => Ordered'
<1> SUFFICES ASSUME IInv, [Next]_vars PROVE Ordered'
    OBVIOUS
<1> USE DEF chainVars, nodeVars, callVars, pastVars, Answer, Goto
<1>0. /\ Ordered /\ mempool \subseteq TxType
      /\ fate \in [Callers -> [Kinds -> Fates]]
      /\ kind \in [Callers -> Kinds \union {"none"}]
  BY DEF IInv, TypeOK
<1>00. \A y \in mempool : y.owner \in Callers /\ y.kind \in Kinds
  BY <1>0 DEF TxType
<1>1. ASSUME NEW c \in Callers, Ask(c) \/ CallStep(c) \/ QueryFails(c) PROVE Ordered'
  <2>1. ASSUME UNCHANGED <<mempool, fate>>,
               \A d \in Callers : kind[d] # "none" => kind'[d] \in {kind[d], "swap"}
        PROVE  Ordered'
    BY <1>0, <1>00, <2>1 DEF Ordered
  <2>02. pc[c] \in {"idle", "asked"} => kind[c] = "none"
    BY DEF IInv, Placed
  <2>2. CASE Ask(c) BY <1>0, <2>1, <2>02, <2>2 DEF Ask
  <2>3. CASE ReadBalance(c) BY <1>0, <2>1, <2>02, <2>3 DEF ReadBalance
  <2>4. CASE Estimate(c) BY <1>0, <2>1, <2>4 DEF Estimate
  <2>5. CASE ReadNonce(c) BY <1>0, <2>1, <2>5 DEF ReadNonce
  <2>6. CASE Refused(c) BY <1>0, <2>1, <2>6 DEF Refused
  <2>7. CASE Poll(c) BY <1>0, <2>1, <2>7 DEF Poll
  <2>8. CASE QueryFails(c) BY <1>0, <2>1, <2>8 DEF QueryFails
  <2>9. CASE Accepted(c)
    <3> DEFINE x == [owner |-> c, kind |-> kind[c], price |-> Price(c), nonce |-> nonce[c]]
               rivals == {y \in mempool : y.nonce = x.nonce}
    <3>1. /\ pc[c] = "submit"
          /\ mempool' = (mempool \ rivals) \union {x}
          /\ fate' = [d \in Callers |-> [k \in Kinds |->
               IF d = c /\ k = kind[c] THEN "pending"
               ELSE IF \E y \in rivals : y.owner = d /\ y.kind = k THEN "replaced"
               ELSE fate[d][k]]]
          /\ kind' = kind
      BY <2>9 DEF Accepted
    <3>2. /\ kind[c] \in Kinds /\ fate[c][kind[c]] = "none" /\ fate[c]["swap"] = "none"
          /\ kind[c] = "swap" => fate[c]["approve"] \in Settled
      BY <3>1 DEF IInv, Placed
    <3>3. x.owner = c /\ x.kind = kind[c] /\ rivals \subseteq mempool
      OBVIOUS
    <3> HIDE DEF x, rivals
    <3>4. \A y \in mempool : ~(y.owner = c /\ y.kind = kind[c])
      BY <1>0, <3>2 DEF Ordered
    <3>5. \A y \in mempool \ rivals : ~ \E z \in rivals : z.owner = y.owner /\ z.kind = y.kind
      BY <1>0, <3>3 DEF Ordered
    <3>6. \A y \in mempool \ rivals : fate'[y.owner][y.kind] = "pending"
      BY <1>0, <1>00, <3>1, <3>4, <3>5 DEF Ordered
    <3>7. fate'[c][kind[c]] = "pending"
      BY <3>1, <3>2
    <3>8. ASSUME NEW y \in mempool', y.kind = "swap"
          PROVE  fate'[y.owner]["approve"] \in Settled
      <4>1. "approve" \in Kinds BY DEF Kinds
      <4>2. y.owner \in Callers /\ fate[y.owner]["approve"] \in Settled
        BY <1>0, <1>00, <3>1, <3>2, <3>3, <3>8 DEF Ordered
      <4>3. ~(y.owner = c /\ "approve" = kind[c])
        BY <1>0, <1>00, <3>1, <3>2, <3>3, <3>8 DEF Ordered
      <4>4. ~ \E z \in rivals : z.owner = y.owner /\ z.kind = "approve"
        BY <1>0, <3>3, <4>2 DEF Ordered, Settled
      <4> QED BY <3>1, <4>1, <4>2, <4>3, <4>4
    <3>9. \A y \in mempool' : \A z \in mempool' : y.owner = z.owner /\ y.kind = z.kind => y = z
      BY <1>0, <3>1, <3>3, <3>4 DEF Ordered
    <3>10. \A y \in mempool' :
             kind'[y.owner] # "none" /\ (y.kind = "swap" => kind'[y.owner] = "swap")
      BY <1>0, <3>1, <3>2, <3>3 DEF Ordered, Kinds
    <3> QED BY <3>1, <3>3, <3>6, <3>7, <3>8, <3>9, <3>10 DEF Ordered
  <2> QED BY <1>1, <2>2, <2>3, <2>4, <2>5, <2>6, <2>7, <2>8, <2>9 DEF CallStep
<1>2. ASSUME NEW x \in mempool,
             MineSend(x) \/ MineApprove(x) \/ MineSwap(x) \/ MineReverted(x)
      PROVE  Ordered'
  <2>1. PICK result \in {"success", "reverted"} : Mined(x, result)
    BY <1>2 DEF MineSend, MineApprove, MineSwap, MineReverted
  <2>2. /\ mempool' = mempool \ {x} /\ kind' = kind
        /\ fate' = [fate EXCEPT ![x.owner][x.kind] = result]
    BY <2>1 DEF Mined
  <2>3. \A y \in mempool' : fate'[y.owner][y.kind] = fate[y.owner][y.kind]
    BY <1>0, <1>00, <2>2 DEF Ordered
  <2>4. \A y \in mempool' : fate'[y.owner]["approve"] \in {fate[y.owner]["approve"], result}
    BY <1>0, <1>00, <2>2 DEF Kinds
  <2> QED BY <1>0, <2>2, <2>3, <2>4 DEF Ordered, Settled
<1>3. CASE OutsideSwap BY <1>0, <1>3 DEF Ordered, OutsideSwap
<1>4. CASE UNCHANGED vars BY <1>0, <1>4 DEF Ordered, vars
<1> QED BY <1>1, <1>2, <1>3, <1>4 DEF Next

\* What a call has in the mempool fits where it is.
LEMMA NextPlaced == IInv /\ [Next]_vars => \A d \in Callers : Placed(d)'
<1> SUFFICES ASSUME IInv, [Next]_vars, NEW d \in Callers PROVE Placed(d)'
    OBVIOUS
<1> USE DEF chainVars, nodeVars, callVars, pastVars, Answer, Goto
<1>0. /\ Placed(d) /\ TypeOK /\ Ordered
  BY DEF IInv
<1>1. ASSUME NEW c \in Callers, Ask(c) \/ CallStep(c) \/ QueryFails(c) PROVE Placed(d)'
  <2>1. CASE c # d /\ ~Accepted(c)
    <3>1. /\ pc'[d] = pc[d] /\ req'[d] = req[d] /\ quoted'[d] = quoted[d]
          /\ kind'[d] = kind[d] /\ fate'[d] = fate[d] /\ polls'[d] = polls[d]
      BY <1>0, <1>1, <2>1
      DEF TypeOK, CallStep, Ask, ReadBalance, Estimate, ReadNonce, Refused, Poll, QueryFails
    <3> QED BY <1>0, <3>1 DEF Placed
  <2>2. CASE Accepted(c)
    <3> DEFINE x == [owner |-> c, kind |-> kind[c], price |-> Price(c), nonce |-> nonce[c]]
               rivals == {y \in mempool : y.nonce = x.nonce}
    <3>1. /\ pc[c] = "submit" /\ rivals \subseteq mempool
          /\ fate' = [e \in Callers |-> [k \in Kinds |->
               IF e = c /\ k = kind[c] THEN "pending"
               ELSE IF \E y \in rivals : y.owner = e /\ y.kind = k THEN "replaced"
               ELSE fate[e][k]]]
          /\ UNCHANGED <<kind, req, quoted, polls>>
          /\ \/ pc' = [pc EXCEPT ![c] = "over"]
             \/ kind[c] = "approve" /\ pc' = [pc EXCEPT ![c] = "watch"]
      BY <2>2 DEF Accepted
    <3>2. \A k \in Kinds : fate[d][k] # "pending" => (fate'[d][k] = fate[d][k] \/ (c = d /\ k = kind[c]))
      <4> HIDE DEF rivals, x
      <4> QED BY <1>0, <3>1 DEF Ordered
    <3>3. "swap" \in Kinds /\ "approve" \in Kinds BY DEF Kinds
    <3>4. CASE c # d
      <4>1. pc'[d] = pc[d] BY <1>0, <3>1, <3>4 DEF TypeOK
      <4>2. pc[d] \in {"idle", "asked"} => \A k \in Kinds : fate'[d][k] = "none"
        BY <1>0, <3>2, <3>4 DEF Placed
      <4>3. pc[d] \in {"estimate", "number", "submit"} =>
              /\ kind[d] \in Kinds /\ fate'[d][kind[d]] = "none"
              /\ fate'[d]["swap"] = "none"
              /\ kind[d] = "swap" => fate'[d]["approve"] \in Settled
        BY <1>0, <3>2, <3>3, <3>4 DEF Placed, Settled
      <4>4. pc[d] = "watch" => fate'[d]["swap"] = "none"
        BY <1>0, <3>2, <3>3, <3>4 DEF Placed
      <4> HIDE DEF rivals, x
      <4> QED BY <1>0, <3>1, <4>1, <4>2, <4>3, <4>4 DEF Placed
    <3>5. CASE c = d
      <4>1. pc'[d] \in {"over", "watch"} /\ (pc'[d] = "watch" => kind[d] = "approve")
        BY <1>0, <3>1, <3>5 DEF TypeOK
      <4>2. kind[d] = "approve" => fate'[d]["swap"] = "none"
        BY <1>0, <3>1, <3>2, <3>3, <3>5 DEF Placed
      <4> HIDE DEF rivals, x
      <4> QED BY <1>0, <3>1, <3>5, <4>1, <4>2 DEF Placed
    <3> QED BY <3>4, <3>5
  <2>3. CASE c = d /\ Ask(c)
    BY <1>0, <2>3 DEF TypeOK, Ask, Placed, QuotedType, Kinds
  <2>4. CASE c = d /\ ReadBalance(c)
    BY <1>0, <2>4 DEF TypeOK, ReadBalance, Placed, Kinds, Settled
  <2>5. CASE c = d /\ Estimate(c) BY <1>0, <2>5 DEF TypeOK, Estimate, Placed
  <2>6. CASE c = d /\ ReadNonce(c) BY <1>0, <2>6 DEF TypeOK, ReadNonce, Placed
  <2>7. CASE c = d /\ Refused(c) BY <1>0, <2>7 DEF TypeOK, Refused, Placed
  <2>8. CASE c = d /\ QueryFails(c) BY <1>0, <2>8 DEF TypeOK, QueryFails, Placed
  <2>9. CASE c = d /\ Poll(c)
    <3> USE EvmTradeAssumption
    <3>1. /\ pc[d] = "watch" /\ UNCHANGED <<req, quoted, fate>> /\ polls[d] \in 0 .. MaxPolls
      BY <1>0, <2>9 DEF Poll, TypeOK
    <3>2. CASE fate[d].approve \in {"success", "reverted"}
      <4>1. /\ kind'[d] = "swap" /\ pc'[d] = "estimate" /\ UNCHANGED polls
        BY <1>0, <2>9, <3>2 DEF Poll, TypeOK
      <4>2. fate[d]["approve"] \in Settled
        BY <3>2 DEF Settled
      <4> QED BY <1>0, <3>1, <4>1, <4>2 DEF Placed, Kinds
    <3>3. CASE fate[d].approve \notin {"success", "reverted"}
      <4>1. /\ UNCHANGED kind /\ polls'[d] = polls[d] + 1
            /\ pc'[d] = "over" \/ (pc'[d] = pc[d] /\ ~(polls[d] + 1 >= MaxPolls))
        BY <1>0, <2>9, <3>3 DEF Poll, TypeOK
      <4> QED BY <1>0, <3>1, <4>1 DEF Placed
    <3> QED BY <3>2, <3>3
  <2> QED BY <1>1, <2>1, <2>2, <2>3, <2>4, <2>5, <2>6, <2>7, <2>8, <2>9 DEF CallStep
<1>2. ASSUME NEW x \in mempool,
             MineSend(x) \/ MineApprove(x) \/ MineSwap(x) \/ MineReverted(x)
      PROVE  Placed(d)'
  <2>1. PICK result \in {"success", "reverted"} : Mined(x, result)
    BY <1>2 DEF MineSend, MineApprove, MineSwap, MineReverted
  <2>2. /\ UNCHANGED <<pc, kind, req, quoted, polls>>
        /\ fate' = [fate EXCEPT ![x.owner][x.kind] = result]
    BY <2>1 DEF Mined
  <2>3. \A k \in Kinds : fate[d][k] # "pending" => fate'[d][k] = fate[d][k]
    BY <1>0, <2>2, OwnerKnown DEF TypeOK
  <2>4. "swap" \in Kinds /\ "approve" \in Kinds BY DEF Kinds
  <2>5. fate[d]["approve"] \in Settled => fate'[d]["approve"] = fate[d]["approve"]
    BY <2>3, <2>4 DEF Settled
  <2>6. fate[d]["swap"] = "none" => fate'[d]["swap"] = "none"
    BY <2>3, <2>4
  <2> QED BY <1>0, <2>2, <2>3, <2>5, <2>6 DEF Placed
<1>3. CASE OutsideSwap BY <1>0, <1>3 DEF Placed, OutsideSwap
<1>4. CASE UNCHANGED vars BY <1>0, <1>4 DEF Placed, vars
<1> QED BY <1>1, <1>2, <1>3, <1>4 DEF Next

-----------------------------------------------------------------------------
(* The balance.                                                            *)

\* The balance read stays true until another swap lands.
LEMMA NextFresh == IInv /\ [Next]_vars => Fresh'
<1> SUFFICES ASSUME IInv, [Next]_vars,
                    NEW d \in Callers,
                    kind'[d] \in {"approve", "swap"}, alone'[d],
                    fate'[d]["swap"] \in {"none", "pending"}
             PROVE  tokens' = balance'[d]
    BY DEF Fresh
<1> USE DEF chainVars, nodeVars, callVars, pastVars, Answer, Goto
<1>0. /\ TypeOK /\ Placed(d) /\ "swap" \in Kinds
      /\ \/ kind[d] \notin {"approve", "swap"} \/ ~alone[d]
         \/ fate[d]["swap"] \notin {"none", "pending"} \/ tokens = balance[d]
  BY DEF IInv, Fresh, Kinds
<1>1. ASSUME NEW c \in Callers, Ask(c) \/ CallStep(c) \/ QueryFails(c)
      PROVE  tokens' = balance'[d]
  <2>1. ASSUME UNCHANGED <<tokens, alone, balance>>,
               kind[d] \in {"approve", "swap"}, fate[d]["swap"] \in {"none", "pending"}
        PROVE  tokens' = balance'[d]
    BY <1>0, <2>1
  <2>2. CASE Ask(c)
    <3>1. kind[d] \in {"approve", "swap"}
      BY <1>0, <2>2 DEF TypeOK, Ask
    <3> QED BY <2>1, <2>2, <3>1 DEF Ask
  <2>3. CASE ReadBalance(c)
    <3>1. CASE c = d BY <1>0, <2>3, <3>1 DEF TypeOK, ReadBalance
    <3>2. CASE c # d BY <1>0, <2>3, <3>2 DEF TypeOK, ReadBalance
    <3> QED BY <3>1, <3>2
  <2>4. CASE Estimate(c) BY <2>1, <2>4 DEF Estimate
  <2>5. CASE ReadNonce(c) BY <2>1, <2>5 DEF ReadNonce
  <2>6. CASE Refused(c) BY <2>1, <2>6 DEF Refused
  <2>7. CASE QueryFails(c) BY <2>1, <2>7 DEF QueryFails
  <2>8. CASE Poll(c)
    <3>1. kind[d] \in {"approve", "swap"}
      BY <1>0, <2>8 DEF TypeOK, Poll, Placed
    <3> QED BY <2>1, <2>8, <3>1 DEF Poll
  <2>9. CASE Accepted(c)
    <3> DEFINE x == [owner |-> c, kind |-> kind[c], price |-> Price(c), nonce |-> nonce[c]]
               rivals == {y \in mempool : y.nonce = x.nonce}
    <3>1. /\ pc[c] = "submit" /\ UNCHANGED <<tokens, alone, balance, kind>>
          /\ fate' = [e \in Callers |-> [k \in Kinds |->
               IF e = c /\ k = kind[c] THEN "pending"
               ELSE IF \E y \in rivals : y.owner = e /\ y.kind = k THEN "replaced"
               ELSE fate[e][k]]]
      BY <2>9 DEF Accepted
    <3> HIDE DEF x, rivals
    <3>2. fate'[d]["swap"] \in {"pending", "replaced", fate[d]["swap"]}
          /\ (c # d => fate'[d]["swap"] \in {"replaced", fate[d]["swap"]})
      BY <1>0, <3>1
    <3>3. fate[d]["swap"] \in {"none", "pending"}
      BY <1>0, <3>1, <3>2 DEF Placed
    <3> QED BY <2>1, <3>1, <3>3
  <2> QED BY <1>1, <2>2, <2>3, <2>4, <2>5, <2>6, <2>7, <2>8, <2>9 DEF CallStep
<1>2. ASSUME NEW x \in mempool,
             MineSend(x) \/ MineApprove(x) \/ MineSwap(x) \/ MineReverted(x)
      PROVE  tokens' = balance'[d]
  <2>1. PICK result \in {"success", "reverted"} : Mined(x, result)
    BY <1>2 DEF MineSend, MineApprove, MineSwap, MineReverted
  <2>2. /\ UNCHANGED <<kind, balance>>
        /\ fate' = [fate EXCEPT ![x.owner][x.kind] = result]
    BY <2>1 DEF Mined
  <2>3. ~(x.owner = d /\ x.kind = "swap") /\ fate'[d]["swap"] = fate[d]["swap"]
    BY <1>0, <2>2, OwnerKnown DEF TypeOK
  <2>4. CASE MineSwap(x)
    <3>1. alone' = [e \in Callers |-> e = x.owner /\ alone[e]] /\ x.kind = "swap"
      BY <2>4 DEF MineSwap
    <3>2. d = x.owner
      BY <3>1, Zenon
    <3> QED BY <2>3, <3>1, <3>2
  <2>5. CASE UNCHANGED <<tokens, alone>>
    BY <1>0, <2>2, <2>3, <2>5
  <2> QED BY <1>2, <2>4, <2>5 DEF MineSend, MineApprove, MineReverted
<1>3. CASE OutsideSwap BY <1>0, <1>3 DEF OutsideSwap
<1>4. CASE UNCHANGED vars BY <1>0, <1>4 DEF vars
<1> QED BY <1>1, <1>2, <1>3, <1>4 DEF Next

\* In every reachable state.
LEMMA Invariance == Safety => []IInv
<1>1. Init => IInv BY InitIInv
<1>2. IInv /\ [Next]_vars => IInv'
  BY NextType, NextNumbered, NextOrdered, NextPlaced, NextFresh DEF IInv
<1> QED BY <1>1, <1>2, PTL DEF Safety

-----------------------------------------------------------------------------
(* The theorems.                                                           *)

\* The state of every call, of the node and of the chain is always of its
\* type: no call polls longer than it should, no pool is emptied.
THEOREM TradeTyped == Safety => []TypeOK
<1>1. IInv => TypeOK BY DEF IInv
<1> QED BY <1>1, Invariance, PTL

\* However many calls of the wallet race for nonces, every transaction the
\* node has accepted can be mined.
THEOREM NoGapEver == Safety => []NoGap
<1>1. IInv => NoGap
  <2> SUFFICES ASSUME IInv, NEW x \in mempool, NEW n \in mined .. x.nonce
               PROVE  \E y \in mempool : y.nonce = n
      BY DEF NoGap
  <2>1. Numbered /\ mined \in Nat /\ next \in Nat /\ x.nonce \in Nat
    BY DEF IInv, TypeOK, TxType
  <2>2. n \in mined .. next - 1
    BY <2>1 DEF Numbered
  <2> QED BY <2>1, <2>2 DEF Numbered
<1> QED BY <1>1, Invariance, PTL

\* A sell that needed an approval is pending only after the approval has been
\* mined.
THEOREM ApprovalsFirst == Safety => []ApprovalFirst
<1>1. IInv => ApprovalFirst
  BY DEF IInv, Ordered, ApprovalFirst, Settled
<1> QED BY <1>1, Invariance, PTL

\* The only step in which a swap lands is the one that mines it.
LEMMA LandsMined ==
  ASSUME IInv, Next, NEW c \in Callers, Lands(c)
  PROVE  \E x \in mempool : x.owner = c /\ x.kind = "swap" /\ MineSwap(x)
<1> USE DEF chainVars, nodeVars, callVars, pastVars
<1>0. TypeOK /\ "swap" \in Kinds /\ fate[c]["swap"] = "pending" /\ fate'[c]["swap"] = "success"
  BY DEF IInv, Lands, Kinds
<1>1. ASSUME NEW d \in Callers, Ask(d) \/ CallStep(d) \/ QueryFails(d) PROVE FALSE
  <2>1. CASE Accepted(d)
    <3> DEFINE x == [owner |-> d, kind |-> kind[d], price |-> Price(d), nonce |-> nonce[d]]
               rivals == {y \in mempool : y.nonce = x.nonce}
    <3>1. fate' = [e \in Callers |-> [k \in Kinds |->
               IF e = d /\ k = kind[d] THEN "pending"
               ELSE IF \E y \in rivals : y.owner = e /\ y.kind = k THEN "replaced"
               ELSE fate[e][k]]]
      BY <2>1 DEF Accepted
    <3> HIDE DEF x, rivals
    <3> QED BY <1>0, <3>1
  <2>2. CASE ~Accepted(d)
    <3>1. UNCHANGED fate
      BY <1>1, <2>2
      DEF CallStep, Ask, ReadBalance, Estimate, ReadNonce, Refused, Poll, QueryFails
    <3> QED BY <1>0, <3>1
  <2> QED BY <2>1, <2>2
<1>2. ~OutsideSwap
  BY <1>0 DEF OutsideSwap
<1>3. PICK x \in mempool : MineSend(x) \/ MineApprove(x) \/ MineSwap(x) \/ MineReverted(x)
  BY <1>1, <1>2 DEF Next
<1>4. PICK result \in {"success", "reverted"} : Mined(x, result)
  BY <1>3 DEF MineSend, MineApprove, MineSwap, MineReverted
<1>5. fate' = [fate EXCEPT ![x.owner][x.kind] = result]
  BY <1>4 DEF Mined
<1>6. x.owner = c /\ x.kind = "swap" /\ result = "success"
  BY <1>0, <1>5, OwnerKnown DEF TypeOK
<1>7. ~MineReverted(x)
  <2>1. ASSUME MineReverted(x) PROVE FALSE
    <3>1. Mined(x, "reverted") BY <2>1 DEF MineReverted
    <3>2. fate' = [fate EXCEPT ![x.owner][x.kind] = "reverted"]
      BY <3>1 DEF Mined
    <3> QED BY <1>0, <1>6, <3>2 DEF TypeOK
  <2> QED BY <2>1
<1> QED BY <1>3, <1>6, <1>7 DEF MineSend, MineApprove

\* A sell that lands with no other swap since its balance was read closes the
\* position exactly when it was reported to.
THEOREM PositionTrue == Safety => PositionTrueIfAlone
<1>1. IInv /\ [Next]_vars =>
        [\A c \in Callers :
           Lands(c) /\ req[c].op = "sell" /\ alone[c] => (PositionClosed(c) <=> tokens' = 0)]_vars
  <2> SUFFICES ASSUME IInv, Next, NEW c \in Callers,
                      Lands(c), req[c].op = "sell", alone[c]
               PROVE  PositionClosed(c) <=> tokens' = 0
      BY Zenon
  <2>1. PICK x \in mempool : x.owner = c /\ x.kind = "swap" /\ MineSwap(x)
    BY LandsMined
  <2>2. req[c] \in Requests /\ req[c].amount \in Nat
    BY <2>1, OwnerKnown, EvmTradeAssumption DEF RequestType
  <2>3. kind[c] = "swap" /\ fate[c]["swap"] = "pending"
    BY <2>1 DEF IInv, Ordered
  <2>4. tokens = balance[c] /\ tokens \in Nat
    BY <2>3 DEF IInv, Fresh, TypeOK
  <2>5. Moves(c).tokens = req[c].amount
    BY DEF Moves
  <2>6. tokens >= req[c].amount /\ tokens' = tokens - req[c].amount
    BY <2>1, <2>5 DEF MineSwap, Executes
  <2> QED BY <2>2, <2>4, <2>6 DEF PositionClosed
<1> QED BY <1>1, Invariance, PTL DEF Safety, PositionTrueIfAlone

\* A swap that lands moves at least what its quote, less the slippage, said.
THEOREM PriceKept == Safety => PriceProtected
<1>1. IInv /\ [Next]_vars =>
        [\A c \in Callers : Lands(c) =>
           LET accepted == Quote(c) - (Quote(c) * req[c].slippage) \div Bps
           IN IF req[c].op = "buy" THEN tokens' - tokens >= accepted
              ELSE pool.quote - pool'.quote >= accepted]_vars
  <2> SUFFICES ASSUME IInv, Next, NEW c \in Callers, Lands(c)
               PROVE  IF req[c].op = "buy" THEN tokens' - tokens >= MinAmountOut(c)
                      ELSE pool.quote - pool'.quote >= MinAmountOut(c)
      BY Zenon DEF MinAmountOut
  <2> DEFINE m == Moves(c)
             least == MinAmountOut(c)
  <2>1. PICK x \in mempool : x.owner = c /\ x.kind = "swap" /\ MineSwap(x)
    BY LandsMined
  <2>2. /\ m.weth \in Nat /\ m.tokens \in Nat
    BY <2>1, OwnerKnown, MovesFit DEF IInv, TypeOK
  <2>3. tokens \in Nat /\ pool.quote \in Nat
    BY DEF IInv, TypeOK, PoolType
  <2>4. /\ req[c].op = "buy" => m.tokens >= least /\ tokens' = tokens + m.tokens
        /\ req[c].op # "buy" => m.weth >= least /\ pool'.quote = pool.quote - m.weth
    BY <2>1 DEF MineSwap, Executes
  <2> HIDE DEF m, least
  <2>5. CASE req[c].op = "buy"
    <3>1. tokens' - tokens = m.tokens BY <2>2, <2>3, <2>4, <2>5
    <3> QED BY <2>4, <2>5, <3>1 DEF least
  <2>6. CASE req[c].op # "buy"
    <3>1. pool.quote - pool'.quote = m.weth BY <2>2, <2>3, <2>4, <2>6
    <3> QED BY <2>4, <2>6, <3>1 DEF least
  <2> QED BY <2>5, <2>6
<1> QED BY <1>1, Invariance, PTL DEF Safety, PriceProtected

-----------------------------------------------------------------------------
(* The report.                                                             *)

\* What is known of the swap of c once it has succeeded.
Reported(c) ==
  fate[c]["swap"] = "success" =>
    /\ req[c] \in Requests
    /\ moved[c] \in [weth : Nat, tokens : Nat]
    /\ req[c].op = "buy" => moved[c].weth = req[c].amount - RouterFee(req[c].amount)

MovesKept == DOMAIN moved = Callers /\ \A c \in Callers : Reported(c)

\* No step but the one that mines a swap touches what is known of it.
LEMMA NextReported == IInv /\ MovesKept /\ [Next]_vars => MovesKept'
<1> SUFFICES ASSUME IInv, MovesKept, [Next]_vars PROVE MovesKept'
    OBVIOUS
<1> USE DEF chainVars, nodeVars, callVars, pastVars
<1>0. TypeOK /\ (\A c \in Callers : Placed(c)) /\ "swap" \in Kinds
  BY DEF IInv, Kinds
<1>1. ASSUME UNCHANGED moved,
             \A c \in Callers : fate'[c]["swap"] = "success" =>
               fate[c]["swap"] = "success" /\ req'[c] = req[c]
      PROVE  MovesKept'
  BY <1>1 DEF MovesKept, Reported
<1>2. ASSUME NEW d \in Callers, Ask(d) \/ CallStep(d) \/ QueryFails(d) PROVE MovesKept'
  <2>1. CASE Ask(d)
    <3>1. /\ UNCHANGED <<moved, fate>> /\ pc[d] = "idle"
          /\ \E r \in Requests : req' = [req EXCEPT ![d] = r]
      BY <2>1 DEF Ask
    <3>2. fate[d]["swap"] = "none"
      BY <1>0, <3>1 DEF Placed
    <3>3. \A c \in Callers : c # d => req'[c] = req[c]
      BY <1>0, <3>1 DEF TypeOK
    <3> QED BY <1>1, <3>1, <3>2, <3>3
  <2>2. CASE Accepted(d)
    <3> DEFINE x == [owner |-> d, kind |-> kind[d], price |-> Price(d), nonce |-> nonce[d]]
               rivals == {y \in mempool : y.nonce = x.nonce}
    <3>1. /\ fate' = [e \in Callers |-> [k \in Kinds |->
                 IF e = d /\ k = kind[d] THEN "pending"
                 ELSE IF \E y \in rivals : y.owner = e /\ y.kind = k THEN "replaced"
                 ELSE fate[e][k]]]
          /\ UNCHANGED <<moved, req>>
      BY <2>2 DEF Accepted
    <3> HIDE DEF x, rivals
    <3>2. \A c \in Callers : fate'[c]["swap"] = "success" => fate[c]["swap"] = "success"
      BY <1>0, <3>1
    <3> QED BY <1>1, <3>1, <3>2
  <2>3. CASE ~Ask(d) /\ ~Accepted(d)
    <3>1. UNCHANGED <<moved, fate, req>>
      BY <1>2, <2>3
      DEF CallStep, ReadBalance, Estimate, ReadNonce, Refused, Poll, QueryFails
    <3> QED BY <1>1, <3>1
  <2> QED BY <2>1, <2>2, <2>3
<1>3. ASSUME NEW x \in mempool, MineSend(x) \/ MineApprove(x) \/ MineReverted(x)
      PROVE  MovesKept'
  <2>1. /\ UNCHANGED <<moved, req>>
        /\ \/ x.kind # "swap" /\ \E result : fate' = [fate EXCEPT ![x.owner][x.kind] = result]
           \/ fate' = [fate EXCEPT ![x.owner][x.kind] = "reverted"]
    BY <1>3 DEF MineSend, MineApprove, MineReverted, Mined
  <2>2. x.owner \in Callers /\ x.kind \in Kinds
    BY OwnerKnown
  <2>3. fate \in [Callers -> [Kinds -> Fates]]
    BY <1>0 DEF TypeOK
  <2>4. \A c \in Callers : fate'[c]["swap"] = "success" => fate[c]["swap"] = "success"
    <3>1. CASE x.kind # "swap" /\ \E result : fate' = [fate EXCEPT ![x.owner][x.kind] = result]
      BY <1>0, <2>2, <2>3, <3>1
    <3>2. CASE fate' = [fate EXCEPT ![x.owner][x.kind] = "reverted"]
      BY <1>0, <2>2, <2>3, <3>2
    <3> QED BY <2>1, <3>1, <3>2
  <2> QED BY <1>1, <2>1, <2>4
<1>4. ASSUME NEW x \in mempool, MineSwap(x) PROVE MovesKept'
  <2> DEFINE o == x.owner
             m == Moves(o)
  <2>1. o \in Callers /\ req[o] \in Requests /\ x.kind = "swap"
    BY <1>4, OwnerKnown DEF MineSwap
  <2>2. /\ moved' = [moved EXCEPT ![o] = m] /\ UNCHANGED req
        /\ fate' = [fate EXCEPT ![o]["swap"] = "success"]
    BY <1>4, <2>1 DEF MineSwap, Mined
  <2>3. m \in [weth : Nat, tokens : Nat]
        /\ (req[o].op = "buy" => m.weth = req[o].amount - RouterFee(req[o].amount))
    <3>1. m.weth \in Nat /\ m.tokens \in Nat
      BY <1>0, <2>1, MovesFit DEF TypeOK
    <3> QED BY <3>1 DEF Moves
  <2> HIDE DEF m, o
  <2>4. DOMAIN moved' = Callers /\ moved'[o] = m
    BY <2>1, <2>2 DEF MovesKept
  <2>5. \A c \in Callers : c # o => moved'[c] = moved[c] /\ fate'[c]["swap"] = fate[c]["swap"]
    BY <1>0, <2>1, <2>2 DEF MovesKept, TypeOK
  <2>6. ASSUME NEW c \in Callers PROVE Reported(c)'
    <3>1. CASE c = o
      BY <2>1, <2>2, <2>3, <2>4, <3>1 DEF Reported
    <3>2. CASE c # o
      BY <2>2, <2>5, <3>2 DEF Reported, MovesKept
    <3> QED BY <3>1, <3>2
  <2> QED BY <2>4, <2>6 DEF MovesKept
<1>5. CASE OutsideSwap
  BY <1>1, <1>5 DEF OutsideSwap
<1>6. CASE UNCHANGED vars
  BY <1>1, <1>6 DEF vars
<1> QED BY <1>2, <1>3, <1>4, <1>5, <1>6 DEF Next

\* The first event of each contract among the two of a swap.
LEMMA FirstOfTwo ==
  ASSUME NEW a, NEW b, a.contract \in {"weth", "token"}, b.contract \in {"weth", "token"},
         a.contract # b.contract
  PROVE  FirstOf(<<a, b>>, a.contract) = a /\ FirstOf(<<a, b>>, b.contract) = b
<1> DEFINE s == <<a, b>>
           best(k) == CHOOSE i \in DOMAIN s :
                        s[i].contract = k /\ \A j \in 1 .. i - 1 : s[j].contract # k
<1>1. DOMAIN s = {1, 2} /\ s[1] = a /\ s[2] = b
  OBVIOUS
<1> HIDE DEF s
<1>2. best(a.contract) = 1
  BY <1>1
<1>3. best(b.contract) = 2
  <2>1. \A i \in DOMAIN s : s[i].contract = b.contract <=> i = 2
    BY <1>1
  <2>2. \A j \in 1 .. 2 - 1 : s[j].contract # b.contract
    BY <1>1
  <2> QED BY <1>1, <2>1, <2>2
<1>4. FirstOf(s, a.contract) = s[best(a.contract)] /\ FirstOf(s, b.contract) = s[best(b.contract)]
  BY Zenon DEF FirstOf
<1> QED BY <1>1, <1>2, <1>3, <1>4 DEF s

\* GetTransaction is right about every swap that has succeeded: what it reads
\* off the first events of the receipt is what the swap moved and the router
\* kept.
THEOREM ReportsTrue == Safety => []ReportTrue
<1>1. Init => MovesKept
  BY DEF Init, MovesKept, Reported, Kinds
<1>2. IInv /\ MovesKept => ReportTrue
  <2> SUFFICES ASSUME IInv, MovesKept, NEW c \in Callers, fate[c]["swap"] = "success"
               PROVE  GetTransaction(c) =
                        IF req[c].op = "buy"
                        THEN [token |-> moved[c].tokens, native |-> -req[c].amount,
                              botFee |-> RouterFee(req[c].amount)]
                        ELSE [token |-> -moved[c].tokens,
                              native |-> moved[c].weth - RouterFee(moved[c].weth),
                              botFee |-> RouterFee(moved[c].weth)]
      BY DEF ReportTrue
  <2> DEFINE a == req[c].amount
             w == moved[c].weth
             t == moved[c].tokens
  <2>1. a \in Nat /\ w \in Nat /\ t \in Nat /\ req[c].op \in {"buy", "sell", "send"}
        /\ (req[c].op = "buy" => w = a - RouterFee(a))
    BY EvmTradeAssumption DEF MovesKept, Reported, RequestType
  <2> DEFINE token == FirstOf(Logs(c), "token")
             weth == FirstOf(Logs(c), "weth")
  <2>2. CASE req[c].op = "buy"
    <3> DEFINE p == Log("weth", "router", "pair", w)
               q == Log("token", "pair", "wallet", t)
    <3>1. Logs(c) = <<p, q>>
      BY <2>2 DEF Logs
    <3>2. p.contract = "weth" /\ p.value = w /\ q.contract = "token" /\ q.value = t
          /\ q.from = "pair"
      BY DEF Log
    <3> HIDE DEF p, q
    <3>3. weth = p /\ token = q
      BY <3>1, <3>2, FirstOfTwo
    <3>4. Value(c) = a
      BY <2>2 DEF Value
    <3> HIDE DEF token, weth, a, w, t
    <3>5. (IF Value(c) > 0 THEN Value(c) - weth.value ELSE weth.value \div 100) = RouterFee(a)
          /\ (IF Value(c) > 0 THEN -Value(c)
              ELSE weth.value - RouterFee(a)) = -a
      BY <2>1, <2>2, <3>2, <3>3, <3>4 DEF RouterFee
    <3>6. GetTransaction(c) = [token |-> t, native |-> -a, botFee |-> RouterFee(a)]
      BY <3>2, <3>3, <3>5 DEF GetTransaction, token, weth
    <3> QED BY <2>2, <3>6 DEF a, t
  <2>3. CASE req[c].op # "buy"
    <3> DEFINE p == Log("token", "wallet", "pair", t)
               q == Log("weth", "pair", "router", w)
    <3>1. Logs(c) = <<p, q>>
      BY <2>3 DEF Logs
    <3>2. p.contract = "token" /\ p.value = t /\ p.from = "wallet"
          /\ q.contract = "weth" /\ q.value = w
      BY DEF Log
    <3> HIDE DEF p, q
    <3>3. weth = q /\ token = p
      BY <3>1, <3>2, FirstOfTwo
    <3>4. Value(c) = 0
      BY <2>3 DEF Value
    <3> HIDE DEF token, weth, a, w, t
    <3>5. GetTransaction(c) = [token |-> -t, native |-> w - (w \div 100), botFee |-> w \div 100]
      BY <3>2, <3>3, <3>4 DEF GetTransaction, token, weth
    <3> QED BY <2>3, <3>5 DEF w, t, RouterFee
  <2> QED BY <2>2, <2>3
<1> QED BY <1>1, <1>2, NextReported, Invariance, PTL DEF Safety

-----------------------------------------------------------------------------
(* The refinement.                                                         *)

\* A call sends what it was asked for: a transfer, or a swap and its approval.
Apt ==
  \A c \in Callers :
    /\ pc[c] = "asked" => req[c].op # "send"
    /\ kind[c] # "none" => (kind[c] = "send" <=> req[c].op = "send")
    /\ \A k \in Kinds : fate[c][k] # "none" => (k = "send" <=> req[c].op = "send")

\* No step sends anything but what its call was asked for.
LEMMA NextApt == IInv /\ Apt /\ [Next]_vars => Apt'
<1> SUFFICES ASSUME IInv, Apt, [Next]_vars, NEW d \in Callers
    PROVE  /\ pc'[d] = "asked" => req'[d].op # "send"
           /\ kind'[d] # "none" => (kind'[d] = "send" <=> req'[d].op = "send")
           /\ \A k \in Kinds : fate'[d][k] # "none" => (k = "send" <=> req'[d].op = "send")
    BY DEF Apt
<1> USE DEF chainVars, nodeVars, callVars, pastVars, Answer, Goto
<1>0. /\ TypeOK /\ Placed(d)
      /\ pc[d] = "asked" => req[d].op # "send"
      /\ kind[d] # "none" => (kind[d] = "send" <=> req[d].op = "send")
      /\ \A k \in Kinds : fate[d][k] # "none" => (k = "send" <=> req[d].op = "send")
  BY DEF IInv, Apt
<1>1. ASSUME NEW c \in Callers, Ask(c)
      PROVE  /\ pc'[d] = "asked" => req'[d].op # "send"
             /\ kind'[d] # "none" => (kind'[d] = "send" <=> req'[d].op = "send")
             /\ \A k \in Kinds : fate'[d][k] # "none" => (k = "send" <=> req'[d].op = "send")
  <2>1. CASE c = d
    <3>1. kind[d] = "none" /\ \A k \in Kinds : fate'[d][k] = "none"
      BY <1>0, <1>1, <2>1 DEF Ask, Placed
    <3>2. \/ pc'[d] = "number" /\ req'[d].op = "send" /\ kind'[d] = "send"
          \/ pc'[d] = "asked" /\ req'[d].op # "send" /\ kind'[d] = "none"
      BY <1>0, <1>1, <2>1, <3>1 DEF Ask, TypeOK
    <3> QED BY <3>1, <3>2
  <2>2. CASE c # d
    <3>1. pc'[d] = pc[d] /\ req'[d] = req[d] /\ kind'[d] = kind[d] /\ fate' = fate
      BY <1>0, <1>1, <2>2 DEF Ask, TypeOK
    <3> QED BY <1>0, <3>1
  <2> QED BY <2>1, <2>2
<1>2. ASSUME NEW c \in Callers, CallStep(c) \/ QueryFails(c), ~Accepted(c)
      PROVE  /\ pc'[d] = "asked" => req'[d].op # "send"
             /\ kind'[d] # "none" => (kind'[d] = "send" <=> req'[d].op = "send")
             /\ \A k \in Kinds : fate'[d][k] # "none" => (k = "send" <=> req'[d].op = "send")
  <2>1. req' = req /\ fate' = fate
    BY <1>2 DEF CallStep, ReadBalance, Estimate, ReadNonce, Refused, Poll, QueryFails
  <2>2. pc'[d] = "asked" => pc[d] = "asked"
    BY <1>0, <1>2
    DEF TypeOK, CallStep, ReadBalance, Estimate, ReadNonce, Refused, Poll, QueryFails
  <2>3. \/ kind'[d] = kind[d]
        \/ pc[d] = "asked" /\ kind'[d] \in {"approve", "swap"}
        \/ pc[d] = "watch" /\ kind'[d] = "swap"
    BY <1>0, <1>2
    DEF TypeOK, CallStep, ReadBalance, Estimate, ReadNonce, Refused, Poll, QueryFails
  <2>4. pc[d] = "watch" => kind[d] = "approve"
    BY <1>0 DEF Placed
  <2> QED BY <1>0, <2>1, <2>2, <2>3, <2>4
<1>3. ASSUME NEW c \in Callers, Accepted(c)
      PROVE  /\ pc'[d] = "asked" => req'[d].op # "send"
             /\ kind'[d] # "none" => (kind'[d] = "send" <=> req'[d].op = "send")
             /\ \A k \in Kinds : fate'[d][k] # "none" => (k = "send" <=> req'[d].op = "send")
  <2> DEFINE x == [owner |-> c, kind |-> kind[c], price |-> Price(c), nonce |-> nonce[c]]
             rivals == {y \in mempool : y.nonce = x.nonce}
  <2>1. /\ UNCHANGED <<kind, req>>
        /\ \/ pc' = [pc EXCEPT ![c] = "over"]
           \/ pc' = [pc EXCEPT ![c] = "watch"]
        /\ fate' = [e \in Callers |-> [k \in Kinds |->
             IF e = c /\ k = kind[c] THEN "pending"
             ELSE IF \E y \in rivals : y.owner = e /\ y.kind = k THEN "replaced"
             ELSE fate[e][k]]]
    BY <1>3 DEF Accepted
  <2>2. pc'[d] = "asked" => pc[d] = "asked"
    BY <1>0, <2>1 DEF TypeOK
  <2>3. \A y \in rivals : fate[y.owner][y.kind] = "pending"
    BY DEF IInv, Ordered
  <2> HIDE DEF rivals, x
  <2>4. \A k \in Kinds : fate'[d][k] # "none" => (fate[d][k] # "none" \/ k = kind[d])
    <3> SUFFICES ASSUME NEW k \in Kinds, fate'[d][k] # "none", k # kind[d]
                 PROVE  fate[d][k] # "none"
        OBVIOUS
    <3>1. fate'[d][k] = IF \E y \in rivals : y.owner = d /\ y.kind = k THEN "replaced"
                        ELSE fate[d][k]
      BY <2>1
    <3> QED BY <2>3, <3>1
  <2>5. kind[d] \in Kinds => kind[d] # "none"
    BY DEF Kinds
  <2> QED BY <1>0, <2>1, <2>2, <2>4, <2>5
<1>4. ASSUME NEW x \in mempool,
             MineSend(x) \/ MineApprove(x) \/ MineSwap(x) \/ MineReverted(x)
      PROVE  /\ pc'[d] = "asked" => req'[d].op # "send"
             /\ kind'[d] # "none" => (kind'[d] = "send" <=> req'[d].op = "send")
             /\ \A k \in Kinds : fate'[d][k] # "none" => (k = "send" <=> req'[d].op = "send")
  <2>1. PICK result \in {"success", "reverted"} : Mined(x, result)
    BY <1>4 DEF MineSend, MineApprove, MineSwap, MineReverted
  <2>2. /\ UNCHANGED <<pc, kind, req>>
        /\ fate' = [fate EXCEPT ![x.owner][x.kind] = result]
    BY <2>1 DEF Mined
  <2>3. \A k \in Kinds : fate'[d][k] # "none" => fate[d][k] # "none"
    BY <1>0, <2>2, OwnerKnown DEF TypeOK
  <2> QED BY <1>0, <2>2, <2>3
<1>5. CASE OutsideSwap \/ UNCHANGED vars
  <2>1. UNCHANGED <<pc, kind, req, fate>>
    BY <1>5 DEF OutsideSwap, vars
  <2> QED BY <1>0, <2>1
<1> QED BY <1>1, <1>2, <1>3, <1>4, <1>5 DEF Next, CallStep

\* A call's own transaction, and whether it has been sent.
LEMMA MainKnown ==
  ASSUME IInv, Apt, NEW c \in Callers
  PROVE  /\ Main(c) \in Kinds /\ Main(c) # "approve"
         /\ pc[c] \notin {"idle", "over"} => fate[c][Main(c)] = "none"
         /\ pc[c] \in {"estimate", "number", "submit"} /\ kind[c] # "approve" => kind[c] = Main(c)
         /\ \A k \in Kinds : fate[c][k] # "none" => pc[c] # "idle" /\ k \in {"approve", Main(c)}
<1>1. Placed(c) /\ TypeOK
  BY DEF IInv
<1>2. /\ pc[c] = "asked" => req[c].op # "send"
      /\ kind[c] # "none" => (kind[c] = "send" <=> req[c].op = "send")
      /\ \A k \in Kinds : fate[c][k] # "none" => (k = "send" <=> req[c].op = "send")
  BY DEF Apt
<1>3. Main(c) \in Kinds /\ Main(c) # "approve"
  BY DEF Main, Kinds
<1>4. pc[c] \in {"estimate", "number", "submit"} /\ kind[c] # "approve" => kind[c] = Main(c)
  BY <1>1, <1>2 DEF Main, Placed, Kinds
<1>5. \A k \in Kinds : fate[c][k] # "none" => pc[c] # "idle" /\ k \in {"approve", Main(c)}
  BY <1>1, <1>2 DEF Main, Placed, Kinds
<1>6. pc[c] \notin {"idle", "over"} => fate[c][Main(c)] = "none"
  <2>1. CASE pc[c] = "asked"
    BY <1>1, <1>3, <2>1 DEF Placed
  <2>2. CASE pc[c] \in {"estimate", "number", "submit"}
    <3>1. kind[c] = "send" => Main(c) = kind[c]
      BY <1>2 DEF Main
    <3>2. kind[c] # "send" => Main(c) = "swap"
      BY <1>1, <1>2, <2>2 DEF Main, Placed, Kinds
    <3> QED BY <1>1, <2>2, <3>1, <3>2 DEF Placed
  <2>3. CASE pc[c] = "watch"
    <3>1. Main(c) = "swap"
      BY <1>1, <1>2, <2>3 DEF Main, Placed
    <3> QED BY <1>1, <2>3, <3>1 DEF Placed
  <2> QED BY <1>1, <2>1, <2>2, <2>3 DEF TypeOK
<1> QED BY <1>3, <1>4, <1>5, <1>6

\* No call has been made yet, and no order placed.
LEMMA InitOrder == Init => Abstract!Init
BY EvmTradeAssumption
   DEF Init, OrderTerms, OrderStage, OrderAnswer, OrderTold, Nothing,
       Abstract!Init, Abstract!NoTerms

\* An order's terms stay as long as its call is not asked anew.
LEMMA TermsKept ==
  ASSUME req' = req, \A c \in Callers : pc[c] = "idle" <=> pc'[c] = "idle"
  PROVE  OrderTerms' = OrderTerms
BY DEF OrderTerms

\* A step of call c that sends nothing.
LEMMA CallMoves ==
  ASSUME IInv, Apt, NEW c \in Callers, Ask(c) \/ CallStep(c) \/ QueryFails(c), ~Accepted(c)
  PROVE  Abstract!Next \/ UNCHANGED Abstract!vars
<1> USE DEF chainVars, nodeVars, callVars, pastVars, Answer, Goto
<1>1. TypeOK /\ Placed(c) BY DEF IInv
<1>2. /\ tokens' = tokens /\ fate' = fate /\ OrderTold' = OrderTold
      /\ \A d \in Callers : d # c => pc'[d] = pc[d] /\ req'[d] = req[d] /\ reply'[d] = reply[d]
  <2>1. OrderTold' = OrderTold BY DEF OrderTold
  <2> QED BY <1>1, <2>1 DEF TypeOK, CallStep, Ask, ReadBalance, Estimate, ReadNonce,
                            Refused, Poll, QueryFails
<1>3. CASE Ask(c)
  <2>1. PICK r \in Requests : req' = [req EXCEPT ![c] = r]
    BY <1>3 DEF Ask
  <2>2. /\ pc[c] = "idle" /\ pc'[c] \in {"number", "asked"} /\ req'[c] = r /\ reply' = reply
        /\ \A k \in Kinds : fate[c][k] = "none"
    BY <1>1, <1>3, <2>1 DEF Ask, TypeOK, Placed
  <2>3. \A d \in Callers : d # c => Main(d)' = Main(d)
    BY <1>2 DEF Main
  <2>4. OrderStage' = [OrderStage EXCEPT ![c] = "open"]
    <3>1. Main(c)' \in Kinds
      BY DEF Main, Kinds
    <3> QED BY <1>2, <2>2, <2>3, <3>1 DEF OrderStage
  <2>5. OrderTerms' = [OrderTerms EXCEPT ![c] = TermsOf(r)]
    BY <1>2, <2>2 DEF OrderTerms
  <2>6. OrderAnswer' = OrderAnswer /\ OrderStage[c] = "idle"
    BY <2>2 DEF OrderAnswer, OrderStage
  <2>7. Abstract!Place(c)
    BY <1>2, <2>4, <2>5, <2>6 DEF Abstract!Place
  <2> QED BY <2>7 DEF Abstract!Next
<1>4. CASE ~Ask(c)
  <2>1. /\ req' = req /\ pc[c] \notin {"idle", "over"}
        /\ \/ pc'[c] \notin {"idle", "over"} /\ reply' = reply
           \/ pc'[c] = "over" /\ reply'[c] \in {"error", "ErrTransactionInvalid"}
    BY <1>1, <1>4
    DEF TypeOK, CallStep, ReadBalance, Estimate, ReadNonce, Refused, Poll, QueryFails
  <2>2. /\ \A d \in Callers : Main(d)' = Main(d)
        /\ OrderTerms' = OrderTerms
    BY <1>2, <2>1, TermsKept DEF Main
  <2>3. fate[c][Main(c)] = "none" /\ OrderStage[c] = "open"
    BY <2>1, MainKnown DEF OrderStage
  <2>4. CASE pc'[c] \notin {"idle", "over"} /\ reply' = reply
    <3>1. OrderStage' = OrderStage
      BY <1>2, <2>1, <2>2, <2>3, <2>4 DEF OrderStage
    <3>2. OrderAnswer' = OrderAnswer
      BY <2>4 DEF OrderAnswer
    <3> QED BY <1>2, <2>2, <3>1, <3>2 DEF Abstract!vars
  <2>5. CASE pc'[c] = "over" /\ reply'[c] \in {"error", "ErrTransactionInvalid"}
    <3>1. Abstract!AllVoid({}) = OrderStage
      BY DEF OrderStage, Abstract!AllVoid
    <3>2. OrderStage' = [OrderStage EXCEPT ![c] = "refused"]
      BY <1>2, <2>2, <2>3, <2>5 DEF OrderStage
    <3>3. OrderAnswer' = [OrderAnswer EXCEPT ![c] = "error"]
      BY <1>2, <2>5 DEF OrderAnswer
    <3>4. Abstract!Refuse(c)
      BY <1>2, <2>2, <2>3, <3>1, <3>2, <3>3 DEF Abstract!Refuse
    <3> QED BY <3>4 DEF Abstract!Next
  <2> QED BY <2>1, <2>4, <2>5
<1> QED BY <1>3, <1>4

\* The node accepts a transaction of call c: its order is sent, unless it was
\* only an approval, and orders whose place it takes are void.
LEMMA AcceptedMoves ==
  ASSUME IInv, Apt, NEW c \in Callers, Accepted(c)
  PROVE  Abstract!Next \/ UNCHANGED Abstract!vars
<1> USE DEF chainVars, nodeVars, callVars, pastVars, Answer, Goto
<1> DEFINE x == [owner |-> c, kind |-> kind[c], price |-> Price(c), nonce |-> nonce[c]]
           rivals == {y \in mempool : y.nonce = x.nonce}
           lost == {d \in Callers : \E y \in rivals : y.owner = d /\ y.kind = Main(d)}
<1>1. TypeOK /\ Placed(c) BY DEF IInv
<1>2. /\ pc[c] = "submit" /\ req' = req /\ tokens' = tokens
      /\ fate' = [e \in Callers |-> [k \in Kinds |->
           IF e = c /\ k = kind[c] THEN "pending"
           ELSE IF \E y \in rivals : y.owner = e /\ y.kind = k THEN "replaced"
           ELSE fate[e][k]]]
      /\ \/ pc' = [pc EXCEPT ![c] = "over"] /\ reply' = [reply EXCEPT ![c] = "error"]
         \/ kind[c] = "approve" /\ pc' = [pc EXCEPT ![c] = "watch"] /\ reply' = reply
         \/ /\ kind[c] # "approve" /\ pc' = [pc EXCEPT ![c] = "over"]
            /\ reply' = [reply EXCEPT ![c] = "sent"]
  BY DEF Accepted
<1>3. \A y \in rivals : y.owner \in Callers /\ fate[y.owner][y.kind] = "pending"
  BY OwnerKnown
<1>4. fate[c][Main(c)] = "none" /\ OrderStage[c] = "open" /\ Main(c) \in Kinds
        /\ Main(c) # "approve" /\ (kind[c] # "approve" => kind[c] = Main(c))
  BY <1>2, MainKnown DEF OrderStage
<1>5. \A d \in Callers : Main(d)' = Main(d) /\ Main(d) \in Kinds
  BY <1>2, MainKnown DEF Main
<1> HIDE DEF rivals, x
<1>6. \A d \in lost : fate[d][Main(d)] = "pending" /\ d \in Callers
  BY <1>3
<1>7. lost \in SUBSET Abstract!Sent /\ c \notin lost
  <2>1. \A d \in lost : OrderStage[d] = "sent"
    <3> SUFFICES ASSUME NEW d \in lost PROVE OrderStage[d] = "sent"
        OBVIOUS
    <3>1. d \in Callers /\ fate[d][Main(d)] = "pending"
      BY <1>6
    <3>2. pc[d] # "idle"
      BY <1>5, <3>1, MainKnown
    <3> HIDE DEF lost
    <3> QED BY <3>1, <3>2 DEF OrderStage
  <2>2. c \notin lost
    BY <1>4, <1>6
  <2> HIDE DEF lost
  <2> QED BY <1>6, <2>1, <2>2 DEF Abstract!Sent
<1>8. \A d \in Callers : d # c =>
        fate'[d][Main(d)] = IF d \in lost THEN "replaced" ELSE fate[d][Main(d)]
  BY <1>2, <1>5
<1>9. fate'[c][Main(c)] = IF kind[c] # "approve" THEN "pending" ELSE "none"
  <2>1. CASE kind[c] # "approve"
    BY <1>2, <1>4, <2>1
  <2>2. CASE kind[c] = "approve"
    <3>1. ~(\E y \in rivals : y.owner = c /\ y.kind = Main(c))
      BY <1>3, <1>4
    <3> QED BY <1>2, <1>4, <2>2, <3>1
  <2> QED BY <2>1, <2>2
<1> HIDE DEF lost
<1>10. OrderStage' = [Abstract!AllVoid(lost) EXCEPT ![c] =
         IF kind[c] # "approve" THEN "sent" ELSE IF pc'[c] = "over" THEN "refused" ELSE "open"]
  <2>1. \A d \in Callers : d # c =>
          OrderStage'[d] = IF d \in lost THEN "void" ELSE OrderStage[d]
    <3> SUFFICES ASSUME NEW d \in Callers, d # c
                 PROVE  OrderStage'[d] = IF d \in lost THEN "void" ELSE OrderStage[d]
        OBVIOUS
    <3>1. pc'[d] = pc[d]
      BY <1>1, <1>2 DEF TypeOK
    <3>2. d \in lost => pc[d] # "idle"
      BY <1>5, <1>6, MainKnown
    <3> QED BY <1>5, <1>8, <3>1, <3>2 DEF OrderStage
  <2>2. OrderStage'[c] = IF kind[c] # "approve" THEN "sent"
                         ELSE IF pc'[c] = "over" THEN "refused" ELSE "open"
    <3>1. pc'[c] \in {"over", "watch"}
      BY <1>1, <1>2 DEF TypeOK
    <3> QED BY <1>5, <1>9, <3>1 DEF OrderStage
  <2>3. DOMAIN OrderStage' = Callers /\ OrderStage' = [d \in Callers |-> OrderStage'[d]]
    BY DEF OrderStage
  <2> QED BY <2>1, <2>2, <2>3 DEF Abstract!AllVoid
<1>11. OrderTerms' = OrderTerms /\ OrderTold' = OrderTold
  <2>1. \A d \in Callers : pc[d] = "idle" <=> pc'[d] = "idle"
    BY <1>1, <1>2 DEF TypeOK
  <2> QED BY <1>2, <2>1, TermsKept DEF OrderTold
<1>12. CASE kind[c] = "approve" /\ pc' = [pc EXCEPT ![c] = "watch"] /\ reply' = reply
  <2>1. pc'[c] = "watch" BY <1>1, <1>12 DEF TypeOK
  <2>2. OrderStage' = Abstract!AllVoid(lost)
    BY <1>4, <1>7, <1>10, <1>12, <2>1 DEF Abstract!AllVoid
  <2>3. OrderAnswer' = OrderAnswer
    BY <1>12 DEF OrderAnswer
  <2>4. Abstract!Lose(lost)
    BY <1>2, <1>11, <2>2, <2>3 DEF Abstract!Lose
  <2> QED BY <1>7, <2>4 DEF Abstract!Next
<1>13. CASE pc' = [pc EXCEPT ![c] = "over"] /\ reply' = [reply EXCEPT ![c] = "error"]
  <2>1. pc'[c] = "over" BY <1>1, <1>13 DEF TypeOK
  <2>2. OrderAnswer' = [OrderAnswer EXCEPT ![c] = "error"]
    BY <1>1, <1>13 DEF OrderAnswer, TypeOK
  <2>3. Abstract!Submit(c) \/ Abstract!Refuse(c)
    BY <1>2, <1>4, <1>7, <1>10, <1>11, <2>1, <2>2 DEF Abstract!Submit, Abstract!Refuse
  <2> QED BY <2>3 DEF Abstract!Next
<1>14. CASE kind[c] # "approve" /\ reply' = [reply EXCEPT ![c] = "sent"]
  <2>1. OrderAnswer' = [OrderAnswer EXCEPT ![c] = "ok"]
    BY <1>1, <1>14 DEF OrderAnswer, TypeOK
  <2>2. Abstract!Submit(c)
    BY <1>2, <1>4, <1>7, <1>10, <1>11, <1>14, <2>1 DEF Abstract!Submit
  <2> QED BY <2>2 DEF Abstract!Next
<1> QED BY <1>2, <1>12, <1>13, <1>14

\* A transaction is mined: the order it is of is filled, or void.
LEMMA MinedMoves ==
  ASSUME IInv, Apt, NEW x \in mempool,
         MineSend(x) \/ MineApprove(x) \/ MineSwap(x) \/ MineReverted(x)
  PROVE  Abstract!Next \/ UNCHANGED Abstract!vars
<1> USE DEF chainVars, nodeVars, callVars, pastVars
<1> DEFINE c == x.owner
<1>1. TypeOK BY DEF IInv
<1>2. /\ c \in Callers /\ x.kind \in Kinds /\ fate[c][x.kind] = "pending" /\ pc[c] # "idle"
      /\ req[c] \in Requests
  BY OwnerKnown
<1>3. Main(c) \in Kinds /\ Main(c) # "approve" /\ x.kind \in {"approve", Main(c)}
  BY <1>2, MainKnown
<1>4. PICK result \in {"success", "reverted"} : Mined(x, result)
  BY DEF MineSend, MineApprove, MineSwap, MineReverted
<1>5. /\ UNCHANGED <<pc, req, reply>>
      /\ fate' = [fate EXCEPT ![c][x.kind] = result]
  BY <1>4 DEF Mined
<1> HIDE DEF c
<1>6. OrderTerms' = OrderTerms /\ OrderAnswer' = OrderAnswer /\ OrderTold' = OrderTold
  BY <1>5 DEF OrderTerms, OrderAnswer, OrderTold
<1>7. /\ \A d \in Callers : Main(d)' = Main(d) /\ Main(d) \in Kinds
      /\ \A d \in Callers : d # c => fate'[d] = fate[d]
      /\ \A k \in Kinds : fate'[c][k] = IF k = x.kind THEN result ELSE fate[c][k]
  BY <1>1, <1>2, <1>5, MainKnown DEF TypeOK, Main
<1>8. CASE x.kind = "approve"
  <2>1. OrderStage' = OrderStage
    BY <1>3, <1>5, <1>7, <1>8 DEF OrderStage
  <2>2. tokens' = tokens
    BY <1>8 DEF MineSend, MineApprove, MineSwap, MineReverted
  <2> QED BY <1>6, <2>1, <2>2 DEF Abstract!vars
<1>9. CASE x.kind # "approve"
  <2>1. x.kind = Main(c) /\ OrderStage[c] = "sent"
    BY <1>2, <1>3, <1>9 DEF OrderStage
  <2>2. OrderStage' = [OrderStage EXCEPT ![c] = IF result = "success" THEN "filled" ELSE "void"]
    BY <1>2, <1>5, <1>7, <2>1 DEF OrderStage
  <2>3. CASE result = "reverted"
    <3>1. UNCHANGED tokens
      <4>1. fate'[c][x.kind] = "reverted"
        BY <1>7, <1>2, <2>3
      <4>2. ~MineSwap(x)
        <5>1. MineSwap(x) => fate' = [fate EXCEPT ![x.owner][x.kind] = "success"]
          BY DEF MineSwap, Mined
        <5>2. MineSwap(x) => fate'[c][x.kind] = "success"
          BY <1>1, <1>2, <5>1 DEF c, TypeOK
        <5> QED BY <4>1, <5>2
      <4> QED BY <4>2 DEF MineSend, MineApprove, MineReverted
    <3>2. {c} \in SUBSET Abstract!Sent /\ OrderStage' = Abstract!AllVoid({c})
      BY <1>2, <2>1, <2>2, <2>3 DEF Abstract!Sent, Abstract!AllVoid, OrderStage
    <3>3. Abstract!Lose({c})
      BY <1>6, <3>1, <3>2 DEF Abstract!Lose
    <3> QED BY <3>2, <3>3 DEF Abstract!Next
  <2>4. CASE result = "success"
    <3>1. MineSend(x) \/ MineSwap(x)
      <4>1. fate'[c][x.kind] = "success"
        BY <1>7, <1>2, <2>4
      <4>2. ~MineReverted(x)
        <5>1. MineReverted(x) => fate' = [fate EXCEPT ![x.owner][x.kind] = "reverted"]
          BY DEF MineReverted, Mined
        <5>2. MineReverted(x) => fate'[c][x.kind] = "reverted"
          BY <1>1, <1>2, <5>1 DEF c, TypeOK
        <5> QED BY <4>1, <5>2
      <4> QED BY <1>9, <4>2 DEF MineApprove
    <3>2. OrderTerms[c] = TermsOf(req[c]) /\ req[c] \in RequestType
      BY <1>2, EvmTradeAssumption DEF OrderTerms
    <3>3. tokens' \in Nat /\ Abstract!Effect(TermsOf(req[c]), tokens, tokens')
      <4>1. CASE MineSend(x)
        <5>1. x.kind = "send" /\ tokens' = tokens /\ tokens \in Nat
          BY <1>1, <4>1 DEF MineSend, TypeOK
        <5>2. req[c].op = "send"
          BY <2>1, <5>1 DEF Main
        <5> QED BY <5>1, <5>2 DEF Abstract!Effect, TermsOf
      <4>2. CASE MineSwap(x)
        <5>1. /\ x.kind = "swap" /\ Executes(c)
              /\ tokens' = IF req[c].op = "buy" THEN tokens + Moves(c).tokens
                           ELSE tokens - Moves(c).tokens
          BY <4>2 DEF MineSwap, c
        <5>2. /\ req[c].op # "send" /\ req[c].op \in {"buy", "sell", "send"}
              /\ req[c].amount \in Nat /\ tokens \in Nat /\ pool \in PoolType
          BY <1>1, <2>1, <3>2, <5>1 DEF Main, RequestType, TypeOK
        <5>3. /\ Moves(c).tokens \in Nat
              /\ req[c].op # "buy" => Moves(c).tokens = req[c].amount
          BY <1>2, <5>2, MovesFit
        <5>4. req[c].op # "buy" => tokens >= req[c].amount
          BY <5>1 DEF Executes
        <5>5. CASE req[c].op = "buy"
          BY <5>1, <5>2, <5>3, <5>5 DEF Abstract!Effect, TermsOf
        <5>6. CASE req[c].op = "sell"
          BY <5>1, <5>2, <5>3, <5>4, <5>6 DEF Abstract!Effect, TermsOf
        <5> QED BY <5>2, <5>5, <5>6
      <4> QED BY <3>1, <4>1, <4>2
    <3>4. Abstract!Fill(c)
      BY <1>6, <2>1, <2>2, <2>4, <3>2, <3>3 DEF Abstract!Fill
    <3> QED BY <1>2, <3>4 DEF Abstract!Next
  <2> QED BY <2>3, <2>4
<1> QED BY <1>8, <1>9

\* Every step of the calls, the node and the chain is a step of the abstract
\* orders, or none.
LEMMA NextOrder == IInv /\ Apt /\ [Next]_vars => [Abstract!Next]_Abstract!vars
<1> SUFFICES ASSUME IInv, Apt, [Next]_vars PROVE [Abstract!Next]_Abstract!vars
    OBVIOUS
<1>1. CASE OutsideSwap \/ UNCHANGED vars
  <2>1. UNCHANGED <<pc, req, fate, reply, tokens>>
    BY <1>1 DEF OutsideSwap, vars, chainVars, nodeVars, callVars, pastVars
  <2>2. \A d \in Callers : Main(d)' = Main(d)
    BY <2>1 DEF Main
  <2>3. UNCHANGED Abstract!vars
    BY <2>1, <2>2 DEF Abstract!vars, OrderTerms, OrderStage, OrderAnswer, OrderTold
  <2> QED BY <2>3
<1>2. ASSUME NEW c \in Callers, Ask(c) \/ CallStep(c) \/ QueryFails(c)
      PROVE  [Abstract!Next]_Abstract!vars
  BY <1>2, CallMoves, AcceptedMoves
<1>3. ASSUME NEW x \in mempool,
             MineSend(x) \/ MineApprove(x) \/ MineSwap(x) \/ MineReverted(x)
      PROVE  [Abstract!Next]_Abstract!vars
  BY <1>3, MinedMoves
<1> QED BY <1>1, <1>2, <1>3 DEF Next

\* Every call is an order that takes effect once and as a whole, or never,
\* however the calls race for nonces, replace each other and lose answers; the
\* wallet's tokens change in no other way.
THEOREM CallsAreOrders == Safety => ImplementsOrder
<1>1. Init => Apt
  BY DEF Init, Apt, Kinds
<1> QED BY <1>1, InitOrder, NextApt, NextOrder, Invariance, PTL
        DEF Safety, ImplementsOrder, Abstract!Safety

\* No call is answered as sent whose own transaction, and not just the approval
\* before it, has not been accepted by the node; nor is an order forgotten
\* while its answer stands.
THEOREM CallsHonest == Safety => []Abstract!Honest
<1>1. /\ DOMAIN OrderStage = Callers /\ DOMAIN OrderAnswer = Callers
      /\ DOMAIN OrderTold = Callers
  BY DEF OrderStage, OrderAnswer, OrderTold
<1>2. Abstract!Init => Abstract!Honest
  BY DEF Abstract!Init, Abstract!Honest
<1>3. Abstract!Honest /\ [Abstract!Next]_Abstract!vars => Abstract!Honest'
  <2> SUFFICES ASSUME Abstract!Honest, [Abstract!Next]_Abstract!vars PROVE Abstract!Honest'
      OBVIOUS
  <2> USE DEF Abstract!Honest
  <2>1. ASSUME NEW lost \in SUBSET Abstract!Sent
        PROVE  \A c \in Callers :
                 /\ Abstract!AllVoid(lost)[c] \in {"void", OrderStage[c]}
                 /\ OrderStage[c] # "sent" => Abstract!AllVoid(lost)[c] = OrderStage[c]
    BY DEF Abstract!Sent, Abstract!AllVoid
  <2>2. CASE \E lost \in SUBSET Abstract!Sent : Abstract!Lose(lost)
    <3>1. PICK lost \in SUBSET Abstract!Sent :
            /\ OrderStage' = Abstract!AllVoid(lost)
            /\ OrderAnswer' = OrderAnswer /\ OrderTold' = OrderTold
      BY <2>2 DEF Abstract!Lose
    <3> QED BY <2>1, <3>1
  <2>3. ASSUME NEW c \in Callers, Abstract!Refuse(c) \/ Abstract!Submit(c)
        PROVE  Abstract!Honest'
    <3>1. PICK lost \in SUBSET Abstract!Sent, s \in {"refused", "sent"} :
            /\ OrderStage' = [Abstract!AllVoid(lost) EXCEPT ![c] = s]
            /\ s = "refused" => OrderAnswer'[c] = "error"
      BY <1>1, <2>3 DEF Abstract!Refuse, Abstract!Submit
    <3>2. /\ OrderStage[c] = "open" /\ OrderTold' = OrderTold
          /\ \A d \in Callers : d # c => OrderAnswer'[d] = OrderAnswer[d]
      BY <1>1, <2>3 DEF Abstract!Refuse, Abstract!Submit
    <3>3. DOMAIN Abstract!AllVoid(lost) = Callers
      BY DEF Abstract!AllVoid
    <3>4. /\ OrderStage'[c] = s
          /\ \A d \in Callers : d # c => OrderStage'[d] = Abstract!AllVoid(lost)[d]
      BY <3>1, <3>3
    <3> QED BY <2>1, <3>1, <3>2, <3>4
  <2>4. ASSUME NEW c \in Callers,
               Abstract!Place(c) \/ Abstract!Fill(c) \/ Abstract!Inquire(c) \/ Abstract!Retire(c)
        PROVE  Abstract!Honest'
    <3>1. CASE Abstract!Place(c) BY <1>1, <3>1 DEF Abstract!Place
    <3>2. CASE Abstract!Fill(c) BY <1>1, <3>2 DEF Abstract!Fill
    <3>3. CASE Abstract!Inquire(c) BY <1>1, <3>3 DEF Abstract!Inquire, Abstract!Tellable
    <3>4. CASE Abstract!Retire(c) BY <1>1, <3>4 DEF Abstract!Retire
    <3> QED BY <2>4, <3>1, <3>2, <3>3, <3>4
  <2>5. CASE UNCHANGED Abstract!vars
    BY <2>5 DEF Abstract!vars
  <2> QED BY <2>2, <2>3, <2>4, <2>5 DEF Abstract!Next
<1> QED BY <1>2, <1>3, CallsAreOrders, PTL DEF ImplementsOrder, Abstract!Safety
=============================================================================
