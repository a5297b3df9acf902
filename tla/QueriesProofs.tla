----------------------------- MODULE QueriesProofs ---------------------------
(***************************************************************************)
(* Proofs about the components around the trades: ApiCache, EvmPools,      *)
(* Transfers, Watching and SolPools, for every value of their constants    *)
(* but the recipient limit, which is what the code sets it to.             *)
(***************************************************************************)
EXTENDS SolPools, Watching, ApiCache, EvmPools, Transfers, TLAPS,
        FiniteSetTheorems

(* ApiCache. *)

\* The answers that may be in hand or in the cache.
Answers == [query : Queries, age : Nat]

\* What makes an answer the right one: an entry lies under the key of its
\* query, and is older than its Set by the transit time at most.
CacheInv ==
  /\ entry \in [Keys -> [answer : Answers \union {NoAnswer}, stored : Nat]]
  /\ query \in [Fetchers -> Queries \union {NoAnswer.query}]
  /\ got \in [Fetchers -> Answers \union {NoAnswer}]
  /\ fetch \in [Fetchers -> {"idle", "looking", "asking", "storing"}]
  /\ answered \in [Fetchers -> Answers \union {NoAnswer}]
  /\ \A k \in Keys : entry[k] # Empty =>
       /\ entry[k].answer \in Answers
       /\ Key(entry[k].answer.query) = k
       /\ entry[k].stored < MaxDuration
       /\ entry[k].answer.age <= entry[k].stored + MaxTransit
  /\ \A f \in Fetchers :
       /\ fetch[f] # "idle" => query[f] \in Queries
       /\ fetch[f] = "storing" =>
            got[f] \in Answers /\ got[f].query = query[f] /\ got[f].age <= MaxTransit

LEMMA CacheInvInit == CacheInit => CacheInv
BY CacheAssumption DEF CacheInit, CacheInv, Empty, Answers

LEMMA CacheInvNext == CacheInv /\ [CacheNext]_cacheVars => CacheInv'
<1> SUFFICES ASSUME CacheInv, [CacheNext]_cacheVars PROVE CacheInv'
    OBVIOUS
<1> USE CacheAssumption DEF CacheInv
<1>1. CASE CacheTick
  BY <1>1 DEF CacheTick, Aged, Cap, Empty, Answers
<1>2. ASSUME NEW k \in Keys, Evict(k) PROVE CacheInv'
  BY <1>2 DEF Evict, Empty
<1>3. ASSUME NEW f \in Fetchers, NEW q \in Queries, Request(f, q) PROVE CacheInv'
  BY <1>3 DEF Request
<1>4. ASSUME NEW f \in Fetchers, Hit(f) PROVE CacheInv'
  BY <1>4 DEF Hit, ReturnAnswer, Keys
<1>5. ASSUME NEW f \in Fetchers, Miss(f) PROVE CacheInv'
  BY <1>5 DEF Miss
<1>6. ASSUME NEW f \in Fetchers, Served(f) PROVE CacheInv'
  BY <1>6 DEF Served, Answers
<1>7. ASSUME NEW f \in Fetchers, ServiceFails(f) PROVE CacheInv'
  BY <1>7 DEF ServiceFails, ReturnAnswer
<1>8. ASSUME NEW f \in Fetchers, Store(f) PROVE CacheInv'
  <2>1. Key(query[f]) \in Keys
    BY <1>8 DEF Store, Keys
  <2>2. \A k \in Keys : entry'[k] # Empty =>
          /\ entry'[k].answer \in Answers
          /\ Key(entry'[k].answer.query) = k
          /\ entry'[k].stored < MaxDuration
          /\ entry'[k].answer.age <= entry'[k].stored + MaxTransit
    BY <1>8, <2>1 DEF Store, Answers
  <2>3. entry' \in [Keys -> [answer : Answers \union {NoAnswer}, stored : Nat]]
    BY <1>8, <2>1 DEF Store
  <2> QED BY <1>8, <2>2, <2>3 DEF Store, ReturnAnswer, Key, Keys, Empty
<1>9. CASE UNCHANGED cacheVars
  BY <1>9 DEF cacheVars
<1> QED BY <1>1, <1>2, <1>3, <1>4, <1>5, <1>6, <1>7, <1>8, <1>9 DEF CacheNext

\* Whatever any number of callers fetch and store under whatever keys, and
\* whatever the cache drops: an answer handed out is to the caller's query, and
\* not older than an entry may live and an answer may travel.
THEOREM AnswersRight == CacheSpec => CachedAnswerRight
<1>1. CacheInv /\ [CacheNext]_cacheVars =>
        [\A f \in Fetchers :
           fetch[f] # "idle" /\ fetch'[f] = "idle" /\ answered'[f] # NoAnswer =>
             /\ answered'[f].query = query[f]
             /\ answered'[f].age < MaxDuration + MaxTransit]_cacheVars
  <2> SUFFICES ASSUME CacheInv, CacheNext, NEW f \in Fetchers,
                      fetch[f] # "idle", fetch'[f] = "idle", answered'[f] # NoAnswer
               PROVE  /\ answered'[f].query = query[f]
                      /\ answered'[f].age < MaxDuration + MaxTransit
      BY Zenon DEF cacheVars
  <2> USE CacheAssumption DEF CacheInv
  <2>1. CASE Hit(f)
    <3>1. Key(query[f]) \in Keys /\ query[f] \in Queries
      BY <2>1 DEF Hit, Keys
    <3>2. answered'[f] = entry[Key(query[f])].answer
      BY <2>1 DEF Hit, ReturnAnswer
    <3> QED BY <2>1, <3>1, <3>2 DEF Hit, Key, Queries, Answers
  <2>2. CASE Store(f)
    BY <2>2 DEF Store, ReturnAnswer, Answers
  <2>3. CASE ServiceFails(f)
    BY <2>3 DEF ServiceFails, ReturnAnswer
  <2>4. ~CacheTick /\ (\A k \in Keys : ~Evict(k))
    BY DEF CacheTick, Evict
  <2>5. \A g \in Fetchers : (\A q \in Queries : ~Request(g, q)) /\ ~Miss(g) /\ ~Served(g)
    BY DEF Request, Miss, Served
  <2>6. \A g \in Fetchers : g # f => ~Hit(g) /\ ~Store(g) /\ ~ServiceFails(g)
    BY DEF Hit, Store, ServiceFails, ReturnAnswer
  <2> QED BY <2>1, <2>2, <2>3, <2>4, <2>5, <2>6 DEF CacheNext
<1> QED BY <1>1, CacheInvInit, CacheInvNext, PTL DEF CacheSpec, CachedAnswerRight

-----------------------------------------------------------------------------
(* EvmPools. *)

\* A pair holds both of its tokens or neither, and what is answered is true.
OrientedInv ==
  /\ ReservesOriented
  /\ pair \in [Pairs -> Reserves]
  /\ \A p \in Pairs : pair[p].reserve0 = 0 <=> pair[p].reserve1 = 0
  /\ poolReq \in AddressTexts

LEMMA OrientedInit == EvmPoolsInit => OrientedInv
BY EvmPoolsAssumption
   DEF EvmPoolsInit, OrientedInv, ReservesOriented, Reserves, AddressTexts, AllAddresses,
       String, Forms, Absent

LEMMA OrientedNext == OrientedInv /\ [EvmPoolsNext]_evmPoolsVars => OrientedInv'
<1> SUFFICES ASSUME OrientedInv, [EvmPoolsNext]_evmPoolsVars PROVE OrientedInv'
    OBVIOUS
<1>1. CASE PairMoves
  <2>1. PICK p \in Pairs, r \in Reserves :
          (r.reserve0 = 0 <=> r.reserve1 = 0) /\ pair' = [pair EXCEPT ![p] = r]
    BY <1>1 DEF PairMoves
  <2>2. pair' \in [Pairs -> Reserves] /\ \A q \in Pairs : pair'[q].reserve0 = 0 <=> pair'[q].reserve1 = 0
    BY <2>1 DEF OrientedInv
  <2>3. poolAns' \in {Asked, Absent} /\ poolReq' = poolReq
    BY <1>1 DEF PairMoves
  <2> QED BY <2>2, <2>3 DEF OrientedInv, ReservesOriented, Asked, Absent
<1>2. CASE PoolAsked
  BY <1>2 DEF PoolAsked, OrientedInv, ReservesOriented, Asked
<1>3. CASE PoolFails
  BY <1>3 DEF PoolFails, OrientedInv, ReservesOriented
<1>4. CASE PoolAnswered
  <2> DEFINE a == poolReq.address
             w == WrapNativeToken
             at == IF w > a THEN <<a, w>> ELSE <<w, a>>
             first == poolReq = [address |-> at[1], form |-> "checksum"]
             r == pair[at]
             T == IF first THEN r.reserve0 ELSE r.reserve1
             Q == IF first THEN r.reserve1 ELSE r.reserve0
  <2>1. /\ a \in Nat /\ w \in Nat /\ a \in AllAddresses /\ w \in AllAddresses
        /\ pair' = pair /\ poolReq' = poolReq
    BY <1>4, EvmPoolsAssumption DEF PoolAnswered, OrientedInv, AddressTexts, AllAddresses
  <2>2. IF at \notin Pairs THEN poolAns' = [kind |-> "error"]
        ELSE poolAns' = IF T = 0 THEN [kind |-> "panic"]
                        ELSE [kind |-> "pool", token |-> T, quote |-> Q]
    <3>1. CalculatePoolAddress(w, HexToAddress(poolReq)) = at
      BY DEF CalculatePoolAddress, sortAddressess, HexToAddress
    <3>2. IsToken0(poolReq) <=> first
      <4>1. sortAddressess(HexToAddress(poolReq), w) = at
        BY <2>1 DEF sortAddressess, HexToAddress
      <4> HIDE DEF at
      <4> QED BY <4>1 DEF IsToken0, String
    <3> HIDE DEF at, first
    <3> QED BY <1>4, <3>1, <3>2 DEF PoolAnswered
  <2>3. CASE at \notin Pairs
    BY <2>1, <2>2, <2>3 DEF OrientedInv, ReservesOriented
  <2>4. CASE at \in Pairs /\ a < w
    <3>1. at = <<a, w>> /\ at[1] = a
      BY <2>1, <2>4
    <3>2. first <=> poolReq.form = "checksum"
      BY <3>1 DEF OrientedInv, AddressTexts
    <3>3. Held(a) = r.reserve0 /\ Held(w) = r.reserve1
      BY <2>1, <2>4, <3>1 DEF Held
    <3>4. Held(a)' = Held(a) /\ Held(w)' = Held(w)
      BY <2>1 DEF Held
    <3>5. r.reserve0 = 0 <=> r.reserve1 = 0
      BY <2>4 DEF OrientedInv
    <3>6. ReservesOriented'
      BY <2>1, <2>2, <2>4, <3>2, <3>3, <3>4, <3>5 DEF ReservesOriented
    <3> QED BY <2>1, <3>6 DEF OrientedInv
  <2>5. CASE at \in Pairs /\ a > w
    <3>1. at = <<w, a>> /\ at[1] = w
      BY <2>1, <2>5
    <3>2. ~first
      BY <2>1, <2>5, <3>1
    <3>3. Held(a) = r.reserve1 /\ Held(w) = r.reserve0
      BY <2>1, <2>5, <3>1 DEF Held
    <3>4. Held(a)' = Held(a) /\ Held(w)' = Held(w)
      BY <2>1 DEF Held
    <3>6. ReservesOriented'
      BY <2>1, <2>2, <2>5, <3>2, <3>3, <3>4 DEF ReservesOriented
    <3> QED BY <2>1, <3>6 DEF OrientedInv
  <2>6. CASE at \in Pairs /\ a = w
    BY <2>1, <2>6 DEF Pairs
  <2> HIDE DEF at
  <2> QED BY <2>1, <2>3, <2>4, <2>5, <2>6
<1>5. CASE UNCHANGED evmPoolsVars
  BY <1>5 DEF evmPoolsVars, OrientedInv, ReservesOriented, Held
<1> QED BY <1>1, <1>2, <1>3, <1>4, <1>5 DEF EvmPoolsNext

\* GetPool has the reserves the right way round for any tokens whose address is
\* given in the checksum form, or in any form if it is the larger one of the
\* pair.  A smaller address in another form, which evm.go compares as a text, is
\* outside the property.
THEOREM PoolsOriented == EvmPoolsSpec => []ReservesOriented
<1>1. OrientedInv => ReservesOriented
  BY DEF OrientedInv
<1> QED BY <1>1, OrientedInit, OrientedNext, PTL DEF EvmPoolsSpec

-----------------------------------------------------------------------------
(* Transfers. *)

\* What is sent or offered was accepted, and the property holds of it.
FitsInv ==
  /\ BatchFits
  /\ bills \in Requests \union {NoBills}

LEMMA FitsInit == TransfersInit => FitsInv
BY DEF TransfersInit, FitsInv, BatchFits, Pending

LEMMA FitsNext ==
  MaxRecipientCount = 21 /\ FitsInv /\ [TransfersNext]_transferVars => FitsInv'
<1> SUFFICES ASSUME MaxRecipientCount = 21, FitsInv, [TransfersNext]_transferVars
             PROVE  FitsInv'
    OBVIOUS
<1>1. CASE BillsCome
  BY <1>1 DEF BillsCome, FitsInv, BatchFits, Pending
<1>2. CASE BatchRefused
  BY <1>2 DEF BatchRefused, FitsInv, BatchFits, Refusal
<1>7. CASE TextsRefused
  BY <1>7 DEF TextsRefused, FitsInv, BatchFits, Refusal, Panicked
<1>3. CASE HashFetched
  BY <1>3 DEF HashFetched, FitsInv, BatchFits, Refusal, Pending
<1>4. CASE BatchSent
  <2>1. CASE transfer' = Refusal
    BY <1>4, <2>1 DEF BatchSent, FitsInv, BatchFits, Refusal
  <2>2. CASE transfer' = [kind |-> "sent", size |-> PacketSize(bills),
                          lamports |-> Lamports(bills)]
    <3>0. bills \in Requests /\ Sendable(bills)
      <4>1. transfer'.kind # Refusal.kind
        BY <2>2 DEF Refusal
      <4>2. bills.count # 0
        BY <1>4, <4>1 DEF BatchSent
      <4>3. bills # NoBills
        BY <4>2 DEF NoBills
      <4> QED BY <1>4, <4>3 DEF BatchSent, FitsInv
    <3>1. /\ bills \in [sender : Senders, count : Nat, wallets : Nat, amount : BillAmounts,
                         signer : BOOLEAN, payees : BOOLEAN]
          /\ bills.wallets <= bills.count /\ bills.count <= 21
      BY <3>0, TransfersAssumption DEF Sendable, BatchAccepted, Requests
    <3>2. PacketSize(bills) <= PacketLimit
      BY <3>1 DEF PacketSize, PacketLimit
    <3>3. bills.wallets = 21 =>
            PacketSize([bills EXCEPT !.wallets = @ + 1, !.count = @ + 1]) > PacketLimit
      BY <3>1 DEF PacketSize, PacketLimit
    <3> QED BY <1>4, <2>2, <3>2, <3>3 DEF BatchSent, FitsInv, BatchFits
  <2> QED BY <1>4, <2>1, <2>2 DEF BatchSent
<1>5. CASE EvmBatchSent
  <2>1. CASE transfer' = Refusal
    BY <1>5, <2>1 DEF EvmBatchSent, FitsInv, BatchFits, Refusal
  <2>2. CASE transfer' = [kind |-> "offered", gas |-> EvmGas(bills)]
    <3>1. bills.count \in Nat
      BY TransfersAssumption DEF FitsInv, Requests, NoBills
    <3>2. /\ bills.count >= 2 => EvmGas(bills) >= IntrinsicGas(bills, 16)
          /\ bills.count = 1 => EvmGas(bills) < IntrinsicGas(bills, 4)
      BY <3>1 DEF EvmGas, IntrinsicGas, Payload
    <3> QED BY <1>5, <2>2, <3>2 DEF EvmBatchSent, FitsInv, BatchFits
  <2> QED BY <1>5, <2>1, <2>2 DEF EvmBatchSent
<1>6. CASE UNCHANGED transferVars
  BY <1>6 DEF transferVars, FitsInv, BatchFits
<1> QED BY <1>1, <1>2, <1>3, <1>4, <1>5, <1>6, <1>7 DEF TransfersNext

\* With the recipient limit of the code, a batch of any size either fits into
\* a packet or is refused.
THEOREM BatchesFit == MaxRecipientCount = 21 /\ TransfersSpec => []BatchFits
<1>1. FitsInv => BatchFits
  BY DEF FitsInv
<1>2. CASE MaxRecipientCount = 21
  <2>1. FitsInv /\ [TransfersNext]_transferVars => FitsInv'
    BY <1>2, FitsNext
  <2> QED BY <1>1, <2>1, FitsInit, PTL DEF TransfersSpec
<1>3. CASE MaxRecipientCount # 21
  BY <1>3
<1> QED BY <1>2, <1>3

-----------------------------------------------------------------------------
(* Watching. *)

\* Beside the property: the connections anyone can see or hold exist, and a
\* subscription was not made after the last failure of the network that it can
\* have noticed.
WatchInv ==
  /\ WatchTold
  /\ link \in [Connections -> {"unmade", "up", "down"}]
  /\ drops \in Nat
  /\ since \in [Watchers -> Nat]
  /\ \A w \in Watchers : since[w] <= drops
  /\ visible \in [Watchers -> SUBSET Connections]
  /\ heldBy \in [Watchers -> Connections \union {0}]
  /\ watch \in [Watchers -> {"idle", "subscribing", "connecting", "storing", "receiving"}]
  /\ landed \in [Watchers -> Outcomes \union {"no"}]
  /\ undone \in [Watchers -> Outcomes \union {"no"}]
  /\ told \in [Watchers -> Told]
  /\ wait \in [Waiters -> {"idle", "subscribing", "waiting"}]
  /\ log \in [Waiters -> {"none", "sent", "missed"}]
  /\ heard \in [Waiters -> {"nothing", "error", "receipt"}]
  /\ \A w \in Watchers : watch[w] \in {"storing", "receiving"} => heldBy[w] \in Connections

LEMMA FirstConnection == 1 \in Connections
<1>1. Cardinality(Watchers) \in Nat
  BY WatchingAssumption, FS_CardinalityType
<1>2. ASSUME NEW m \in Nat, NEW n \in Nat PROVE m * n * n \in Nat
  BY <1>2
<1>3. Cost(MaxDrops) \in Nat
  BY <1>1, <1>2, WatchingAssumption DEF Cost
<1> QED BY <1>3, WatchingAssumption DEF Connections

LEMMA WatchInvInit == WatchingInit => WatchInv
<1> SUFFICES ASSUME WatchingInit PROVE WatchInv
    OBVIOUS
<1>1. WatchTold
  BY DEF WatchingInit, WatchTold
<1> QED BY <1>1, FirstConnection DEF WatchingInit, WatchInv, Told

LEMMA WatchInvNext == WatchInv /\ [WatchingNext]_watchingVars => WatchInv'
<1> SUFFICES ASSUME WatchInv, [WatchingNext]_watchingVars PROVE WatchInv'
    OBVIOUS
<1> USE DEF WatchInv, WatchTold, Seen, nodeVars, landVars, watchVars, waitVars
<1>1. CASE Drop
  BY <1>1 DEF Drop
<1>2. CASE NodeBack
  BY <1>2 DEF NodeBack
<1>3. CASE Abandoned
  BY <1>3 DEF Abandoned
<1>4. ASSUME NEW w \in Watchers, Lands(w) PROVE WatchInv'
  BY <1>4 DEF Lands, Outcomes
<1>5. ASSUME NEW w \in Watchers, WatchStart(w) PROVE WatchInv'
  BY <1>5 DEF WatchStart, Told
<1>6. ASSUME NEW w \in Watchers, SubscribeRefused(w) PROVE WatchInv'
  BY <1>6 DEF SubscribeRefused
<1>7. ASSUME NEW w \in Watchers, WatcherStep(w) PROVE WatchInv'
  <2>1. CASE Subscribed(w)
    BY <2>1 DEF Subscribed
  <2>2. CASE SubscribeFails(w)
    BY <2>2 DEF SubscribeFails
  <2>3. CASE Dials(w)
    BY <2>3 DEF Dials
  <2>4. CASE Stores(w)
    BY <2>4 DEF Stores, Replaced
  <2>5. CASE Received(w)
    BY <2>5 DEF Received, WatchEnds, Verdict, Outcomes, Told
  <2>6. CASE ReceivedText(w)
    BY <2>6 DEF ReceivedText
  <2>7. CASE TimedOut(w)
    BY <2>7 DEF TimedOut, WatchEnds, Told
  <2>8. CASE ConnectionLost(w)
    BY <2>8 DEF ConnectionLost, WatchEnds, Told
  <2> QED BY <1>7, <2>1, <2>2, <2>3, <2>4, <2>5, <2>6, <2>7, <2>8 DEF WatcherStep
<1>8. CASE WireBreaks
  BY <1>8 DEF WireBreaks
<1>9. ASSUME NEW r \in Waiters, WaitStart(r) PROVE WatchInv'
  BY <1>9 DEF WaitStart
<1>10. ASSUME NEW r \in Waiters, Logs(r) PROVE WatchInv'
  BY <1>10 DEF Logs
<1>11. ASSUME NEW r \in Waiters, WaiterStep(r) PROVE WatchInv'
  <2>1. CASE WaitSubscribed(r)
    BY <2>1 DEF WaitSubscribed
  <2>2. CASE WaitRefused(r)
    BY <2>2 DEF WaitRefused, WaitEnds
  <2>3. CASE WaitBroken(r)
    BY <2>3 DEF WaitBroken, WaitEnds
  <2>4. CASE WaitHeard(r)
    BY <2>4 DEF WaitHeard, WaitEnds
  <2> QED BY <1>11, <2>1, <2>2, <2>3, <2>4 DEF WaiterStep
<1>12. CASE UNCHANGED watchingVars
  BY <1>12 DEF watchingVars
<1> QED BY <1>1, <1>2, <1>3, <1>4, <1>5, <1>6, <1>7, <1>8, <1>9, <1>10, <1>11, <1>12
        DEF WatchingNext, WatchersNext, WaitersNext

\* With any number of watchers sharing the connection and any number of failures
\* of the network, what a watch reports was true of its own transaction in a
\* block that was the head, and a subscription finds its connection down only if
\* the network has failed since.
THEOREM WatchersToldTrue == WatchingSpec => []WatchTold
<1>1. WatchInv => WatchTold
  BY DEF WatchInv
<1> QED BY <1>1, WatchInvInit, WatchInvNext, PTL DEF WatchingSpec

-----------------------------------------------------------------------------
(* SolPools. *)

States == [curve : {"none", "live", "complete"}, pool : {"none", "open"}, token : Nat, sol : Nat]

\* What is so of every state of the chain: a pool of a pumpfun token opens
\* after its curve completed, other tokens have no curve, and a curve that
\* trades has reserves.
Sound(s) ==
  /\ s \in States
  /\ token.origin = "pumpfun" /\ s.pool = "open" => s.curve = "complete"
  /\ token.origin # "pumpfun" => s.curve = "none"
  /\ s.curve = "live" => s.token # 0

ChainInv ==
  /\ token \in [origin : {"pumpfun", "elsewhere"}, side : Sides]
  /\ Sound(confirmed) /\ Sound(head)
  /\ head = confirmed \/ Change(confirmed, head)

\* What lookup l finds when the venues are v.
Shown(l, v) ==
  IF l = "curve"
  THEN IF v.curve = "none" THEN NoPool ELSE Pumpfun(v.curve = "complete")
  ELSE IF v.pool = "open" /\ token.side = l THEN Raydium(l) ELSE NoPool

\* The venues of the chain pass one at a time through a fixed order.  So if an
\* early and a late one were seen, the one between was seen too, and what has
\* been seen tells something of the chain as it is.
History(c) ==
  /\ Venues(confirmed) \in seen[c]
  /\ \A v \in seen[c] :
       /\ token.origin = "pumpfun" /\ v.pool = "open" => v.curve = "complete"
       /\ token.origin # "pumpfun" => v.curve = "none"
       /\ v.pool = "open" => confirmed.pool = "open"
       /\ v.curve = "live" => untraded[c] \/ confirmed.curve = "live"
       /\ v.curve # "live" /\ v.pool # "open" => untraded[c]
  /\ token.origin = "pumpfun" =>
       \A u, v \in seen[c] : u.curve # "complete" /\ v.pool = "open" =>
         [curve |-> "complete", pool |-> "none"] \in seen[c]

\* Each lookup that has answered found what was there at some time it ran.
Looking(c) ==
  /\ History(c)
  /\ running[c] \intersect missing[c] = {}
  /\ \A l \in Lookups :
       IF l \in running[c] \union missing[c] THEN looked[c][l] = NoPool
       ELSE \E v \in seen[c] : looked[c][l] = Shown(l, v)

\* A pool looked up without a failure has traded during the call, or the token
\* did not for a while.
Reading(c) ==
  ask[c].given = NoPool /\ pool[c].dex = 1 /\ missing[c] = {} =>
    untraded[c] \/ (pool[c].status = 0 /\ confirmed.curve = "live")

CallInv(c) ==
  /\ pool[c].dex = 0 => pool[c].side = token.side /\ confirmed.pool = "open"
  /\ stage[c] # "idle" => found[c] = Nothing
  /\ stage[c] # "idle" /\ (~Tradable(head) \/ ~Tradable(confirmed)) => untraded[c]
  /\ stage[c] = "looking" => Looking(c)
  /\ stage[c] = "pair" => ask[c].text = "pair"
  /\ stage[c] = "reading" => Reading(c)

\* PoolAnswerTrue of one caller.
AnsweredTrue(c) ==
  /\ found[c].kind = "quote" =>
       /\ Tradable(read[c])
       /\ found[c] = Quote(read[c].token, read[c].sol)
  /\ /\ found[c].kind = "error" /\ found[c].error \in {"ErrInvalidPool", "ErrPoolCompleted"}
     /\ ask[c].given = NoPool /\ ask[c].text # "neither" /\ missing[c] = {}
     => untraded[c]
  /\ stage[c] = "panicked" => ask[c].text # "address"

Errors == {"ErrInvalidPool", "ErrPoolCompleted", "ErrNotFound", "request"}

FoundAnswers ==
  {Nothing} \union [kind : {"error"}, error : Errors]
            \union [kind : {"quote"}, token : Nat, sol : Nat]
            \union [kind : {"pool"}, pool : Pools]

Stages == {"idle", "pair", "looking", "reading", "panicked"}

PoolsTyped ==
  /\ stage \in [Lookers -> Stages]
  /\ ask \in [Lookers -> Asks]
  /\ running \in [Lookers -> SUBSET Lookups] /\ missing \in [Lookers -> SUBSET Lookups]
  /\ looked \in [Lookers -> [Lookups -> Pools \union {NoPool}]]
  /\ pool \in [Lookers -> Pools \union {NoPool}]
  /\ found \in [Lookers -> FoundAnswers]
  /\ seen \in [Lookers -> SUBSET AllVenues]
  /\ untraded \in [Lookers -> BOOLEAN]
  /\ read \in [Lookers -> States]

PoolsInv ==
  /\ PoolsTyped
  /\ ChainInv
  /\ \A c \in Lookers : CallInv(c) /\ AnsweredTrue(c)

LEMMA ChainsAreStates == Chains \subseteq States
BY PoolsAssumption DEF Chains, AllVenues, States

\* One lookup at one moment of the call would have chosen what the three did.
LEMMA OneMoment ==
  ASSUME NEW c \in Lookers, ChainInv, Looking(c), running[c] = {},
         PoolsTyped
  PROVE  \E v \in seen[c] : Preferred(looked[c]) = Atomic(v, missing[c])
<1> DEFINE s == token.side
           lk == looked[c]
           absent == missing[c]
<1>1. s \in Sides /\ s # "curve" /\ s \in Lookups /\ "curve" \in Lookups
  BY DEF ChainInv, Sides, Lookups
<1>2. ASSUME NEW l \in Lookups PROVE lk[l] = NoPool \/ (l \notin absent /\ \E v \in seen[c] : lk[l] = Shown(l, v))
  BY DEF Looking
<1>3. \A l \in Sides : l # s => lk[l] = NoPool
  BY <1>2 DEF Shown, Sides, Lookups
<1>4. Preferred(lk) = IF lk[s] # NoPool THEN lk[s] ELSE lk["curve"]
  BY <1>1, <1>3 DEF Preferred, Sides
<1>5. CASE lk[s] # NoPool
  <2>1. PICK v \in seen[c] : lk[s] = Shown(s, v) /\ s \notin absent
    BY <1>1, <1>2, <1>5
  <2>2. v.pool = "open" /\ lk[s] = Raydium(s)
    BY <1>1, <1>5, <2>1 DEF Shown
  <2>3. Atomic(v, absent) = Raydium(s)
    BY <2>1, <2>2 DEF Atomic
  <2> QED BY <1>4, <1>5, <2>2, <2>3
<1>6. CASE lk[s] = NoPool /\ lk["curve"] # NoPool
  <2>1. PICK v \in seen[c] : lk["curve"] = Shown("curve", v) /\ "curve" \notin absent
    BY <1>1, <1>2, <1>6
  <2>2. v.curve # "none" /\ lk["curve"] = Pumpfun(v.curve = "complete")
    BY <1>6, <2>1 DEF Shown
  <2>3. token.origin = "pumpfun"
    BY <2>2 DEF Looking, History
  <2>4. CASE s \in absent \/ v.pool # "open"
    <3>1. Atomic(v, absent) = Pumpfun(v.curve = "complete")
      BY <2>1, <2>2, <2>4 DEF Atomic
    <3> QED BY <1>4, <1>6, <2>2, <3>1
  <2>5. CASE s \notin absent /\ v.pool = "open"
    <3>1. v.curve = "complete"
      BY <2>3, <2>5 DEF Looking, History
    <3>2. PICK u \in seen[c] : lk[s] = Shown(s, u)
      BY <1>1, <2>5 DEF Looking
    <3>3. u.pool # "open"
      BY <1>1, <1>6, <3>2 DEF Shown, Raydium, NoPool
    <3>4. u \in AllVenues
      BY DEF PoolsTyped
    <3> DEFINE x == [curve |-> "complete", pool |-> "none"]
    <3>5. x \in seen[c]
      <4>1. CASE u.curve = "complete"
        <5>1. u = x
          BY <3>3, <3>4, <4>1 DEF AllVenues
        <5> QED BY <5>1
      <4>2. CASE u.curve # "complete"
        BY <2>3, <2>5, <4>2 DEF Looking, History
      <4> QED BY <4>1, <4>2
    <3>6. Atomic(x, absent) = Pumpfun(TRUE)
      BY <2>1 DEF Atomic
    <3>7. Preferred(lk) = Pumpfun(TRUE)
      BY <1>4, <1>6, <2>2, <3>1
    <3> QED BY <3>5, <3>6, <3>7
  <2> QED BY <2>4, <2>5
<1>7. CASE lk[s] = NoPool /\ lk["curve"] = NoPool
  <2>1. Preferred(lk) = NoPool
    BY <1>4, <1>7
  <2>2. \A v : Shown("curve", v) = NoPool => v.curve = "none"
    BY DEF Shown, Pumpfun, NoPool
  <2>3. \A v : Shown(s, v) = NoPool => v.pool # "open"
    BY <1>1 DEF Shown, Raydium, NoPool
  <2>4. \A v \in seen[c] : v.pool = "open" /\ token.origin = "pumpfun" => v.curve = "complete"
    BY DEF Looking, History
  <2>5. \A v \in seen[c] : token.origin # "pumpfun" => v.curve = "none"
    BY DEF Looking, History
  <2>6. \E v \in seen[c] : /\ v.pool # "open" \/ s \in absent
                           /\ v.curve = "none" \/ "curve" \in absent
    <3>1. CASE s \notin absent
      <4>1. PICK v \in seen[c] : lk[s] = Shown(s, v)
        BY <1>1, <3>1 DEF Looking
      <4>2. v.pool # "open"
        BY <1>7, <2>3, <4>1
      <4>3. CASE "curve" \in absent \/ token.origin # "pumpfun"
        BY <2>5, <4>2, <4>3
      <4>4. CASE "curve" \notin absent /\ token.origin = "pumpfun"
        <5>1. PICK u \in seen[c] : lk["curve"] = Shown("curve", u)
          BY <1>1, <4>4 DEF Looking
        <5>2. u.curve = "none"
          BY <1>7, <2>2, <5>1
        <5>3. u.pool # "open"
          BY <2>4, <4>4, <5>2
        <5> QED BY <5>2, <5>3
      <4> QED BY <4>3, <4>4
    <3>2. CASE s \in absent /\ "curve" \notin absent
      <4>1. PICK u \in seen[c] : lk["curve"] = Shown("curve", u)
        BY <1>1, <3>2 DEF Looking
      <4>2. u.curve = "none"
        BY <1>7, <2>2, <4>1
      <4> QED BY <3>2, <4>2
    <3>3. CASE s \in absent /\ "curve" \in absent
      BY <3>3 DEF Looking, History
    <3> QED BY <3>1, <3>2, <3>3
  <2>7. \A v : (v.pool # "open" \/ s \in absent) /\ (v.curve = "none" \/ "curve" \in absent)
                => Atomic(v, absent) = NoPool
    BY DEF Atomic
  <2> QED BY <2>1, <2>6, <2>7
<1> QED BY <1>5, <1>6, <1>7

LEMMA PoolsInvInit == PoolsInit => PoolsInv
<1> SUFFICES ASSUME PoolsInit PROVE PoolsInv
    OBVIOUS
<1>1. PoolsTyped
  BY DEF PoolsInit, PoolsTyped, Asks, Texts, FoundAnswers, Unsold, States, Stages
<1>2. ChainInv
  BY DEF PoolsInit, ChainInv, Sound, Unsold, States
<1>3. \A c \in Lookers : CallInv(c) /\ AnsweredTrue(c)
  BY DEF PoolsInit, CallInv, AnsweredTrue, Nothing, NoPool
<1> QED BY <1>1, <1>2, <1>3 DEF PoolsInv

-----------------------------------------------------------------------------
\* How the state of the chain goes on from a sound one.
LEMMA Onward ==
  ASSUME ChainInv, NEW s, NEW t \in States, Sound(s), Change(s, t), Backed(s, t)
  PROVE  Sound(t)
BY DEF ChainInv, Sound, Change, Backed, States

LEMMA MinedKeeps == PoolsInv /\ Mined => PoolsInv'
<1> SUFFICES ASSUME PoolsInv, Mined PROVE PoolsInv'
    OBVIOUS
<1> USE DEF lookVars
<1>1. PICK t \in Chains : /\ Change(head, t) /\ Backed(head, t) /\ head' = t
                          /\ Witnessed(t)
  BY DEF Mined
<1>2. ChainInv /\ head = confirmed /\ t \in States
  BY ChainsAreStates DEF PoolsInv, Mined
<1>3. Sound(t)
  BY <1>1, <1>2, Onward DEF ChainInv
<1>4. ChainInv'
  BY <1>1, <1>2, <1>3 DEF Mined, ChainInv, Sound, Change
<1>5. PoolsTyped'
  BY <1>1 DEF PoolsInv, PoolsTyped, Mined, Witnessed
<1>6. ASSUME NEW c \in Lookers PROVE CallInv(c)' /\ AnsweredTrue(c)'
  <2>1. /\ untraded[c] => untraded'[c]
        /\ stage[c] # "idle" /\ ~Tradable(t) => untraded'[c]
    BY <1>1 DEF Witnessed
  <2>2. CallInv(c) /\ AnsweredTrue(c)
    BY DEF PoolsInv
  <2>3. Tradable(head)' <=> Tradable(t)
    BY <1>1 DEF Tradable
  <2>4. Tradable(confirmed)' <=> Tradable(confirmed)
    BY DEF Mined, Tradable
  <2>5. History(c) => History(c)'
    BY <2>1 DEF Mined, History, Venues
  <2>6. Looking(c) => Looking(c)'
    BY <2>5 DEF Mined, Looking, Shown
  <2>7. Reading(c) => Reading(c)'
    BY <2>1 DEF Mined, Reading
  <2>8. CallInv(c)'
    BY <2>1, <2>2, <2>3, <2>4, <2>6, <2>7 DEF Mined, CallInv
  <2>9. AnsweredTrue(c)'
    BY <2>1, <2>2 DEF Mined, AnsweredTrue, Tradable
  <2> QED BY <2>8, <2>9
<1> QED BY <1>4, <1>5, <1>6 DEF PoolsInv

LEMMA ForkedKeeps == PoolsInv /\ Forked => PoolsInv'
<1> SUFFICES ASSUME PoolsInv, Forked PROVE PoolsInv'
    OBVIOUS
<1> USE DEF lookVars
<1>1. ChainInv'
  BY DEF PoolsInv, Forked, ChainInv, Sound
<1>2. PoolsTyped'
  BY DEF PoolsInv, PoolsTyped, Forked, Witnessed
<1>3. ASSUME NEW c \in Lookers PROVE CallInv(c)' /\ AnsweredTrue(c)'
  <2>1. untraded[c] => untraded'[c]
    BY DEF Forked, Witnessed
  <2>2. CallInv(c) /\ AnsweredTrue(c)
    BY DEF PoolsInv
  <2>3. Tradable(head)' <=> Tradable(confirmed)
    BY DEF Forked, Tradable
  <2>4. Tradable(confirmed)' <=> Tradable(confirmed)
    BY DEF Forked, Tradable
  <2>5. History(c) => History(c)'
    BY <2>1 DEF Forked, History, Venues
  <2>6. Looking(c) => Looking(c)'
    BY <2>5 DEF Forked, Looking, Shown
  <2>7. Reading(c) => Reading(c)'
    BY <2>1 DEF Forked, Reading
  <2>8. CallInv(c)'
    BY <2>1, <2>2, <2>3, <2>4, <2>6, <2>7 DEF Forked, CallInv
  <2>9. AnsweredTrue(c)'
    BY <2>1, <2>2 DEF Forked, AnsweredTrue, Tradable
  <2> QED BY <2>8, <2>9
<1> QED BY <1>1, <1>2, <1>3 DEF PoolsInv

LEMMA ConfirmedKeeps == PoolsInv /\ Confirmed => PoolsInv'
<1> SUFFICES ASSUME PoolsInv, Confirmed PROVE PoolsInv'
    OBVIOUS
<1> USE DEF lookVars
<1>0. ChainInv /\ Change(confirmed, head) /\ confirmed' = head /\ head' = head /\ token' = token
  BY DEF PoolsInv, ChainInv, Confirmed
<1>1. ChainInv'
  BY <1>0 DEF ChainInv, Sound
<1>2. PoolsTyped'
  BY <1>0 DEF PoolsInv, PoolsTyped, Confirmed, ChainInv, Sound, States, Venues, AllVenues
<1>3. ASSUME NEW c \in Lookers PROVE CallInv(c)' /\ AnsweredTrue(c)'
  <2>1. untraded'[c] = untraded[c] /\ stage'[c] = stage[c]
    BY DEF Confirmed
  <2>2. CallInv(c) /\ AnsweredTrue(c)
    BY DEF PoolsInv
  <2>3. (Tradable(head)' <=> Tradable(head)) /\ (Tradable(confirmed)' <=> Tradable(head))
    BY <1>0 DEF Tradable
  <2>4. confirmed.pool = "open" => head.pool = "open"
    BY <1>0 DEF Change
  <2>5. ASSUME stage[c] = "looking" PROVE Looking(c)'
    <3> DEFINE new == Venues(head)
    <3>1. seen'[c] = seen[c] \union {new}
      BY <2>5 DEF Confirmed
    <3>2. History(c) /\ Looking(c)
      BY <2>2, <2>5 DEF CallInv, Looking
    <3>3. head.curve # "live" /\ head.pool # "open" => untraded[c]
      BY <2>2, <2>5 DEF CallInv, Tradable
    <3>4. confirmed.curve = "live" => head.curve = "live" \/ untraded[c]
      <4>1. confirmed.curve = "live" /\ head.curve # "live" => head.pool # "open"
        BY <1>0 DEF ChainInv, Sound, Change
      <4> QED BY <3>3, <4>1
    <3>5. ASSUME NEW v \in seen'[c]
          PROVE  /\ token.origin = "pumpfun" /\ v.pool = "open" => v.curve = "complete"
                 /\ token.origin # "pumpfun" => v.curve = "none"
                 /\ v.pool = "open" => head.pool = "open"
                 /\ v.curve = "live" => untraded[c] \/ head.curve = "live"
                 /\ v.curve # "live" /\ v.pool # "open" => untraded[c]
      <4>1. CASE v \in seen[c]
        BY <2>4, <3>2, <3>4, <4>1 DEF History
      <4>2. CASE v = new
        BY <1>0, <3>3, <4>2 DEF Venues, ChainInv, Sound
      <4> QED BY <3>1, <4>1, <4>2
    <3>6. ASSUME token.origin = "pumpfun", NEW u \in seen'[c], NEW v \in seen'[c],
                 u.curve # "complete", v.pool = "open"
          PROVE  [curve |-> "complete", pool |-> "none"] \in seen'[c]
      <4>0. Venues(confirmed) \in seen[c] /\ Venues(confirmed).pool = confirmed.pool
            /\ Venues(confirmed).curve = confirmed.curve
        BY <3>2 DEF History, Venues
      <4>1. CASE confirmed.pool = "open"
        <5>1. new.curve = "complete"
          BY <1>0, <2>4, <3>6, <4>1 DEF Venues, ChainInv, Sound
        <5>2. u \in seen[c]
          BY <3>1, <3>6, <5>1
        <5> QED BY <3>1, <3>2, <3>6, <4>0, <4>1, <5>2 DEF History
      <4>2. CASE confirmed.pool # "open"
        <5>1. v = new
          BY <3>1, <3>2, <3>6, <4>2 DEF History
        <5>2. head.pool = "open"
          BY <3>6, <5>1 DEF Venues
        <5>3. confirmed.curve = "complete" /\ confirmed.pool = "none"
          BY <1>0, <3>6, <4>2, <5>2 DEF Change, ChainInv, Sound, States
        <5> QED BY <3>1, <4>0, <5>3 DEF Venues
      <4> QED BY <4>1, <4>2
    <3>7. History(c)'
      <4>1. Venues(confirmed)' \in seen'[c]
        BY <1>0, <3>1 DEF Venues
      <4> QED BY <1>0, <2>1, <3>5, <3>6, <4>1 DEF History
    <3>8. running'[c] = running[c] /\ missing'[c] = missing[c] /\ looked'[c] = looked[c]
      BY DEF Confirmed
    <3>9. \A l, v : Shown(l, v)' = Shown(l, v)
      BY <1>0 DEF Shown
    <3> QED BY <3>1, <3>2, <3>7, <3>8, <3>9 DEF Looking
  <2>6. ASSUME stage[c] = "reading" PROVE Reading(c)'
    <3>1. confirmed.curve = "live" => head.curve = "live" \/ untraded[c]
      <4>1. confirmed.curve = "live" /\ head.curve # "live" => head.pool # "open"
        BY <1>0 DEF ChainInv, Sound, Change
      <4> QED BY <2>2, <2>6, <4>1 DEF CallInv, Tradable
    <3> QED BY <1>0, <2>1, <2>2, <2>6, <3>1 DEF CallInv, Reading, Confirmed
  <2>8. CallInv(c)'
    BY <1>0, <2>1, <2>2, <2>3, <2>4, <2>5, <2>6 DEF Confirmed, CallInv
  <2>9. AnsweredTrue(c)'
    BY <2>1, <2>2 DEF Confirmed, AnsweredTrue, Tradable
  <2> QED BY <2>8, <2>9
<1> QED BY <1>1, <1>2, <1>3 DEF PoolsInv

\* A step of one caller leaves what is known of the others as it is.
LEMMA Undisturbed ==
  ASSUME PoolsInv, NEW d \in Lookers, UNCHANGED chainVars,
         stage'[d] = stage[d], ask'[d] = ask[d], running'[d] = running[d],
         looked'[d] = looked[d], missing'[d] = missing[d], pool'[d] = pool[d],
         found'[d] = found[d], seen'[d] = seen[d], untraded'[d] = untraded[d],
         read'[d] = read[d]
  PROVE  CallInv(d)' /\ AnsweredTrue(d)'
<1> USE DEF chainVars
<1>1. CallInv(d) /\ AnsweredTrue(d)
  BY DEF PoolsInv
<1>2. /\ Tradable(head)' <=> Tradable(head)
      /\ Tradable(confirmed)' <=> Tradable(confirmed)
  BY DEF Tradable
<1>3. Looking(d) => Looking(d)'
  BY DEF Looking, History, Venues, Shown
<1>4. Reading(d) => Reading(d)'
  BY DEF Reading
<1>5. CallInv(d)'
  BY <1>1, <1>2, <1>3, <1>4 DEF CallInv
<1>6. AnsweredTrue(d)'
  BY <1>1 DEF AnsweredTrue, Tradable
<1> QED BY <1>5, <1>6

LEMMA SameChain == ChainInv /\ UNCHANGED chainVars => ChainInv'
BY DEF chainVars, ChainInv, Sound, Change

\* At its start QueryPool has seen the confirmed chain.
LEMMA LookingStarts ==
  ASSUME PoolsInv, UNCHANGED chainVars, NEW c \in Lookers, StartLooking(c),
         ~Tradable(confirmed) => untraded'[c]
  PROVE  Looking(c)'
<1>0. chainVars' = chainVars /\ ChainInv
  BY DEF PoolsInv
<1>1. /\ seen'[c] = {Venues(confirmed)}
      /\ running'[c] = Lookups /\ missing'[c] = {}
      /\ looked'[c] = [l \in Lookups |-> NoPool]
  BY DEF StartLooking, PoolsInv, PoolsTyped
<1>2. Venues(confirmed).curve = confirmed.curve /\ Venues(confirmed).pool = confirmed.pool
      /\ Venues(confirmed)' = Venues(confirmed)
  BY <1>0 DEF Venues, chainVars
<1>3. History(c)'
  BY <1>0, <1>1, <1>2 DEF History, chainVars, ChainInv, Sound, Tradable
<1> QED BY <1>1, <1>3 DEF Looking

LEMMA CallKeeps ==
  ASSUME PoolsInv, NEW c \in Lookers, NEW a \in Asks, Call(c, a)
  PROVE  PoolsInv'
<1> USE DEF lookVars
<1>1. ChainInv' /\ UNCHANGED chainVars
  BY SameChain DEF PoolsInv, Call
<1>2. PoolsTyped'
  <2>1. Refused("ErrInvalidPool") \in FoundAnswers /\ Nothing \in FoundAnswers
    BY DEF FoundAnswers, Refused, Errors
  <2>2. ChainInv
    BY DEF PoolsInv
  <2>3. Venues(confirmed) \in AllVenues
    BY <2>2 DEF ChainInv, Sound, Venues, AllVenues, States
  <2>4. a.given \in Pools \union {NoPool} /\ [l \in Lookups |-> NoPool] \in [Lookups -> Pools \union {NoPool}]
    BY DEF Asks
  <2>5. PoolsTyped /\ UNCHANGED read
    BY DEF PoolsInv, Call
  <2>6. /\ ask' = [ask EXCEPT ![c] = a]
        /\ untraded' = [untraded EXCEPT ![c] = ~Tradable(head) \/ ~Tradable(confirmed)]
    BY DEF Call
  <2>7. ask' \in [Lookers -> Asks] /\ untraded' \in [Lookers -> BOOLEAN]
    BY <2>5, <2>6 DEF PoolsTyped
  <2>8. pool' \in [Lookers -> Pools \union {NoPool}]
    BY <2>4, <2>5 DEF PoolsTyped, Call, StartLooking, Answer, Panic
  <2>9. \/ StartLooking(c)
        \/ UNCHANGED <<lookVars, seen>> /\ \E s \in Stages : stage' = [stage EXCEPT ![c] = s]
    BY DEF Call, Answer, Panic, Stages
  <2>10. \E e \in FoundAnswers : found' = [found EXCEPT ![c] = e]
    BY <2>1 DEF Call, Answer
  <2>11. found' \in [Lookers -> FoundAnswers]
    BY <2>5, <2>10 DEF PoolsTyped
  <2>12. /\ stage' \in [Lookers -> Stages]
         /\ running' \in [Lookers -> SUBSET Lookups] /\ missing' \in [Lookers -> SUBSET Lookups]
         /\ looked' \in [Lookers -> [Lookups -> Pools \union {NoPool}]]
         /\ seen' \in [Lookers -> SUBSET AllVenues]
    <3>1. CASE StartLooking(c)
      BY <2>3, <2>4, <2>5, <3>1 DEF PoolsTyped, StartLooking, Stages
    <3>2. CASE UNCHANGED <<lookVars, seen>> /\ \E s \in Stages : stage' = [stage EXCEPT ![c] = s]
      BY <2>5, <3>2 DEF PoolsTyped
    <3> QED BY <2>9, <3>1, <3>2
  <2> QED BY <2>5, <2>7, <2>8, <2>11, <2>12 DEF PoolsTyped
<1>3. ASSUME NEW d \in Lookers PROVE CallInv(d)' /\ AnsweredTrue(d)'
  <2>0. CallInv(c) /\ AnsweredTrue(c) /\ stage[c] = "idle"
    BY DEF PoolsInv, Call
  <2>1. CASE d # c
    <3>1. /\ stage'[d] = stage[d] /\ ask'[d] = ask[d] /\ running'[d] = running[d]
          /\ looked'[d] = looked[d] /\ missing'[d] = missing[d] /\ pool'[d] = pool[d]
          /\ found'[d] = found[d] /\ seen'[d] = seen[d] /\ untraded'[d] = untraded[d]
          /\ read'[d] = read[d]
      BY <2>1 DEF PoolsInv, PoolsTyped, Call, StartLooking, Answer, Panic
    <3> QED BY <1>1, <3>1, Undisturbed
  <2>2. CASE d = c
    <3>1. /\ ask'[c] = a /\ read'[c] = read[c]
          /\ untraded'[c] = (~Tradable(head) \/ ~Tradable(confirmed))
          /\ pool'[c] = pool[c]
      BY DEF PoolsInv, PoolsTyped, Call, StartLooking, Answer, Panic
    <3>2. /\ Tradable(head)' <=> Tradable(head)
          /\ Tradable(confirmed)' <=> Tradable(confirmed)
      BY <1>1 DEF chainVars, Tradable
    <3>3. \/ stage'[c] = "reading" /\ a.given # NoPool /\ found'[c] = Nothing
          \/ stage'[c] = "looking" /\ found'[c] = Nothing /\ StartLooking(c)
          \/ stage'[c] = "pair" /\ a.text = "pair" /\ found'[c] = Nothing
          \/ stage'[c] = "panicked" /\ a.text # "address" /\ found'[c] = Nothing
          \/ stage'[c] = "idle" /\ a.text = "neither" /\ found'[c] = Refused("ErrInvalidPool")
      BY DEF PoolsInv, PoolsTyped, Call, StartLooking, Answer, Panic
    <3>4. StartLooking(c) => Looking(c)'
      BY <1>1, <3>1, LookingStarts
    <3>5. a.given # NoPool => Reading(c)'
      BY <3>1 DEF Reading
    <3>6. CallInv(c)'
      BY <1>1, <2>0, <3>1, <3>2, <3>3, <3>4, <3>5 DEF CallInv, chainVars
    <3>7. AnsweredTrue(c)'
      BY <3>1, <3>3 DEF AnsweredTrue, Nothing, Refused
    <3> QED BY <2>2, <3>6, <3>7
  <2> QED BY <2>1, <2>2
<1> QED BY <1>1, <1>2, <1>3 DEF PoolsInv

LEMMA PairKeeps ==
  ASSUME PoolsInv, NEW c \in Lookers, PairFound(c) \/ PairElsewhere(c) \/ PairMissing(c)
  PROVE  PoolsInv'
<1> USE DEF lookVars
<1>1. ChainInv' /\ UNCHANGED chainVars
  BY SameChain DEF PoolsInv, PairFound, PairElsewhere, PairMissing
<1>2. PoolsTyped'
  <2>1. \A e \in Errors : Refused(e) \in FoundAnswers
    BY DEF FoundAnswers, Refused
  <2>2. ChainInv
    BY DEF PoolsInv
  <2>3. Venues(confirmed) \in AllVenues
    BY <2>2 DEF ChainInv, Sound, Venues, AllVenues, States
  <2>4. [l \in Lookups |-> NoPool] \in [Lookups -> Pools \union {NoPool}]
    OBVIOUS
  <2>5. CASE PairFound(c)
    BY <2>3, <2>4, <2>5 DEF PoolsInv, PoolsTyped, PairFound, StartLooking, Stages
  <2>6. CASE PairMissing(c)
    BY <2>1, <2>6 DEF PoolsInv, PoolsTyped, PairMissing, Answer, Errors, Stages
  <2>7. CASE PairElsewhere(c)
    BY <2>7 DEF PoolsInv, PoolsTyped, PairElsewhere, Panic, Stages
  <2> QED BY <2>5, <2>6, <2>7
<1>3. ASSUME NEW d \in Lookers PROVE CallInv(d)' /\ AnsweredTrue(d)'
  <2>0. CallInv(c) /\ AnsweredTrue(c) /\ stage[c] = "pair"
    BY DEF PoolsInv, PairFound, PairElsewhere, PairMissing
  <2>1. CASE d # c
    <3>1. /\ stage'[d] = stage[d] /\ ask'[d] = ask[d] /\ running'[d] = running[d]
          /\ looked'[d] = looked[d] /\ missing'[d] = missing[d] /\ pool'[d] = pool[d]
          /\ found'[d] = found[d] /\ seen'[d] = seen[d] /\ untraded'[d] = untraded[d]
          /\ read'[d] = read[d]
      BY <2>1 DEF PoolsInv, PoolsTyped, PairFound, PairElsewhere, PairMissing, StartLooking,
                        Answer, Panic
    <3> QED BY <1>1, <3>1, Undisturbed
  <2>2. CASE d = c
    <3>1. /\ ask'[c] = ask[c] /\ read'[c] = read[c]
          /\ untraded'[c] = untraded[c] /\ pool'[c] = pool[c]
      BY DEF PairFound, PairElsewhere, PairMissing
    <3>2. /\ Tradable(head)' <=> Tradable(head)
          /\ Tradable(confirmed)' <=> Tradable(confirmed)
      BY <1>1 DEF chainVars, Tradable
    <3>3. \/ stage'[c] = "looking" /\ found'[c] = Nothing /\ StartLooking(c)
          \/ stage'[c] = "idle" /\ \E e \in {"ErrNotFound", "request"} : found'[c] = Refused(e)
          \/ stage'[c] = "panicked" /\ found'[c] = Nothing
      BY <2>0 DEF PoolsInv, PoolsTyped, PairFound, PairElsewhere, PairMissing, StartLooking,
                  Answer, Panic, CallInv
    <3>4. StartLooking(c) => Looking(c)'
      BY <1>1, <2>0, <3>1, LookingStarts DEF CallInv
    <3>6. CallInv(c)'
      BY <1>1, <2>0, <3>1, <3>2, <3>3, <3>4 DEF CallInv, chainVars
    <3>7. AnsweredTrue(c)'
      BY <2>0, <3>1, <3>3 DEF AnsweredTrue, Nothing, Refused, CallInv
    <3> QED BY <2>2, <3>6, <3>7
  <2> QED BY <2>1, <2>2
<1> QED BY <1>1, <1>2, <1>3 DEF PoolsInv

LEMMA LookUpKeeps ==
  ASSUME PoolsInv, NEW c \in Lookers, NEW l \in Lookups, LookUp(c, l) \/ LookUpFails(c, l)
  PROVE  PoolsInv'
<1> USE DEF lookVars
<1>1. ChainInv' /\ UNCHANGED chainVars
  BY SameChain DEF PoolsInv, LookUp, LookUpFails
<1> DEFINE hit == IF l = "curve" THEN PumpFunByToken ELSE RaydiumByToken(l)
<1>2. hit \in Pools \union {NoPool}
  <2>1. l # "curve" => l \in Sides
    BY DEF Lookups
  <2> QED BY <2>1 DEF PumpFunByToken, RaydiumByToken, Pools
<1>3. /\ running' = [running EXCEPT ![c] = @ \ {l}]
      /\ \/ looked' = [looked EXCEPT ![c][l] = hit] /\ missing' = missing
         \/ missing' = [missing EXCEPT ![c] = @ \union {l}] /\ looked' = looked
      /\ UNCHANGED <<stage, ask, pool, found, seen, untraded, read>>
      /\ stage[c] = "looking" /\ l \in running[c]
  BY DEF LookUp, LookUpFails
<1>4. PoolsTyped'
  <2> HIDE DEF hit
  <2>1. PoolsTyped
    BY DEF PoolsInv
  <2>2. running' \in [Lookers -> SUBSET Lookups] /\ missing' \in [Lookers -> SUBSET Lookups]
    BY <1>3, <2>1 DEF PoolsTyped
  <2>3. looked' \in [Lookers -> [Lookups -> Pools \union {NoPool}]]
    <3>1. looked \in [Lookers -> [Lookups -> Pools \union {NoPool}]]
      BY <2>1 DEF PoolsTyped
    <3>2. [looked[c] EXCEPT ![l] = hit] \in [Lookups -> Pools \union {NoPool}]
      BY <1>2, <3>1
    <3>3. looked' = [looked EXCEPT ![c] = [looked[c] EXCEPT ![l] = hit]] \/ looked' = looked
      BY <1>3
    <3> QED BY <3>1, <3>2, <3>3
  <2> QED BY <1>3, <2>1, <2>2, <2>3 DEF PoolsTyped
<1>5. ASSUME NEW d \in Lookers PROVE CallInv(d)' /\ AnsweredTrue(d)'
  <2>0. CallInv(c) /\ AnsweredTrue(c) /\ Looking(c)
    BY <1>3 DEF PoolsInv, CallInv
  <2>1. CASE d # c
    <3>1. /\ stage'[d] = stage[d] /\ ask'[d] = ask[d] /\ running'[d] = running[d]
          /\ looked'[d] = looked[d] /\ missing'[d] = missing[d] /\ pool'[d] = pool[d]
          /\ found'[d] = found[d] /\ seen'[d] = seen[d] /\ untraded'[d] = untraded[d]
          /\ read'[d] = read[d]
      BY <1>3, <2>1 DEF PoolsInv, PoolsTyped
    <3> QED BY <1>1, <3>1, Undisturbed
  <2>2. CASE d = c
    <3>1. /\ Tradable(head)' <=> Tradable(head)
          /\ Tradable(confirmed)' <=> Tradable(confirmed)
      BY <1>1 DEF chainVars, Tradable
    <3>2. History(c)'
      BY <1>1, <1>3, <2>0 DEF Looking, History, Venues, chainVars
    <3>3. hit = Shown(l, Venues(confirmed)) /\ Venues(confirmed) \in seen[c]
      BY <2>0 DEF PumpFunByToken, RaydiumByToken, Shown, Venues, Looking, History
    <3>4. running'[c] = running[c] \ {l}
      BY <1>3 DEF PoolsInv, PoolsTyped
    <3>5. \/ /\ missing'[c] = missing[c] /\ looked'[c][l] = hit
             /\ \A m \in Lookups : m # l => looked'[c][m] = looked[c][m]
          \/ missing'[c] = missing[c] \union {l} /\ looked'[c] = looked[c]
      BY <1>3 DEF PoolsInv, PoolsTyped
    <3>6. \A m, v : Shown(m, v)' = Shown(m, v)
      BY <1>1 DEF chainVars, Shown
    <3>7. l \in running[c] /\ l \notin missing[c] /\ looked[c][l] = NoPool
      BY <1>3, <2>0 DEF Looking
    <3>8. ASSUME NEW m \in Lookups
          PROVE  IF m \in running'[c] \union missing'[c] THEN looked'[c][m] = NoPool
                 ELSE \E v \in seen'[c] : looked'[c][m] = Shown(m, v)
      <4> HIDE DEF hit
      <4>1. CASE m # l
        BY <1>3, <2>0, <3>4, <3>5, <4>1 DEF Looking
      <4>2. CASE m = l
        BY <1>3, <3>3, <3>4, <3>5, <3>7, <4>2
      <4> QED BY <4>1, <4>2
    <3>9. running'[c] \intersect missing'[c] = {}
      BY <2>0, <3>4, <3>5 DEF Looking
    <3>10. Looking(c)'
      BY <3>2, <3>6, <3>8, <3>9 DEF Looking
    <3>11. CallInv(c)'
      BY <1>1, <1>3, <2>0, <3>1, <3>10 DEF CallInv, chainVars
    <3>12. AnsweredTrue(c)'
      BY <1>3, <2>0 DEF CallInv, AnsweredTrue, Nothing
    <3> QED BY <2>2, <3>11, <3>12
  <2> QED BY <2>1, <2>2
<1> QED BY <1>1, <1>4, <1>5 DEF PoolsInv

\* A pool that QueryPool chooses is where it says, and without a failure of a
\* lookup it is the token's venue at some moment of the call.
LEMMA Chosen ==
  ASSUME PoolsInv, NEW c \in Lookers, stage[c] = "looking", running[c] = {}
  PROVE  LET p == Preferred(looked[c]) IN
         /\ p \in Pools \union {NoPool}
         /\ p.dex = 0 => p.side = token.side /\ confirmed.pool = "open"
         /\ p = NoPool /\ missing[c] = {} => untraded[c]
         /\ p.dex = 1 /\ missing[c] = {} =>
              untraded[c] \/ (p.status = 0 /\ confirmed.curve = "live")
<1> DEFINE p == Preferred(looked[c])
<1>1. ChainInv /\ CallInv(c) /\ Looking(c) /\ PoolsTyped /\ History(c)
  BY DEF PoolsInv, CallInv, Looking
<1>2. PICK v \in seen[c] : p = Atomic(v, missing[c])
  BY <1>1, OneMoment
<1>3. v \in AllVenues
  BY <1>1 DEF PoolsTyped
<1>4. token.side \in Sides
  BY <1>1 DEF ChainInv
<1>5. CASE v.pool = "open" /\ token.side \notin missing[c]
  <2>1. p = Raydium(token.side)
    BY <1>2, <1>5 DEF Atomic
  <2>2. confirmed.pool = "open"
    BY <1>1, <1>5 DEF History
  <2>3. p \in Pools /\ p # NoPool /\ p.dex = 0 /\ p.side = token.side
    BY <1>4, <2>1 DEF Raydium, NoPool, Pools
  <2> HIDE DEF p
  <2> QED BY <2>2, <2>3 DEF p
<1>6. CASE ~(v.pool = "open" /\ token.side \notin missing[c])
           /\ v.curve # "none" /\ "curve" \notin missing[c]
  <2>1. p = Pumpfun(v.curve = "complete")
    BY <1>2, <1>6 DEF Atomic
  <2>2. p \in Pools /\ p # NoPool /\ p.dex = 1 /\ p.status = IF v.curve = "complete" THEN 1 ELSE 0
    <3>1. p = Pumpfun(TRUE) \/ p = Pumpfun(FALSE)
      BY <2>1
    <3>2. Pumpfun(TRUE) \in Pools /\ Pumpfun(FALSE) \in Pools
      BY DEF Pools
    <3>3. p.dex = 1 /\ p.status = IF v.curve = "complete" THEN 1 ELSE 0
      BY <2>1 DEF Pumpfun
    <3>4. NoPool.dex # 1
      BY DEF NoPool
    <3> HIDE DEF p
    <3> QED BY <3>1, <3>2, <3>3, <3>4
  <2>3. missing[c] = {} => v.pool # "open"
    BY <1>6
  <2>4. v.curve # "complete" => v.curve = "live"
    BY <1>3, <1>6 DEF AllVenues
  <2>5. missing[c] = {} => untraded[c] \/ (p.status = 0 /\ confirmed.curve = "live")
    <3> HIDE DEF p
    <3> QED BY <1>1, <2>2, <2>3, <2>4 DEF History
  <2> HIDE DEF p
  <2> QED BY <2>2, <2>5 DEF p
<1>7. CASE ~(v.pool = "open" /\ token.side \notin missing[c])
           /\ ~(v.curve # "none" /\ "curve" \notin missing[c])
  <2>1. p = NoPool
    BY <1>2, <1>6, <1>7 DEF Atomic
  <2>2. missing[c] = {} => v.pool # "open" /\ v.curve = "none"
    BY <1>7
  <2>3. missing[c] = {} => untraded[c]
    BY <1>1, <2>2 DEF History
  <2>4. p \in Pools \union {NoPool} /\ p.dex # 0 /\ p.dex # 1
    BY <2>1 DEF NoPool
  <2> HIDE DEF p
  <2> QED BY <2>3, <2>4 DEF p
<1> QED BY <1>5, <1>6, <1>7

LEMMA ChooseKeeps ==
  ASSUME PoolsInv, NEW c \in Lookers, Choose(c)
  PROVE  PoolsInv'
<1> USE DEF lookVars
<1> DEFINE p == Preferred(looked[c])
<1>1. ChainInv' /\ UNCHANGED chainVars
  BY SameChain DEF PoolsInv, Choose
<1>2. PoolsTyped /\ CallInv(c) /\ AnsweredTrue(c) /\ stage[c] = "looking" /\ running[c] = {}
  BY DEF PoolsInv, Choose
<1>3. /\ p \in Pools \union {NoPool}
      /\ p.dex = 0 => p.side = token.side /\ confirmed.pool = "open"
      /\ p = NoPool /\ missing[c] = {} => untraded[c]
      /\ p.dex = 1 /\ missing[c] = {} =>
           untraded[c] \/ (p.status = 0 /\ confirmed.curve = "live")
  BY <1>2, Chosen
<1>4. /\ pool' = [pool EXCEPT ![c] = p]
      /\ \/ p = NoPool /\ Answer(c, Refused("ErrInvalidPool"))
         \/ p # NoPool /\ Answer(c, Found(p))
         \/ p # NoPool /\ stage' = [stage EXCEPT ![c] = "reading"] /\ UNCHANGED found
      /\ looked' = [looked EXCEPT ![c] = [l \in Lookups |-> NoPool]]
      /\ seen' = [seen EXCEPT ![c] = {}]
      /\ UNCHANGED <<ask, running, missing, untraded, read>>
  BY DEF Choose
<1> HIDE DEF p
<1>5. PoolsTyped'
  <2>1. Refused("ErrInvalidPool") \in FoundAnswers /\ (p # NoPool => Found(p) \in FoundAnswers)
    BY <1>3 DEF FoundAnswers, Refused, Errors, Found
  <2>2. found' \in [Lookers -> FoundAnswers]
    BY <1>2, <1>4, <2>1 DEF PoolsTyped, Answer
  <2>3. stage' \in [Lookers -> Stages]
    BY <1>2, <1>4 DEF PoolsTyped, Answer, Stages
  <2>4. /\ pool' \in [Lookers -> Pools \union {NoPool}]
        /\ seen' \in [Lookers -> SUBSET AllVenues]
        /\ looked' \in [Lookers -> [Lookups -> Pools \union {NoPool}]]
    BY <1>2, <1>3, <1>4 DEF PoolsTyped
  <2> QED BY <1>2, <1>4, <2>2, <2>3, <2>4 DEF PoolsTyped
<1>6. ASSUME NEW d \in Lookers PROVE CallInv(d)' /\ AnsweredTrue(d)'
  <2>1. CASE d # c
    <3>1. /\ stage'[d] = stage[d] /\ ask'[d] = ask[d] /\ running'[d] = running[d]
          /\ looked'[d] = looked[d] /\ missing'[d] = missing[d] /\ pool'[d] = pool[d]
          /\ found'[d] = found[d] /\ seen'[d] = seen[d] /\ untraded'[d] = untraded[d]
          /\ read'[d] = read[d]
      BY <1>2, <1>4, <2>1 DEF PoolsTyped, Answer
    <3> QED BY <1>1, <3>1, Undisturbed
  <2>2. CASE d = c
    <3>1. /\ ask'[c] = ask[c] /\ read'[c] = read[c] /\ missing'[c] = missing[c]
          /\ untraded'[c] = untraded[c] /\ pool'[c] = p
      BY <1>2, <1>4 DEF PoolsTyped
    <3>2. /\ Tradable(head)' <=> Tradable(head)
          /\ Tradable(confirmed)' <=> Tradable(confirmed)
      BY <1>1 DEF chainVars, Tradable
    <3>3. \/ stage'[c] = "idle" /\ p = NoPool /\ found'[c] = Refused("ErrInvalidPool")
          \/ stage'[c] = "idle" /\ found'[c] = Found(p)
          \/ stage'[c] = "reading" /\ found'[c] = Nothing
      BY <1>2, <1>4 DEF PoolsTyped, Answer, CallInv
    <3>4. Reading(c)'
      BY <1>1, <1>3, <3>1 DEF Reading, chainVars
    <3>5. CallInv(c)'
      BY <1>1, <1>2, <1>3, <3>1, <3>2, <3>3, <3>4 DEF CallInv, chainVars
    <3>6. AnsweredTrue(c)'
      BY <1>3, <3>1, <3>3 DEF AnsweredTrue, Nothing, Refused, Found
    <3> QED BY <2>2, <3>5, <3>6
  <2> QED BY <2>1, <2>2
<1> QED BY <1>1, <1>5, <1>6 DEF PoolsInv

\* What is read of the head through a pool that is known is the truth.
LEMMA ReadIsTrue ==
  ASSUME PoolsInv, NEW c \in Lookers, stage[c] = "reading",
         NEW a, \/ pool[c].dex = 0 /\ a = ReadRaydium(pool[c], head)
                \/ pool[c].dex = 1 /\ pool[c].status = 0 /\ a = ReadPumpfun(head)
                \/ pool[c].dex = 1 /\ pool[c].status # 0 /\ a = Refused("ErrInvalidPool")
  PROVE  /\ a \in FoundAnswers
         /\ a.kind = "quote" => Tradable(head) /\ a = Quote(head.token, head.sol)
         /\ a.kind = "error" /\ ask[c].given = NoPool /\ missing[c] = {} => untraded[c]
<1>1. /\ ChainInv /\ PoolsTyped /\ CallInv(c) /\ Reading(c)
      /\ Sound(head) /\ head \in States /\ token.side \in Sides
  BY DEF PoolsInv, CallInv, ChainInv, Sound
<1>2. ~Tradable(head) => untraded[c]
  BY <1>1 DEF CallInv
<1>3. Quote(head.token, head.sol) \in FoundAnswers
  BY <1>1 DEF States, FoundAnswers, Quote
<1>4. \A e \in Errors : Refused(e) \in FoundAnswers /\ Refused(e).kind = "error"
  BY DEF FoundAnswers, Refused
<1>5. CASE pool[c].dex = 0 /\ a = ReadRaydium(pool[c], head)
  <2>1. pool[c].side = token.side /\ confirmed.pool = "open"
    BY <1>1, <1>5 DEF CallInv
  <2>2. head.pool = "open"
    BY <1>1, <2>1 DEF ChainInv, Change
  <2>3. head.curve # "live"
    BY <1>1, <2>2 DEF ChainInv, Sound
  <2>4. CASE head.token = 0 \/ head.sol = 0
    <3>1. a = Refused("ErrPoolCompleted")
      BY <1>1, <1>5, <2>4 DEF ReadRaydium, Sides
    <3>2. ~Tradable(head)
      BY <2>3, <2>4 DEF Tradable
    <3> QED BY <1>2, <1>4, <3>1, <3>2 DEF Errors
  <2>5. CASE head.token # 0 /\ head.sol # 0
    <3>1. a = Quote(head.token, head.sol)
      BY <1>1, <1>5, <2>1, <2>5 DEF ReadRaydium, Sides
    <3>2. Tradable(head)
      BY <2>2, <2>5 DEF Tradable
    <3>3. a.kind = "quote"
      BY <3>1 DEF Quote
    <3> QED BY <1>3, <3>1, <3>2, <3>3
  <2> QED BY <2>4, <2>5
<1>6. CASE pool[c].dex = 1 /\ pool[c].status = 0 /\ a = ReadPumpfun(head)
  <2>1. CASE head.curve = "live"
    <3>1. head.token # 0
      BY <1>1, <2>1 DEF Sound
    <3>2. a = Quote(head.token, head.sol)
      BY <1>6, <2>1, <3>1 DEF ReadPumpfun
    <3>3. a.kind = "quote"
      BY <3>2 DEF Quote
    <3> QED BY <1>3, <2>1, <3>2, <3>3 DEF Tradable
  <2>2. CASE head.curve # "live"
    <3>1. a = Refused("ErrInvalidPool") \/ a = Refused("ErrPoolCompleted")
      BY <1>1, <1>6, <2>2 DEF ReadPumpfun, States
    <3>2. confirmed.curve = "live" => untraded[c]
      <4>1. confirmed.curve = "live" => head.pool # "open"
        BY <1>1, <2>2 DEF ChainInv, Sound, Change
      <4> QED BY <1>2, <2>2, <4>1 DEF Tradable
    <3>3. ask[c].given = NoPool /\ missing[c] = {} => untraded[c]
      BY <1>1, <1>6, <3>2 DEF Reading
    <3> QED BY <1>4, <3>1, <3>3 DEF Errors
  <2> QED BY <2>1, <2>2
<1>7. CASE pool[c].dex = 1 /\ pool[c].status # 0 /\ a = Refused("ErrInvalidPool")
  <2>1. ask[c].given = NoPool /\ missing[c] = {} => untraded[c]
    BY <1>1, <1>7 DEF Reading
  <2> QED BY <1>4, <1>7, <2>1 DEF Errors
<1> QED BY <1>5, <1>6, <1>7

LEMMA ReadKeeps ==
  ASSUME PoolsInv, NEW c \in Lookers, Read(c) \/ ReadFails(c)
  PROVE  PoolsInv'
<1> USE DEF lookVars
<1>1. ChainInv' /\ UNCHANGED chainVars
  BY SameChain DEF PoolsInv, Read, ReadFails
<1>2. PoolsTyped /\ ChainInv /\ CallInv(c) /\ AnsweredTrue(c) /\ stage[c] = "reading"
  BY DEF PoolsInv, Read, ReadFails
<1>3. PICK a \in FoundAnswers :
        /\ Answer(c, a)
        /\ \/ /\ read' = [read EXCEPT ![c] = head]
              /\ a.kind = "quote" => Tradable(head) /\ a = Quote(head.token, head.sol)
              /\ a.kind = "error" /\ ask[c].given = NoPool /\ missing[c] = {} => untraded[c]
           \/ read' = read /\ a = Refused("request")
  <2>1. CASE Read(c)
    <3>1. PICK a : /\ Answer(c, a)
                   /\ \/ pool[c].dex = 0 /\ a = ReadRaydium(pool[c], head)
                      \/ pool[c].dex = 1 /\ pool[c].status = 0 /\ a = ReadPumpfun(head)
                      \/ pool[c].dex = 1 /\ pool[c].status # 0 /\ a = Refused("ErrInvalidPool")
      BY <2>1 DEF Read
    <3>2. /\ a \in FoundAnswers
          /\ a.kind = "quote" => Tradable(head) /\ a = Quote(head.token, head.sol)
          /\ a.kind = "error" /\ ask[c].given = NoPool /\ missing[c] = {} => untraded[c]
      BY <1>2, <3>1, ReadIsTrue
    <3> QED BY <2>1, <3>1, <3>2 DEF Read
  <2>2. CASE ReadFails(c)
    <3>1. Refused("request") \in FoundAnswers
      BY DEF FoundAnswers, Refused, Errors
    <3> QED BY <2>2, <3>1 DEF ReadFails
  <2> QED BY <2>1, <2>2
<1>4. UNCHANGED <<ask, lookVars, pool, seen, untraded>>
  BY DEF Read, ReadFails
<1>5. PoolsTyped'
  <2>1. head \in States
    BY <1>2 DEF ChainInv, Sound
  <2> QED BY <1>2, <1>3, <1>4, <2>1 DEF PoolsTyped, Answer, Stages
<1>6. ASSUME NEW d \in Lookers PROVE CallInv(d)' /\ AnsweredTrue(d)'
  <2>1. CASE d # c
    <3>1. /\ stage'[d] = stage[d] /\ ask'[d] = ask[d] /\ running'[d] = running[d]
          /\ looked'[d] = looked[d] /\ missing'[d] = missing[d] /\ pool'[d] = pool[d]
          /\ found'[d] = found[d] /\ seen'[d] = seen[d] /\ untraded'[d] = untraded[d]
          /\ read'[d] = read[d]
      BY <1>2, <1>3, <1>4, <2>1 DEF PoolsTyped, Answer
    <3> QED BY <1>1, <3>1, Undisturbed
  <2>2. CASE d = c
    <3>1. /\ ask'[c] = ask[c] /\ missing'[c] = missing[c]
          /\ untraded'[c] = untraded[c] /\ pool'[c] = pool[c]
          /\ stage'[c] = "idle" /\ found'[c] = a
      BY <1>2, <1>3, <1>4 DEF PoolsTyped, Answer
    <3>2. CallInv(c)'
      BY <1>1, <1>2, <3>1 DEF CallInv, chainVars
    <3>3. AnsweredTrue(c)'
      <4>1. CASE read' = [read EXCEPT ![c] = head]
                 /\ (a.kind = "quote" => Tradable(head) /\ a = Quote(head.token, head.sol))
                 /\ (a.kind = "error" /\ ask[c].given = NoPool /\ missing[c] = {} => untraded[c])
        <5>1. read'[c] = head
          BY <1>2, <4>1 DEF PoolsTyped
        <5> QED BY <3>1, <4>1, <5>1 DEF AnsweredTrue, Tradable
      <4>2. CASE read' = read /\ a = Refused("request")
        BY <3>1, <4>2 DEF AnsweredTrue, Refused
      <4> QED BY <1>3, <4>1, <4>2
    <3> QED BY <2>2, <3>2, <3>3
  <2> QED BY <2>1, <2>2
<1> QED BY <1>1, <1>5, <1>6 DEF PoolsInv

LEMMA ReadPanicKeeps ==
  ASSUME PoolsInv, NEW c \in Lookers, ReadPanics(c)
  PROVE  PoolsInv'
<1> USE DEF lookVars
<1>1. ChainInv' /\ UNCHANGED chainVars
  BY SameChain DEF PoolsInv, ReadPanics
<1>2. PoolsTyped /\ CallInv(c) /\ AnsweredTrue(c) /\ stage[c] = "reading"
  BY DEF PoolsInv, ReadPanics
<1>3. /\ stage' = [stage EXCEPT ![c] = "panicked"] /\ ask[c].text # "address"
      /\ UNCHANGED <<ask, lookVars, pool, found, seen, untraded, read>>
  BY DEF ReadPanics, Panic, NoMint
<1>4. PoolsTyped'
  BY <1>2, <1>3 DEF PoolsTyped, Stages
<1>5. ASSUME NEW d \in Lookers PROVE CallInv(d)' /\ AnsweredTrue(d)'
  <2>1. CASE d # c
    <3>1. stage'[d] = stage[d]
      BY <1>2, <1>3, <2>1 DEF PoolsTyped
    <3> QED BY <1>1, <1>3, <3>1, Undisturbed
  <2>2. CASE d = c
    <3>1. stage'[c] = "panicked" /\ found'[c] = Nothing
      BY <1>2, <1>3 DEF PoolsTyped, CallInv
    <3>2. /\ Tradable(head)' <=> Tradable(head)
          /\ Tradable(confirmed)' <=> Tradable(confirmed)
      BY <1>1 DEF chainVars, Tradable
    <3>3. CallInv(c)'
      BY <1>1, <1>2, <1>3, <3>1, <3>2 DEF CallInv, chainVars
    <3>4. AnsweredTrue(c)'
      BY <1>3, <3>1 DEF AnsweredTrue, Nothing
    <3> QED BY <2>2, <3>3, <3>4
  <2> QED BY <2>1, <2>2
<1> QED BY <1>1, <1>4, <1>5 DEF PoolsInv

LEMMA PoolsInvNext == PoolsInv /\ [PoolsNext]_poolsVars => PoolsInv'
<1> SUFFICES ASSUME PoolsInv, [PoolsNext]_poolsVars PROVE PoolsInv'
    OBVIOUS
<1>1. CASE Mined
  BY <1>1, MinedKeeps
<1>2. CASE Confirmed
  BY <1>2, ConfirmedKeeps
<1>3. CASE Forked
  BY <1>3, ForkedKeeps
<1>4. ASSUME NEW c \in Lookers, NEW a \in Asks, Call(c, a) PROVE PoolsInv'
  BY <1>4, CallKeeps
<1>5. ASSUME NEW c \in Lookers, PairFound(c) \/ PairElsewhere(c) \/ PairMissing(c)
      PROVE PoolsInv'
  BY <1>5, PairKeeps
<1>6. ASSUME NEW c \in Lookers, NEW l \in Lookups, LookUp(c, l) \/ LookUpFails(c, l)
      PROVE PoolsInv'
  BY <1>6, LookUpKeeps
<1>7. ASSUME NEW c \in Lookers, Choose(c) PROVE PoolsInv'
  BY <1>7, ChooseKeeps
<1>8. ASSUME NEW c \in Lookers, Read(c) \/ ReadFails(c) PROVE PoolsInv'
  BY <1>8, ReadKeeps
<1>10. ASSUME NEW c \in Lookers, ReadPanics(c) PROVE PoolsInv'
  BY <1>10, ReadPanicKeeps
<1>9. CASE UNCHANGED poolsVars
  <2>1. UNCHANGED chainVars /\ PoolsTyped /\ ChainInv
    BY <1>9 DEF poolsVars, PoolsInv
  <2>2. ChainInv'
    BY <2>1, SameChain
  <2>3. PoolsTyped'
    BY <1>9, <2>1 DEF poolsVars, callVars, lookVars, PoolsTyped
  <2>4. ASSUME NEW d \in Lookers PROVE CallInv(d)' /\ AnsweredTrue(d)'
    BY <1>9, <2>1, Undisturbed DEF poolsVars, callVars, lookVars
  <2> QED BY <2>2, <2>3, <2>4 DEF PoolsInv
<1> QED BY <1>1, <1>2, <1>3, <1>4, <1>5, <1>6, <1>7, <1>8, <1>9, <1>10 DEF PoolsNext, PoolsStep

\* For any number of callers, whatever the venues hold: the three lookups of
\* QueryPool, each at a time of its own, amount to one at one moment.
THEOREM LookupsAtomic == PoolsSpec => []LookupAtomic
<1>1. PoolsInv => LookupAtomic
  <2> SUFFICES ASSUME PoolsInv, NEW c \in Lookers, stage[c] = "looking", running[c] = {}
               PROVE  \E v \in seen[c] : Preferred(looked[c]) = Atomic(v, missing[c])
      BY DEF LookupAtomic
  <2>1. ChainInv /\ PoolsTyped /\ Looking(c)
    BY DEF PoolsInv, CallInv
  <2> QED BY <2>1, OneMoment
<1> QED BY <1>1, PoolsInvInit, PoolsInvNext, PTL DEF PoolsSpec

\* And GetPool quotes what trades, the right way round, refuses a token only if
\* for some time of the call it could not be traded, and panics only on a text
\* that is no address; for tokens of which raydium has one pool with SOL.
THEOREM PoolAnswersTrue == PoolsSpec => []PoolAnswerTrue
<1>1. PoolsInv => PoolAnswerTrue
  BY DEF PoolsInv, PoolAnswerTrue, AnsweredTrue
<1> QED BY <1>1, PoolsInvInit, PoolsInvNext, PTL DEF PoolsSpec

=============================================================================
