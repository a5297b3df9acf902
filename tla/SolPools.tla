------------------------------ MODULE SolPools -------------------------------
(***************************************************************************)
(* Finding the pool of a Solana token: QueryPool and GetPool of            *)
(* sol/solana.go with the lookups they run in raydium and pumpfun.         *)
(*                                                                         *)
(* The lookups see the confirmed chain, each at a time of its own; the     *)
(* reserves are then read at the processed head.  Meanwhile the token goes *)
(* from its bonding curve to a raydium pool, or is drained there.          *)
(*                                                                         *)
(* The model's limit: raydium has at most one pool of the token with SOL.  *)
(* Of several, the code takes the first that the node lists.               *)
(***************************************************************************)
EXTENDS Integers, FiniteSets

CONSTANTS
  Lookers,      \* goroutines of the application that look for the token
  Holdings      \* what the vaults of a venue may hold; 0 is an empty vault

ASSUME PoolsAssumption == Holdings \subseteq [token : Nat, sol : Nat]

VARIABLES
  token,        \* where it was issued, and which mint of its pool it is
  confirmed,    \* the chain as confirmed
  head,         \* the chain as processed, at most one change ahead (a bound)
  stage,        \* stage[c]: where the call of c is
  ask,          \* ask[c]: its arguments
  running,      \* running[c]: the lookups of its QueryPool still running
  looked,       \* looked[c][l]: what lookup l brought
  missing,      \* missing[c]: the lookups that failed
  pool,         \* pool[c]: the pool in use, and the one c knows afterwards
  found,        \* found[c]: the answer
  seen,         \* history: the confirmed venues while QueryPool ran
  untraded,     \* history: during the call the token could not be traded
  read          \* history: the head that GetPool read

chainVars == <<token, confirmed, head>>
lookVars == <<running, looked, missing>>
callVars == <<stage, ask, lookVars, pool, found, seen, untraded, read>>
poolsVars == <<chainVars, callVars>>

-----------------------------------------------------------------------------
(* Pools, requests and answers.                                            *)

\* The part of types.Pool that decides anything.  A raydium record has no
\* status of its own.
Raydium(side) == [dex |-> 0, status |-> 0, side |-> side]
Pumpfun(complete) == [dex |-> 1, status |-> IF complete THEN 1 ELSE 0, side |-> "base"]
NoPool == [dex |-> -1, status |-> 0, side |-> "base"]

Sides == {"base", "quote"}
Pools == {Raydium(s) : s \in Sides} \cup {Pumpfun(b) : b \in BOOLEAN}

\* The lookups of QueryPool: the token as base mint of a raydium pool, as its
\* quote mint, and its bonding curve.
Lookups == Sides \cup {"curve"}

\* What a token text is: an address (CheckAddress), the pair of a dexscreener
\* link, or neither.
Texts == {"address", "pair", "neither"}

Asks == [op : {"QueryPool", "GetPool"}, text : Texts, given : Pools \cup {NoPool}]

Refused(e) == [kind |-> "error", error |-> e]
Nothing == [kind |-> "none"]
Quote(t, s) == [kind |-> "quote", token |-> t, sol |-> s]
Found(p) == [kind |-> "pool", pool |-> p]

\* The venues of a chain state.
Venues(s) == [curve |-> s.curve, pool |-> s.pool]
AllVenues == [curve : {"none", "live", "complete"}, pool : {"none", "open"}]
Chains == {[curve |-> v.curve, pool |-> v.pool, token |-> h.token, sol |-> h.sol] :
             v \in AllVenues, h \in Holdings}

Tradable(s) ==
  \/ s.curve = "live"
  \/ s.pool = "open" /\ s.token # 0 /\ s.sol # 0

-----------------------------------------------------------------------------
(* The chain.                                                              *)

\* A change of the token's venues.  A curve that completes stops trading; its
\* liquidity is moved to a raydium pool some time later, and pumpfun opens
\* one pool only.  Reserves move by trades and may be withdrawn from a pool.
Change(s, t) ==
  \/ /\ token.origin = "pumpfun" /\ s.curve = "none"
     /\ t.curve = "live" /\ t.pool = s.pool
  \/ /\ s.curve = "live"
     /\ t.curve \in {"live", "complete"} /\ t.pool = s.pool
  \/ /\ s.pool = "none"
     /\ token.origin = "pumpfun" => s.curve = "complete"
     /\ t.pool = "open" /\ t.curve = s.curve
  \/ /\ s.pool = "open"
     /\ t.pool = "open" /\ t.curve = s.curve

\* A curve that trades has reserves, and so has a pool when it opens.
Backed(s, t) ==
  t.curve = "live" \/ s.pool = "none" => t.token # 0 /\ t.sol # 0

Unsold == [curve |-> "none", pool |-> "none", token |-> 0, sol |-> 0]

\* What the histories record of a view of the chain.
Witnessed(view) ==
  untraded' = [c \in Lookers |-> untraded[c] \/ (stage[c] # "idle" /\ ~Tradable(view))]

Mined ==
  /\ head = confirmed
  /\ \E t \in Chains :
       /\ t # head /\ Change(head, t) /\ Backed(head, t)
       /\ head' = t
       /\ Witnessed(t)
  /\ UNCHANGED <<token, confirmed, stage, ask, lookVars, pool, found, seen, read>>

Confirmed ==
  /\ head # confirmed
  /\ confirmed' = head
  /\ seen' = [c \in Lookers |->
                IF stage[c] = "looking" THEN seen[c] \cup {Venues(head)} ELSE seen[c]]
  /\ UNCHANGED <<token, head, stage, ask, lookVars, pool, found, untraded, read>>

\* The block processed last is abandoned.
Forked ==
  /\ head # confirmed
  /\ head' = confirmed
  /\ Witnessed(confirmed)
  /\ UNCHANGED <<token, confirmed, stage, ask, lookVars, pool, found, seen, read>>

-----------------------------------------------------------------------------
(* QueryPool and GetPool.                                                  *)

Answer(c, a) ==
  /\ stage' = [stage EXCEPT ![c] = "idle"]
  /\ found' = [found EXCEPT ![c] = a]

\* The three lookups start.
StartLooking(c) ==
  /\ stage' = [stage EXCEPT ![c] = "looking"]
  /\ running' = [running EXCEPT ![c] = Lookups]
  /\ looked' = [looked EXCEPT ![c] = [l \in Lookups |-> NoPool]]
  /\ missing' = [missing EXCEPT ![c] = {}]
  /\ seen' = [seen EXCEPT ![c] = {Venues(confirmed)}]

\* solana.MPK of a text that is no address panics, and nothing recovers it.
Panic(c) == stage' = [stage EXCEPT ![c] = "panicked"]

\* QueryPool, or GetPool with the pool the caller knows (none: it is looked
\* up, by the address that dexscreener has for a pair).  Only GetPool without
\* a pool looks at the text first.
Call(c, a) ==
  /\ stage[c] = "idle"
  /\ a.op = "QueryPool" => a.given = NoPool
  /\ a.given \in {NoPool, pool[c]}
  /\ ask' = [ask EXCEPT ![c] = a]
  /\ untraded' = [untraded EXCEPT ![c] = ~Tradable(head) \/ ~Tradable(confirmed)]
  /\ \/ /\ a.given # NoPool
        /\ pool' = [pool EXCEPT ![c] = a.given]
        /\ stage' = [stage EXCEPT ![c] = "reading"]
        /\ found' = [found EXCEPT ![c] = Nothing]
        /\ UNCHANGED <<lookVars, seen>>
     \/ /\ a.given = NoPool /\ a.text = "address"
        /\ StartLooking(c)
        /\ found' = [found EXCEPT ![c] = Nothing]
        /\ UNCHANGED pool
     \/ /\ a.op = "QueryPool" /\ a.text # "address"
        /\ Panic(c)
        /\ found' = [found EXCEPT ![c] = Nothing]
        /\ UNCHANGED <<lookVars, seen, pool>>
     \/ /\ a.op = "GetPool" /\ a.given = NoPool /\ a.text = "pair"
        /\ stage' = [stage EXCEPT ![c] = "pair"]
        /\ found' = [found EXCEPT ![c] = Nothing]
        /\ UNCHANGED <<lookVars, seen, pool>>
     \/ /\ a.op = "GetPool" /\ a.given = NoPool /\ a.text = "neither"
        /\ Answer(c, Refused("ErrInvalidPool"))
        /\ UNCHANGED <<lookVars, seen, pool>>
  /\ UNCHANGED <<chainVars, read>>

\* QueryDexScreener: the first pair, none, or no answer.  Nothing says that
\* the base token of that pair is an address of Solana.
PairFound(c) ==
  /\ stage[c] = "pair"
  /\ StartLooking(c)
  /\ UNCHANGED <<chainVars, ask, pool, found, untraded, read>>

PairElsewhere(c) ==
  /\ stage[c] = "pair"
  /\ Panic(c)
  /\ UNCHANGED <<chainVars, ask, lookVars, pool, found, seen, untraded, read>>

PairMissing(c) ==
  /\ stage[c] = "pair"
  /\ \E e \in {"ErrNotFound", "request"} : Answer(c, Refused(e))
  /\ UNCHANGED <<chainVars, ask, lookVars, pool, seen, untraded, read>>

\* What a lookup finds on the confirmed chain.  That of raydium filters by both
\* mints and takes the first match, here the only one; without a match it
\* answers nil, as one that fails does.
RaydiumByToken(side) ==
  IF confirmed.pool = "open" /\ token.side = side THEN Raydium(side) ELSE NoPool

PumpFunByToken ==
  IF confirmed.curve = "none" THEN NoPool ELSE Pumpfun(confirmed.curve = "complete")

LookUp(c, l) ==
  /\ stage[c] = "looking" /\ l \in running[c]
  /\ running' = [running EXCEPT ![c] = @ \ {l}]
  /\ looked' = [looked EXCEPT ![c][l] = IF l = "curve" THEN PumpFunByToken ELSE RaydiumByToken(l)]
  /\ UNCHANGED <<chainVars, stage, ask, missing, pool, found, seen, untraded, read>>

LookUpFails(c, l) ==
  /\ stage[c] = "looking" /\ l \in running[c]
  /\ running' = [running EXCEPT ![c] = @ \ {l}]
  /\ missing' = [missing EXCEPT ![c] = @ \cup {l}]
  /\ UNCHANGED <<chainVars, stage, ask, looked, pool, found, seen, untraded, read>>

\* Mutant of Preferred: the curve comes first.
CurveFirst(r) ==
  IF r["curve"] # NoPool THEN r["curve"]
  ELSE IF r["base"] # NoPool THEN r["base"]
  ELSE IF r["quote"] # NoPool THEN r["quote"]
  ELSE NoPool

\* The first of p1, p2, p3 that is not nil.
Preferred(r) ==
  IF r["base"] # NoPool THEN r["base"]
  ELSE IF r["quote"] # NoPool THEN r["quote"]
  ELSE IF r["curve"] # NoPool THEN r["curve"]
  ELSE NoPool

\* Wait has returned.  GetPool goes on with the pool.
Choose(c) ==
  /\ stage[c] = "looking"
  /\ running[c] = {}
  /\ LET p == Preferred(looked[c]) IN
     /\ pool' = [pool EXCEPT ![c] = p]
     /\ \/ /\ p = NoPool
           /\ Answer(c, Refused("ErrInvalidPool"))
        \/ /\ p # NoPool /\ ask[c].op = "QueryPool"
           /\ Answer(c, Found(p))
        \/ /\ p # NoPool /\ ask[c].op = "GetPool"
           /\ stage' = [stage EXCEPT ![c] = "reading"]
           /\ UNCHANGED found
  /\ looked' = [looked EXCEPT ![c] = [l \in Lookups |-> NoPool]]
  /\ seen' = [seen EXCEPT ![c] = {}]
  /\ UNCHANGED <<chainVars, ask, running, missing, untraded, read>>

\* Mutant of ReadPumpfun: the status of the pool record is relied on.
ReadPumpfunByStatus(s) ==
  IF s.curve = "none" THEN Refused("ErrInvalidPool") ELSE Quote(s.token, s.sol)

\* GetPumpFunPool on a chain state: the curve's account says itself whether
\* it has completed.
ReadPumpfun(s) ==
  IF s.curve = "none" THEN Refused("ErrInvalidPool")
  ELSE IF s.curve = "complete" \/ s.token = 0 THEN Refused("ErrPoolCompleted")
  ELSE Quote(s.token, s.sol)

\* GeRaydiumPoolP2 on a chain state: the vaults are those of the base and the
\* quote mint; the token is the one that is not SOL.
ReadRaydium(p, s) ==
  LET tokenIsBase == p.side = "base"
      base == IF token.side = "base" THEN s.token ELSE s.sol
      quote == IF token.side = "base" THEN s.sol ELSE s.token
  IN IF base = 0 \/ quote = 0 THEN Refused("ErrPoolCompleted")
     ELSE IF tokenIsBase THEN Quote(base, quote) ELSE Quote(quote, base)

\* GetPumpFunPool is given the text that the caller of GetPool gave with a pool.
NoMint(c) ==
  pool[c].dex = 1 /\ pool[c].status = 0 /\ ask[c].given # NoPool /\ ask[c].text # "address"

ReadPanics(c) ==
  /\ stage[c] = "reading" /\ NoMint(c)
  /\ Panic(c)
  /\ UNCHANGED <<chainVars, ask, lookVars, pool, found, seen, untraded, read>>

Read(c) ==
  /\ stage[c] = "reading" /\ ~NoMint(c)
  /\ \/ /\ pool[c].dex = 0
        /\ Answer(c, ReadRaydium(pool[c], head))
     \/ /\ pool[c].dex = 1 /\ pool[c].status = 0
        /\ Answer(c, ReadPumpfun(head))
     \/ /\ pool[c].dex = 1 /\ pool[c].status # 0
        /\ Answer(c, Refused("ErrInvalidPool"))
  /\ read' = [read EXCEPT ![c] = head]
  /\ UNCHANGED <<chainVars, ask, lookVars, pool, seen, untraded>>

ReadFails(c) ==
  /\ stage[c] = "reading" /\ ~NoMint(c)
  /\ pool[c].dex = 1 => pool[c].status = 0
  /\ Answer(c, Refused("request"))
  /\ UNCHANGED <<chainVars, ask, lookVars, pool, seen, untraded, read>>

-----------------------------------------------------------------------------
PoolsInit ==
  /\ token \in [origin : {"pumpfun", "elsewhere"}, side : Sides]
  /\ confirmed = Unsold /\ head = Unsold
  /\ stage = [c \in Lookers |-> "idle"]
  /\ ask = [c \in Lookers |-> [op |-> "QueryPool", text |-> "address", given |-> NoPool]]
  /\ running = [c \in Lookers |-> {}]
  /\ looked = [c \in Lookers |-> [l \in Lookups |-> NoPool]]
  /\ missing = [c \in Lookers |-> {}]
  /\ pool = [c \in Lookers |-> NoPool]
  /\ found = [c \in Lookers |-> Nothing]
  /\ seen = [c \in Lookers |-> {}]
  /\ untraded = [c \in Lookers |-> FALSE]
  /\ read = [c \in Lookers |-> Unsold]

PoolsStep ==
  \/ Mined \/ Confirmed \/ Forked
  \/ \E c \in Lookers :
       \/ \E a \in Asks : Call(c, a)
       \/ PairFound(c) \/ PairElsewhere(c) \/ PairMissing(c)
       \/ \E l \in Lookups : LookUp(c, l) \/ LookUpFails(c, l)
       \/ Choose(c) \/ Read(c) \/ ReadPanics(c) \/ ReadFails(c)

\* A panic ends the program.
PoolsNext == (\A c \in Lookers : stage[c] # "panicked") /\ PoolsStep

PoolsSpec == PoolsInit /\ [][PoolsNext]_poolsVars

-----------------------------------------------------------------------------
\* What one lookup at a single moment would have preferred, had the lookups
\* in absent not answered.
Atomic(v, absent) ==
  IF v.pool = "open" /\ token.side \notin absent THEN Raydium(token.side)
  ELSE IF v.curve # "none" /\ "curve" \notin absent THEN Pumpfun(v.curve = "complete")
  ELSE NoPool

\* The three lookups of QueryPool run at different times while the token
\* migrates, but what it makes of them is what the chain was at one moment of
\* the call; a lookup that fails can only hide its own venue.
LookupAtomic ==
  \A c \in Lookers :
    stage[c] = "looking" /\ running[c] = {} =>
      \E v \in seen[c] : Preferred(looked[c]) = Atomic(v, missing[c])

\* GetPool quotes a venue only while it trades, with the token's reserve as
\* token and the other as SOL, however old the pool record and whichever way
\* round the pool is.  If no lookup failed, it refuses a token only if during
\* the call it could not be traded.  And a call that is given an address does
\* not panic.
PoolAnswerTrue ==
  \A c \in Lookers :
    /\ found[c].kind = "quote" =>
         /\ Tradable(read[c])
         /\ found[c] = Quote(read[c].token, read[c].sol)
    /\ /\ found[c].kind = "error" /\ found[c].error \in {"ErrInvalidPool", "ErrPoolCompleted"}
       /\ ask[c].given = NoPool /\ ask[c].text # "neither" /\ missing[c] = {}
       => untraded[c]
    /\ stage[c] = "panicked" => ask[c].text # "address"
=============================================================================
