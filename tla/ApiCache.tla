------------------------------- MODULE ApiCache ------------------------------
(***************************************************************************)
(* The cached queries of sol/api.go on the cache of utils/cache.go:        *)
(* QueryDexScreenerWithCache and QueryPumpFunWithCache.                    *)
(*                                                                         *)
(* Callers look a key up, ask the service when there is no entry, and      *)
(* store the answer.  Nothing orders two callers of the same key, and one  *)
(* cache holds the answers of both services.  Time is kept as ages.        *)
(***************************************************************************)
EXTENDS Naturals

CONSTANTS
  Fetchers,     \* goroutines of the application
  Addresses,    \* the tokens they ask about
  MaxDuration,  \* the expiration given to an entry
  MaxTransit    \* bound: the time from a service's answer to its storing

ASSUME CacheAssumption == MaxDuration \in Nat \ {0} /\ MaxTransit \in Nat

Services == {"dexscreener", "pumpfun"}
Queries == [service : Services, address : Addresses]

VARIABLES
  entry,        \* entry[k]: the answer stored under key k, and its ages
  fetch,        \* fetch[f]: where the call of f is
  query,        \* query[f]: what it asks for
  got,          \* got[f]: the answer it has in hand
  answered      \* history, answered[f]: the last answer it returned

cacheVars == <<entry, fetch, query, got, answered>>

\* An answer: the query it answers and how long ago the service gave it.
NoAnswer == [query |-> [service |-> "none", address |-> "none"], age |-> 0]

Cap == MaxDuration + MaxTransit + 1
Aged(a) == IF a < Cap THEN a + 1 ELSE a

\* Mutant of Key: the prefix is left out.
KeyOfAddress(q) == [service |-> "any", address |-> q.address]

\* "QueryDexScreener:" or "QueryPumpFun:" and the address.
Key(q) == [service |-> q.service, address |-> q.address]

Keys == {Key(q) : q \in Queries}

Empty == [answer |-> NoAnswer, stored |-> 0]

CacheInit ==
  /\ entry = [k \in Keys |-> Empty]
  /\ fetch = [f \in Fetchers |-> "idle"]
  /\ query = [f \in Fetchers |-> NoAnswer.query]
  /\ got = [f \in Fetchers |-> NoAnswer]
  /\ answered = [f \in Fetchers |-> NoAnswer]

-----------------------------------------------------------------------------
Request(f, q) ==
  /\ fetch[f] = "idle"
  /\ query' = [query EXCEPT ![f] = q]
  /\ fetch' = [fetch EXCEPT ![f] = "looking"]
  /\ answered' = [answered EXCEPT ![f] = NoAnswer]
  /\ UNCHANGED <<entry, got>>

ReturnAnswer(f, a) ==
  /\ fetch' = [fetch EXCEPT ![f] = "idle"]
  /\ answered' = [answered EXCEPT ![f] = a]
  /\ query' = [query EXCEPT ![f] = NoAnswer.query]
  /\ got' = [got EXCEPT ![f] = NoAnswer]

\* GetWithTTL finds the entry.  The store reports a time to live of zero, so
\* any entry is good enough; its bytes always decode.
Hit(f) ==
  /\ fetch[f] = "looking"
  /\ entry[Key(query[f])] # Empty
  /\ ReturnAnswer(f, entry[Key(query[f])].answer)
  /\ UNCHANGED entry

Miss(f) ==
  /\ fetch[f] = "looking"
  /\ entry[Key(query[f])] = Empty
  /\ fetch' = [fetch EXCEPT ![f] = "asking"]
  /\ UNCHANGED <<entry, query, got, answered>>

\* The service answers; the answer is on its way.
Served(f) ==
  /\ fetch[f] = "asking"
  /\ got' = [got EXCEPT ![f] = [query |-> query[f], age |-> 0]]
  /\ fetch' = [fetch EXCEPT ![f] = "storing"]
  /\ UNCHANGED <<entry, query, answered>>

\* An error of the service, or no pair: nothing is stored, nothing answered.
ServiceFails(f) ==
  /\ fetch[f] = "asking"
  /\ ReturnAnswer(f, NoAnswer)
  /\ UNCHANGED entry

\* Set, whose result is not looked at: the cache may drop the entry.
Store(f) ==
  /\ fetch[f] = "storing"
  /\ \/ entry' = [entry EXCEPT ![Key(query[f])] = [answer |-> got[f], stored |-> 0]]
     \/ UNCHANGED entry
  /\ ReturnAnswer(f, got[f])

\* The cache evicts what it likes.
Evict(k) ==
  /\ entry[k] # Empty
  /\ entry' = [entry EXCEPT ![k] = Empty]
  /\ UNCHANGED <<fetch, query, got, answered>>

\* One unit of time: an entry lives for MaxDuration after its Set.
CacheTick ==
  /\ \A f \in Fetchers : fetch[f] = "storing" => got[f].age < MaxTransit
  /\ entry' = [k \in Keys |->
                 IF entry[k] = Empty \/ entry[k].stored + 1 >= MaxDuration THEN Empty
                 ELSE [answer |-> [entry[k].answer EXCEPT !.age = Aged(@)],
                       stored |-> entry[k].stored + 1]]
  /\ got' = [f \in Fetchers |->
               IF fetch[f] = "storing" THEN [got[f] EXCEPT !.age = @ + 1] ELSE got[f]]
  /\ answered' = [f \in Fetchers |-> NoAnswer]
  /\ UNCHANGED <<fetch, query>>

CacheNext ==
  \/ CacheTick \/ \E k \in Keys : Evict(k)
  \/ \E f \in Fetchers :
       \/ \E q \in Queries : Request(f, q)
       \/ Hit(f) \/ Miss(f) \/ Served(f) \/ ServiceFails(f) \/ Store(f)

CacheSpec == CacheInit /\ [][CacheNext]_cacheVars

-----------------------------------------------------------------------------
\* An answer is the answer to the caller's own query, whoever fetched it, and
\* the service gave it no longer ago than an entry may live and an answer may
\* travel, although a slow refresh may overwrite a fresher entry.
CachedAnswerRight ==
  [][\A f \in Fetchers :
       fetch[f] # "idle" /\ fetch'[f] = "idle" /\ answered'[f] # NoAnswer =>
         /\ answered'[f].query = query[f]
         /\ answered'[f].age < MaxDuration + MaxTransit]_cacheVars
=============================================================================
