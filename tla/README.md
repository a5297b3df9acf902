# go-web3: a TLA+ verification project

`meme-bots/go-web3` is a Go library that trading bots embed. One `Network` object per chain answers
price and pool queries, sends swaps, transfers and token launches for wallets, and reports what
became of them. The library keeps little state of its own: a background watcher per chain, a shared
websocket connection, a cache. What makes it hard is that everything it decides is decided on what
it has read a moment ago, while other goroutines, other trades of the same wallet and the rest of the
chain go on.

This directory models that: the goroutines and locks of the library exactly, the chain as far as the
library relies on it, the amounts with the arithmetic the code uses, and the instructions with the accounts
they name.

Contents: 1 inventory · 2 modules and how they map to the code · 3 runs · 4 bounds · 5 fairness ·
6 proofs · 7 what is assumed of the chains · 8 findings · 9 not modelled · 10 plan.

## 1. Inventory

| component | code | state | operations | what is hard |
|---|---|---|---|---|
| network dispatch | `network.go`, `types/` | none | `NewNetwork`, the `NetworkInterface` | nothing: a switch |
| sol watcher | `sol/watcher.go` | life-cycle state, mutex, context, WaitGroup, price, hash, hash time | `Start`, `Close`, two loops, two getters | `Close` waits under its mutex; a deferred `Close` in `Start`; stale hashes |
| evm watcher | `evm/watcher.go` | the same, price and gas price | the same | it is created in a state no `Start` accepts |
| subprocesses | `utils/subprocesses.go` | WaitGroup, per call a channel, a timer, a context | `Go`, `Wait`, `BlockForAtMost(Many)`, `RepeatWithCancel` | functions that outlive their call, select between ready branches |
| arithmetic | `utils/misc.go`, parts of `sol/raydium/swap.go`, `sol/pumpfun/pumpfun.go` | none | quotes, shares, limits, gas price, initial buy | words that wrap, decimals that round |
| sol trade | `sol/solana.go` `Transact`, `GetTransaction`; `raydium` and `pumpfun` `SendBuy`, `SendSell`, parsers | the wallet's accounts (on chain) | buy, sell, report | everything is read before the transaction lands |
| sol watching | `sol/solana.go` `WatchTransaction`, `WsReconnect` | the shared `client` | subscribe, reconnect | unsynchronised pointer, endless retry |
| sol pools | `sol/solana.go` `QueryPool`, `GetPool`; lookups in `raydium`, `pumpfun` | none | three concurrent lookups, one answer | swallowed errors, a token that migrates meanwhile |
| sol launch | `sol/solana.go` `Launch`, `pumpfun.CreateAndBuy` | none | create and buy in one transaction | the initial buy's rounding; who signs for what |
| instructions, accounts | `sol/pumpfun/*.go` (builders, codecs), `sol/raydium/raydium.go`, `openbook.go` | none | build, validate, encode, decode, derive addresses | up to 17 arguments of one type in order; callers skip the validation |
| sol transfers | `sol/transfer.go` | none | `SendTransfer`, `SendTransferBatch` | recipient limit |
| APIs, cache | `sol/api.go`, `utils/cache.go` | a cache with time to live | query, query with cache | stale entries |
| evm trade | `evm/evm.go` `Transact`, `Withdraw`, `SendNative`, `WatchTransaction`, `GetTransaction`; `evm/token.go`, `evm/native.go` | the wallet's nonce (at the node) | approve, poll, swap, transfer, report | nonce races, replacement, an approval between decision and sale |
| evm pools, receipts | `evm/evm.go` `GetPool`, `WaitReceipt`; `evm/misc.go` | none | queries | orientation of reserves, a wait without end |
| formatting | `utils/format.go` | none | text layout, `TrimSpace` | an off-by-one |
| bindings | `evm/uniswap`, `evm/erc20`, `evm/chainlink`, `evm/multisend` | none | encode and call | generated |

How they interact: the application calls `Network` methods from as many goroutines as it likes.
`Start` spawns the watcher's loops through `Subprocesses.Go`; `Transact` on Solana takes its block hash
from the watcher, `Transact` on EVM its gas price. `GetPool` is called first and its answer (reserves,
allowance) comes back in the `Transact` request, as old as the application lets it become. The
transaction then lands in an order nobody controls, and `GetTransaction` reads its outcome from the
chain.

What makes each correct: the watcher's life cycle is linear and its answers whole and fresh; the
subprocess helper's answers are true and its waits end; a pool that is found is where the token trades,
and its reserves are the right way round; a watch tells of the caller's own transaction; every instruction
has its accounts in place; an amount sent with a trade never gives away more
than the user accepted; a report says what happened; a position is called closed when it is; calls return.

`PROJECT.json` lists the hazards of the code at their lines, each with the property that covers it or
why none does yet.

## 2. Modules

| module | models |
|---|---|
| `Service` | what a watcher promises its owner: launched once, stopped once, stopped only when every worker has gone |
| `Watcher` | `Start`, `Close`, the loops and the getters of `sol/watcher.go`; implements `Service` |
| `EvmWatcher` | `Watcher` as `evm.NewWatcher` initialises it |
| `WatcherProofs` | theorems about `Watcher` and `EvmWatcher` |
| `Subprocesses`, `SubprocessesProofs` | `utils/subprocesses.go` |
| `Amounts`, `AmountsProofs` | the arithmetic as operators; lemmas and theorems on division, wrapping, shares and quotes |
| `Quotes`, `QuotesProofs` | the arithmetic asked for every small input |
| `Order` | what a network promises to those who trade on it with one wallet, on whichever chain |
| `SolTrade`, `SolTradeProofs` | trades of one Solana wallet, raydium and pumpfun; they implement `Order` |
| `EvmTrade`, `EvmTradeProofs` | calls of one EVM wallet; they implement `Order` |
| `SolPools` | `QueryPool` and `GetPool` of `sol/solana.go` with their lookups, while the token migrates |
| `Watching` | `WatchTransaction`, `WsReconnect` on the shared client; `WaitReceipt` of `evm/evm.go` |
| `ApiCache` | the cached queries of `sol/api.go` on `utils/cache.go` |
| `EvmPools` | `GetPool` of `evm/evm.go` with `CalculatePoolAddress`, `sortAddressess` |
| `Transfers` | `SendTransfer`, `SendTransferBatch` behind `Withdraw`, `SendNative` and `SendNativeBatch` of Solana; `TransferETHBatch` |
| `Names` | `TrimSpace` of `utils/format.go` |
| `Instructions` | builders, codecs and layouts of `sol/pumpfun`, the swap of `sol/raydium`, and the accounts trades and launch pass |
| `EncodingProofs` | theorems about `Names` and `Instructions` |
| `QueriesProofs` | theorems about `SolPools`, `Watching`, `ApiCache`, `EvmPools`, `Transfers` |
| `MC*` | instances for TLC; `MCQueries` holds the seven modules from `SolPools` to `Instructions` |

### Watcher

Each caller's `pc` follows it through `Start` and `Close`. `stateMu` names the thread that holds the
mutex across the one blocking wait (`subprocesses.Wait()` in `Close`); everything else under the mutex
is one step. A refused `Start` passes through `cleanup`: it has unlocked and runs its deferred `Close`
like any other caller. `loop[f]` is where a loop is: in its select, asking the server, holding an
answer, queued for the write lock, writing. `wins` counts the calls that
reported success, over the life of the watcher. A value is `zero`, `fetched` or `torn` (half written), and a
reader holds its read lock as a state of its own, so reads and writes would overlap if the locks allowed
it. Go's `RWMutex` keeps new readers out once a writer waits; that is the guard of `ReadBegins`. The age of
a hash is kept twice: `sinceUpdate` is what the code measures, `blockAge` what is true.

### Subprocesses

A call starts a goroutine per function, arms its timer and selects between reports and timer. `done` is
the buffered channel (`Capacity`), `expired` the context, `fired` the timer: the code starts the context
before the functions and the timer after them, so they end at different times. A repeater
(`RepeatWithCancel`) and a `Wait` run beside the calls and share the WaitGroup. As in package `sync`, the `Done`
that brings the count to zero, the release of the waiter (`Release`) and the return of `Wait` (`WaitOver`) are
three steps. A `Go` that comes between the first two panics (`AddPanics`), and one between the last two makes the
waiter panic (`WaitPanics`); `panicked` ends the program. One goroutine waits at a time.

### Amounts and Quotes

A launch's initial buy is asked for with virtual and real reserves of their own, so that the cap on what the
curve can sell is reached as well as not. `Word`, `Scale` and `Bps` stand for 2^64, 10^16 and 10000 and are parameters, so that TLC sees products
wrap and quotients round with small numbers and the proofs hold for the real ones. `Wrap` is applied
where the Go type is `uint64` and nowhere else: `big.Int` amounts are exact.

### SolTrade

`Ask` is the request, with the reserves of the `GetPool` it was quoted at; `ReadAccounts` the
`GetMultipleAccounts` of `Transact`; `Send` builds and sends; `PreflightFails`
is the server's refusal, which exists only with a tip (without one the code skips the preflight).
A transaction is the record of its instruction list: swap and limit, accounts opened before and closed
after, fee and tip. `Build` chooses among the four builders as `Transact` does. `Succeed`, `Fail` and
`Expire` are the chain: a transaction executes in one step against the wallet and the pool as they are
then, or not at all. `Obstacles` is the set of everything that makes it fail. `GetTransaction` reads the
result off the recorded inner instructions by position, as the parsers do. Two traders share the wallet;
other wallets trade with the pool in between.

### EvmTrade

Each caller makes one call: a swap through `Transact`, or `SendNative`/`Withdraw` (a transfer of ether).
`ReadNonce` and `Accepted` are two steps, as `PendingNonceAt` and `SendTransaction` are two requests;
what happens in between is the nonce race. The node keeps `mempool`: it takes a transaction whose nonce
is free, or one that pays more than the one it has under the same nonce, which is then `replaced`. The
chain mines in nonce order, at some time or never. `Poll` is a turn of `WatchTransaction`, in steps of
500 ms up to `MaxPolls`. A mined transaction counts for it even if it reverted, as in the code.
The request carries the allowance of its `GetPool`, and `NeedsApproval` is decided on that.

### Order

`network.go` puts one interface, `Transact` and `GetTransaction`, before all chains; `Order` is what that
interface promises. A client places an order, which is refused or sent. One that was sent takes effect once, as
a whole, or never, and the wallet's tokens change in no other way. `answer` is what `Transact` said, `told` what
`GetTransaction` said last. What it leaves open is as important: an error of `Transact` does not mean that
nothing was sent, nothing need ever be settled, and a later order may void others.

`SolTrade` implements it with its traders as clients: from `Send` on an order is sent, `Succeed` fills it, `Fail`
and `Expire` void it. `EvmTrade` implements it with its callers as clients, by what has become of a call's
swap or transfer (`Main`). A transaction that is accepted may replace those of other calls, which is why
`Submit` voids orders in the same step, and so may an approval, which otherwise is a stuttering step, as are the
nonce and the polls. `GetTransaction` of the EVM network is an operator there, so `told` is not used.

### SolPools

The chain is kept twice: `confirmed`, which the lookups see, and `head`, which the vault balances are read
from; `head` is at most one change ahead and may be abandoned (`Forked`). A change moves the token one
step on: its curve appears, completes, its pool opens, or reserves move, to nothing at last in a pool.
A call starts three lookups (`StartLooking`), which end one by one, each with what is confirmed then
(`LookUp`) or with an error that the code drops (`LookUpFails`). `Choose` is what follows `Wait`: the
first of the three that is not nil. `Read` is the second half of `GetPool`, with a pool just found or
one the caller kept from an earlier call. `ReadPumpfun` and `ReadRaydium` hold the checks, orientation
and errors of `GetPumpFunPool` and `GeRaydiumPoolP2`. A text is an address, the pair of a dexscreener link or
neither. A text that is no address is looked up as a pair, whose first token may be no Solana key
(`PairElsewhere`): the code parses it without a check and panics, as `GetPool` does when it is given a pumpfun
pool with such a text (`ReadPanics`). A panic
ends the program: nothing follows it. The abstract specification is `Atomic`: one lookup
at a single moment.

### Watching

`link[k]` is the state of connection k, `visible[w]` the connections goroutine w may find in the shared
`s.client`: the field is a plain pointer that `WsReconnect` overwrites without synchronisation, so a
reader may see any write since its own last one. `Subscribed` and `SubscribeFails` are
`SignatureSubscribe` on whichever it finds, `SubscribeRefused` its failure on a connection that is up. `WsReconnect`
dials until it succeeds (`Dials`) and stores (`Stores`), and others may store in between; connections that are
replaced stay open. `WatchEnds` is every return: the notification, the timeout, the error of a lost connection.
`ReceivedText` is the type assertion on a textual error, which ends the program. The watch is at the commitment
"processed", so an outcome is not final: `Lands` puts it into a block that is the head, `Abandoned` undoes blocks,
and `undone` keeps what was in them. `WaitReceipt` shares nothing with these and
has actions of its own; only its subscription is under a timeout.

### ApiCache, EvmPools, Transfers, Names

`ApiCache`: a call looks its key up, asks the service on a miss, stores and answers, with other calls in
between; entries age, expire and are evicted. The code compares the remaining time to live with five
minutes; the store reports zero, so that any entry serves. `EvmPools`: addresses are numbers, a text is an
address in one of three forms that `HexToAddress` reads; `IsToken0` compares texts. `Transfers`: a batch is
a number of bills of one amount and of distinct wallets, a packet is its size in bytes. Texts that are no keys are
refused by `Withdraw` and panic in the other senders (`TextsRefused`), and an amount is taken modulo 2^64
(`Lamports`). `Names`: the two loops of
`TrimSpace` as the sets of indices they look at.

### Instructions

A key, a parameter or a seed is a tuple that names what it is computed from, so two keys are equal exactly
when the code derives them alike. Each of pumpfun's six instructions is given by
four tables, read off its file: the slot and privileges its setters use, what `Validate` asks for, what the
encoder writes and the decoder reads, and the order in which `New...Instruction` takes its arguments.
`Built`, `ValidatedAndBuilt`, `New`, `Data` and `DecodeInstruction` are the common behaviour over these
tables. `PumpBuy`, `PumpSell`, `LaunchCreate`, `LaunchBuy`, `RaydiumBuy`, `RaydiumSell` are the calls the
trades and the launch make, argument by argument. `GlobalStruct`, `GlobalMarshal`, `GlobalUnmarshal` (and those of the bonding
curve) are the three descriptions the code gives of one account's layout; `PoolStruct` and `PoolFilters`
the two of a raydium pool.

## 3. Runs

| run | question | properties |
|---|---|---|
| `SolWatcher` | any interleaving of `Start`, `Close`, loops and getters | `OneSuccess`, `LoopsFollowState`, `HandedOutSound`, `ErrorsTellTheTruth`, `QuietAfterClose` |
| `SolWatcherProgress` | does every call return, is every answer published, is the abstract service implemented (price-only watcher, three callers) | `CallsReturn`, `AnswerPublished`, `ImplementsService` |
| `SolWatcherRefusedStart` | is a refused `Start` harmless? **violated** | `RefusedStartIsHarmless` |
| `EvmWatcherStart` | is an EVM watcher's error true? **violated** | `ErrorsTellTheTruth` |
| `Subprocesses` | are answers true, do calls and `Wait` return | `AnswerTrue`, `WaitSound`, `CallsReturn`, `WaitReturns` |
| `SubprocessesFinished` | "if all fs finished, returns true"? **violated** | `TrueWhenFinished` |
| `Quotes` | all small inputs of the arithmetic | `QuoteNearFloor`, `QuoteKeepsProduct`, `LimitsNeverLax`, `InitialBuyAffordable` |
| `SolTrade` | concurrent trades of one wallet on both venues | `TypeOK`, `ReportTrue`, `PositionReportTrue`, `SpendBound`, `PriceProtected`, `SellNeverCosts` |
| `RaydiumCreate` | is the "idempotent" account creation idempotent? **violated** | `CreateIsIdempotent` |
| `PumpfunSlippage` | is a slippage failure reported as one? **violated** | `SlippageReported` |
| `EvmTrade` | two concurrent calls of one wallet | `ImplementsOrder`, `NoGap`, `ApprovalFirst`, `ReportTrue`, `PositionTrueIfAlone`, `PriceProtected`, `CallsReturn` |
| `Queries` | the components around the trades, one of them in each behaviour | `LookupAtomic`, `PoolAnswerTrue`, `WatchTold`, `ConnectionsBounded`, `WatchReturns`, `CachedAnswerRight`, `ReservesOriented`, `BatchFits`, `NamesTrimmed`, `InstructionsReadBack`, `AccountsInPlace` |

In `Queries` the variable `use` picks one component at the start and the others stay as they are: they
share no state, in the code as in the model, so their product has no behaviour that the parts have not. What
one hands to another (the pool record of an earlier call, a block hash, the amounts of a launch) is an input
of the module that takes it. The watches are used in two ways: "watch" has transactions that land and are
abandoned, and one failure of the network; "connect" has `MaxDrops` failures and no landing. The theorems have both
without bound.

Every property of a passing run has a mutant in `PROJECT.json`: a changed definition, written next to
the one it stands in for, under which TLC finds the property violated.

What some of them say that is not obvious:

- `OneSuccess`: a refused `Start` runs a deferred `Close`, which may take the place of the one that would have
  succeeded; still no second `Start` or `Close` reports success.
- `AnswerPublished`: a loop with an answer gets past the readers, writes it whole and unlocks; the getters it shut
  out can go on. That a getter is let in for lack of other writers is not claimed.
- `WaitSound`: when `Wait` returns no goroutine is left, also none that a `Go` counted after the waiter was released:
  that one makes `Wait` panic instead. The code has no guard against the panic.
- `InitialBuyAffordable`: the tokens of a launch's first buy are at most what the curve sells and cost at most the
  SOL it brings.
- `PositionReportTrue` (Solana): `Transact` decides "position closed" on a balance read before the
  transaction lands. It is nevertheless true of every sell that lands, whatever other trades do in between,
  because a sell that closes also closes the token account, which the token program refuses while
  anything is left.
- `PositionTrueIfAlone` (EVM): there is no such protection on EVM. The property states the exact condition
  under which the report is right: no other swap landed since the balance was read.
- `NoGap`: nonces are read with a separate request, and calls race; yet no accepted transaction is ever
  stuck behind a missing nonce. A call can lose its transaction to another call that pays more, though.
- `ImplementsOrder` (EVM): two calls share nonces, allowance and mempool, and each may lose its answer, take the
  other's place or wait for an approval; each still takes effect once or never. The same formula of `SolTrade`
  holds at the bounds of its run, but doubles the longest run there is and is left to its theorem.
- `LimitsNeverLax`: when `amount * slippage` wraps in `uint64`, the limit becomes stricter, never laxer.
- `LookupAtomic` (Solana): `QueryPool` asks three times at three moments and drops errors, yet its answer is
  what one question at one moment of the call would have brought, less the lookups that failed. Different
  lookups may see different states of the migration; the order of preference and the order in which
  venues appear make them agree.
- `PoolAnswerTrue`: a pool record is as old as the application lets it be; that it
  calls the curve live is not relied on, since the curve's account is read again. "Invalid" and "completed" are true of some time of the call when no lookup
  failed. A failed raydium lookup of a migrated token, on the other hand, is answered as "invalid", and
  the property says so by its condition. A text that is no address may panic; an address never does.
- `WatchTold`: what a watch reports was true of a block that was the head, and no more: the block may be abandoned
  afterwards. A subscription finds its connection down only if the network failed since it was made: replacing the
  shared client does not disturb the subscriptions of others, because the old connection is never closed (the
  mutant closes it). A transaction error that is a text, not a map, ends the program; nothing else does.
- `ConnectionsBounded`: the price of that is connections that stay open. How many is bounded by the failures of the
  network and the watchers: two watchers do not make each other reconnect for ever.
- `WatchReturns`: `WatchTransaction` ends unless the server goes away: then its loop has no end, whatever
  `Duration` says, and the property excepts that case. `WaitReceipt` promises less: a transaction without a log, or one mined
  before the subscription, leaves it waiting, and the property covers the other cases only.
- `CachedAnswerRight`: two services share the cache and two callers may refresh one entry out of order; an
  answer is never to another query, and its age is bounded by the time to live and the transit.
- `ReservesOriented`: the reserves are the right way round for an address in checksum form, and in any form
  when it is the larger of the two. An address in another form that is the smaller one would be quoted with
  the reserves exchanged; the property states the condition under which the code is right. A panic needs
  an empty pair.
- `BatchFits`: 21 recipients is the exact limit of a packet, for bills that all go to different wallets.
  21000 gas a bill pays for the payload of two bills or more and falls short for one.
- `NamesTrimmed`: what `TrimSpace` returns, its one exception included: a name of one byte that comes first
  is lost, because the backward loop stops above index 0.
- `InstructionsReadBack`, `AccountsInPlace`: builders are called with many arguments of one Go type and
  without validation, so an exchange compiles; each account and parameter of every instruction is where
  its program wants it, for both orders of a market's mints, and the signers' keys are their own. For a raydium
  swap this is said only of markets of OpenBook: for any other the vault signer is derived under OpenBook's program
  all the same (`raydium.go:374`), and slot 8 would be wrong.
- `WaitReturns`: a call that gave up leaves functions behind; they can report without blocking for ever.

## 4. Bounds

| bound | value | why it is enough |
|---|---|---|
| watcher callers | 2, 3 in `SolWatcherProgress` | one holds the mutex in its wait, one is refused, one queues |
| readers | 1 or 2 | readers interact only with writers |
| `MaxAge`, `MaxLatency` | 2, 1 | older than, as old as, and younger than the limit; an answer late or on time |
| `MaxFuncs` | 3 | none, one, and a call with one function reported, one running and one late |
| `Quotes` inputs | up to 12 (the real reserve of a curve, too) with words of 20, precision of 3, ratios in quarters | sums and products wrap, quotients round up and down |
| Solana traders, trades | 2 traders, 3 trades | open, close and reopen the account between the reading and the landing of another trade |
| swaps of others | 1 | a move of the pool in either direction |
| EVM callers | 2, one call each | two calls race for one nonce; one may be waiting for an approval while the other replaces it |
| `MaxPolls` | 2 | mined at once, after one turn, too late |
| pool lookups | 1 caller | callers share only the chain, which moves freely; the theorems hold for any number |
| holdings of a vault | (1, 2) and (0, 0) | unequal, so an exchange shows; and drained |
| watchers, `MaxDrops` | 2, 3 (1 where transactions land) | one reconnects while the other holds, sees or has lost the old connection, or has made one and not stored it |
| abandonments | 1 | what was told before, and what is told after |
| `MaxMade` | 14 | one more than `ConnectionsBounded` allows at that many failures, so that running out would show |
| waiters | 1 | they share nothing |
| cache callers, addresses | 2, 1 address under 2 services | two refreshes of one key out of order; two keys of one address |
| `MaxDuration`, `MaxTransit` | 2, 1 | an entry that is new, old and gone, an answer stored late |
| token addresses | 1 and 3 around 2, and 2 itself | smaller, larger, and the wrapped token asked for itself |
| `MaxReserve` | 3 | none, and unequal ones |
| `MaxRecipientCount`, `MaxBills` | 21, 24 | the code's own limit, and requests on both sides of it |
| names | 4 bytes over 2 letters, space, zero | padding on both ends of nothing, one or more bytes |
| `BillAmounts`, `AmountWord` | 1 and 3, 2 | an amount that fits its word, and one that wraps |
| words in trades | 1000 | amounts do not wrap there; wrapping is the subject of `Quotes` and of the proofs |

`Queries` has 457,992 distinct states, `SolTrade`, the largest run, 2,998,497. The theorems of section 6 hold for
every value of these bounds, `BatchesFit` with the limit 21 of the code. The instructions need no bound, since
there are finitely many.

`CHECK_DEADLOCK FALSE` is set where the system may stop: when the bounded requests are used up, when a
call has been answered and nothing is pending, when everything has been cancelled. Symmetry is used only
in runs without liveness properties.

## 5. Fairness

- `Watcher`: callers and loops that can run do run (WF); a query ends one way or the other, because the
  RPC client has a timeout (WF on `Progress`); select chooses at random among ready cases, so a loop whose
  context is done does not take the timer for ever (SF on `LoopExits`); readers leave their short critical
  sections (WF). Nothing makes a loop's interval end, or a caller call.
- `Subprocesses`: goroutines run, timers fire, select does not refuse a ready branch for ever. A function is
  assumed to return only once its context is done. Nothing is assumed before. A waiter that was released runs on.
  The repeater needs SF on
  `SeeCancel` because a tick can be ready again and again.
- `EvmTrade`: the node answers each request (WF on a call's next step). It may refuse, and need
  not mine anything.
- `Watching`: goroutines run, timers fire and a request ends (WF on each watcher's and waiter's step).
  The server need not come back: `WatchReturns` makes no promise once it went away. No transaction need land, no log need come. `Queries` states the same for the runs that use it.
- `SolTrade`, `Quotes` and the other modules of `Queries` state safety only.

## 6. Proofs

All are checked by TLAPS, for every value of the constants (any number of callers, traders, functions,
requests; any reserves, ratios and word size).

| theorem | says | rests on |
|---|---|---|
| `WatcherProofs!TypeCorrect`, `SuccessOnce`, `LoopsInStep`, `Quiet`, `TruthfulErrors`, `AnswersSound` | type correctness and the safety properties of `SolWatcher` | an invariant that ties life-cycle state, context, mutex holder and loops together, and the two ages of a hash to each other |
| `WatcherProofs!ImplementsServiceSafety` | the watcher implements the safety part of `Service` | the same invariant: a `Retire` of the abstract service is possible only when draining |
| `WatcherProofs!NeverAlive` | no sequence of calls brings an EVM watcher to life | its own one-line invariant |
| `SubprocessesProofs!AnswersTrue`, `WaitsForAll` | answers are true; `Wait` misses no goroutine, those started while it is being released included | the WaitGroup counts exactly the goroutines started and not gone; what is in the channel is finished |
| `SubprocessesProofs!ReportsNeverBlock`, `ReportsReachTheCall` | a finished function always finds room for its report; a call that waits for reports already sent has one to receive | `Reports`: each function's report is in the channel or taken from it, once; then a pigeonhole, see below |
| `AmountsProofs!ExactQuoteMonotone`, `RoundTripNeverProfits`, `SplitNeverGains` | of exact quotes: a larger input is quoted no less, a swap back brings no more than was paid, two swaps no more than one of both inputs | the division lemmas, by cross-multiplication |
| `AmountsProofs!QuoteMonotone`, `QuotedRoundTrip` | the same of the decimal quotes `CalculateOutput` makes, when the sums do not wrap and, for the round trip, the reserves have fewer digits than the precision | `RoundedMonotone` for the half-up quotient, and the lemma behind `QuotesNear` |
| `QuotesProofs!NeverLax`, `ProductNeverFalls` | limits are never laxer than accepted; an exact quote keeps the product | `AmountsProofs`: a wrapped product is below the true one; division lemmas |
| `QuotesProofs!QuotesNear`, `InitialBuysAffordable`, `PriorityCharged` | a decimal quote is the floor or one above it; an initial buy is at most what the curve sells and costs at most what is offered for it, for any virtual and real reserves; a priority fee (`PriorityWithinGas`, which no run checks) is at most the gas given | lemmas on the half-up quotient, on cancelling and on bounds of a quotient |
| `SolTradeProofs!TradeTyped`, `PositionTrue`, `SpendBounded`, `PriceKept`, `SellFree`, `ReportsTrue` | the safety properties of `SolTrade` | `Lineage`: a transaction is what its builder makes of request and readings, whatever happened since; `Reported`: what a landed swap moved fits its transaction |
| `SolTradeProofs!TradesAreOrders`, `OrdersHonest` | every trade is an order of `Order`; nothing is reported as sent, landed or failed that is not | `Lineage` for what a landing moves; `Honest` is proved of `Order` and carried over |
| `SolTradeProofs!SlippageTold`, `SlippageReportedElsewhere` | slippage failures are reported as such, but for sells on pumpfun | `Failures`: which venue and side an obstacle can belong to |
| `SolTradeProofs!LoneTraderUndisturbed` | with one trade of a wallet at a time, what `Transact` read of the token account is true when it lands, and creating it does not fail | that reading, kept from `ReadAccounts` to the landing |
| `EvmTradeProofs!CallsAreOrders`, `CallsHonest` | every call is an order of `Order`; nothing is answered as sent that is not | `Apt`, see below |
| `EvmTradeProofs!TradeTyped`, `NoGapEver`, `ApprovalsFirst`, `PositionTrue`, `PriceKept`, `ReportsTrue` | the safety properties of `EvmTrade` | `Numbered`, `Ordered`, `Placed`, `Fresh`, see below; `MovesKept` for the report |
| `EncodingProofs!NamesAlwaysTrimmed` | a name is what lies between its padding, for bytes of any kind and number | `LeastOf`, `GreatestOf`, see below |
| `EncodingProofs!InstructionsAlwaysReadBack`, `AccountsAlwaysInPlace` | builders, codecs and layouts agree; accounts and signers are in place, for every setting of the components with a market of OpenBook's | `LaidOut` of each of the six tables; each instruction unfolded slot by slot |
| `QueriesProofs!LookupsAtomic`, `PoolAnswersTrue` | three lookups amount to one; quotes and refusals are true, and an address never panics | `History`, see below |
| `QueriesProofs!WatchersToldTrue` | a watch tells of its own transaction, as it was in a block that was the head | every connection someone can see or use has been made and none is closed |
| `QueriesProofs!AnswersRight` | answers from the cache are right and bounded in age | an entry lies under the key of its query and its answer is older than its storing by the transit at most |
| `QueriesProofs!PoolsOriented`, `BatchesFit` | reserves the right way round for an address in checksum form, or the larger of the two; a batch fits or is refused | what was answered or sent is true of the request it was made for |

Why an inductive invariant is needed, on the example of `EvmTrade`: `NoGap` speaks of the mempool only,
but a step that accepts a transaction adds the nonce a call read earlier. `Numbered` adds that what a
call has read is at most the node's next nonce, that pending nonces are below it, and that each nonce
holds one transaction. `ApprovalFirst` needs `Placed`: a call that is about to send its swap has no
approval pending, and `Ordered`: no two transactions of a call are of the same kind, so that a
replacement of one does not touch the other. `PositionTrueIfAlone` needs `Fresh`: as long as no other swap
has landed the balance read is the balance.

The refinement `CallsAreOrders` adds `Apt`: what a call sends is of the kinds its request asks for, a transfer for a
transfer, an approval or a swap for a trade. With `Ordered` and `Placed` it tells which order a mined or
replaced transaction belongs to, and that those replaced are orders sent and not yet filled. The proof has a
case for each action. Most leave `OrderStage` alone or are a `Refuse`; `Accepted` is a `Submit` with those replaced
as `lost`, or, when it was an approval, a `Lose` (a `Refuse` if its answer was lost too); the four ways of
mining are `Fill`, `Lose` or a stutter.

`WaitReturns` is a liveness property, but what could break it is not: a goroutine blocked for ever in its send. It
cannot be, because the channel has room for `n` reports, those in it come from different functions (`Reports`),
and one function of the call, that about to report, is not among them; an injection of the channel's positions
into the other `n - 1` functions leaves room for it (`ReportsNeverBlock`).

Two findings of section 8 are delimited by theorems. A slippage error is lost only for a sell on
pumpfun (`SlippageTold`; where none is asked for, the violated `SlippageReported` is a theorem). The creation of an account fails because it exists only if two trades of the wallet
overlap (with `Traders` a singleton the violated `CreateIsIdempotent` is a theorem).

The bytes of a name are any sequence, and the loops of `TrimSpace` are the first and last index of a set. That these exist
is an induction, which is made without an operator parameter: a set of naturals that is not empty has a least
element, because `<` is well-founded (`LeastOf`), and a greatest if it is bounded (`GreatestOf`).

`LookupAtomic` speaks of a call whose lookups have all ended, and must find one moment at which all their
answers were true. `History` makes that possible: the venues of a token go through a fixed order, one
change at a time, so if a call has seen an earlier and a later state it has seen those between. `Looking` adds
that each lookup brought what one of the states seen would have shown. `OneMoment` then takes the cases. A
raydium pool that was found was open in a state that was seen, and that state will do. If the lookup of the
pool came back empty and the curve was seen beside an open pool, then the curve had completed, and the state
between, completed and without a pool, was seen as well.

Assumptions used: the named ASSUMEs of the modules (`WatcherAssumption`, `SubprocessesAssumption`,
`AmountsAssumption`, `TradeAssumption`, `EvmTradeAssumption`, `QuotesAssumption`, `PoolsAssumption`,
`WatchingAssumption`, `CacheAssumption`, `EvmPoolsAssumption`, `TransfersAssumption`), which only say what
kind of value a constant is.

Only model-checked: the liveness properties (`CallsReturn` of `Watcher`, `Subprocesses` and `EvmTrade`,
`WaitReturns`, `AnswerPublished`, `WatchReturns`) and the liveness half of `ImplementsService`, because ENABLED
and fairness are out of the prover's reach; and `ConnectionsBounded`, which counts connections and would need a
strengthening that assigns every one to a failure. Every other safety and action property of a passing run is stated by a
theorem. Of the properties that are violated, `SlippageReported` and `CreateIsIdempotent` have the conditional
theorems above and `ErrorsTellTheTruth` is true of the Solana watcher; `RefusedStartIsHarmless`
fails in the plainest of uses, and how far `TrueWhenFinished` fails is what `AnswersTrue` says: an answer false is
given only after the time is up. The round trip of
`QuotedRoundTrip` is not claimed for reserves beyond its condition: a quote may then be one above the exact one.

## 7. What is assumed of the chains

These definitions are external, modelled from how the code uses them.

- Solana: a transaction is atomic; a failed one costs the network fee; the associated token account
  program reads an instruction without data as `Create`, which fails on an existing account; an account
  is closed only when empty.
- raydium: a constant product swap with the exact floor; its own fee is left out, which favours neither
  side of any property stated. pumpfun: a buy names tokens and costs `sol * n / (token - n) + 1`; its fee
  is left out. The error texts are those of the programs.
- EVM: the router keeps one percent of the ether; the pair is a constant product. A node accepts a
  nonce that is pending only at a strictly higher price, does not evict, and forgets nothing. The
  wallet has the ether its calls spend; a call that lacks it is one the node refuses. The quoted reserves
  are the right way round, which is what `ReservesOriented` says of the query.
- pumpfun opens one raydium pool for a token, after its curve has completed; a curve that trades and a pool
  that opens have reserves. A pool once open stays, though it may be drained. The confirmed chain is not
  undone, the processed head may be. A pool of raydium is found by one of its two mints only.
- raydium has at most one pool of a token with SOL, also of a token that was not issued by pumpfun. If there are
  several the code takes the first that the node lists (`raydium/raydium.go:301-306`); which one that is, and whether
  it is the one that trades, is outside the model.
- The factory makes one pair of two tokens, with the smaller address first; a pair holds both tokens or
  neither.
- A packet of Solana has 1232 bytes; a node asks for 4 or 16 gas a byte of payload.
- ristretto drops and evicts as it likes, and ends an entry when its time is over; it reports a time to live of zero.
- The WaitGroup behaves as Go's `sync` documents and implements it, with one goroutine that waits.
- The server and the node answer truthfully, or not at all.

## 8. Findings

1. A second `Start` of a running watcher is refused and closes the watcher (`sol/watcher.go:67-77`).
2. An EVM watcher cannot be started; its first `Start` fails with "already been started", and prices and
   gas price stay zero (`evm/watcher.go:56`, `76`).
3. `BlockForAtMostMany` may answer false although all functions have finished, and waits in vain when
   there are none (`utils/subprocesses.go:53-82`).
4. `CreateIdempotentInstruction` is not idempotent (`sol/raydium/raydium.go:390`).
5. A pumpfun sell that fails on its limit is reported as `ErrTransactionFailed`
   (`sol/solana.go:263`).

`PROJECT.json` quotes the lines; the runs named there show each.

## 9. Not modelled

- Generated bindings (`evm/uniswap`, `evm/erc20`, `evm/chainlink`, `evm/multisend`): one forwarding call for each
  method of an ABI. What the contracts do is modelled, as external, where they are called.
- Text layout (`PrettyFloat`, `AbbreviateDecimal`, `GetTokenAddress`), the dispatch of `network.go`, the records of
  `types/`, and the constants and metadata layouts of `sol/common`: data without control.
- `QueryPumpFun`'s choice among candles: four elements of a list by index, each after a check of its length.
- `CalculatePriceImpact`, `EncodeToTree`, `FindLpMint`, `GeRaydiumPool`: nothing calls them.
- The payload of `TransferETHBatch` beyond its size. Its nonce and gas price are read and used as those of
  `TransferETH`, which `EvmTrade` models.
- Balance and address queries: one request or one expression each.
- `sui/`, `ton/`: empty packages.
- Panics on malformed answers (a null account, a short layout) end the process and are left out. Those
  that answers and arguments in good form can cause are modelled: an empty EVM pair (`EvmPools`), a textual
  transaction error (`Watching`), a token or dexscreener text that is no address (`SolPools`), a text that is no key
  (`Transfers`), a WaitGroup that is used again too early (`Subprocesses`).
- What a raydium swap does on a market outside OpenBook, beyond that its slot 8 is not claimed to be right.

## 10. What could be added

1. A composition of `SolPools` and `SolTrade`. A trade of `SolTrade` is quoted at an earlier state of the one
   pool it is about; that the token leaves its curve between quote and trade is not modelled there.
2. The watcher as the source of a trade's block hash: `SolTrade` lets a transaction expire at any time, which
   includes a hash of any age.
3. `EvmTrade` with `GetTransaction` as a step, so that its mapping to `Order` has something to tell.
