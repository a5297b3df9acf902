SPECIFICATION Spec
CONSTANTS
  Lookers = {c1}
  Holdings <- HoldingsMC
  Watchers = {w1, w2}
  Waiters = {r1}
  MaxDrops = 3
  MaxMade = 14
  Fetchers = {f1, f2}
  Addresses = {a1}
  MaxDuration = 2
  MaxTransit = 1
  TokenAddresses = {1, 3}
  WrapNativeToken = 2
  MaxReserve = 3
  MaxRecipientCount = 21
  MaxBills = 24
  BillAmounts = {1, 3}
  AmountWord = 2
  Letters = {"a", "b"}
  MaxName = 4
INVARIANTS
  LookupAtomic
  
  WatchTold
  ConnectionsBounded
  ReservesOriented
  BatchFits
  NamesTrimmed
  InstructionsReadBack
  AccountsInPlace
PROPERTIES
  WatchReturns
  CachedAnswerRight
\* A transfer, a name or an instruction is made once, and a panic is the end.
CHECK_DEADLOCK FALSE
