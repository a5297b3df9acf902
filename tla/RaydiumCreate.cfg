CONSTANTS
  Word = 1000
  Bps = 10
  Scale = 1000
  MicroUnit = 10
  Traders = {t1, t2}
  Venues = {"raydium"}
  Requests <- MixedTrades
  FeeRatio = 3
  Rent = 2
  NetFee = 1
  Outside = 5
  InitialSol = 40
  InitialTokens = 0
  InitialPool <- EvenPool
  MaxTrades = 2
  MaxOutside = 1
SPECIFICATION Spec
SYMMETRY Threads
INVARIANTS CreateIsIdempotent
CHECK_DEADLOCK FALSE
