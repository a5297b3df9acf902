CONSTANTS
  Word = 1000
  Bps = 10
  Scale = 1000
  MicroUnit = 10
  Traders = {t1, t2}
  Venues = {"raydium", "pumpfun"}
  Requests <- OpenAndClose
  FeeRatio = 3
  Rent = 2
  NetFee = 1
  Outside = 5
  InitialSol = 40
  InitialTokens = 5
  InitialPool <- EvenPool
  MaxTrades = 3
  MaxOutside = 1
SPECIFICATION Spec
SYMMETRY Threads
INVARIANTS TypeOK ReportTrue
PROPERTIES PositionReportTrue SpendBound PriceProtected SellNeverCosts
CHECK_DEADLOCK FALSE
