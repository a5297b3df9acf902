CONSTANTS
  Word = 1000
  Bps = 10
  Scale = 1000
  MicroUnit = 10
  Callers = {c1, c2}
  Requests <- AllKinds
  BasePrice = 1
  Unlimited = 10000
  MaxPolls = 2
  Outside = 30
  InitialTokens = 60
  InitialAllowance = 30
  InitialPool <- FairPool
  MaxOutside = 1
SPECIFICATION Spec
INVARIANTS NoGap ApprovalFirst ReportTrue
PROPERTIES ImplementsOrder PositionTrueIfAlone PriceProtected CallsReturn
CHECK_DEADLOCK FALSE
