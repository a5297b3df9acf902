CONSTANTS
  Word = 20
  Bps = 4
  Scale = 3
  MicroUnit = 3
  MaxInput = 12
SPECIFICATION Spec
INVARIANTS QuoteNearFloor QuoteKeepsProduct LimitsNeverLax InitialBuyAffordable
CHECK_DEADLOCK FALSE
