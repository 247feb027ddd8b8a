CONSTANTS
  R = 2
  C = 1
  Repeat = 5
  LearnedResults <- MCLearnedResults
  TradResults <- MCTradResults
  TiedPercs <- MCTiedPercs
  MaximumRatios <- MCMaximumRatios
  LegendNames <- MCLegendNames
  None = None
  NaN = NaN
  Raise = Raise
SPECIFICATION Spec
INVARIANTS
  TypeOK
  WinnerIsBetterFamily
CHECK_DEADLOCK FALSE
