CONSTANTS
  R = 2
  C = 1
  Repeat = 5
  LearnedResults <- MCMeasuredLearned
  TradResults <- MCMeasuredTrad
  TiedPercs <- MCTied
  MaximumRatios <- MCMaximumRatios
  LegendNames <- MCLegendNames
  None = None
  NaN = NaN
  Raise = Raise
SPECIFICATION Spec
INVARIANT
  ScatterCompletes
CHECK_DEADLOCK FALSE
