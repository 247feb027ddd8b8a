CONSTANTS
  R = 2
  C = 1
  Repeat = 5
  LearnedResults <- MCMeasuredLearned
  TradResults <- MCMeasuredTrad
  TiedPercs <- MCNoTie
  MaximumRatios <- MCNoMaximum
  LegendNames <- MCLegendNames
  None = None
  NaN = NaN
  Raise = Raise
SPECIFICATION Spec
INVARIANT
  ColourScaleDefined
CHECK_DEADLOCK FALSE
