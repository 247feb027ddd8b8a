CONSTANTS
  R = 2
  C = 1
  Repeat = 5
  LearnedResults <- MCMainLearned
  TradResults <- MCMainTrad
  TiedPercs <- MCNoTie
  MaximumRatios <- MCMaximumRatios
  LegendNames <- MCLegendNames
  None = None
  NaN = NaN
  Raise = Raise
SPECIFICATION Spec
INVARIANT
  MarkersIdentifyWinners
CHECK_DEADLOCK FALSE
