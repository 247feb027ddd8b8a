CONSTANTS
  Cands <- MCCands
  Abbrev <- MCAbbrev
  R = 1
  C = 2
  Values = {0, 1, 2}
  MaxRows = 2
  Big = 3
  Comparators <- MCComparators
  Aggregators <- MCAggregators
  NaN = NaN
  Raise = Raise
SPECIFICATION Spec
INVARIANTS
  BlankMeansNoData
CHECK_DEADLOCK FALSE
