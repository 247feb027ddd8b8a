CONSTANTS
  Datasets <- MCDatasets
  InsertRatios = {0, 50}
  Pgm <- MCPgm
  PgmGlobal <- MCPgm
  LearnedResults <- MCLearnedResults
  TradResults <- MCTradResults
  NaN = NaN
SPECIFICATION Spec
INVARIANT
  WriteRatioRowsAscending
CHECK_DEADLOCK FALSE
