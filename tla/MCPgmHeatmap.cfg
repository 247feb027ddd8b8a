CONSTANTS
  Datasets <- MCDatasets
  InsertRatios = {0, 50}
  Pgm <- MCPgm
  PgmGlobal <- MCPgm
  LearnedResults <- MCLearnedResults
  TradResults <- MCTradResults
  NaN = NaN
SPECIFICATION Spec
INVARIANTS
  TypeOK
  ColumnsOrderedAndLabelled
  RegionsShowWinners
CHECK_DEADLOCK FALSE
