CONSTANTS
  Datasets <- MCDatasets
  InsertRatios = {0, 100}
  Pgm <- MCPgm
  PgmGlobal <- MCPgmGlobal
  Abbreviated <- MCAbbreviated
  PlotOns <- MCPlotOns
  Figures = {"3d", "2d"}
  Repeat = 5
SPECIFICATION Spec
INVARIANTS
  TypeOK
  PointsAtTheirCells
CHECK_DEADLOCK FALSE
