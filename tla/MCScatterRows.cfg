CONSTANTS
  Datasets <- MCOneDataset
  InsertRatios <- MCSixRatios
  Pgm <- MCOnePgm
  PgmGlobal <- MCOnePgm
  Abbreviated <- MCOneDataset
  PlotOns = {"insert"}
  Figures = {"3d", "2d"}
  Repeat = 5
SPECIFICATION Spec
INVARIANT
  AllCellsPlotted
CHECK_DEADLOCK FALSE
