----------------------------- MODULE MCScatterAxes -----------------------------
EXTENDS ScatterAxes

\* Three datasets, two of them with a display abbreviation; distinct pgm,
\* and pgm_global in another order than pgm.
MCDatasets == {"d1", "d2", "d3"}
MCPgm == [d \in MCDatasets |-> CASE d = "d1" -> 3 [] d = "d2" -> 1 [] OTHER -> 2]
MCPgmGlobal == [d \in MCDatasets |-> CASE d = "d1" -> 1 [] d = "d2" -> 2 [] OTHER -> 1]
MCAbbreviated == {"d1", "d2"}
MCPlotOns == {"insert", "other"}

\* Six write ratios of one dataset.
MCOneDataset == {"d1"}
MCSixRatios == {0, 20, 40, 60, 80, 100}
MCOnePgm == [d \in MCOneDataset |-> 1]
=============================================================================
