------------------------------ MODULE ScatterAxes ------------------------------
(***************************************************************************)
(* Where plot_3d_heatmap and plot_2d_heatmap (src/script/plot.py) draw    *)
(* each cell: the sort of the table (348-351, 498), the axes               *)
(* extract_heatmap_data derives from it (90-91), the coordinate lists and  *)
(* ds_name, the per-column ones repeated "* 5" (352, 382-389; 499,         *)
(* 529-534), and the zip loop that draws one point per element of the      *)
(* shortest list, with a dataset text per new dataset in 3D (404-462) and  *)
(* at write ratio 1 in 2D (545-549).  Cell k of heatmap_single.reshape(-1) is cell *)
(* (k \div C, k % C) of the grid.  What is drawn (marker, colour) is       *)
(* WinnerGrid's concern; here a point is its cell and its coordinates.    *)
(***************************************************************************)
EXTENDS TableOrder

CONSTANTS
  Abbreviated,  \* datasets that have a dataset_abbreviation entry
  PlotOns,      \* plot_on arguments of plot_3d_heatmap
  Figures,      \* which function draws: "3d" or "2d"
  Repeat        \* the "* 5" of the per-column lists

ASSUME Abbreviated \subseteq Datasets /\ Repeat \in Nat \ {0}

VARIABLES
  data,         \* the table, in its current row order
  figure,       \* "3d" (plot_3d_heatmap) or "2d" (plot_2d_heatmap)
  plot_on,
  points,       \* drawn points: [cell, x, y, z, ds]
  exist_ds,     \* datasets whose text has been drawn
  k,            \* position in the zip
  pc            \* "sort", "plot", "done" or "error"

vars == <<data, figure, plot_on, points, exist_ds, k, pc>>

\* sort_values(by=["insert_ratio", "pgm"])
SortKey == [r \in Rows |-> <<InsertOf[r], PgmOf[r]>>]

Attr1 == FirstSeen(Column(data, ReadOf))   \* read_ratio axis (rows)
Attr2 == FirstSeen(Column(data, PgmOf))    \* pgm axis (columns)
NRows == Len(Attr1)
NCols == Len(Attr2)

XsSorted == Repeated(SetToSortSeq(Range(Attr2), <), Repeat)
\* x = data["pgm"].unique().tolist() * 5
Xs == Repeated(Attr2, Repeat)
\* y = data[['dataset', 'pgm_global']].drop_duplicates()['pgm_global'] * 5;
\* pgm_global is a function of the dataset, so the distinct pairs are the
\* distinct datasets.
Ys == Repeated(Column(FirstSeen(Column(data, DatasetOf)), PgmGlobal), Repeat)
\* z (3D) or y (2D): round(1 - read_ratio) once per cell, row by row
Zs == [q \in 1 .. NRows * NCols |-> 100 - Attr1[(q - 1) \div NCols + 1]]
\* ds_name = data["dataset"].unique().tolist() * 5
DsName == Repeated(FirstSeen(Column(data, DatasetOf)), Repeat)

\* zip stops at its shortest argument; the grid has NRows * NCols cells.
\* The 2D zip has no pgm_global list.
NPoints ==
  IF figure = "3d" THEN MinOf({Len(Xs), Len(Ys), Len(Zs), Len(DsName)})
  ELSE MinOf({Len(Xs), Len(Zs), Len(DsName)})

CellOfNext(q) == <<(q + NCols) \div NCols, q % NCols>>
CellOf(q) == <<q \div NCols, q % NCols>>

Init ==
  /\ data \in Tables
  /\ figure \in Figures
  /\ plot_on \in PlotOns
  /\ points = {} /\ exist_ds = {}
  /\ k = 0 /\ pc = "sort"

\* Lines 348-351: only plot_on = "insert" sorts; any other value keeps the
\* CSV order ("delete" needs a delete_ratio column, not modelled).
SortRows ==
  /\ pc = "sort" /\ figure = "3d"
  /\ data' = IF plot_on = "insert" THEN StableSortBy(data, SortKey) ELSE data
  /\ pc' = "plot"
  /\ UNCHANGED <<figure, plot_on, points, exist_ds, k>>

\* Line 498: plot_2d_heatmap always sorts by insert_ratio, then pgm.
SortRows2D ==
  /\ pc = "sort" /\ figure = "2d"
  /\ data' = StableSortBy(data, SortKey)
  /\ pc' = "plot"
  /\ UNCHANGED <<figure, plot_on, points, exist_ds, k>>

PointDone == k' = k + 1 /\ pc' = IF k + 1 = NPoints THEN "done" ELSE "plot"

\* A point at (x_i, y_i, z_i) for cell k; a dataset met for the first time
\* gets its text (positioned by hand for some names).
PlotPoint ==
  LET q == k + 1  ds == DsName[q] IN
  /\ pc = "plot" /\ figure = "3d" /\ k < NPoints
  /\ ds \in exist_ds \/ ds \in Abbreviated
  /\ points' = points \cup {[cell |-> CellOf(k), x |-> Xs[q], y |-> Ys[q], z |-> Zs[q],
                             ds |-> ds]}
  /\ exist_ds' = exist_ds \cup {ds}
  /\ PointDone
  /\ UNCHANGED <<data, figure, plot_on>>

\* dataset_abbreviation[ds_i] of a new dataset without an entry: KeyError.
PlotRaise ==
  LET ds == DsName[k + 1] IN
  /\ pc = "plot" /\ figure = "3d" /\ k < NPoints
  /\ ds \notin exist_ds /\ ds \notin Abbreviated
  /\ pc' = "error"
  /\ UNCHANGED <<data, figure, plot_on, points, exist_ds, k>>

\* A 2D point at (x_i, y_i); on the write-ratio-1 row the dataset's
\* abbreviation is written above it (a KeyError without one).
PlotPoint2D ==
  LET q == k + 1  ds == DsName[q] IN
  /\ pc = "plot" /\ figure = "2d" /\ k < NPoints
  /\ Zs[q] = 100 => ds \in Abbreviated
  /\ points' = points \cup {[cell |-> CellOf(k), x |-> Xs[q], z |-> Zs[q], ds |-> ds]}
  /\ PointDone
  /\ UNCHANGED <<data, figure, plot_on, exist_ds>>

PlotRaise2D ==
  LET q == k + 1 IN
  /\ pc = "plot" /\ figure = "2d" /\ k < NPoints
  /\ Zs[q] = 100 /\ DsName[q] \notin Abbreviated
  /\ pc' = "error"
  /\ UNCHANGED <<data, figure, plot_on, points, exist_ds, k>>

Next == SortRows \/ SortRows2D \/ PlotPoint \/ PlotRaise \/ PlotPoint2D \/ PlotRaise2D

Spec == Init /\ [][Next]_vars /\ WF_vars(Next)

(***************************************************************************)
(* Properties                                                              *)
(***************************************************************************)
TypeOK ==
  /\ data \in Seq(Rows)
  /\ \A p \in points : p.cell \in (0 .. NRows - 1) \X (0 .. NCols - 1)
  /\ exist_ds \subseteq Abbreviated
  /\ pc \in {"sort", "plot", "done", "error"}

\* Every point is drawn where its cell is: x is the pgm of the cell's
\* column, its write-ratio coordinate (z in 3D, y in 2D) is 1 - read_ratio
\* of its row, and the dataset zipped with it (whose name is written there)
\* is the dataset of that column, in 3D at that dataset's pgm_global.  The
\* lists are built separately from the same row order, and nothing ties
\* them together but that order.
PointsAtTheirCells ==
  \A p \in points :
    /\ p.x = Attr2[p.cell[2] + 1]
    /\ p.z = 100 - Attr1[p.cell[1] + 1]
    /\ Pgm[p.ds] = p.x
    /\ "y" \in DOMAIN p => PgmGlobal[p.ds] = p.y

\* Every cell of the grid is drawn once the loop returns.
AllCellsPlotted ==
  pc = "done" => {p.cell : p \in points} = (0 .. NRows - 1) \X (0 .. NCols - 1)
=============================================================================
