------------------------------ MODULE PgmHeatmap ------------------------------
(***************************************************************************)
(* plot_2d_heatmap_pgm (src/script/plot.py, 286-333) as the composition   *)
(* of its components.  The table is sorted by hardness, then insert ratio  *)
(* (292-293); the two extract_heatmap_data calls (295-296) give each cell  *)
(* of the grid, rows read_ratio and columns pgm in first-seen order        *)
(* (90-91), the best result of each family; the ratio grid and the winner  *)
(* labels are combined (298-308); get_index_area numbers the regions of    *)
(* equal label (315) and label_index writes one text per region at its    *)
(* first cell, in the flipped image (316, 201-210); the axes are labelled  *)
(* (318-330).                                                              *)
(*                                                                         *)
(* The components enter through what their own modules establish:          *)
(* HeatmapExtractor's FirstBestSoFar (a cell without a row of the table    *)
(* keeps the start value 0 and the blank label, a measured cell the best   *)
(* of the family or blank), and LabelerSpec, which RegionLabeler refines,  *)
(* for get_index_area.  Tick positions and text formatting are layout and  *)
(* are left out; what is kept is which row and column each label and text *)
(* is attached to.                                                         *)
(***************************************************************************)
EXTENDS TableOrder

CONSTANTS
  LearnedResults,  \* <<value, label>> a learned-family extraction gives a measured cell
  TradResults,     \* the same for the traditional family
  NaN

VARIABLES
  data,       \* the table, in its current row order
  learned,    \* (heatmap_learned, index_learned) per cell
  trad,       \* (heatmap_traditional, index_traditional) per cell
  single,     \* heatmap_single: a ratio <<num, den>> or NaN
  index_mat,  \* the combined label grid
  set_mat,    \* component ids from get_index_area
  labelled,   \* get_index_area has returned
  texts,      \* label_index's region texts: [x, y, text]
  yrows,      \* Y = 1 - read_ratio, per row of the heatmap
  xlabels,    \* x tick label per column
  dslabels,   \* dataset name written under each column
  pc

vars == <<data, learned, trad, single, index_mat, set_mat, labelled, texts,
          yrows, xlabels, dslabels, pc>>

PgmKeySwapped == [r \in Rows |-> <<InsertOf[r], PgmOf[r]>>]
\* sort_values(by=["order_val", "insert_ratio"]), order_val = pgm
PgmKey == [r \in Rows |-> <<PgmOf[r], InsertOf[r]>>]

Attr1 == FirstSeen(Column(data, ReadOf))   \* read_ratio axis (rows)
Attr2 == FirstSeen(Column(data, PgmOf))    \* pgm axis (columns)
NRows == Len(Attr1)
NCols == Len(Attr2)
GridCells == (0 .. NRows - 1) \X (0 .. NCols - 1)

Blank == <<0, "">>
Labels == {r[2] : r \in LearnedResults \cup TradResults \cup {Blank}}

\* get_index_area on a grid of the current shape.
Area(r, c) == INSTANCE LabelerSpec
                WITH R <- r, C <- c, mat <- index_mat
RegionIn(c) == CHOOSE S \in SUBSET GridCells :
                 \E r \in {NRows}, k \in {NCols}, m \in {index_mat} :
                   S = Area(r, k)!Region(m, c)

\* Some row of the table lies in cell c.
Measured(c) ==
  \E i \in DOMAIN data : ReadOf[data[i]] = Attr1[c[1] + 1] /\ PgmOf[data[i]] = Attr2[c[2] + 1]

Max2(a, b) == IF a >= b THEN a ELSE b

\* (T - L) / single_min, single_min = max(T, L) (299-301); 0 / 0 is nan.
Ratio(c) ==
  LET T == trad[c][1]  L == learned[c][1] IN
  IF T = 0 /\ L = 0 THEN NaN ELSE <<T - L, Max2(T, L)>>

Positive(r) == r # NaN /\ r[1] > 0

Init ==
  /\ data \in Tables
  /\ learned = << >> /\ trad = << >> /\ single = << >> /\ index_mat = << >>
  /\ set_mat = << >> /\ labelled = FALSE /\ texts = {}
  /\ yrows = << >> /\ xlabels = << >> /\ dslabels = << >>
  /\ pc = "sort"

SortRows ==
  /\ pc = "sort"
  /\ data' = StableSortBy(data, PgmKey)
  /\ pc' = "extract"
  /\ UNCHANGED <<learned, trad, single, index_mat, set_mat, labelled, texts,
                 yrows, xlabels, dslabels>>

\* Lines 295-296 (use_abbrev=True, comparator "gt", aggre "mean"): a cell
\* with no row keeps np.zeros and ""; np.mean of no rows is nan, which
\* never wins.
Extract ==
  /\ pc = "extract"
  /\ learned' \in [GridCells -> LearnedResults \cup {Blank}]
  /\ trad' \in [GridCells -> TradResults \cup {Blank}]
  /\ \A c \in GridCells : ~Measured(c) => learned'[c] = Blank /\ trad'[c] = Blank
  /\ pc' = "combine"
  /\ UNCHANGED <<data, single, index_mat, set_mat, labelled, texts,
                 yrows, xlabels, dslabels>>

CombineTiesToTrad ==
  /\ pc = "combine"
  /\ single' = [c \in GridCells |-> Ratio(c)]
  /\ index_mat' = [c \in GridCells |->
                     IF Ratio(c) # NaN /\ Ratio(c)[1] >= 0 THEN trad[c][2] ELSE learned[c][2]]
  /\ pc' = "label"
  /\ UNCHANGED <<data, learned, trad, set_mat, labelled, texts, yrows, xlabels, dslabels>>
\* Lines 298-308: index_mat starts as index_learned and takes the
\* traditional label where heatmap_single > 0 (nan compares false).
Combine ==
  /\ pc = "combine"
  /\ single' = [c \in GridCells |-> Ratio(c)]
  /\ index_mat' = [c \in GridCells |->
                     IF Positive(Ratio(c)) THEN trad[c][2] ELSE learned[c][2]]
  /\ pc' = "label"
  /\ UNCHANGED <<data, learned, trad, set_mat, labelled, texts, yrows, xlabels, dslabels>>

\* Line 315: edges, set_mat = get_index_area(index_mat).
Label ==
  /\ pc = "label"
  /\ \E r \in {NRows}, k \in {NCols} : Area(r, k)!Label
  /\ pc' = "annotate"
  /\ UNCHANGED <<data, learned, trad, single, texts, yrows, xlabels, dslabels>>

RowMajor(c) == c[1] * NCols + c[2]
\* The cells whose id no earlier cell of the scan carries.
Leads == {c \in GridCells : \A d \in GridCells :
            RowMajor(d) < RowMajor(c) => set_mat[d] # set_mat[c]}

TextAtRowIndex ==
  /\ pc = "annotate"
  /\ texts' = {[x |-> c[2], y |-> NRows - c[1], text |-> index_mat[c]] :
                 c \in {l \in Leads : index_mat[l] # "nan"}}
  /\ pc' = "axes"
  /\ UNCHANGED <<data, learned, trad, single, index_mat, set_mat, labelled,
                 yrows, xlabels, dslabels>>
\* Line 316, label_index's text loop (201-210): the first cell of each id
\* met in the scan gets ax.text(j, rows - i - 1, index_mat[i, j]) unless
\* its label is the string 'nan'.
Annotate ==
  /\ pc = "annotate"
  /\ texts' = {[x |-> c[2], y |-> NRows - c[1] - 1, text |-> index_mat[c]] :
                 c \in {l \in Leads : index_mat[l] # "nan"}}
  /\ pc' = "axes"
  /\ UNCHANGED <<data, learned, trad, single, index_mat, set_mat, labelled,
                 yrows, xlabels, dslabels>>

\* Y = 1 - read_ratio (312); set_xticks(arange(#pgm)) with the labels
\* order_val.unique(); sorted_dataset[i] under the i-th x tick.
DrawAxes ==
  /\ pc = "axes"
  /\ yrows' = [i \in DOMAIN Attr1 |-> 100 - Attr1[i]]
  /\ xlabels' = FirstSeen(Column(data, PgmOf))
  /\ dslabels' = SubSeq(FirstSeen(Column(data, DatasetOf)), 1, Len(Attr2))
  /\ pc' = "done"
  /\ UNCHANGED <<data, learned, trad, single, index_mat, set_mat, labelled, texts>>

Next == SortRows \/ Extract \/ Combine \/ Label \/ Annotate \/ DrawAxes

Spec == Init /\ [][Next]_vars /\ WF_vars(Next)

(***************************************************************************)
(* Properties                                                              *)
(***************************************************************************)
TypeOK ==
  /\ data \in Seq(Rows)
  /\ texts \subseteq [x : 0 .. NCols - 1, y : 0 .. NRows - 1, text : Labels]
  /\ pc \in {"sort", "extract", "combine", "label", "annotate", "axes", "done"}

\* The columns run in ascending hardness, and each column's tick label and
\* dataset name belong to that column: sorting by order_val first makes
\* the column axis ascending whatever ratios each dataset was measured at.
ColumnsOrderedAndLabelled ==
  pc = "done" =>
    /\ IsSorted(Attr2, <)
    /\ xlabels = Attr2
    /\ \A j \in DOMAIN Attr2 : Pgm[dslabels[j]] = Attr2[j]

\* The cell of the grid under the text t of the flipped image.
CellUnder(t) == <<NRows - 1 - t.y, t.x>>

\* A family named l is at least as good as the other one at cell d: the
\* traditional label only where it is strictly faster, the learned label
\* only where it measured something and is not slower, the blank label
\* only where neither family measured the cell.
NamesWinner(d, l) ==
  LET T == trad[d][1]  L == learned[d][1] IN
  \/ l = trad[d][2] /\ T > L
  \/ l = learned[d][2] /\ L > 0 /\ L >= T
  \/ l = "" /\ T = 0 /\ L = 0

\* The rendered figure shows the winners: every cell of the grid lies in
\* the region of exactly one text of label_index, and that text names the
\* winning family of every cell of the region, read through the two
\* extractions, the ratio grid, get_index_area and the row flip.
RegionsShowWinners ==
  pc \in {"axes", "done"} =>
    /\ \A c \in GridCells : Cardinality({t \in texts : c \in RegionIn(CellUnder(t))}) = 1
    /\ \A t \in texts : \A d \in RegionIn(CellUnder(t)) : NamesWinner(d, t.text)

\* spec.md 3: an axis is in ascending order, so that the fixed tick
\* labels (write ratio 1.0 at the top of the flipped image, 0 at the
\* bottom) describe the rows: Y grows with the row index, and Y[-1], which
\* mapping_label_to_ticks scales the ticks by, is the largest write ratio.
WriteRatioRowsAscending ==
  pc = "done" => IsSorted(yrows, <)
=============================================================================
