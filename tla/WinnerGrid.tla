------------------------------ MODULE WinnerGrid ------------------------------
(***************************************************************************)
(* The learned-versus-traditional combination of plot_3d_heatmap          *)
(* (src/script/plot.py, lines 355-407; plot_2d_heatmap repeats it at      *)
(* 502-547): the ratio grid (T - L) / max(T, L), the winner label, the     *)
(* optional tied_perc relabelling to "T", and the scatter loop that looks  *)
(* up a marker (get_index_style) and a legend name for every point.        *)
(*                                                                         *)
(* Its inputs are the results of the two extract_heatmap_data calls        *)
(* (use_abbrev=True, comparator "gt"): per cell either the start value 0   *)
(* with the blank label, or a positive value with the label of a family    *)
(* member, which is what HeatmapExtractor's FirstBestSoFar establishes.    *)
(* Values are naturals: only their order and ratios matter here.           *)
(***************************************************************************)
EXTENDS Integers, FiniteSets, Sequences

CONSTANTS
  R, C,            \* rows (write ratios) and columns (datasets) of the grid
  LearnedResults,  \* <<value, label>> a learned-family extraction can give
  TradResults,     \* <<value, label>> a traditional-family extraction can give
  TiedPercs,       \* tied_perc arguments: None or a rational <<num, den>>
  MaximumRatios,   \* maximum_ratio arguments: None or a rational <<num, den>>
  LegendNames,     \* abbreviations with an index_display entry
  Repeat,          \* the "* 5" the per-column lists are repeated by
  None, NaN, Raise

ASSUME R \in Nat \ {0} /\ C \in Nat \ {0} /\ Repeat \in Nat \ {0}

VARIABLES
  learned, trad,   \* (heatmap, index) of the two extractions, per cell
  tied_perc,
  maximum_ratio,
  maximum,         \* the colour scale: vmin = -maximum, vmax = maximum
  single,          \* heatmap_single: a ratio <<num, den>> or NaN
  index_mat,       \* the combined label grid
  exist_label,     \* labels already given a legend entry
  plotted,         \* cells drawn by ax.scatter
  marks,           \* <<label, marker>> of the points drawn
  pc, k

vars == <<learned, trad, tied_perc, maximum_ratio, maximum, single, index_mat, exist_label, plotted, marks, pc, k>>

Cells == (0 .. R-1) \X (0 .. C-1)
CellAt(q) == <<q \div C, q % C>>
LastPos == R * C - 1

\* zip(x, y, z, c, idx, ds) stops at its shortest list: x, y and ds_name
\* hold Repeat * C entries, the grid R * C.
NPointsPlusOne == C * (IF R < Repeat THEN R ELSE Repeat) + 1
NPoints == C * (IF R < Repeat THEN R ELSE Repeat)

Vals == {r[1] : r \in LearnedResults \cup TradResults}
Max2(a, b) == IF a >= b THEN a ELSE b
Abs(a) == IF a >= 0 THEN a ELSE -a

\* heatmap_single = (T - L) / single_min, single_min = max(T, L) (359-361);
\* 0 / 0 is nan.
RatioSwapped(c) ==
  LET T == trad[c][1]  L == learned[c][1] IN
  IF T = 0 /\ L = 0 THEN NaN ELSE <<L - T, Max2(T, L)>>
Ratio(c) ==
  LET T == trad[c][1]  L == learned[c][1] IN
  IF T = 0 /\ L = 0 THEN NaN ELSE <<T - L, Max2(T, L)>>

Positive(r) == r # NaN /\ r[1] > 0

\* abs(heatmap_single[i, j]) < tied_perc; nan compares false.
Close(r) == r # NaN /\ Abs(r[1]) * tied_perc[2] < tied_perc[1] * r[2]

Init ==
  /\ learned \in [Cells -> LearnedResults]
  /\ trad \in [Cells -> TradResults]
  /\ tied_perc \in TiedPercs
  /\ maximum_ratio \in MaximumRatios /\ maximum = None
  /\ single = [c \in Cells |-> NaN]
  /\ index_mat = [c \in Cells |-> ""]
  /\ exist_label = {} /\ plotted = {} /\ marks = {}
  /\ pc = "winner" /\ k = 0

\* index_mat starts as index_learned; the traditional label replaces it
\* where the ratio is positive (368-372).
WinnerStep ==
  LET c == CellAt(k) IN
  /\ pc = "winner"
  /\ single' = [single EXCEPT ![c] = Ratio(c)]
  /\ index_mat' = [index_mat EXCEPT ![c] =
                     IF Positive(Ratio(c)) THEN trad[c][2] ELSE learned[c][2]]
  /\ IF k = LastPos
       THEN k' = 0 /\ pc' = IF tied_perc = None THEN "scale" ELSE "tie"
       ELSE k' = k + 1 /\ pc' = pc
  /\ UNCHANGED <<learned, trad, tied_perc, maximum_ratio, maximum, exist_label, plotted, marks>>

TieAdvance == IF k = LastPos THEN k' = 0 /\ pc' = "scale" ELSE k' = k + 1 /\ pc' = pc

\* A ratio under tied_perc is zeroed and relabelled "T" (375-380).
TieRelabel ==
  /\ pc = "tie" /\ Close(single[CellAt(k)])
  /\ single' = [single EXCEPT ![CellAt(k)] = <<0, 1>>]
  /\ index_mat' = [index_mat EXCEPT ![CellAt(k)] = "T"]
  /\ TieAdvance
  /\ UNCHANGED <<learned, trad, tied_perc, maximum_ratio, maximum, exist_label, plotted, marks>>

TieKeep ==
  /\ pc = "tie" /\ ~Close(single[CellAt(k)])
  /\ TieAdvance
  /\ UNCHANGED <<learned, trad, tied_perc, maximum_ratio, maximum, single, index_mat, exist_label, plotted, marks>>

\* |r| of a ratio, and np.abs(...).max() of the grid: nan as soon as one
\* cell is nan (np.max propagates it).
AbsRatio(r) == <<Abs(r[1]), r[2]>>
AbsMax(g) ==
  IF \E c \in Cells : g[c] = NaN THEN NaN
  ELSE AbsRatio(g[CHOOSE c \in Cells : \A d \in Cells :
                   Abs(g[d][1]) * g[c][2] <= Abs(g[c][1]) * g[d][2]])

\* Lines 400-403: a maximum_ratio (a truthy one: 0 counts as none) fixes
\* the colour scale, otherwise it is the largest |heatmap_single|.
Scale ==
  /\ pc = "scale"
  /\ maximum' = IF maximum_ratio # None /\ maximum_ratio[1] # 0
                  THEN maximum_ratio ELSE AbsMax(single)
  /\ pc' = "plot"
  /\ UNCHANGED <<learned, trad, tied_perc, maximum_ratio, single, index_mat,
                 exist_label, plotted, marks, k>>

\* get_index_style (235-284): idx_index.index(name) raises ValueError for
\* a name outside the list; the marker is LINE_MARKS[i % 14], replaced by
\* style_map[name][0] when the name has an entry.
IdxIndex == <<"L", "L+", "L++", "L+++", "A", "A+", "X", "r", "r+", "b", "b+",
              "h", "h+", "m", "P", "F", "w">>
StyleNames == {IdxIndex[i] : i \in DOMAIN IdxIndex}
LineMarks == <<"o", "o", "v", "v", "+", "P", "P", "x", "x", "2", "2", "3", "4", "*">>
StyleMapMarker ==
  [n \in {"A+", "A", "L+", "L++", "L+++", "L", "X", "P", "r+", "r", "b", "b+",
          "h+", "h", "m", "w"} |->
     CASE n \in {"A+", "A"} -> "v"
       [] n \in {"L+", "L++", "L+++", "L"} -> "o"
       [] n \in {"X", "P"} -> "d"
       [] n \in {"r+", "r"} -> "P"
       [] n \in {"b", "b+"} -> "2"
       [] n \in {"h+", "h"} -> "x"
       [] n = "m" -> "|"
       [] n = "w" -> "3"]
Marker(name) ==
  IF name \in DOMAIN StyleMapMarker THEN StyleMapMarker[name]
  ELSE LineMarks[(((CHOOSE i \in DOMAIN IdxIndex : IdxIndex[i] = name) - 1)
                  % Len(LineMarks)) + 1]

\* One point of the scatter loop (404-407): get_index_style(idx_i) raises
\* ValueError for a name outside idx_index, and a first occurrence looks
\* up index_display[single_abbr2index[idx_i]], which raises KeyError.
PlotRaise ==
  LET l == index_mat[CellAt(k)] IN
  /\ pc = "plot" /\ k < NPoints
  /\ \/ l \notin StyleNames
     \/ l \notin exist_label /\ l \notin LegendNames
  /\ pc' = "error"
  /\ UNCHANGED <<learned, trad, tied_perc, maximum_ratio, maximum, single, index_mat, exist_label, plotted, marks, k>>

PlotPoint ==
  LET l == index_mat[CellAt(k)] IN
  /\ pc = "plot" /\ k < NPoints
  /\ l \in StyleNames
  /\ l \in exist_label \/ l \in LegendNames
  /\ exist_label' = exist_label \cup {l}
  /\ plotted' = plotted \cup {CellAt(k)}
  /\ marks' = marks \cup {<<l, Marker(l)>>}
  /\ IF k + 1 = NPoints THEN k' = k /\ pc' = "done" ELSE k' = k + 1 /\ pc' = pc
  /\ UNCHANGED <<learned, trad, tied_perc, maximum_ratio, maximum, single, index_mat>>

Next == WinnerStep \/ TieRelabel \/ TieKeep \/ Scale \/ PlotRaise \/ PlotPoint

\* One sequential call that runs until it returns or raises.
Spec == Init /\ [][Next]_vars /\ WF_vars(Next)

(***************************************************************************)
(* Properties                                                              *)
(***************************************************************************)
TypeOK ==
  /\ single \in [Cells -> {NaN} \cup ({a - b : a, b \in Vals} \X (Vals \ {0}))]
  /\ plotted \subseteq Cells
  /\ k \in 0 .. LastPos
  /\ pc \in {"winner", "tie", "scale", "plot", "done", "error"}

\* Cells whose winner has been decided.
Decided == {c \in Cells : pc # "winner" \/ c[1] * C + c[2] < k}

\* Every decided cell names a family at least as good as the other one:
\* the traditional label only where it is strictly faster, the learned
\* label only where it measured something and is not slower, "T" only
\* where the two are within tied_perc, and the blank label only where
\* neither family measured the cell.
WinnerIsBetterFamily ==
  \A c \in Decided :
    LET T == trad[c][1]  L == learned[c][1] IN
    \/ index_mat[c] = "" /\ T = 0 /\ L = 0
    \/ index_mat[c] = trad[c][2] /\ T > L
    \/ index_mat[c] = learned[c][2] /\ L > 0 /\ L >= T
    \/ index_mat[c] = "T" /\ tied_perc # None
       /\ Abs(T - L) * tied_perc[2] < tied_perc[1] * Max2(T, L)

\* spec.md 6: a tie sentinel is just another label value and the grid is
\* rendered as a whole; the scatter loop never raises.
ScatterCompletes == pc # "error"

\* The points are coloured on a scale that tells the families apart:
\* vmin = -maximum < 0 < vmax = maximum.  With no maximum_ratio the scale
\* is taken from the grid (line 403): a grid of measured ties makes it 0,
\* and a cell neither family measured (0 / 0) makes it nan.
ColourScaleDefined ==
  pc \in {"plot", "done"} => maximum # NaN /\ maximum[1] > 0

\* The scatter colours a point by its ratio (c = [c_i]), so the winning
\* index of a cell is shown by its get_index_style marker alone, and the
\* legend pairs each name with a marker: two labels drawn never share one.
MarkersIdentifyWinners ==
  \A a, b \in marks : a[2] = b[2] => a[1] = b[1]
=============================================================================
