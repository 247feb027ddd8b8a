--------------------------- MODULE HeatmapExtractor ---------------------------
(***************************************************************************)
(* extract_heatmap_data of src/script/plot.py.                             *)
(*                                                                         *)
(* The measurement table is abstracted to what the loop reads of it: for   *)
(* every candidate (position in the list `index`) and every grid cell      *)
(* (attr1 value, attr2 value), the attr3 values of the matching rows, as   *)
(* a sorted tuple.  Aggregates are exact rationals <<num, den>>; NaN (the  *)
(* mean of no rows) is a model value that every comparison rejects.  The  *)
(* loop runs candidates outermost and cells in row-major order, one        *)
(* iteration per step.                                                     *)
(***************************************************************************)
EXTENDS Integers, Sequences, FiniteSets

CONSTANTS
  Cands,        \* the list `index` of candidate implementation names
  Abbrev,       \* index_abbreviation, restricted to the names of Cands
  R, C,         \* len(attr1_data), len(attr2_data)
  Values,       \* attr3 values a row may carry (throughput, naturals)
  MaxRows,      \* most rows per (candidate, cell)
  Big,          \* the 1e15 that "lt" starts from; above every value
  Comparators,  \* comparator arguments the caller may pass
  Aggregators,  \* aggre arguments the caller may pass
  NaN,          \* numpy's nan
  Raise         \* an exception raised by the aggregation

ASSUME /\ Cands \in Seq(STRING) /\ Len(Cands) > 0
       /\ R \in Nat \ {0} /\ C \in Nat \ {0}
       /\ Values \subseteq Nat /\ \A v \in Values : v < Big

VARIABLES
  table,       \* attr3 values per <<candidate position, cell>>
  comparator, aggre, use_abbrev,   \* the call's arguments
  heatmap_mat, \* best value per cell so far
  index_mat,   \* label of the candidate that achieved it, "" if none
  n,           \* position in Cands of the loop's idx
  p,           \* row-major position of the loop's (i, j)
  pc,          \* "loop", "done" (returned) or "error" (raised)
  empty_pct    \* what this numpy build's np.percentile does on no rows

vars == <<table, comparator, aggre, use_abbrev, heatmap_mat, index_mat, n, p, pc,
          empty_pct>>

Cells == (0 .. R-1) \X (0 .. C-1)
CellAt(q) == <<q \div C, q % C>>
LastPos == R * C - 1
Positions == 1 .. Len(Cands)

\* Sorted tuples of at most MaxRows values: the rows a filter can select.
RECURSIVE SortedTuples(_, _)
SortedTuples(len, lo) ==
  IF len = 0 THEN {<< >>}
  ELSE {<< >>} \cup
       UNION {{<<v>> \o t : t \in SortedTuples(len - 1, v)} :
                v \in {w \in Values : w >= lo}}
Rows == SortedTuples(MaxRows, 0)

RECURSIVE SumSeq(_)
SumSeq(s) == IF s = << >> THEN 0 ELSE Head(s) + SumSeq(Tail(s))

Rat(a, b) == <<a, b>>
Greater(x, y) == x[1] * y[2] > y[1] * x[2]

(***************************************************************************)
(* What the aggregation of lines 106-113 can produce for the rows s:       *)
(* a rational, NaN, or Raise.  np.percentile of no rows raises or gives  *)
(* nan depending on the numpy release: empty_pct fixes which, per run.     *)
(***************************************************************************)
Aggregate(a, s) ==
  LET len == Len(s) IN
  CASE a \notin {"50percent", "mean", "min", "max"} -> {Raise}  \* attr3_data unbound
    [] s = << >> /\ a = "mean" -> {NaN}
    [] s = << >> /\ a = "50percent" -> {empty_pct}
    [] s = << >> -> {Raise}                                     \* empty min / max
    [] a = "mean" -> {Rat(SumSeq(s), len)}
    [] a = "min" -> {Rat(s[1], 1)}
    [] a = "max" -> {Rat(s[len], 1)}
    [] len % 2 = 1 -> {Rat(s[(len + 1) \div 2], 1)}
    [] OTHER -> {Rat(s[len \div 2] + s[len \div 2 + 1], 2)}

InitialValue(cmp) == IF cmp = "lt" THEN Rat(Big, 1) ELSE Rat(0, 1)

\* Only "gt" and "lt" ever write; a nan result fails both comparisons.
ImprovesOnTie(v, cur) ==
  /\ v # NaN
  /\ \/ comparator = "gt" /\ ~Greater(cur, v)
     \/ comparator = "lt" /\ ~Greater(v, cur)
Improves(v, cur) ==
  /\ v # NaN
  /\ \/ comparator = "gt" /\ Greater(v, cur)
     \/ comparator = "lt" /\ Greater(cur, v)

\* index_abbreviation[idx] if use_abbrev and idx has one, else idx.
LabelOf(name) ==
  IF use_abbrev /\ name \in DOMAIN Abbrev THEN Abbrev[name] ELSE name

Init ==
  /\ table \in [Positions \X Cells -> Rows]
  /\ comparator \in Comparators
  /\ aggre \in Aggregators
  /\ use_abbrev \in BOOLEAN
  /\ heatmap_mat = [c \in Cells |-> InitialValue(comparator)]
  /\ index_mat = [c \in Cells |-> ""]
  /\ n = 1 /\ p = 0
  /\ pc = "loop"
  /\ empty_pct \in {NaN, Raise}

NextIterationPastEnd ==
  CASE p <= LastPos -> p' = p + 1 /\ n' = n /\ pc' = "loop"
    [] n < Len(Cands) -> p' = 0 /\ n' = n + 1 /\ pc' = "loop"
    [] OTHER -> p' = p /\ n' = n /\ pc' = "done"

\* Moves to the next (idx, i, j) of the three nested loops, or returns.
NextIteration ==
  CASE p < LastPos -> p' = p + 1 /\ n' = n /\ pc' = "loop"
    [] n < Len(Cands) -> p' = 0 /\ n' = n + 1 /\ pc' = "loop"
    [] OTHER -> p' = p /\ n' = n /\ pc' = "done"

Outcomes == Aggregate(aggre, table[<<n, CellAt(p)>>])

\* The aggregation raises: the exception leaves the function.
EvalRaise ==
  /\ pc = "loop" /\ Raise \in Outcomes
  /\ pc' = "error"
  /\ UNCHANGED <<table, comparator, aggre, use_abbrev, heatmap_mat, index_mat, n, p,
                 empty_pct>>

\* The aggregate beats the cell: overwrite value and label.
EvalUpdate ==
  /\ pc = "loop"
  /\ \E v \in Outcomes \ {Raise} :
       /\ Improves(v, heatmap_mat[CellAt(p)])
       /\ heatmap_mat' = [heatmap_mat EXCEPT ![CellAt(p)] = v]
       /\ index_mat' = [index_mat EXCEPT ![CellAt(p)] = LabelOf(Cands[n])]
  /\ NextIteration
  /\ UNCHANGED <<table, comparator, aggre, use_abbrev, empty_pct>>

\* The aggregate does not beat the cell (or is nan): leave it.
EvalKeep ==
  /\ pc = "loop"
  /\ \E v \in Outcomes \ {Raise} : ~Improves(v, heatmap_mat[CellAt(p)])
  /\ NextIteration
  /\ UNCHANGED <<table, comparator, aggre, use_abbrev, heatmap_mat, index_mat,
                 empty_pct>>

Next == EvalRaise \/ EvalUpdate \/ EvalKeep

\* A single sequential call that runs until it returns or raises.
Spec == Init /\ [][Next]_vars /\ WF_vars(Next)

(***************************************************************************)
(* Properties                                                              *)
(***************************************************************************)
Rationals == (0 .. Big * MaxRows) \X (1 .. MaxRows)

TypeOK ==
  /\ table \in [Positions \X Cells -> Rows]
  /\ heatmap_mat \in [Cells -> Rationals]
  /\ index_mat \in [Cells -> {""} \cup {LabelOf(Cands[q]) : q \in Positions}]
  /\ n \in Positions /\ p \in 0 .. LastPos
  /\ pc \in {"loop", "done", "error"}

\* Reference for one cell: among the candidates 1..m whose rows at c are
\* not empty, those whose aggregate is extreme (no other is better) and
\* better than the starting value; the result is the first of them.
Better(x, y) == IF comparator = "lt" THEN Greater(y, x) ELSE Greater(x, y)
Measured(q, c) == table[<<q, c>>] # << >>
ValueAt(q, c) == CHOOSE v \in Aggregate(aggre, table[<<q, c>>]) : TRUE
Extreme(m, c) ==
  {q \in 1 .. m :
     /\ Measured(q, c)
     /\ comparator \in {"gt", "lt"}
     /\ Better(ValueAt(q, c), InitialValue(comparator))
     /\ \A q2 \in 1 .. m : Measured(q2, c) => ~Better(ValueAt(q2, c), ValueAt(q, c))}

\* Candidates the loop has already evaluated at cell c.
Evaluated(c) ==
  IF pc = "done" THEN Len(Cands)
  ELSE n - 1 + (IF c[1] * C + c[2] < p THEN 1 ELSE 0)

\* After every iteration each cell holds the best aggregate of the
\* candidates evaluated so far and the label of the FIRST of them to reach
\* it (ties keep the earlier candidate); a nan never displaces a value;
\* a cell no candidate beat keeps the start value and the blank label.
FirstBestSoFar ==
  pc # "error" =>
    \A c \in Cells :
      LET W == Extreme(Evaluated(c), c) IN
      IF W = {} THEN heatmap_mat[c] = InitialValue(comparator) /\ index_mat[c] = ""
      ELSE LET w == CHOOSE q \in W : \A q2 \in W : q <= q2 IN
           /\ heatmap_mat[c] = ValueAt(w, c)
           /\ index_mat[c] = LabelOf(Cands[w])

\* spec.md 4.1: a blank label signals that the cell has no data ("any
\* real observation improves on" the start value).  The code starts "gt"
\* from 0 (np.zeros, line 92), so a cell whose candidates all measured 0
\* also stays blank.
BlankMeansNoData ==
  pc = "done" =>
    \A c \in Cells : index_mat[c] = "" => \A q \in Positions : ~Measured(q, c)

\* spec.md 7: aggregating an empty filtered subset gives an explicit "no
\* data" result, never an exception.  np.min / np.max of no rows raise
\* (lines 111, 113).
EmptyCellGivesNoData == pc # "error"
=============================================================================
