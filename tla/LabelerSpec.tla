----------------------------- MODULE LabelerSpec -----------------------------
(***************************************************************************)
(* What get_index_area (src/script/plot.py) promises of its component-id   *)
(* grid, stated without the flood fill: in one step every cell receives    *)
(* the id of its maximal 4-connected region of equal labels, and regions   *)
(* are numbered 1, 2, ... in the row-major order of their first cell.      *)
(***************************************************************************)
EXTENDS Integers, FiniteSets

CONSTANTS
  R,       \* number of rows of the label grid (len(attr1_data))
  C,       \* number of columns of the label grid (len(attr2_data))
  Labels   \* the winner labels a cell may carry

ASSUME R \in Nat \ {0} /\ C \in Nat \ {0} /\ Labels # {}

VARIABLES
  mat,       \* the label grid handed to get_index_area
  set_mat,   \* the component-id grid it returns (0 = not yet assigned)
  labelled   \* TRUE once the ids have been assigned

Cells == (0 .. R-1) \X (0 .. C-1)

\* Position of a cell in the row-major scan of get_index_area.
RowMajor(c) == c[1] * C + c[2]

Adjacent(c, d) ==
  \/ c[1] = d[1] /\ (c[2] - d[2] = 1 \/ d[2] - c[2] = 1)
  \/ c[2] = d[2] /\ (c[1] - d[1] = 1 \/ d[1] - c[1] = 1)

\* The least superset of S closed under stepping to an adjacent cell of
\* the same label: the cells 4-connected to S through equal labels.
RECURSIVE Grow(_, _)
Grow(m, S) ==
  LET T == S \cup {d \in Cells : \E c \in S : Adjacent(c, d) /\ m[d] = m[c]}
  IN  IF T = S THEN S ELSE Grow(m, T)

Region(m, c) == Grow(m, {c})

FirstCell(S) == CHOOSE c \in S : \A d \in S : RowMajor(c) <= RowMajor(d)

\* A region's id is one more than the number of regions whose first cell
\* comes earlier in row-major order.
ComponentIds(m) ==
  LET lead == [c \in Cells |-> FirstCell(Region(m, c))]
  IN  [c \in Cells |->
         1 + Cardinality({d \in Cells : d = lead[d]
                                        /\ RowMajor(d) < RowMajor(lead[c])})]

vars == <<mat, set_mat, labelled>>

Init ==
  /\ mat \in [Cells -> Labels]
  /\ set_mat = [c \in Cells |-> 0]
  /\ labelled = FALSE

Label ==
  /\ ~labelled
  /\ set_mat' = ComponentIds(mat)
  /\ labelled' = TRUE
  /\ UNCHANGED mat

SafetySpec == Init /\ [][Label]_vars

\* Label is enabled until it is taken, so under weak fairness the ids are
\* eventually assigned; Termination states exactly that.
Termination == <>labelled

Spec == SafetySpec /\ WF_vars(Label)
=============================================================================
