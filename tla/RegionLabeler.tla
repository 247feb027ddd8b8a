---------------------------- MODULE RegionLabeler ----------------------------
(***************************************************************************)
(* get_index_area and label_index of src/script/plot.py, as called by      *)
(* plot_2d_heatmap_pgm.                                                    *)
(*                                                                         *)
(* get_index_area first computes the 4-bit edge mask of every cell         *)
(* (check), then scans the cells in row-major order and starts a           *)
(* recursive flood fill (point_index) at every cell that has no id yet.    *)
(* The recursion is modelled by an explicit call stack: a frame is the     *)
(* cell point_index was called on and the next of its four neighbour       *)
(* tests (up, down, left, right) to run.                                   *)
(*                                                                         *)
(* label_index then draws, for the flipped edge grid, one unit line per    *)
(* set bit, and writes the label of every component once, at the first    *)
(* cell of the component in row-major order.  Coordinates are doubled so  *)
(* that the half-unit positions of the lines are integers: a horizontal   *)
(* line <<"h", y, x>> lies at height y/2 and spans x/2 +- 1/2.            *)
(***************************************************************************)
EXTENDS Integers, Sequences, FiniteSets

CONSTANTS R, C, Labels

ASSUME R \in Nat \ {0} /\ C \in Nat \ {0} /\ Labels # {}

VARIABLES
  mat,         \* index_mat: the winner-label grid
  edges,       \* edges: the 4-bit boundary mask per cell
  set_mat,     \* set_mat: component id per cell, 0 = unassigned
  set_number,  \* set_number: the next component id
  stack,       \* the Python call stack of point_index frames
  pc,          \* which loop of the two functions is running
  k,           \* row-major position of the loops' (i, j)
  lines,       \* unit line segments drawn by ax.hlines / ax.vlines
  texts,       \* ax.text annotations: [x, y, text]
  flagged      \* set_flag_array: the ids already annotated

vars == <<mat, edges, set_mat, set_number, stack, pc, k, lines, texts, flagged>>

Abs == INSTANCE LabelerSpec
         WITH set_mat  <- IF pc \in {"lines", "text", "done"}
                            THEN set_mat ELSE [c \in (0 .. R-1) \X (0 .. C-1) |-> 0],
              labelled <- pc \in {"lines", "text", "done"}

Cells == Abs!Cells
Region(c) == Abs!Region(mat, c)
LastPos == R * C - 1
CellAt(p) == <<p \div C, p % C>>

\* Moves the (i, j) loop to the next cell, or leaves the loop for phase nxt.
Advance(stay, nxt) ==
  IF k = LastPos THEN k' = 0 /\ pc' = nxt ELSE k' = k + 1 /\ pc' = stay

(***************************************************************************)
(* check(mat, i, j): top = 1, right = 2, bottom = 4, left = 8.             *)
(***************************************************************************)
CheckRightSixteen(c) ==
  LET i == c[1]  j == c[2]
  IN    (IF i = 0 \/ mat[<<i-1, j>>] # mat[c] THEN 1 ELSE 0)
      + (IF i = R-1 \/ mat[<<i+1, j>>] # mat[c] THEN 4 ELSE 0)
      + (IF j = 0 \/ mat[<<i, j-1>>] # mat[c] THEN 8 ELSE 0)
      + (IF j = C-1 \/ mat[<<i, j+1>>] # mat[c] THEN 16 ELSE 0)
Check(c) ==
  LET i == c[1]  j == c[2]
  IN    (IF i = 0 \/ mat[<<i-1, j>>] # mat[c] THEN 1 ELSE 0)
      + (IF i = R-1 \/ mat[<<i+1, j>>] # mat[c] THEN 4 ELSE 0)
      + (IF j = 0 \/ mat[<<i, j-1>>] # mat[c] THEN 8 ELSE 0)
      + (IF j = C-1 \/ mat[<<i, j+1>>] # mat[c] THEN 2 ELSE 0)

\* The four tests of point_index, in the order the code makes them.
Neighbor(c, d) ==
  CASE d = 0 -> <<c[1]-1, c[2]>>  [] d = 1 -> <<c[1]+1, c[2]>>
    [] d = 2 -> <<c[1], c[2]-1>>  [] d = 3 -> <<c[1], c[2]+1>>
HasNeighborNoRight(c, d) ==
  CASE d = 0 -> c[1] # 0  [] d = 1 -> c[1] # R-1
    [] d = 2 -> c[2] # 0  [] d = 3 -> FALSE
HasNeighbor(c, d) ==
  CASE d = 0 -> c[1] # 0  [] d = 1 -> c[1] # R-1
    [] d = 2 -> c[2] # 0  [] d = 3 -> c[2] # C-1

Top == stack[Len(stack)]

(***************************************************************************)
(* Plausible faults of the code, used to show that the properties below    *)
(* can fail.                                                               *)
(***************************************************************************)
FillDescendNoMatCheck ==
  LET n == Neighbor(Top.cell, Top.dir) IN
  /\ pc = "fill" /\ Top.dir < 4
  /\ HasNeighbor(Top.cell, Top.dir) /\ set_mat[n] = 0
  /\ set_mat' = [set_mat EXCEPT ![n] = set_number]
  /\ stack' = Append([stack EXCEPT ![Len(stack)].dir = Top.dir + 1],
                     [cell |-> n, dir |-> 0])
  /\ UNCHANGED <<mat, edges, set_number, pc, k, lines, texts, flagged>>
FillDescendNoSetCheck ==
  LET n == Neighbor(Top.cell, Top.dir) IN
  /\ pc = "fill" /\ Top.dir < 4
  /\ HasNeighbor(Top.cell, Top.dir) /\ mat[n] = mat[Top.cell]
  /\ set_mat' = [set_mat EXCEPT ![n] = set_number]
  /\ stack' = Append([stack EXCEPT ![Len(stack)].dir = Top.dir + 1],
                     [cell |-> n, dir |-> 0])
  /\ UNCHANGED <<mat, edges, set_number, pc, k, lines, texts, flagged>>
ScanSkipCountingAll ==
  /\ pc = "scan" /\ set_mat[CellAt(k)] # 0
  /\ set_number' = set_number + 1
  /\ Advance("scan", "lines")
  /\ UNCHANGED <<mat, edges, set_mat, stack, lines, texts, flagged>>

(***************************************************************************)
(* get_index_area                                                          *)
(***************************************************************************)
Init ==
  /\ mat \in [Cells -> Labels]
  /\ edges = [c \in Cells |-> 0]
  /\ set_mat = [c \in Cells |-> 0]
  /\ set_number = 1
  /\ stack = << >>
  /\ pc = "edges"
  /\ k = 0
  /\ lines = {} /\ texts = {} /\ flagged = {}

\* edges[i,j] = check(mat, i, j)
EdgeStep ==
  /\ pc = "edges"
  /\ edges' = [edges EXCEPT ![CellAt(k)] = Check(CellAt(k))]
  /\ Advance("edges", "scan")
  /\ UNCHANGED <<mat, set_mat, set_number, stack, lines, texts, flagged>>

\* set_mat[i,j] == 0: give it the next id and call point_index on it.
ScanStart ==
  /\ pc = "scan" /\ set_mat[CellAt(k)] = 0
  /\ set_mat' = [set_mat EXCEPT ![CellAt(k)] = set_number]
  /\ stack' = << [cell |-> CellAt(k), dir |-> 0] >>
  /\ pc' = "fill"
  /\ UNCHANGED <<mat, edges, set_number, k, lines, texts, flagged>>

\* The cell already belongs to a component: go on with the scan.
ScanSkip ==
  /\ pc = "scan" /\ set_mat[CellAt(k)] # 0
  /\ Advance("scan", "lines")
  /\ UNCHANGED <<mat, edges, set_mat, set_number, stack, lines, texts, flagged>>

\* One neighbour test of point_index succeeds: label it and recurse.
FillDescend ==
  LET n == Neighbor(Top.cell, Top.dir) IN
  /\ pc = "fill" /\ Top.dir < 4
  /\ HasNeighbor(Top.cell, Top.dir)
  /\ mat[n] = mat[Top.cell]
  /\ set_mat[n] = 0
  /\ set_mat' = [set_mat EXCEPT ![n] = set_number]
  /\ stack' = Append([stack EXCEPT ![Len(stack)].dir = Top.dir + 1],
                     [cell |-> n, dir |-> 0])
  /\ UNCHANGED <<mat, edges, set_number, pc, k, lines, texts, flagged>>

\* One neighbour test fails (no such neighbour, other label, or labelled).
FillSkip ==
  LET n == Neighbor(Top.cell, Top.dir) IN
  /\ pc = "fill" /\ Top.dir < 4
  /\ ~(HasNeighbor(Top.cell, Top.dir) /\ mat[n] = mat[Top.cell]
       /\ set_mat[n] = 0)
  /\ stack' = [stack EXCEPT ![Len(stack)].dir = Top.dir + 1]
  /\ UNCHANGED <<mat, edges, set_mat, set_number, pc, k, lines, texts, flagged>>

\* A nested point_index call returns to its caller.
FillReturn ==
  /\ pc = "fill" /\ Top.dir = 4 /\ Len(stack) > 1
  /\ stack' = SubSeq(stack, 1, Len(stack) - 1)
  /\ UNCHANGED <<mat, edges, set_mat, set_number, pc, k, lines, texts, flagged>>

\* The outermost call returns: set_number += 1 and the scan goes on.
FillDone ==
  /\ pc = "fill" /\ Top.dir = 4 /\ Len(stack) = 1
  /\ stack' = << >>
  /\ set_number' = set_number + 1
  /\ Advance("scan", "lines")
  /\ UNCHANGED <<mat, edges, set_mat, lines, texts, flagged>>
  /\ UNCHANGED <<mat, edges, set_mat, lines, texts, flagged>>

(***************************************************************************)
(* label_index(index_mat, np.flipud(edges), arange(C+1), arange(R+1), ...) *)
(***************************************************************************)
Bit(num, b) == (num \div (2^b)) % 2 = 1

\* The lines drawn for bit b of the mask at displayed row i, column j.
Segment(i, j, b) ==
  CASE b = 0 -> <<"h", 2*i+1, 2*j>>   \* hlines(Y[i]+0.5, X[j]-0.5, X[j+1]-0.5)
    [] b = 1 -> <<"v", 2*j+1, 2*i>>   \* vlines(X[j+1]-0.5, Y[i]-0.5, Y[i+1]-0.5)
    [] b = 2 -> <<"h", 2*i-1, 2*j>>   \* hlines(Y[i]-0.5, X[j]-0.5, X[j+1]-0.5)
    [] b = 3 -> <<"v", 2*j-1, 2*i>>   \* vlines(X[j]-0.5, Y[i]-0.5, Y[i+1]-0.5)

AnnotationUnflipped(c) == [x |-> c[2], y |-> c[1], text |-> mat[c]]

\* ax.text(j, set_mat.shape[0]-i-1, index_mat[i,j])
Annotation(c) == [x |-> c[2], y |-> R - c[1] - 1, text |-> mat[c]]

LineStepUnflipped ==
  LET i == CellAt(k)[1]  j == CellAt(k)[2]  num == edges[CellAt(k)] IN
  /\ pc = "lines"
  /\ lines' = lines \cup {Segment(i, j, b) : b \in {b \in 0 .. 3 : Bit(num, b)}}
  /\ Advance("lines", "text")
  /\ UNCHANGED <<mat, edges, set_mat, set_number, stack, texts, flagged>>

\* The edge loop: the mask of displayed row i is row R-1-i of edges.
LineStep ==
  LET i == CellAt(k)[1]  j == CellAt(k)[2]  num == edges[<<R-1-i, j>>] IN
  /\ pc = "lines"
  /\ lines' = lines \cup {Segment(i, j, b) : b \in {b \in 0 .. 3 : Bit(num, b)}}
  /\ Advance("lines", "text")
  /\ UNCHANGED <<mat, edges, set_mat, set_number, stack, texts, flagged>>

\* First cell of a component: flag its id and write its label.
TextNew ==
  LET c == CellAt(k) IN
  /\ pc = "text" /\ set_mat[c] \notin flagged
  /\ flagged' = flagged \cup {set_mat[c]}
  /\ texts' = texts \cup (IF mat[c] = "nan" THEN {} ELSE {Annotation(c)})
  /\ Advance("text", "done")
  /\ UNCHANGED <<mat, edges, set_mat, set_number, stack, lines>>

TextSeen ==
  /\ pc = "text" /\ set_mat[CellAt(k)] \in flagged
  /\ Advance("text", "done")
  /\ UNCHANGED <<mat, edges, set_mat, set_number, stack, lines, texts, flagged>>

Next ==
  \/ EdgeStep
  \/ ScanStart \/ ScanSkip
  \/ FillDescend \/ FillSkip \/ FillReturn \/ FillDone
  \/ LineStep
  \/ TextNew \/ TextSeen

\* One sequential Python call that always runs to its end.
Spec == Init /\ [][Next]_vars /\ WF_vars(Next)

(***************************************************************************)
(* Properties                                                              *)
(***************************************************************************)
Frames == [cell : Cells, dir : 0 .. 4]

TypeOK ==
  /\ mat \in [Cells -> Labels]
  /\ edges \in [Cells -> 0 .. 15]
  /\ set_mat \in [Cells -> 0 .. R * C]
  /\ set_number \in 1 .. R * C + 1
  /\ stack \in Seq(Frames)
  /\ pc \in {"edges", "scan", "fill", "lines", "text", "done"}
  /\ k \in 0 .. LastPos
  /\ flagged \subseteq 1 .. R * C

\* Whenever no point_index call is active, every region that has an id
\* carries it on all of its cells: the recursive fill never returns while
\* a reachable equal-label cell is still 0, so the scan never starts a
\* second id inside a region.
FillComplete ==
  stack = << >> =>
    \A c \in Cells : set_mat[c] # 0 =>
      \A d \in Region(c) : set_mat[d] = set_mat[c]

\* Two cells never share an id unless a path of equal, 4-adjacent labels
\* joins them: point_index never crosses into another label's region.
RegionsSound ==
  \A c \in Cells :
    set_mat[c] # 0 => {d \in Cells : set_mat[d] = set_mat[c]} \subseteq Region(c)

\* The Python recursion depth of point_index never exceeds the number of
\* cells of the region being filled (each frame is a fresh cell); it is
\* this depth that meets Python's recursion limit on large regions.
RecursionDepthBound ==
  stack # << >> => Len(stack) <= Cardinality(Region(stack[1].cell))

\* get_index_area implements LabelerSpec: it terminates, and the ids it
\* returns are exactly the maximal equal-label regions, numbered in the
\* row-major order of their first cells.
LabelerRefinesSpec == Abs!SafetySpec /\ Abs!Termination

\* In the picture (imshow of the flipped grid, x = column, y = row from the
\* top) the cell at (x, y) shows row R-1-y of index_mat.
Shown(x, y) == mat[<<R - 1 - y, x>>]

BoundaryLines ==
  { <<"h", 2*p[1]+1, 2*p[2]>> :
      p \in {p \in (-1 .. R-1) \X (0 .. C-1) :
               p[1] \in {-1, R-1} \/ Shown(p[2], p[1]) # Shown(p[2], p[1]+1)} }
  \cup
  { <<"v", 2*p[1]+1, 2*p[2]>> :
      p \in {p \in (-1 .. C-1) \X (0 .. R-1) :
               p[1] \in {-1, C-1} \/ Shown(p[1], p[2]) # Shown(p[1]+1, p[2])} }

\* The lines label_index draws from the flipped edge masks are exactly the
\* borders between differently labelled cells of the flipped image, plus
\* the frame of the image.
RenderedBoundaries == pc = "done" => lines = BoundaryLines

\* Every region of the picture carries exactly one text, and that text is
\* written on a cell of the region, with the region's label.
AnnotatedOnce ==
  pc = "done" =>
    /\ \A t \in texts : t.x \in 0 .. C-1 /\ t.y \in 0 .. R-1
                        /\ t.text = Shown(t.x, t.y)
    /\ \A c \in Cells :
         Cardinality({t \in texts : <<R-1-t.y, t.x>> \in Region(c)}) = 1
=============================================================================
