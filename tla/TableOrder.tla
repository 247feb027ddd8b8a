------------------------------ MODULE TableOrder ------------------------------
(***************************************************************************)
(* The pandas operations through which src/script/plot.py orders its       *)
(* axes: DataFrame.sort_values over several keys (a stable sort),          *)
(* Series.unique() (distinct values in first-seen order), and the list     *)
(* repetition "list * 5".  The measurement table is reduced to what these  *)
(* read of it: one row <<dataset, insert_ratio>> per measured pair (the    *)
(* index_type of a row does not change any first-seen order).  Ratios are *)
(* percentages, and read_ratio = 100 - insert_ratio.                       *)
(***************************************************************************)
EXTENDS Integers, Sequences, FiniteSets, SequencesExt

CONSTANTS
  Datasets,      \* dataset names of the table
  InsertRatios,  \* insert_ratio values, in percent
  Pgm,           \* dataset -> its "pgm" (local hardness) value
  PgmGlobal      \* dataset -> its "pgm_global" value

ASSUME /\ InsertRatios \subseteq 0 .. 100
       /\ Pgm \in [Datasets -> Nat] /\ PgmGlobal \in [Datasets -> Nat]

Rows == Datasets \X InsertRatios

\* Every order the CSV can list a non-empty set of measured pairs in.
Tables == UNION {SetToSeqs(P) : P \in SUBSET Rows \ {{}}}

\* The columns of a row.
DatasetOf == [r \in Rows |-> r[1]]
PgmOf == [r \in Rows |-> Pgm[r[1]]]
InsertOf == [r \in Rows |-> r[2]]
ReadOf == [r \in Rows |-> 100 - r[2]]

\* data[col] for the column function f.
Column(s, f) == [i \in DOMAIN s |-> f[s[i]]]

\* Series.unique(): the distinct values in the order they first occur.
FirstSeen(s) ==
  FoldLeft(LAMBDA acc, v : IF Contains(acc, v) THEN acc ELSE Append(acc, v), << >>, s)

\* Lexicographic order of the <<first, second>> sort keys.
LexLess(a, b) == a[1] < b[1] \/ (a[1] = b[1] /\ a[2] < b[2])

\* sort_values(by=[first, second]): rows ordered by their key, rows with
\* equal keys kept in their previous relative order.
StableSortBy(s, key) ==
  LET Before(j, i) == LexLess(key[s[j]], key[s[i]])
                      \/ (key[s[j]] = key[s[i]] /\ j < i)
      rank(i) == Cardinality({j \in DOMAIN s : Before(j, i)}) + 1
  IN  [n \in DOMAIN s |-> s[CHOOSE i \in DOMAIN s : rank(i) = n]]

\* list * n
Repeated(s, n) == FlattenSeq([i \in 1 .. n |-> s])

MinOf(S) == CHOOSE m \in S : \A v \in S : m <= v
=============================================================================
