----------------------------- MODULE MCPgmHeatmap -----------------------------
EXTENDS PgmHeatmap

\* Two datasets whose names are not in pgm order.
MCDatasets == {"d1", "d2"}
MCPgm == [d \in MCDatasets |-> IF d = "d1" THEN 2 ELSE 1]

\* Per measured cell and family: no rows of the family (blank), or one of
\* two members; the values let either family win or the two tie.
MCLearnedResults == {<<1, "A">>, <<2, "L">>}
MCTradResults == {<<1, "b">>, <<2, "b">>}
=============================================================================
