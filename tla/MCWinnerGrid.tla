----------------------------- MODULE MCWinnerGrid -----------------------------
EXTENDS WinnerGrid

\* Per family: no measurement (the start value 0 and the blank label), or
\* one of two members at a value 1..3.
MCLearnedResults == {<<0, "">>} \cup ({1, 2, 3} \X {"A", "L"})
MCTradResults == {<<0, "">>} \cup ({1, 2, 3} \X {"b", "h"})

\* tied_perc of None (plot_2d_heatmap_pgm, the 3d call of __main__) or 1/2.
MCTiedPercs == {None, <<1, 2>>}

\* maximum_ratio of None (plot_2d_heatmap, the multi-threaded 3d call of
\* __main__) or 0.4 (the single-threaded 3d call).
MCMaximumRatios == {None, <<2, 5>>}
MCNoMaximum == {None}
MCNoTie == {None}

\* Abbreviations whose index_abbreviation key has an index_display entry
\* (single_abbr2index, then index_display): every label used here.
MCLegendNames == {"A", "L", "b", "h", "X", "F", "r", "w", "m"}

\* The families of the single-threaded plot_3d_heatmap call of __main__,
\* ["xindex", "alex", "lipp", "finedex"] and ["btree", "hot", "artunsync",
\* "wormhole_u64", "masstree"], abbreviated.
MCMainLearned == {<<0, "">>} \cup ({1, 2} \X {"X", "A", "L", "F"})
MCMainTrad == {<<0, "">>} \cup ({1, 2} \X {"b", "h", "r", "w", "m"})

\* Only measured inputs: the tie threshold alone decides the outcome.
MCMeasuredLearned == {1, 2, 3} \X {"A", "L"}
MCMeasuredTrad == {1, 2, 3} \X {"b", "h"}
MCTied == {<<1, 2>>}
=============================================================================
