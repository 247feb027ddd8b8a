------------------------- MODULE MCHeatmapExtractor -------------------------
(***************************************************************************)
(* Two candidates, one with and one without an abbreviation, on a 1 x 2    *)
(* grid, with up to two rows of throughput 0, 1 or 2 per candidate and     *)
(* cell: enough for ties, for a mean (3/2) between two measured values,    *)
(* for empty cells and for a zero measurement.                             *)
(***************************************************************************)
EXTENDS HeatmapExtractor, TLC

MCCands == <<"alex", "artrowex">>
MCAbbrev == "alex" :> "A"
MCComparators == {"gt", "lt"}
MCAggregators == {"50percent", "mean", "min", "max"}
\* np.min / np.max only: their raise on no rows does not depend on the numpy release.
MCMinMaxAggregators == {"min", "max"}
=============================================================================
