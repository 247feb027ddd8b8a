--------------------------- MODULE MCRegionLabeler ---------------------------
(***************************************************************************)
(* RegionLabeler on every 3 x 3 grid of two winner labels: large enough    *)
(* for a ring around the centre, U-shaped regions whose fill must turn     *)
(* back upwards, snakes that drive the recursion to the region's size,     *)
(* and regions cut off from the row-major seed by another label.           *)
(***************************************************************************)
EXTENDS RegionLabeler

MCLabels == {"L", "T"}

\* The recursion never goes deeper than the grid; keeps faulty variants
\* finite.
StackBound == Len(stack) <= R * C + 1
=============================================================================
