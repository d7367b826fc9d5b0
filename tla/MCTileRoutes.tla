------------------------------ MODULE MCTileRoutes ------------------------------
(* Instances of TileRoutes for TLC.                                         *)
EXTENDS TileRoutes

CONSTANTS r1, r2, s1, s2, plain, sorted
=============================================================================
