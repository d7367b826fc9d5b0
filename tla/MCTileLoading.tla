----------------------------- MODULE MCTileLoading -----------------------------
(* An instance of TileLoading for TLC: three zooms, of which two have tiles   *)
(* of the same size and one of these asks for aggregated tiles; a position    *)
(* at the top, one whose window lies over two tiles, and one a jump away.     *)
EXTENDS TileLoading

CONSTANTS a, b
MCCellH == [z \in Zooms |-> IF z = 1 THEN 2 ELSE 1]
MCTileRows == [z \in Zooms |-> IF z = 1 THEN 2 ELSE 4]
MCCount == [v \in Views |-> IF v = a THEN 6 ELSE 2]

\* TLC goes on from a state only while little is under way: two promises or a
\* promise and a prefetch timer, which does not run while a job is listened to.
FewUnderWay ==
    /\ Len(walk) <= 2
    /\ Cardinality(DOMAIN manager.inflight) + Cardinality(prefetchTimers) <= 2
    /\ listening => prefetchTimers = {}
=============================================================================
