----------------------------- MODULE MCNavigation -----------------------------
(* An instance of Navigation for TLC: two zooms, of which the larger has     *)
(* smaller tiles and larger cells, a table that fits the window and one that *)
(* is four windows long.                                                     *)
EXTENDS Navigation, TLC

MCZooms == {1, 2}
MCHeaders == [z \in MCZooms |-> 0]
MCTileRows == [z \in MCZooms |-> IF z = 1 THEN 3 ELSE 2]
MCTileCols == [z \in MCZooms |-> IF z = 1 THEN 2 ELSE 1]
MCSizes == {[w |-> 4, h |-> 2], [w |-> 6, h |-> 3]}
MCLandmarks == <<4, 2>>
MCDeltas == {-2, 2}
MCCursors == {[x |-> 1, y |-> 1]}

\* TLC goes on from a state only while the client remembers few places.
FewPlaces ==
    LET places == Len(bookmarks) + Len(navHistory) + Cardinality({c \in Jumpers : anim[c] # NoJump})
    IN \/ places = 0
       \/ places = 1 /\ (dragging => bookmarks = navHistory) /\ (minimapVisible \/ count = NoCount) /\ size.h = 2
       \/ places = 2 /\ size.h = 2 /\ Len(navHistory) = 2 /\ zoom = 1 /\ count = NoCount
=============================================================================
