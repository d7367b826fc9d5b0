----------------------------- MODULE MCTileManager -----------------------------
(* Instances of TileManager for TLC: one or two sources, tiles that fit the *)
(* cache and tiles that do not.                                             *)
EXTENDS TileManager, TLC

CONSTANTS ka, kb, kc

MCSourceOf == [k \in Keys |-> IF k = kc THEN "s2" ELSE "s1"]

(* The tiles of the second source do not fit the cache.                     *)
MCSizes == [k \in Keys |-> IF k = kc THEN {3} ELSE {1}]
=============================================================================
