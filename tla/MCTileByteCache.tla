---------------------------- MODULE MCTileByteCache ----------------------------
(* Instances of TileByteCache for TLC.                                      *)
EXTENDS TileByteCache, TLC

CONSTANTS t1, t2, ka, kb, kc

ThreadKeySymmetry == Permutations(Threads) \cup Permutations(Keys)
=============================================================================
