------------------------------ MODULE MCDuckEngine ------------------------------
(* Two callers and two files.                                              *)
EXTENDS DuckEngine, TLC
Sym == Permutations(Callers) \cup Permutations(Files)
=============================================================================
