---------------------------- MODULE MCClientSession ----------------------------
(* Instances of ClientSession for TLC: two sources the server has and one  *)
(* that may be added, and besides the empty pipeline a filter and a        *)
(* grouping on a column whose name is not Latin-1.                         *)
EXTENDS ClientSession, TLC

CONSTANTS s1, s2, s3, none, filtered, grouped

MCSources    == {s1, s2, s3}
MCRegistered == {s1, s2}
MCOps        == {none, filtered, grouped}

SourceSymmetry == Permutations(MCRegistered)
=============================================================================
