-------------------------- MODULE MCViewMaterializer --------------------------
(* Instances of ViewMaterializer for TLC.  ka, of s1, is a sort (disk,      *)
(* provisional first and full later); kb, of s2, is a view that is small   *)
(* or large in memory, and whose full build goes to disk; kc, of s2, is    *)
(* small and in memory.                                                    *)
EXTENDS ViewMaterializer, TLC

CONSTANTS ka, kb, kc, s1, s2

MCSourceOf == [k \in Keys |-> IF k = ka THEN s1 ELSE s2]

V(k, disk, prov, size) ==
  [key |-> k, is_disk_backed |-> disk, is_provisional |-> prov, byte_size |-> size]

MCBuilt == [k \in Keys |->
  CASE k = ka -> {V(k, TRUE, TRUE, 0), V(k, TRUE, FALSE, 0)}
    [] k = kb -> {V(k, FALSE, FALSE, 1), V(k, FALSE, FALSE, 3)}
    [] k = kc -> {V(k, FALSE, FALSE, 1)}]

MCFull == [k \in Keys |-> {V(k, TRUE, FALSE, 0)}]

(* Each view on disk, or in memory and as large as the whole budget.       *)
MCAny == [k \in Keys |-> {V(k, TRUE, FALSE, 0), V(k, FALSE, FALSE, 3)}]

CallerSymmetry == Permutations(Callers)
=============================================================================
