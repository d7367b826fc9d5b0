------------------------------ MODULE MCSortViews ------------------------------
(* Instances of SortViews for TLC.                                          *)
EXTENDS SortViews

CONSTANTS r1, r2

Kind(single_file, large) == [single_file |-> single_file, large |-> large]

AllKinds == {Kind(b, l) : b, l \in BOOLEAN}
=============================================================================
