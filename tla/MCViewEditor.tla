----------------------------- MODULE MCViewEditor -----------------------------
(* A column of integers and one of texts, which are numbered 7 and 8; of the *)
(* texts to search for, 17 is in both and 18 in the second.                  *)
EXTENDS ViewEditor

CONSTANTS null, blank

MCColumns == <<"a", "t">>
MCText == <<"t">>
MCNumeric == {"a", "n", "d"}
MCValues == [c \in {"a", "t", "d", "n"} |-> IF c = "t" THEN {7, 8} ELSE {1, 2}]
MCMatches == [q \in {17, 18} |-> IF q = 17 THEN {7, 8} ELSE {8}]
MCAllRows == {[a |-> x, t |-> y] : x \in {1, 2, null}, y \in {7, 8, null}}
MCBuckets == <<[lo |-> 1, hi |-> 1], [lo |-> 2, hi |-> 2]>>
MCBuilderRows == {[column |-> "a", operator |-> "gt", value |-> 1],
                  [column |-> "t", operator |-> "eq", value |-> 7],
                  [column |-> "t", operator |-> "contains", value |-> 18],
                  [column |-> "a", operator |-> "is_null", value |-> blank]}

Untouched ==
    [open |-> FALSE, rows |-> <<[column |-> blank, operator |-> "eq", value |-> blank]>>, combinator |-> "and"]

\* TLC goes on from a state only while little is there at a time.
Little ==
    /\ Len(activePredicates(ops)) <= 2
    /\ Len(SortKeys) = 2 => Len(ops) = 1
    /\ SortKeys # <<>> \/ popover # Null => Len(activePredicates(ops)) <= 1
    /\ ~ ColumnsAreTheSources => builder = Untouched /\ drag = NotDragging /\ Len(activePredicates(ops)) <= 1
    /\ builder.rows # Untouched.rows => Len(ops) <= 1
    /\ builder.open => drag = NotDragging /\ Len(ops) <= 1
    /\ drag # NotDragging => Len(ops) <= 1 /\ Len(builder.rows) = 1
=============================================================================
