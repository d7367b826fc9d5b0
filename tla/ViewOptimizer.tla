----------------------------- MODULE ViewOptimizer -----------------------------
(***************************************************************************)
(* What tv-core does to the ops of a view before they run: normalize_ops   *)
(* (expr.rs) puts them in the executor's order, and optimize (optimizer.rs)*)
(* rewrites them in five passes.                                           *)
(* Name_Slip is Name with a slip.                                          *)
(***************************************************************************)
EXTENDS Tables

CONSTANTS
  NameOrder,     \* every column name, in alphabetical order
  TopKThreshold  \* the largest limit that is fused with a sort

OfType(ops, types) == SelectSeq(ops, LAMBDA op : op.type \in types)

HasType(ops, types) == \E i \in DOMAIN ops : ops[i].type \in types

(* The first of a type: find, position.                                    *)
FirstOf(ops, type) == OfType(ops, {type})[1]

(* normalize_ops.                                                          *)
Normalize(ops) ==
  OfType(ops, {"Approximate"}) \o OfType(ops, {"Select"}) \o OfType(ops, {"Drop"})
  \o OfType(ops, {"Filter"}) \o OfType(ops, {"Derive"})
  \o OfType(ops, {"Deduplicate", "Sample"}) \o OfType(ops, {"GroupBy"})
  \o OfType(ops, {"Rename"}) \o OfType(ops, {"Sort", "TopK"}) \o OfType(ops, {"Limit"})

-----------------------------------------------------------------------------
(* compute_referenced_columns.                                             *)

KeyColumns(keys) == {keys[i].column : i \in DOMAIN keys}

Referenced_KeysOnly(ops) ==
  UNION {CASE ops[i].type = "Filter" -> PredicateColumns(ops[i].predicate)
           [] ops[i].type \in {"Sort", "TopK"} -> KeyColumns(ops[i].keys)
           [] ops[i].type \in {"GroupBy"} -> ToSet(ops[i].keys)
           [] OTHER -> {}
         : i \in DOMAIN ops}

Referenced(ops) ==
  UNION {CASE ops[i].type = "Filter" -> PredicateColumns(ops[i].predicate)
           [] ops[i].type \in {"Sort", "TopK"} -> KeyColumns(ops[i].keys)
           [] ops[i].type = "Derive" -> {ops[i].name, ops[i].left, ops[i].right}
           [] ops[i].type = "GroupBy" ->
                ToSet(ops[i].keys)
                \cup {a.column : a \in {b \in ToSet(ops[i].aggs) : b.fn # "Count"}}
           [] ops[i].type = "Deduplicate" /\ ops[i].columns # Null -> ToSet(ops[i].columns)
           [] ops[i].type = "Rename" -> {ops[i].from}
           [] ops[i].type = "Select" -> ToSet(ops[i].columns)
           [] OTHER -> {}
         : i \in DOMAIN ops}

(* needed_column_indices: the columns a filtered tile must read, or Null   *)
(* for all.                                                                *)
NeededColumns(ops, cols) ==
  LET needed == Referenced(ops) \cap ToSet(cols)
  IN  IF HasType(ops, {"Select", "GroupBy"}) \/ Referenced(ops) = {} \/ needed = ToSet(cols)
        THEN Null ELSE needed

-----------------------------------------------------------------------------
(* The passes.                                                             *)

(* The names an op brings in, which filters held back may wait for.        *)
Introduced(op) == IF op.type = "Derive" THEN {op.name} ELSE {op.to}

(* A filter moves past everything but the op that introduces its column.   *)
PushDown(acc, op) ==
  IF op.type = "Filter" THEN [acc EXCEPT !.pending = Append(@, op)]
  ELSE IF op.type \in {"Rename", "Derive"}
  THEN LET waits(f) == PredicateColumns(f.predicate) \cap Introduced(op) # {}
       IN  [out |-> acc.out \o SelectSeq(acc.pending, LAMBDA f : ~ waits(f)) \o <<op>>,
            pending |-> SelectSeq(acc.pending, waits)]
  ELSE [out |-> acc.out \o acc.pending \o <<op>>, pending |-> << >>]

Pass1(ops) ==
  LET acc == FoldLeft(PushDown, [out |-> << >>, pending |-> << >>], ops)
  IN  acc.out \o acc.pending

(* A group-by without a select is given the columns it needs.              *)
Pass2(ops) ==
  IF HasType(ops, {"Select"}) \/ ~ HasType(ops, {"GroupBy"}) \/ Referenced(ops) = {} THEN ops
  ELSE << [type |-> "Select",
           columns |-> SelectSeq(NameOrder, LAMBDA c : c \in Referenced(ops))] >> \o ops

Position(ops, type) ==
  CHOOSE i \in DOMAIN ops : ops[i].type = type /\ \A j \in 1 .. i - 1 : ops[j].type # type

Drop(ops, i) == SubSeq(ops, 1, i - 1) \o SubSeq(ops, i + 1, Len(ops))

(* The first sort and the first limit become one op.                       *)
Pass3(ops) ==
  IF ~ HasType(ops, {"Sort"}) \/ ~ HasType(ops, {"Limit"}) THEN ops
  ELSE LET s == Position(ops, "Sort")
           l == Position(ops, "Limit")
       IN  IF ops[l].n > TopKThreshold THEN ops
           ELSE Drop(Drop(ops, IF s < l THEN l ELSE s), IF s < l THEN s ELSE l)
                \o << [type |-> "TopK", n |-> ops[l].n, keys |-> ops[s].keys] >>

AlwaysEq(p, b) == p.op = "Eq" /\ p.value.kind = "bool" /\ p.value.v = b

(* A conjunct that says a column is true is taken for a tautology, and a   *)
(* disjunct that says it is false for a contradiction.                     *)
RECURSIVE Fold(_)
Fold(p) ==
  IF p.op = "Not" THEN [p EXCEPT !.expr = Fold(@)]
  ELSE IF p.op \notin {"And", "Or"} THEN p
  ELSE LET kept == SelectSeq([i \in DOMAIN p.exprs |-> Fold(p.exprs[i])],
                             LAMBDA e : ~ AlwaysEq(e, p.op = "And"))
       IN  IF Len(kept) = 1 THEN kept[1] ELSE [p EXCEPT !.exprs = kept]

FoldFilter(op) == IF op.type = "Filter" THEN [op EXCEPT !.predicate = Fold(@)] ELSE op

IsEmptyAnd(op) ==
  op.type = "Filter" /\ op.predicate.op = "And" /\ op.predicate.exprs = << >>

Pass4(ops) == SelectSeq([i \in DOMAIN ops |-> FoldFilter(ops[i])], LAMBDA op : ~ IsEmptyAnd(op))

(* With statistics the conjuncts of a filter are sorted by their estimated *)
(* selectivity.  What the estimates are is left out: they turn the order   *)
(* round, or (without statistics) leave it.                                *)
Pass5(ops, stats) ==
  [i \in DOMAIN ops |->
     IF stats /\ ops[i].type = "Filter" /\ ops[i].predicate.op = "And"
       THEN [ops[i] EXCEPT !.predicate.exprs = Reverse(@)] ELSE ops[i]]

Optimize(ops, stats) == Pass5(Pass4(Pass3(Pass2(Pass1(ops)))), stats)
=============================================================================
