-------------------------------- MODULE Tables --------------------------------
(***************************************************************************)
(* Tables, predicates and the ops of a view, as the executor of tv-engine  *)
(* (executor.rs) gives them meaning: apply_op on one table.                *)
(*                                                                         *)
(* A table has a sequence of column names and a sequence of rows, a row    *)
(* being a function of the column names.  Cells are integers or Null; the  *)
(* numeric widths and text are left out.  Columns of one table have        *)
(* different names: ops that would give two columns one name are not asked.*)
(* Error stands for any EngineError.                                       *)
(***************************************************************************)
EXTENDS Integers, Sequences, FiniteSets, SequencesExt

CONSTANTS
  Null, Error,
  SampleOf(_, _)  \* the positions kept by a sample of n rows out of total:
                  \* a function of the two, the seed being fixed

(* batch.slice, skipping offset rows and taking at most limit.             *)
Slice(rows, offset, limit) ==
  SubSeq(rows, offset + 1, IF offset + limit < Len(rows) THEN offset + limit ELSE Len(rows))

Has(t, c) == c \in ToSet(t.cols)

Column(r, cs) == [c \in cs |-> r[c]]

(* batch.project, by name.                                                 *)
Project(t, names) ==
  [cols |-> names, rows |-> [i \in DOMAIN t.rows |-> Column(t.rows[i], ToSet(names))]]

-----------------------------------------------------------------------------
(* Predicates: a mask is TRUE, FALSE or Null for each row, and Null in any *)
(* operand makes a conjunction or disjunction Null.                        *)

Compare(op, x, y) ==
  CASE op = "Eq" -> x = y [] op = "Ne" -> x # y
    [] op = "Gt" -> x > y [] op = "Gte" -> x >= y
    [] op = "Lt" -> x < y [] op = "Lte" -> x <= y

Bit(b) == IF b THEN 1 ELSE 0

CompareLit(op, v, lit) ==
  IF lit.kind = "null" THEN FALSE
  ELSE IF v = Null THEN Null
  ELSE IF lit.kind = "bool" THEN Compare(op, Bit(v # 0), Bit(lit.v))
  ELSE Compare(op, v, lit.v)

AndMask(a, b) == IF Null \in {a, b} THEN Null ELSE a /\ b
OrMask(a, b)  == IF Null \in {a, b} THEN Null ELSE a \/ b
NotMask(a)    == IF a = Null THEN Null ELSE ~ a

Leaves == {"Eq", "Ne", "Gt", "Gte", "Lt", "Lte"}

RECURSIVE Mask(_, _)
Mask(p, r) ==
  CASE p.op \in Leaves -> CompareLit(p.op, r[p.column], p.value)
    [] p.op = "Between" ->
         AndMask(CompareLit("Gte", r[p.column], p.lo), CompareLit("Lte", r[p.column], p.hi))
    [] p.op = "In" ->
         FoldLeft(OrMask, FALSE,
                  [i \in DOMAIN p.values |-> CompareLit("Eq", r[p.column], p.values[i])])
    [] p.op = "NotIn" -> NotMask(Mask([p EXCEPT !.op = "In"], r))
    [] p.op = "IsNull" -> r[p.column] = Null
    [] p.op = "IsNotNull" -> r[p.column] # Null
    [] p.op = "And" -> FoldLeft(AndMask, TRUE, [i \in DOMAIN p.exprs |-> Mask(p.exprs[i], r)])
    [] p.op = "Or" -> FoldLeft(OrMask, FALSE, [i \in DOMAIN p.exprs |-> Mask(p.exprs[i], r)])
    [] p.op = "Not" -> NotMask(Mask(p.expr, r))

RECURSIVE PredicateColumns(_)
PredicateColumns(p) ==
  CASE p.op \in {"And", "Or"} -> UNION {PredicateColumns(p.exprs[i]) : i \in DOMAIN p.exprs}
    [] p.op = "Not" -> PredicateColumns(p.expr)
    [] OTHER -> {p.column}

-----------------------------------------------------------------------------
(* Sorting.  The kernel does not promise the order of equal rows; they     *)
(* stay in their order here.                                               *)

(* -1, 0 or 1: v before w, equal, or after.                                *)
KeyOrder(key, v, w) ==
  CASE v = w -> 0
    [] v # w /\ v = Null -> IF key.nulls_last THEN 1 ELSE -1
    [] v # w /\ w = Null -> IF key.nulls_last THEN -1 ELSE 1
    [] OTHER -> IF (v < w) # key.descending THEN -1 ELSE 1

Before(keys, r, s) ==
  \E i \in DOMAIN keys :
    /\ KeyOrder(keys[i], r[keys[i].column], s[keys[i].column]) = -1
    /\ \A j \in 1 .. i - 1 : r[keys[j].column] = s[keys[j].column]

Insert(keys, sorted, r) ==
  LET n == Cardinality({i \in DOMAIN sorted : ~ Before(keys, r, sorted[i])})
  IN  SubSeq(sorted, 1, n) \o <<r>> \o SubSeq(sorted, n + 1, Len(sorted))

SortRows(keys, rows) == FoldLeft(LAMBDA sorted, r : Insert(keys, sorted, r), << >>, rows)

(* Keys of columns that are not there are skipped.                         *)
KeysIn(t, keys) == SelectSeq(keys, LAMBDA k : Has(t, k.column))

Ascending(columns) ==
  [i \in DOMAIN columns |-> [column |-> columns[i], descending |-> FALSE, nulls_last |-> TRUE]]

-----------------------------------------------------------------------------
(* The ops, one by one.                                                    *)

ApplyFilter(t, p) ==
  IF PredicateColumns(p) \subseteq ToSet(t.cols)
    THEN [t EXCEPT !.rows = SelectSeq(@, LAMBDA r : Mask(p, r) = TRUE)]
    ELSE Error

ApplySelect(t, columns) == Project(t, SelectSeq(columns, LAMBDA c : Has(t, c)))

ApplyDrop(t, columns) ==
  Project(t, SelectSeq(t.cols, LAMBDA c : c \notin ToSet(columns)))

ApplySort(t, keys) == [t EXCEPT !.rows = SortRows(KeysIn(t, keys), @)]

(* The derived expression is the sum of two columns.                       *)
ApplyDerive(t, op) ==
  LET value(r) == IF Null \in {r[op.left], r[op.right]} THEN Null ELSE r[op.left] + r[op.right]
  IN  IF {op.left, op.right} \subseteq ToSet(t.cols)
        THEN [cols |-> Append(t.cols, op.name),
              rows |-> [i \in DOMAIN t.rows |->
                          [c \in ToSet(t.cols) \cup {op.name} |->
                             IF c = op.name THEN value(t.rows[i]) ELSE t.rows[i][c]]]]
        ELSE Error

(* The rows at these positions, in order.                                  *)
RowsAt(rows, keep) == [i \in 1 .. Cardinality(keep) |-> rows[SetToSortSeq(keep, <)[i]]]

(* columns is Null for all.                                                *)
DedupColumns(t, columns) ==
  IF columns = Null THEN ToSet(t.cols) ELSE ToSet(columns) \cap ToSet(t.cols)

ApplyDeduplicate(t, columns) ==
  LET key(i) == Column(t.rows[i], DedupColumns(t, columns))
  IN  [t EXCEPT !.rows =
        RowsAt(@, {i \in DOMAIN t.rows : \A j \in 1 .. i - 1 : key(j) # key(i)})]

ApplySample(t, n) ==
  IF n >= Len(t.rows) THEN t
  ELSE LET kept == SampleOf(Len(t.rows), n)
       IN  [t EXCEPT !.rows = [i \in DOMAIN kept |-> t.rows[kept[i]]]]

ApplyRename(t, from, to) ==
  LET name(c) == IF c = from THEN to ELSE c
      old(d) == CHOOSE c \in ToSet(t.cols) : name(c) = d
  IN  [cols |-> [i \in DOMAIN t.cols |-> name(t.cols[i])],
       rows |-> [i \in DOMAIN t.rows |->
                   [d \in {name(c) : c \in ToSet(t.cols)} |-> t.rows[i][old(d)]]]]

ApplyLimit(t, n) == [t EXCEPT !.rows = Slice(@, 0, n)]

Sum(vals) == FoldLeft(LAMBDA a, b : a + b, 0, vals)

(* One aggregate over the rows of a group: counts count Null as a value.   *)
Aggregate(agg, rows) ==
  LET cells == [i \in DOMAIN rows |-> rows[i][agg.column]]
      vals  == SelectSeq(cells, LAMBDA v : v # Null)
  IN  CASE agg.fn = "Count" -> Len(rows)
        [] agg.fn = "CountDistinct" -> Cardinality(ToSet(cells))
        [] agg.fn = "Sum" -> IF vals = << >> THEN Null ELSE Sum(vals)
        [] agg.fn = "Min" ->
             IF vals = << >> THEN Null
             ELSE CHOOSE v \in ToSet(vals) : \A w \in ToSet(vals) : v <= w

(* The rows are sorted by the keys, and cut where a key changes.           *)
ApplyGroupBy(t, keys, aggs) ==
  LET present == SelectSeq(keys, LAMBDA k : Has(t, k))
      sorted  == SortRows(Ascending(present), t.rows)
      key(i)  == Column(sorted[i], ToSet(present))
      heads   == SetToSortSeq({i \in DOMAIN sorted : i = 1 \/ key(i) # key(i - 1)}, <)
      group(h) == SelectSeq(sorted, LAMBDA r : Column(r, ToSet(present)) = key(h))
      agg(c)  == aggs[CHOOSE a \in DOMAIN aggs : aggs[a].alias = c]
      columns == present \o [a \in DOMAIN aggs |-> aggs[a].alias]
  IN  IF \E a \in DOMAIN aggs : aggs[a].fn # "Count" /\ ~ Has(t, aggs[a].column) THEN Error
      ELSE [cols |-> columns,
            rows |-> [g \in DOMAIN heads |->
                        [c \in ToSet(columns) |->
                           IF c \in ToSet(present) THEN sorted[heads[g]][c]
                                                   ELSE Aggregate(agg(c), group(heads[g]))]]]

Apply(t, op) ==
  CASE op.type = "Filter" -> ApplyFilter(t, op.predicate)
    [] op.type = "Select" -> ApplySelect(t, op.columns)
    [] op.type = "Drop" -> ApplyDrop(t, op.columns)
    [] op.type = "Sort" -> ApplySort(t, op.keys)
    [] op.type = "Derive" -> ApplyDerive(t, op)
    [] op.type = "Deduplicate" -> ApplyDeduplicate(t, op.columns)
    [] op.type = "Sample" -> ApplySample(t, op.n)
    [] op.type = "GroupBy" -> ApplyGroupBy(t, op.keys, op.aggs)
    [] op.type = "Rename" -> ApplyRename(t, op.from, op.to)
    [] op.type = "Limit" -> ApplyLimit(t, op.n)
    [] op.type \in {"TopK", "Approximate"} -> t

(* execute_pipeline, on ops already normalised.                            *)
Execute(t, ops) == FoldLeft(LAMBDA acc, op : IF acc = Error THEN Error ELSE Apply(acc, op), t, ops)
=============================================================================
