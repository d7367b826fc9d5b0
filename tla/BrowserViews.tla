------------------------------ MODULE BrowserViews ------------------------------
(***************************************************************************)
(* The same views in the browser: the queries that api/duckdb/             *)
(* sql-builder.ts writes for DuckDB, the statistics of api/duckdb/stats.ts *)
(* and the index that lib/client-index.ts keeps of the loaded rows, beside *)
(* what the server shows of them (ViewPipelines).                          *)
(*                                                                         *)
(* SQL is taken to mean what it says, and DuckDB to keep the order of a    *)
(* subquery; the order of equal rows and of groups is left open.  Numbers  *)
(* are integers and a quotient is exact.  In the index the cells of a text *)
(* column are the places of the texts in their order, 0 the empty one.     *)
(* Left out: text predicates but equality, moments, correlations.          *)
(* Name_Slip is Name with a slip.                                          *)
(***************************************************************************)
EXTENDS ViewPipelines

CONSTANTS
  IndexPredicates,  \* what the index is asked
  Bins              \* of a histogram

-----------------------------------------------------------------------------
(* predSql, under the logic of SQL: FALSE decides a conjunction and TRUE a *)
(* disjunction, whatever is unknown.                                       *)

SqlCompare(op, v, lit) ==
  IF lit.kind = "null" \/ v = Null THEN Null
  ELSE Compare(op, v, IF lit.kind = "bool" THEN Bit(lit.v) ELSE lit.v)

SqlAnd(a, b) == IF a = FALSE \/ b = FALSE THEN FALSE ELSE IF Null \in {a, b} THEN Null ELSE TRUE
SqlOr(a, b)  == IF a = TRUE \/ b = TRUE THEN TRUE ELSE IF Null \in {a, b} THEN Null ELSE FALSE

RECURSIVE SqlMask(_, _)
SqlMask(p, r) ==
  LET masks == [i \in DOMAIN p.exprs |-> SqlMask(p.exprs[i], r)]
  IN  CASE p.op \in Leaves -> SqlCompare(p.op, r[p.column], p.value)
        [] p.op = "Between" ->
             SqlAnd(SqlCompare("Gte", r[p.column], p.lo), SqlCompare("Lte", r[p.column], p.hi))
        [] p.op = "In" ->
             FoldLeft(SqlOr, FALSE,
                      [i \in DOMAIN p.values |-> SqlCompare("Eq", r[p.column], p.values[i])])
        [] p.op = "NotIn" -> NotMask(SqlMask([p EXCEPT !.op = "In"], r))
        [] p.op = "IsNull" -> r[p.column] = Null
        [] p.op = "IsNotNull" -> r[p.column] # Null
        [] p.op = "And" -> FoldLeft(SqlAnd, TRUE, masks)
        [] p.op = "Or" -> FoldLeft(SqlOr, FALSE, masks)
        [] p.op = "Not" -> NotMask(SqlMask(p.expr, r))

(* aggExprSql: a distinct count passes over NULL.                          *)
SqlAggregate(agg, rows) ==
  IF agg.fn = "CountDistinct"
    THEN Cardinality({rows[i][agg.column] : i \in DOMAIN rows} \ {Null})
    ELSE Aggregate(agg, rows)

(* Groups come in no order: in that of their first rows here.              *)
SqlGroups(t, keys, aggs) ==
  LET key(i)  == Column(t.rows[i], ToSet(keys))
      heads   == SetToSortSeq({i \in DOMAIN t.rows : \A j \in 1 .. i - 1 : key(j) # key(i)}, <)
      group(h) == SelectSeq(t.rows, LAMBDA r : Column(r, ToSet(keys)) = key(h))
      agg(c)  == aggs[CHOOSE a \in DOMAIN aggs : aggs[a].alias = c]
      columns == keys \o [a \in DOMAIN aggs |-> aggs[a].alias]
  IN  [cols |-> columns,
       rows |-> [g \in DOMAIN heads |->
                   [c \in ToSet(columns) |->
                      IF c \in ToSet(keys) THEN t.rows[heads[g]][c]
                                           ELSE SqlAggregate(agg(c), group(heads[g]))]]]

(* The columns a query names: one that is not there is an error.           *)
Named(t, op) ==
  CASE op.type = "Filter" -> PredicateColumns(op.predicate)
    [] op.type \in {"Select", "Drop"} -> ToSet(op.columns)
    [] op.type = "Sort" -> KeyColumns(op.keys)
    [] op.type = "Derive" -> {op.left, op.right}
    [] op.type = "Deduplicate" -> IF op.columns = Null THEN {} ELSE ToSet(op.columns)
    [] op.type = "GroupBy" ->
         ToSet(op.keys) \cup {a.column : a \in {b \in ToSet(op.aggs) : b.fn # "Count"}}
    [] op.type = "Rename" -> {op.from}
    [] OTHER -> {}

(* applyOp, around the query of the ops before.                            *)
SqlApply(t, op) ==
  IF t = Error \/ ~ Named(t, op) \subseteq ToSet(t.cols) THEN Error
  ELSE CASE op.type = "Filter" ->
              [t EXCEPT !.rows = SelectSeq(@, LAMBDA r : SqlMask(op.predicate, r) = TRUE)]
         [] op.type = "Select" -> Project(t, op.columns)
         [] op.type = "GroupBy" -> SqlGroups(t, op.keys, op.aggs)
         [] OTHER -> Apply(t, op)

(* buildViewSql: the ops in the order they were added.                     *)
BrowserView(s, view) == FoldLeft(SqlApply, Whole(s), view)

BrowserTile_RowsFirst(s, view, w) ==
  LET t == BrowserView(s, view)
  IN  IF t = Error THEN Error ELSE [t EXCEPT !.rows = Slice(@, w.rows, w.row)]

(* buildTileSql: LIMIT and OFFSET; the columns of the window are not asked.*)
BrowserTile(s, view, w) ==
  LET t == BrowserView(s, view)
  IN  IF t = Error THEN Error ELSE [t EXCEPT !.rows = Slice(@, w.row, w.rows)]

(* buildCountSql.                                                          *)
BrowserCount(s, view) == CountOf(BrowserView(s, view))

-----------------------------------------------------------------------------
(* ClientIndex.  A number that is missing is NaN, here Null; a text that is*)
(* missing is empty.                                                       *)

(* build, of the tiles.                                                    *)
IndexOf(tables, text) ==
  LET rows == Concat([k \in DOMAIN tables |-> tables[k].rows])
      cell(v, c) == IF v = Null /\ c \in text THEN 0 ELSE v
  IN  [text |-> text, total |-> Len(rows),
       data |-> [c \in ToSet(tables[1].cols) |-> [i \in DOMAIN rows |-> cell(rows[i][c], c)]]]

AllRows(ix) == 1 .. ix.total

(* buildSortedIndicesStr.                                                  *)
SortedIndices(data) ==
  SortSeq([i \in DOMAIN data |-> i],
          LAMBDA i, j : data[i] < data[j] \/ (data[i] = data[j] /\ i < j))

(* The first place, from lo, that is not before the value.                 *)
RECURSIVE LowerBound_OffByOne(_, _, _, _, _)
LowerBound_OffByOne(data, sorted, v, lo, hi) ==
  LET mid == (lo + hi) \div 2
  IN  IF lo > hi THEN lo
      ELSE IF data[sorted[mid]] <= v THEN LowerBound_OffByOne(data, sorted, v, mid + 1, hi)
      ELSE LowerBound_OffByOne(data, sorted, v, lo, mid - 1)

RECURSIVE LowerBoundFrom(_, _, _, _, _)
LowerBoundFrom(data, sorted, v, lo, hi) ==
  LET mid == (lo + hi) \div 2
  IN  IF lo > hi THEN lo
      ELSE IF data[sorted[mid]] < v THEN LowerBoundFrom(data, sorted, v, mid + 1, hi)
      ELSE LowerBoundFrom(data, sorted, v, lo, mid - 1)

(* From there on, as long as the texts are equal.                          *)
EqualTexts_OffByOne(data, v) ==
  LET sorted == SortedIndices(data)
      lo == LowerBound_OffByOne(data, sorted, v, 1, Len(sorted))
  IN  {sorted[k] : k \in {n \in lo .. Len(sorted) : \A m \in lo .. n : data[sorted[m]] = v}}

EqualTexts(data, v) ==
  LET sorted == SortedIndices(data)
      lo == LowerBoundFrom(data, sorted, v, 1, Len(sorted))
  IN  {sorted[k] : k \in {n \in lo .. Len(sorted) : \A m \in lo .. n : data[sorted[m]] = v}}

EvalEq(ix, c, lit) ==
  IF c \notin DOMAIN ix.data THEN AllRows(ix)
  ELSE IF c \notin ix.text /\ lit.kind = "int" THEN {i \in AllRows(ix) : ix.data[c][i] = lit.v}
  ELSE IF c \in ix.text /\ lit.kind = "text" THEN EqualTexts(ix.data[c], lit.v)
  ELSE AllRows(ix)

EvalCmp(ix, c, lit, op) ==
  IF c \notin DOMAIN ix.data \/ c \in ix.text \/ lit.kind # "int" THEN AllRows(ix)
  ELSE {i \in AllRows(ix) : ix.data[c][i] # Null /\ Compare(op, ix.data[c][i], lit.v)}

EvalNull(ix, c, wantNull) ==
  IF c \notin DOMAIN ix.data THEN AllRows(ix)
  ELSE {i \in AllRows(ix) :
          (IF c \in ix.text THEN ix.data[c][i] = 0 ELSE ix.data[c][i] = Null) = wantNull}

(* evalPred, union and intersect, over sets of rows.                       *)
RECURSIVE EvalPred(_, _)
EvalPred(ix, p) ==
  LET equal(values) == UNION {EvalEq(ix, p.column, values[i]) : i \in DOMAIN values}
  IN  CASE p.op = "And" -> {i \in AllRows(ix) : \A k \in DOMAIN p.exprs : i \in EvalPred(ix, p.exprs[k])}
        [] p.op = "Or" -> UNION {EvalPred(ix, p.exprs[k]) : k \in DOMAIN p.exprs}
        [] p.op = "Not" -> AllRows(ix) \ EvalPred(ix, p.expr)
        [] p.op = "Eq" -> EvalEq(ix, p.column, p.value)
        [] p.op = "Ne" -> AllRows(ix) \ EvalEq(ix, p.column, p.value)
        [] p.op \in {"Gt", "Gte", "Lt", "Lte"} -> EvalCmp(ix, p.column, p.value, p.op)
        [] p.op = "Between" ->
             EvalCmp(ix, p.column, p.lo, "Gte") \cap EvalCmp(ix, p.column, p.hi, "Lte")
        [] p.op = "In" -> equal(p.values)
        [] p.op = "NotIn" -> AllRows(ix) \ equal(p.values)
        [] p.op = "IsNull" -> EvalNull(ix, p.column, TRUE)
        [] p.op = "IsNotNull" -> EvalNull(ix, p.column, FALSE)

(* sliceRows, of rows in order.                                            *)
SliceRows(ix, rows, offset, count) ==
  LET shown == Slice(SetToSortSeq(rows, <), offset, count)
  IN  [c \in DOMAIN ix.data |-> [i \in DOMAIN shown |-> ix.data[c][shown[i]]]]

-----------------------------------------------------------------------------
(* computeColumnStats and computeRowGroupStats, of a column of numbers.    *)

Cells(s, c) == [i \in DOMAIN Concat(s.groups) |-> Concat(s.groups)[i][c]]
NonNull(cells) == SelectSeq(cells, LAMBDA v : v # Null)
LeastOf(vals) == IF vals = << >> THEN Null ELSE Min(ToSet(vals))
GreatestOf(vals) == IF vals = << >> THEN Null ELSE Max(ToSet(vals))

(* There is a histogram, and quantiles, where two values differ.           *)
Spread(vals) == LeastOf(vals) # GreatestOf(vals)

(* The greatest value falls into the last bin.                             *)
BinOf(mn, mx, v) ==
  LET bin == ((v - mn) * Bins) \div (mx - mn)
  IN  IF bin < Bins - 1 THEN bin ELSE Bins - 1

(* The bins that are not empty; lo and hi are in parts of 1 / Bins.        *)
Histogram(vals, mn, mx) ==
  LET bins == SetToSortSeq({BinOf(mn, mx, v) : v \in ToSet(vals)}, <)
  IN  [k \in DOMAIN bins |->
         [lo |-> mn * Bins + bins[k] * (mx - mn), hi |-> mn * Bins + (bins[k] + 1) * (mx - mn),
          count |-> Len(SelectSeq(vals, LAMBDA v : BinOf(mn, mx, v) = bins[k]))]]

(* PERCENTILE_CONT, in hundredths, of values in order.                     *)
PercentileOf(sorted, at) ==
  LET next == (at \div 100) + 2
      low == sorted[(at \div 100) + 1]
      high == sorted[IF next <= Len(sorted) THEN next ELSE Len(sorted)]
  IN  100 * low + (at % 100) * (high - low)

Percentile(vals, p) == PercentileOf(SortSeq(vals, <), (Len(vals) - 1) * p)

(* The values in bins that lie outside p1 and p99.                         *)
Outliers(histogram, p1, p99) ==
  LET out == SelectSeq(histogram, LAMBDA b : 100 * b.hi < Bins * p1 \/ 100 * b.lo > Bins * p99)
  IN  Sum([k \in DOMAIN out |-> out[k].count])

(* The twenty values that are there most.                                  *)
TopValues(vals) ==
  LET count(v) == Len(SelectSeq(vals, LAMBDA w : w = v))
      top == SetToSortSeq(ToSet(vals),
                          LAMBDA v, w : count(v) > count(w) \/ (count(v) = count(w) /\ v < w))
  IN  [k \in DOMAIN Slice(top, 0, 20) |-> [value |-> top[k], count |-> count(top[k])]]

StatsOf(cells, vals) ==
  [count |-> Len(cells), null_count |-> Len(cells) - Len(vals),
   min |-> LeastOf(vals), max |-> GreatestOf(vals),
   distinct_count |-> Cardinality(ToSet(vals)),
   histogram |-> IF Spread(vals) THEN Histogram(vals, LeastOf(vals), GreatestOf(vals)) ELSE Null,
   median |-> IF Spread(vals) THEN Percentile(vals, 50) ELSE Null,
   outliers |-> IF Spread(vals)
                  THEN Outliers(Histogram(vals, LeastOf(vals), GreatestOf(vals)),
                                Percentile(vals, 1), Percentile(vals, 99))
                  ELSE Null,
   top_values |-> TopValues(vals)]

ColumnStats(cells) == StatsOf(cells, NonNull(cells))

(* cardinalityCategory.                                                    *)
CardinalityCategory(distinct, total) ==
  LET nearlyAll == 100 * distinct >= 95 * total
  IN  CASE total = 0 \/ distinct = 0 -> "unknown"
        [] distinct = 1 -> "constant"
        [] distinct = 2 -> "binary"
        [] distinct > 2 /\ nearlyAll -> "unique"
        [] distinct \in 3 .. 10 /\ ~ nearlyAll -> "low_cardinality"
        [] distinct > 100 /\ ~ nearlyAll /\ 2 * distinct >= total -> "high_cardinality"
        [] OTHER -> "categorical"

(* computeRowGroupStats, from the footer: for Parquet only.                *)
RowGroupStats(s, c) ==
  LET group(g) == [i \in DOMAIN s.groups[g] |-> s.groups[g][i][c]]
  IN  IF s.format # "parquet" THEN << >>
      ELSE [g \in DOMAIN s.groups |->
              [row_offset |-> Len(Concat(SubSeq(s.groups, 1, g - 1))), row_count |-> Len(group(g)),
               null_count |-> Len(group(g)) - Len(NonNull(group(g))),
               min |-> LeastOf(NonNull(group(g))), max |-> GreatestOf(NonNull(group(g)))]]

-----------------------------------------------------------------------------
RECURSIVE IntsOnly(_)
IntsOnly(p) ==
  CASE p.op \in {"And", "Or"} -> \A i \in DOMAIN p.exprs : IntsOnly(p.exprs[i])
    [] p.op = "Not" -> IntsOnly(p.expr)
    [] p.op \in Leaves -> p.value.kind = "int"
    [] OTHER -> TRUE

FilterColumns(view) ==
  UNION {PredicateColumns(op.predicate) : op \in ToSet(OfType(view, {"Filter"}))}

(* Views both engines are asked alike: the ops are in the order to which   *)
(* the server brings them, their columns are there, and no boolean is      *)
(* compared with a number.  Which rows a sample or a deduplicate keeps, and*)
(* a limit of groups, is up to each.                                       *)
AskedAlike(view) ==
  /\ Normalize(view) = view
  /\ BrowserView(source, view) # Error
  /\ ~ HasType(view, {"Deduplicate", "Sample"})
  /\ ~ (HasType(view, {"GroupBy"}) /\ HasType(view, {"Limit"}))
  /\ \A op \in ToSet(OfType(view, {"Filter"})) : IntsOnly(op.predicate)

Times(rows, r) == Cardinality({i \in DOMAIN rows : rows[i] = r})
SameRows(x, y) == Len(x) = Len(y) /\ \A i \in DOMAIN x : Times(x, x[i]) = Times(y, x[i])

(* Of all states of a view, one: what follows depends on source and ops.   *)
OnceForAView == answer = Null /\ ~ stats /\ bloom = (source.format = "parquet")

(* The rows there are the rows here, of a view whose filters are whole or  *)
(* not: the cells they look at are there.                                  *)
SameView(view, there, here, whole) ==
  /\ here # Error /\ there.cols = here.cols
  /\ whole => IF HasType(view, {"GroupBy"}) THEN SameRows(there.rows, here.rows)
                                            ELSE there.rows = here.rows
  /\ ~ HasType(view, {"GroupBy", "Limit"}) =>
       \A r \in ToSet(here.rows) : Times(here.rows, r) <= Times(there.rows, r)

(* The rows shown are those of the window.                                 *)
OfWindow(shown, rows, w) ==
  /\ \/ Len(shown) = w.rows
     \/ w.row + Len(shown) = Len(rows)
     \/ shown = << >> /\ w.row > Len(rows)
  /\ \A i \in DOMAIN shown : shown[i] = rows[w.row + i]

FilterCellsAreThere(view) ==
  \A r \in ToSet(Concat(source.groups)), c \in FilterColumns(view) : c \in DOMAIN r => r[c] # Null

(* In the browser a view shows what the server shows of it: the same rows  *)
(* when the cells a filter looks at are there, and none less when some are *)
(* missing (SQL decides "or" where the server's masks are unknown); rows   *)
(* in the same order unless they are grouped.  A tile holds the rows of    *)
(* its window, and the count is theirs (sql-builder.ts).                   *)
BrowserShowsTheView ==
  OnceForAView /\ source.format # "multi" /\ AskedAlike(ops) =>
    /\ SameView(ops, BrowserView(source, ops), Meaning(ops), FilterCellsAreThere(ops))
    /\ BrowserCount(source, ops) = Len(BrowserView(source, ops).rows)
    /\ \A w \in Windows :
         OfWindow(BrowserTile(source, ops, w).rows, BrowserView(source, ops).rows, w)

RECURSIVE Negates(_)
Negates(p) ==
  \/ p.op \in {"Not", "Ne", "NotIn"}
  \/ p.op \in {"And", "Or"} /\ \E i \in DOMAIN p.exprs : Negates(p.exprs[i])

(* A literal is of the kind of its column.                                 *)
RECURSIVE KindsFit(_, _)
KindsFit(p, text) ==
  LET kind == IF p.column \in text THEN "text" ELSE "int"
  IN  CASE p.op \in {"And", "Or"} -> \A i \in DOMAIN p.exprs : KindsFit(p.exprs[i], text)
        [] p.op = "Not" -> KindsFit(p.expr, text)
        [] p.op \in {"Eq", "Ne"} -> p.value.kind = kind
        [] p.op \in {"Gt", "Gte", "Lt", "Lte"} -> p.value.kind = "int" /\ kind = "int"
        [] p.op = "Between" -> kind = "int"
        [] p.op \in {"In", "NotIn"} -> \A i \in DOMAIN p.values : p.values[i].kind = kind
        [] OTHER -> TRUE

(* What the index of the loaded rows finds are the rows of the filter when *)
(* the cells it looks at are there, and no row of a filter without a       *)
(* negation is missed (client-index.ts).  The tiles came in order, and no  *)
(* text is empty.                                                          *)
IndexFindsTheRows ==
  OnceForAView /\ ops = << >> =>
    \A text \in SUBSET ToSet(source.cols), p \in IndexPredicates :
      LET rows   == Concat(source.groups)
          ix     == IndexOf([g \in DOMAIN source.groups |->
                              [cols |-> source.cols, rows |-> source.groups[g]]], text)
          found  == EvalPred(ix, p)
          wanted == {i \in DOMAIN rows : Mask(p, rows[i]) = TRUE}
          whole  == \A i \in DOMAIN rows, c \in PredicateColumns(p) : rows[i][c] # Null
      IN  /\ ~ Negates(p) => wanted \subseteq found
          /\ whole /\ KindsFit(p, text) =>
               /\ found = wanted
               /\ \A c \in PredicateColumns(p) :
                    SliceRows(ix, found, 1, 2)[c]
                      = [i \in DOMAIN Slice(SetToSortSeq(wanted, <), 1, 2) |->
                           rows[Slice(SetToSortSeq(wanted, <), 1, 2)[i]][c]]

Among(vals, Test(_)) == Len(SelectSeq(vals, Test))

HistogramHolds(h, st, vals, p1, p99) ==
  /\ Sum([k \in DOMAIN h |-> h[k].count]) = Len(vals)
  /\ \A k \in DOMAIN h :
       /\ k > 1 => h[k - 1].hi <= h[k].lo
       /\ h[k].hi <= Bins * st.max
       /\ h[k].count <= Among(vals, LAMBDA v : h[k].lo <= Bins * v /\ Bins * v <= h[k].hi)
  /\ st.outliers <= Among(vals, LAMBDA v : 100 * v < p1 \/ 100 * v > p99)
  /\ 2 * Among(vals, LAMBDA v : 100 * v < st.median) <= Len(vals)
  /\ 2 * Among(vals, LAMBDA v : 100 * v > st.median) <= Len(vals)

ValuesHold(st, vals) ==
  /\ (CardinalityCategory(st.distinct_count, st.count) = "constant")
       = (st.histogram = Null /\ vals # << >>)
  /\ \/ st.distinct_count > 20
     \/ Sum([k \in DOMAIN st.top_values |-> st.top_values[k].count]) = Len(vals)

RowGroupsHold(rgs, st, vals) ==
  LET total(field(_)) == Sum([g \in DOMAIN rgs |-> field(rgs[g])])
  IN  rgs # << >> =>
        /\ total(LAMBDA g : g.row_count) = st.count
        /\ total(LAMBDA g : g.null_count) = st.null_count
        /\ \A i \in DOMAIN vals : \E g \in ToSet(rgs) :
             g.min # Null /\ g.min <= vals[i] /\ vals[i] <= g.max
        /\ \A g \in ToSet(rgs) : g.min # Null => st.min <= g.min /\ g.max <= st.max
        /\ \A k \in 2 .. Len(rgs) : rgs[k].row_offset = rgs[k - 1].row_offset + rgs[k - 1].row_count

AddUp(st, vals, rgs) ==
  /\ st.histogram # Null =>
       HistogramHolds(st.histogram, st, vals, Percentile(vals, 1), Percentile(vals, 99))
  /\ ValuesHold(st, vals)
  /\ RowGroupsHold(rgs, st, vals)

(* The statistics of a column add up: the bins of the histogram hold every *)
(* value once and within their bounds, outliers are outside the first and  *)
(* the last hundredth, the top values are as many as they occur, and the   *)
(* row groups have all rows, nulls and extremes (stats.ts).                *)
StatsAddUp ==
  OnceForAView /\ ops = << >> =>
    \A c \in ToSet(source.cols) :
      AddUp(ColumnStats(Cells(source, c)), NonNull(Cells(source, c)), RowGroupStats(source, c))
=============================================================================
