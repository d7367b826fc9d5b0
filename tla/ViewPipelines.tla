----------------------------- MODULE ViewPipelines -----------------------------
(***************************************************************************)
(* What a tile and a count of a view hold: the way of query_view_tile      *)
(* (tile_ops.rs) and query_view_count (query_ops.rs) from the ops a client *)
(* asks to the rows it is shown, through the optimiser, the class of       *)
(* pipeline, the reader with its row-group index, and the pipeline that    *)
(* builds a view out of spilled runs (spill_pipeline.rs).                  *)
(*                                                                         *)
(* A source is a local Parquet file (groups are its row groups), several   *)
(* of them (groups are the files) or a CSV file; a group is read as one    *)
(* batch.  Left out: who waits for whom while a view is built              *)
(* (ViewMaterializer), provisional sorts (SortViews), sources in the cloud,*)
(* the roaring and mark indexes, which prune row groups as bloom does, and *)
(* the false positives of a bloom filter, which prune less.                *)
(* Name_Slip is Name with a slip.                                          *)
(***************************************************************************)
EXTENDS ViewOptimizer, SortRuns

CONSTANTS
  Sources,  \* [format, cols, groups, pre_sorted_by: keys or Null]
  Ops,      \* the ops a client adds to its view
  MaxOps,   \* how many
  Windows   \* the tiles it asks: [row, rows, col, cols]

VARIABLES
  source, ops, \* the view
  stats,       \* the columns have been profiled (stats_cache)
  bloom,       \* the bloom index of the path is loaded (bloom_cache)
  rg_index,    \* the view's entry of filter_rg_index: Null, or the counts
               \* and whether the bloom index was there
  answer       \* the answer to the last request, until something changes: to
               \* ask again would be answered alike

vars == <<source, ops, stats, bloom, rg_index, answer>>

Whole(s) == [cols |-> s.cols, rows |-> Concat(s.groups)]

(* project_tile_columns, of a window of the rows.                          *)
Shown(t, w) ==
  IF t = Error THEN Error
  ELSE Project([t EXCEPT !.rows = Slice(@, w.row, w.rows)], Slice(t.cols, w.col, w.cols))

Materializing == {"Sort", "GroupBy", "Deduplicate", "Sample", "Limit", "TopK"}
Stateless     == {"Filter", "Select", "Drop", "Derive", "Rename"}

(* extract_combined_filter.                                                *)
CombinedFilter(view) ==
  LET filters == OfType(view, {"Filter"})
      preds == [i \in DOMAIN filters |-> filters[i].predicate]
  IN  CASE Len(preds) = 0 -> Null
        [] Len(preds) = 1 -> preds[1]
        [] OTHER -> [op |-> "And", exprs |-> preds]

(* execute_pipeline_skip_filter: of no batches it makes nothing.           *)
SkipFilter(t, view) ==
  IF t.rows = << >> THEN t
  ELSE Execute(t, SelectSeq(view, LAMBDA op : op.type # "Filter"))

-----------------------------------------------------------------------------
(* A filter alone, on one Parquet file: row groups that cannot hold a row  *)
(* of the filter are not read.                                             *)

RECURSIVE CanPrune(_, _, _)
CanPrune(p, rows, withBloom) ==
  LET cells == {rows[i][p.column] : i \in DOMAIN rows}
      vals  == cells \ {Null}
      ints(lits) == vals # {} /\ \A l \in lits : l.kind = "int"
  IN  CASE p.op = "Gt"  -> ints({p.value}) /\ \A v \in vals : v <= p.value.v
        [] p.op = "Gte" -> ints({p.value}) /\ \A v \in vals : v < p.value.v
        [] p.op = "Lt"  -> ints({p.value}) /\ \A v \in vals : v >= p.value.v
        [] p.op = "Lte" -> ints({p.value}) /\ \A v \in vals : v > p.value.v
        [] p.op = "Eq"  -> /\ ints({p.value})
                           /\ \/ \A v \in vals : v < p.value.v
                              \/ \A v \in vals : v > p.value.v
                              \/ withBloom /\ p.value.v \notin vals
        [] p.op = "Between" -> /\ ints({p.lo, p.hi})
                               /\ \/ \A v \in vals : v < p.lo.v
                                  \/ \A v \in vals : v > p.hi.v
        [] p.op = "In" -> withBloom /\ \A i \in DOMAIN p.values : p.values[i].v \notin vals
        [] p.op = "IsNull" -> Null \notin cells
        [] p.op = "IsNotNull" -> vals = {}
        [] p.op = "And" -> \E i \in DOMAIN p.exprs : CanPrune(p.exprs[i], rows, withBloom)
        [] p.op = "Or" -> \A i \in DOMAIN p.exprs : CanPrune(p.exprs[i], rows, withBloom)
        [] OTHER -> FALSE

Qualifying(s, p, withBloom) ==
  SelectSeq([g \in DOMAIN s.groups |-> g],
            LAMBDA g : ~ CanPrune(p, s.groups[g], withBloom))

Matching(s, p, gs) ==
  Concat([i \in DOMAIN gs |-> SelectSeq(s.groups[gs[i]], LAMBDA r : Mask(p, r) = TRUE)])

(* build_filter_rg_index: how many rows match up to each such row group.   *)
FilterRgIndex(s, p, withBloom) ==
  LET gs == Qualifying(s, p, withBloom)
  IN  [i \in DOMAIN gs |-> Len(Matching(s, p, SubSeq(gs, 1, i)))]

(* read_parquet_filtered_tile: its rows.                                   *)
FilteredRows(s, p, w) == Slice(Matching(s, p, Qualifying(s, p, bloom)), w.row, w.rows)

FilteredRowsIndexed_Unshifted(s, p, w, counts) ==
  LET gs     == Qualifying(s, p, bloom)
      before == Len(SelectSeq(counts, LAMBDA c : c <= w.row))
  IN  IF gs = << >> \/ counts = << >> \/ before >= Len(gs) THEN << >>
      ELSE Slice(Matching(s, p, SubSeq(gs, before + 1, Len(gs))), w.row, w.rows)

(* read_parquet_filtered_tile_indexed: row groups before the window are    *)
(* passed over by their counts.                                            *)
FilteredRowsIndexed(s, p, w, counts) ==
  LET gs     == Qualifying(s, p, bloom)
      before == Len(SelectSeq(counts, LAMBDA c : c <= w.row))
      prior  == IF before = 0 THEN 0 ELSE counts[before]
  IN  IF gs = << >> \/ counts = << >> \/ before >= Len(gs) THEN << >>
      ELSE Slice(Matching(s, p, SubSeq(gs, before + 1, Len(gs))), w.row - prior, w.rows)

(* The columns read: those the ops need and those shown, or Null when that *)
(* is all of them.                                                         *)
ColSelection(s, view, w) ==
  LET needed == NeededColumns(view, s.cols)
      both   == needed \cup ToSet(Slice(s.cols, w.col, w.cols))
  IN  IF needed = Null THEN Null ELSE IF both = ToSet(s.cols) THEN Null ELSE both

(* With a selection the tile is cut to the columns the source has in the   *)
(* window; without, the filter's columns are all that is read.             *)
Cut(s, t, sel, w) ==
  IF t = Error THEN Error
  ELSE IF sel = Null THEN Project(t, Slice(t.cols, w.col, w.cols))
  ELSE Project(t, SelectSeq(Slice(s.cols, w.col, w.cols), LAMBDA c : Has(t, c)))

ReadAndCut(s, view, p, sel, rows, w) ==
  LET read == IF sel = Null THEN PredicateColumns(p) ELSE sel
      cols == SelectSeq(s.cols, LAMBDA c : c \in read)
  IN  Cut(s, SkipFilter(Project([cols |-> s.cols, rows |-> rows], cols), view), sel, w)

FilterNamesColumns(s, p) == PredicateColumns(p) \subseteq ToSet(s.cols)

FilteredTile(s, view, p, w) ==
  IF ~ FilterNamesColumns(s, p) THEN Error
  ELSE ReadAndCut(s, view, p, ColSelection(s, view, w),
                  IF rg_index = Null THEN FilteredRows(s, p, w)
                                     ELSE FilteredRowsIndexed(s, p, w, rg_index.counts), w)

(* read_filtered_tile_multifile.                                           *)
MultiFileTile(s, view, p, w) ==
  IF ~ FilterNamesColumns(s, p) THEN Error
  ELSE Cut(s, SkipFilter([cols |-> s.cols,
                          rows |-> Slice(Matching(s, p, Qualifying(s, p, FALSE)), w.row, w.rows)],
                         view), Null, w)

-----------------------------------------------------------------------------
(* SpillPipeline::build.                                                   *)

IsParquet(s) == s.format \in {"parquet", "multi"}

(* stream_source: only the Parquet readers filter.                         *)
Stream(s, p) ==
  IF p = Null \/ ~ IsParquet(s) THEN s.groups
  ELSE [g \in DOMAIN s.groups |-> Matching(s, p, <<g>>)]

(* StatelessFilterStream: the stateless ops, the filters among them, on    *)
(* each batch.                                                             *)
ProcessedOf(s, raw, perBatch) ==
  SelectSeq([g \in DOMAIN raw |-> Execute([cols |-> s.cols, rows |-> raw[g]], perBatch).rows],
            LAMBDA b : b # << >>)

Processed(s, view) == ProcessedOf(s, Stream(s, CombinedFilter(view)), OfType(view, Stateless))

View(t, rows) == IF rows = Error THEN Error ELSE [t EXCEPT !.rows = rows]

Grouped(grouped, view) ==
  IF grouped = Error \/ ~ HasType(view, {"Sort"}) THEN grouped
  ELSE View(grouped, SortedRun(grouped, <<grouped.rows>>, FirstOf(view, "Sort").keys))

OrderOf(columns, all) == Ascending(IF columns = Null THEN all ELSE columns)

(* The first branch that fits: the other ops that need all rows are left.  *)
BuiltOf(s, view, empty, batches) ==
  LET op(type) == FirstOf(view, type)
  IN  IF HasType(view, {"TopK"}) THEN
        View(empty, IF s.format = "parquet" /\ ~ HasType(view, Stateless)
                      THEN StreamTopK(empty, s.groups, op("TopK").keys, op("TopK").n)
                      ELSE TopKOfStream(empty, batches, op("TopK").keys, op("TopK").n))
      ELSE IF HasType(view, {"Sample"}) THEN
        ApplySample(View(empty, Concat(batches)), op("Sample").n)
      ELSE IF HasType(view, {"Limit"}) THEN
        View(empty, Slice(Concat(batches), 0, op("Limit").n))
      ELSE IF HasType(view, {"GroupBy"}) THEN
        Grouped(AggregateStream(empty, batches, op("GroupBy").keys, op("GroupBy").aggs), view)
      ELSE View(empty,
                SortedRun(empty, batches,
                          IF HasType(view, {"Deduplicate"})
                            THEN OrderOf(op("Deduplicate").columns, empty.cols)
                            ELSE op("Sort").keys))

(* compute_processed_schema runs the stateless ops on no rows first.       *)
BuiltFrom(s, view, empty) ==
  IF empty = Error THEN Error ELSE BuiltOf(s, view, empty, Processed(s, view))

Built(s, view) ==
  BuiltFrom(s, view, Execute([cols |-> s.cols, rows |-> << >>], OfType(view, Stateless)))

(* serve_materialized_tile: the duplicates of a run go as it is served.    *)
Served(view, t) ==
  IF t # Error /\ HasType(view, {"Deduplicate"})
     /\ ~ HasType(view, {"TopK", "Sample", "Limit", "GroupBy"})
    THEN [t EXCEPT !.rows = DedupSorted(@, DedupColumns(t, FirstOf(view, "Deduplicate").columns))]
    ELSE t

(* is_sort_satisfied_by_presort.                                           *)
Presorted(s, view) ==
  /\ s.pre_sorted_by # Null
  /\ HasType(view, {"Sort"})
  /\ \A i \in DOMAIN view : view[i].type = "Sort"
  /\ IsPrefix(FirstOf(view, "Sort").keys, s.pre_sorted_by)

(* query_view_tile, of the combined filter p.                              *)
TileOf(s, view, p, w) ==
  IF view = << >> \/ Presorted(s, view) THEN Shown(Whole(s), w)
  ELSE IF HasType(view, Materializing) THEN Shown(Served(view, Built(s, view)), w)
  ELSE IF s.format = "parquet" /\ p # Null THEN FilteredTile(s, view, p, w)
  ELSE IF s.format = "multi" /\ p # Null THEN MultiFileTile(s, view, p, w)
  ELSE Shown(SkipFilter(Whole(s), view), w)

Tile(s, view, w) == TileOf(s, view, CombinedFilter(view), w)

Only(view, types) == \A i \in DOMAIN view : view[i].type \in types

(* quick_stats are the null counts in the footer of the first file.        *)
QuickCount(s, p) ==
  LET first == IF s.format = "multi" THEN s.groups[1] ELSE Concat(s.groups)
      nulls == Len(SelectSeq(first, LAMBDA r : r[p.column] = Null))
  IN  IF p.op = "IsNull" THEN nulls ELSE Len(Concat(s.groups)) - nulls

HasQuickCount_AnyOp(s, view) ==
  LET p == CombinedFilter(view)
  IN  /\ IsParquet(s)
      /\ p # Null
      /\ p.op \in {"IsNull", "IsNotNull"}
      /\ p.column \in ToSet(s.cols)

HasQuickCount(s, view) ==
  LET p == CombinedFilter(view)
  IN  /\ IsParquet(s)
      /\ Only(view, {"Filter", "Sort", "Select", "Drop", "Rename"})
      /\ p # Null
      /\ p.op \in {"IsNull", "IsNotNull"}
      /\ p.column \in ToSet(s.cols)

CountOf(t) == IF t = Error THEN Error ELSE Len(t.rows)

(* query_view_count, of the combined filter p and n rows.                  *)
CountOfView(s, view, p, n) ==
  IF ~ HasType(view, {"Filter", "Deduplicate", "Sample", "GroupBy", "Limit", "TopK"}) THEN n
  ELSE IF /\ HasType(view, {"TopK"})
          /\ Only(view, {"TopK", "Sort", "Select", "Drop", "Derive", "Rename"})
    THEN IF FirstOf(view, "TopK").n < n THEN FirstOf(view, "TopK").n ELSE n
  ELSE IF HasQuickCount(s, view) THEN QuickCount(s, p)
  ELSE IF HasType(view, Materializing) THEN CountOf(Built(s, view))
  ELSE IF ~ IsParquet(s) THEN CountOf(SkipFilter(Whole(s), view))
  ELSE IF ~ PredicateColumns(p) \subseteq ToSet(s.cols) THEN Error
  ELSE Len(Matching(s, p, Qualifying(s, p, s.format = "parquet" /\ bloom)))

Count(s, view) == CountOfView(s, view, CombinedFilter(view), Len(Concat(s.groups)))

-----------------------------------------------------------------------------
Run == Normalize(Optimize(ops, stats))

Init ==
  /\ source \in Sources
  /\ ops = << >>
  /\ stats = FALSE
  /\ bloom = (source.format = "parquet")
  /\ rg_index = Null
  /\ answer = Null

AddOp(op) ==
  /\ answer = Null
  /\ Len(ops) < MaxOps
  /\ op \notin ToSet(ops)
  /\ ops' = Append(ops, op)
  /\ rg_index' = Null
  /\ UNCHANGED <<source, stats, bloom, answer>>

AskTile(w) ==
  /\ answer = Null
  /\ answer' = [of |-> "tile", window |-> w, value |-> Tile(source, Run, w)]
  /\ UNCHANGED <<source, ops, stats, bloom, rg_index>>

AskCount ==
  /\ answer = Null
  /\ answer' = [of |-> "count", value |-> Count(source, Run)]
  /\ UNCHANGED <<source, ops, stats, bloom, rg_index>>

(* A tile that was filtered without an index has started a task that       *)
(* builds one.                                                             *)
BuildIndex ==
  LET p == CombinedFilter(Run)
  IN  /\ answer # Null /\ answer.of = "tile"
      /\ source.format = "parquet"
      /\ p # Null
      /\ ~ HasType(Run, Materializing)
      /\ PredicateColumns(p) \subseteq ToSet(source.cols)
      /\ rg_index = Null
      /\ rg_index' = [counts |-> FilterRgIndex(source, p, bloom), bloom |-> bloom]
      /\ answer' = Null
      /\ UNCHANGED <<source, ops, stats, bloom>>

(* A request for statistics fills stats_cache.  The view may run in        *)
(* another order from then on, and an entry of the index is the view's     *)
(* that asked for it.                                                      *)
ProfileColumns ==
  /\ ~ stats
  /\ stats' = TRUE
  /\ rg_index' = IF Normalize(Optimize(ops, TRUE)) = Run THEN rg_index ELSE Null
  /\ answer' = Null
  /\ UNCHANGED <<source, ops, bloom>>

(* Another source of the same file is removed, and the indexes of the path *)
(* with it.                                                                *)
RemoveTwin ==
  /\ bloom
  /\ bloom' = FALSE
  /\ answer' = Null
  /\ UNCHANGED <<source, ops, stats, rg_index>>

Next ==
  \/ \E op \in Ops : AddOp(op)
  \/ \E w \in Windows : AskTile(w)
  \/ AskCount
  \/ BuildIndex
  \/ ProfileColumns
  \/ RemoveTwin

Spec == Init /\ [][Next]_vars

-----------------------------------------------------------------------------
(* The rows a view stands for: its ops, in the order of normalize_ops, on  *)
(* the whole table.  Deduplicated rows are shown in the order of the       *)
(* columns that tell them apart.                                           *)
Meaning(view) == Execute(Whole(source), Normalize(view))

MeaningShown(view) ==
  LET t == Meaning(view)
      columns == FirstOf(view, "Deduplicate").columns
  IN  IF HasType(view, {"Deduplicate"})
        THEN [t EXCEPT !.rows = SortRows(Ascending(IF columns = Null THEN t.cols ELSE columns), @)]
        ELSE t

(* The views whose tiles and counts hold what the view means, one conjunct *)
(* for each way in which they would not.                                   *)

(* Keys name columns that are there when the batches reach the build, and  *)
(* a rename has not taken them away from a group-by or a deduplicate.      *)
KeysArrive(view) ==
  LET t == Execute([cols |-> source.cols, rows |-> << >>], OfType(Normalize(view), Stateless))
      arrived == ToSet(t.cols)
      aliases == {a.alias : a \in UNION {ToSet(op.aggs) : op \in ToSet(OfType(view, {"GroupBy"}))}}
  IN  /\ t # Error
      /\ \A i \in DOMAIN view :
           /\ view[i].type = "Sort" => KeyColumns(view[i].keys) \subseteq arrived \cup aliases
           /\ view[i].type = "GroupBy" =>
                /\ ToSet(view[i].keys) \subseteq arrived
                /\ ~ HasType(view, {"Rename"})
           /\ view[i].type = "Deduplicate" /\ view[i].columns # Null =>
                /\ ToSet(view[i].columns) \subseteq arrived
                /\ ~ HasType(view, {"Rename"})

(* One op that needs all the rows, or a group-by that is sorted, or a sort *)
(* that is cut to a few rows out of a stream.                              *)
OneBuild(view) ==
  LET built == OfType(view, Materializing)
      types == {built[i].type : i \in DOMAIN built}
  IN  \/ Len(built) <= 1
      \/ Len(built) = 2 /\ types = {"GroupBy", "Sort"}
      \/ /\ Len(built) = 2
         /\ types = {"Sort", "Limit"}
         /\ FirstOf(view, "Limit").n <= TopKThreshold
         /\ source.format # "parquet" \/ HasType(view, Stateless)

(* A filter without such an op is run for Parquet only.                    *)
FilterIsRun(view) ==
  HasType(view, {"Filter"}) => HasType(view, Materializing) \/ IsParquet(source)

(* On one file it stands alone, and its columns and those of the window    *)
(* are not all columns.                                                    *)
FilterIsShown(view, w) ==
  HasType(view, {"Filter"}) /\ ~ HasType(view, Materializing) /\ source.format = "parquet"
    => Only(view, {"Filter"}) /\ ColSelection(source, view, w) # Null

(* The row groups of a file that says it is sorted are sorted as one.      *)
FileIsSorted(view) ==
  Presorted(source, view)
    => Concat(source.groups) = SortRows(FirstOf(view, "Sort").keys, Concat(source.groups))

(* No conjunct says that a column is true, no disjunct that it is false.   *)
NothingFolded(view) == \A i \in DOMAIN view : FoldFilter(view[i]) = view[i]

Supported(view) ==
  /\ Meaning(view) # Error
  /\ KeysArrive(view)
  /\ OneBuild(view)
  /\ FilterIsRun(view)
  /\ FileIsSorted(view)
  /\ NothingFolded(view)

SameTile(x, y) ==
  /\ x # Error /\ y # Error
  /\ x.rows = y.rows
  /\ x.rows # << >> => x.cols = y.cols

(* The entry of the index counts row groups that were chosen with the      *)
(* bloom index that is there now.                                          *)
IndexIsOfTheBloom == rg_index = Null \/ rg_index.bloom = bloom

(* A tile of a view holds the rows and columns that the view's ops, run in *)
(* the executor's order on the whole table, have in the tile's window: by  *)
(* whatever pipeline, with the row-group index and without, out of one     *)
(* sorted run or of many (query_view_tile, tile_ops.rs).  Rows with equal  *)
(* keys may come in another order than the one the model gives them.       *)
TilesShowTheView ==
  answer # Null /\ answer.of = "tile" /\ Supported(ops)
  /\ FilterIsShown(ops, answer.window) /\ IndexIsOfTheBloom
    => SameTile(answer.value, Shown(MeaningShown(ops), answer.window))

(* The quick counts of a filter are those of the first file.               *)
NullsAreOfAllFiles(view) ==
  source.format = "multi" => ~ HasQuickCount(source, Normalize(view))

(* The count of a view is the number of rows its tiles have                *)
(* (query_view_count, query_ops.rs).  Deduplicated views are left out:     *)
(* their count is taken before the duplicates go.                          *)
CountsAgreeWithTiles ==
  answer # Null /\ answer.of = "count" /\ Supported(ops)
  /\ NullsAreOfAllFiles(ops)
  /\ ~ HasType(ops, {"Deduplicate"})
    => answer.value = Len(Meaning(ops).rows)

(* A fused sort and limit, taken apart.                                    *)
Unfused(view) ==
  LET top == FirstOf(view, "TopK")
  IN  IF ~ HasType(view, {"TopK"}) THEN view
      ELSE SelectSeq(view, LAMBDA op : op.type # "TopK")
           \o << [type |-> "Sort", keys |-> top.keys], [type |-> "Limit", n |-> top.n] >>

(* The five passes of the optimiser do not change what a view means        *)
(* (optimizer.rs), but for folded conditions and for the limit of two sorts*)
(* (it is fused with the first).  Deduplicates of all columns are not among*)
(* the ops of the runs: a group-by after one cuts the rows first.          *)
OptimizerKeepsMeaning ==
  answer = Null /\ NothingFolded(ops)
  /\ ~ (HasType(ops, {"Limit"}) /\ Len(OfType(ops, {"Sort"})) > 1)
    => Meaning(Unfused(Optimize(ops, stats))) = Meaning(ops)
=============================================================================
