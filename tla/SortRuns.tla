------------------------------- MODULE SortRuns -------------------------------
(***************************************************************************)
(* How a view that needs all its rows is computed from a stream of batches *)
(* (external_sort.rs, streaming_agg.rs, top_k.rs of tv-engine).  A batch is*)
(* a sequence of rows; a run is a sorted sequence of rows on disk; Chunk   *)
(* rows of a stream fill the memory of a sorter (SORT_CHUNK_BYTES,         *)
(* TOP_K_CHUNK_BYTES), and Fanout runs are merged at a time.               *)
(* Name_Slip is Name with a slip.                                          *)
(***************************************************************************)
EXTENDS Tables

CONSTANTS Chunk, Fanout

Concat(seqs) == FoldLeft(LAMBDA a, b : a \o b, << >>, seqs)

(* Batches are collected until they fill a chunk.                          *)
AddBatch(acc, b) ==
  IF Len(acc.chunk) + Len(b) >= Chunk
    THEN [chunks |-> Append(acc.chunks, acc.chunk \o b), chunk |-> << >>]
    ELSE [acc EXCEPT !.chunk = @ \o b]

Chunks_Dropping(batches) ==
  FoldLeft(AddBatch, [chunks |-> << >>, chunk |-> << >>], batches).chunks

Chunks(batches) ==
  LET acc == FoldLeft(AddBatch, [chunks |-> << >>, chunk |-> << >>], batches)
  IN  IF acc.chunk = << >> THEN acc.chunks ELSE Append(acc.chunks, acc.chunk)

(* sort_to_initial_runs.                                                   *)
InitialRuns(batches, keys) ==
  LET chunks == Chunks(batches) IN [i \in DOMAIN chunks |-> SortRows(keys, chunks[i])]

(* do_merge: a heap of the heads of the runs.  Of equal heads the heap may *)
(* take any; it takes the first run's here.                                *)
RECURSIVE Merge(_, _)
Merge(keys, runs) ==
  LET live == {i \in DOMAIN runs : runs[i] # << >>}
      next == CHOOSE i \in live : \A j \in live \ {i} :
                \/ Before(keys, Head(runs[i]), Head(runs[j]))
                \/ i < j /\ ~ Before(keys, Head(runs[j]), Head(runs[i]))
  IN  IF live = {} THEN << >>
      ELSE <<Head(runs[next])>> \o Merge(keys, [runs EXCEPT ![next] = Tail(@)])

(* cascade_merge_if_needed: while there are more runs than can be merged   *)
(* at a time, groups of Fanout become one run each.                        *)
RECURSIVE Cascade(_, _)
Cascade(keys, runs) ==
  LET end(g) == IF g * Fanout < Len(runs) THEN g * Fanout ELSE Len(runs)
      groups == (Len(runs) + Fanout - 1) \div Fanout
  IN  IF Len(runs) <= Fanout THEN runs
      ELSE Cascade(keys, [g \in 1 .. groups |->
                            Merge(keys, SubSeq(runs, (g - 1) * Fanout + 1, end(g)))])

(* sort_to_runs and merge_to_single_run: the run a sorted view is served   *)
(* from.  Sorting by a column that is not there is an error only if there  *)
(* is something to merge.                                                  *)
SortedRun(t, batches, keys) ==
  LET runs == InitialRuns(batches, KeysIn(t, keys))
  IN  IF Len(runs) > 1 /\ KeysIn(t, keys) # keys THEN Error
      ELSE Merge(keys, Cascade(keys, runs))

(* dedup_sorted_batches: a row equal to the row before it goes.            *)
DedupSorted(rows, columns) ==
  RowsAt(rows, {i \in DOMAIN rows :
                  i = 1 \/ Column(rows[i], columns) # Column(rows[i - 1], columns)})

-----------------------------------------------------------------------------
(* StreamingAggregator.                                                    *)

(* One accumulator per group: Null is not counted as a distinct value, and *)
(* a column that is not there adds nothing.                                *)
Accumulated(agg, rows) ==
  LET cells == [i \in DOMAIN rows |->
                  IF agg.column \in DOMAIN rows[i] THEN rows[i][agg.column] ELSE Null]
      vals  == SelectSeq(cells, LAMBDA v : v # Null)
  IN  CASE agg.fn = "Count" -> Len(rows)
        [] agg.fn = "CountDistinct" -> Cardinality(ToSet(vals))
        [] agg.fn = "Sum" -> IF vals = << >> THEN Null ELSE Sum(vals)
        [] agg.fn = "Min" ->
             IF vals = << >> THEN Null
             ELSE CHOOSE v \in ToSet(vals) : \A w \in ToSet(vals) : v <= w

(* execute and finalize_groups: a hash map of groups, sorted by its keys.  *)
AggregateStream(t, batches, keys, aggs) ==
  LET rows == Concat(batches)
      found == {Column(rows[i], ToSet(keys)) : i \in DOMAIN rows}
      of(k) == SelectSeq(rows, LAMBDA r : Column(r, ToSet(keys)) = k)
      columns == keys \o [a \in DOMAIN aggs |-> aggs[a].alias]
      agg(c) == aggs[CHOOSE a \in DOMAIN aggs : aggs[a].alias = c]
      groups == {[c \in ToSet(columns) |->
                    IF c \in ToSet(keys) THEN k[c] ELSE Accumulated(agg(c), of(k))]
                 : k \in found}
  IN  IF KeysIn(t, Ascending(keys)) # Ascending(keys) THEN Error
      ELSE [cols |-> columns, rows |-> SortRows(Ascending(keys), SetToSeq(groups))]

-----------------------------------------------------------------------------
(* Top-k of a stream: each chunk is sorted and cut to k, joined to the     *)
(* survivors, and they are sorted and cut again.                           *)

Survivors_Uncut(keys, k, survivors, chunk) ==
  Slice(survivors \o Slice(SortRows(keys, chunk), 0, k), 0, k)

Survivors(keys, k, survivors, chunk) ==
  Slice(SortRows(keys, survivors \o Slice(SortRows(keys, chunk), 0, k)), 0, k)

TopKOfStream(t, batches, keys, k) ==
  IF keys = << >> \/ k = 0 THEN << >>
  ELSE FoldLeft(LAMBDA s, chunk : Survivors(KeysIn(t, keys), k, s, chunk),
                << >>, Chunks(batches))

(* stream_top_k, of one local Parquet file.  An item is a row with its     *)
(* number, a row group is visited as a whole.  compare of SortableKey puts *)
(* Null first, and descending turns it round.                              *)
KeyCompare(key, v, w) ==
  LET base == CASE v = w -> 0 [] v # w /\ v = Null -> -1 [] v # w /\ w = Null -> 1
                [] OTHER -> IF v < w THEN -1 ELSE 1
  IN  IF key.descending THEN - base ELSE base

(* Ord of HeapItem: what pop removes is the greatest item, and the order   *)
(* of the keys is reversed.                                                *)
Greater(key, x, y) ==
  LET c == KeyCompare(key, x.v, y.v)
  IN  \/ c = -1
      \/ c = 0 /\ x.row < y.row

Greatest(key, items) == CHOOSE x \in items : \A y \in items \ {x} : Greater(key, x, y)

PushItem(key, k, heap, x) ==
  LET more == heap \cup {x}
  IN  IF Cardinality(more) > k THEN more \ {Greatest(key, more)} ELSE more

MinCell(rows, c) ==
  LET vals == {rows[i][c] : i \in DOMAIN rows} \ {Null}
  IN  IF vals = {} THEN Null ELSE CHOOSE v \in vals : \A w \in vals : v <= w

MaxCell(rows, c) ==
  LET vals == {rows[i][c] : i \in DOMAIN rows} \ {Null}
  IN  IF vals = {} THEN Null ELSE CHOOSE v \in vals : \A w \in vals : v >= w

(* Row groups are visited in the order of their least keys, and the visit  *)
(* ends when the next is before the heap's top (or equal to it).  Without  *)
(* statistics keys compare as equal.                                       *)
RECURSIVE VisitGroups(_, _, _, _, _)
VisitGroups(groups, keys, k, todo, heap) ==
  LET key == keys[1]
      least(g) == MinCell(groups[g], key.column)
      order(v, w) == IF Null \in {v, w} THEN 0 ELSE KeyCompare(key, v, w)
      next == CHOOSE g \in todo : \A h \in todo \ {g} :
                order(least(h), least(g)) # -1
      best == IF key.descending THEN MaxCell(groups[next], key.column) ELSE least(next)
      top  == Greatest(key, heap)
      full == Cardinality(heap) >= k
      second == Len(keys) > 1 /\ keys[2].column \in DOMAIN groups[next][1]
      c    == IF best # Null THEN KeyCompare(key, best, top.v)
              ELSE IF top.v # Null THEN 0 ELSE IF key.descending THEN -1 ELSE 1
      first == Len(Concat(SubSeq(groups, 1, next - 1)))
      items == [i \in DOMAIN groups[next] |->
                  [v |-> groups[next][i][key.column], row |-> first + i]]
  IN  IF todo = {} THEN heap
      ELSE IF full /\ (c = -1 \/ (c = 0 /\ ~ second)) THEN heap
      ELSE VisitGroups(groups, keys, k, todo \ {next},
                       FoldLeft(LAMBDA h, x : PushItem(key, k, h, x), heap, items))

(* No item is looked at when k is 0: peek of an empty heap panics.         *)
StreamTopK(t, groups, keys, k) ==
  IF keys = << >> THEN << >>
  ELSE IF ~ Has(t, keys[1].column) \/ k = 0 THEN Error
  ELSE LET heap == VisitGroups(groups, keys, k, DOMAIN groups, {})
           kept == RowsAt(Concat(groups), {x.row : x \in heap})
       IN  Slice(SortRows(KeysIn(t, keys), kept), 0, k)
=============================================================================
