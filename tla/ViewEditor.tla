------------------------------ MODULE ViewEditor ------------------------------
(***************************************************************************)
(* The ops of the view as the user edits them: the view store, the rules   *)
(* by which a predicate joins the filters that are there, and the places   *)
(* that call them - the search box, the filter builder, the menus of cells *)
(* and columns, the column headers, the histogram of a column, the chips   *)
(* of the pipeline and the command palette.                                *)
(*                                                                         *)
(* A predicate is on one column (a leaf), or a conjunction of leaves and   *)
(* disjunctions, or a disjunction of leaves: what these places can build.  *)
(* A name with _Slip is that definition with a slip in it.                 *)
(***************************************************************************)
EXTENDS Integers, SequencesExt

CONSTANTS
    Columns,        \* the columns of the source, in their order
    TextColumns,    \* those that can be searched, in their order
    NumericColumns,
    Null, Blank,    \* Blank: an empty field
    Values,         \* [columns -> the values of their cells, Null apart]
    Matches,        \* [texts to search for -> the values that contain them]
    Rows,           \* the rows of the source: functions of the columns
    Buckets,        \* the histogram of a column of integers: records [lo, hi]
    BuilderRows,    \* what a row of the filter builder may hold
    MaxOps, MaxBuilderRows

NoMenu == [kind |-> "none"]
NotDragging == [start |-> 0, end |-> 0]

VARIABLES
    ops,
    menu,           \* contextMenu of the UI store
    builder,        \* the filter builder: [open, rows, combinator]
    popover,        \* the column whose histogram is shown, or Null
    drag            \* dragStart and dragEnd of the histogram, 0 for null

vars == <<ops, menu, builder, popover, drag>>
widgets == <<menu, builder, popover, drag>>

-----------------------------------------------------------------------------
(* Predicates. *)

Leaf(op, c, v) == [op |-> op, column |-> c, value |-> v]
NotIn(c, vs) == [op |-> "not_in", column |-> c, values |-> vs]
Many(op, exprs) == [op |-> op, exprs |-> exprs]
Filter(p) == [type |-> "filter", predicate |-> p]
IsFilter(op) == op.type = "filter"
Compound(p) == p.op \in {"and", "or"}

isSingleColumn(p, c) == ~ Compound(p) /\ p.column = c

\* The place of the first filter, or 0.
FilterIdx(os) == SelectInSeq(os, IsFilter)

mergePredicate_Slip(existing, incoming) ==
    IF existing.op = "and" THEN Many("and", Append(existing.exprs, incoming)) ELSE incoming
mergePredicate(existing, incoming) ==
    LET others == SelectSeq(existing.exprs, LAMBDA e : ~ isSingleColumn(e, incoming.column))
    IN IF existing.op = "and" THEN Many("and", Append(others, incoming))
       ELSE IF isSingleColumn(existing, incoming.column) THEN incoming
       ELSE Many("and", <<existing, incoming>>)

addPredicate(os, p) ==
    LET i == FilterIdx(os)
    IN IF i = 0 THEN <<Filter(p)>> \o os
       ELSE [os EXCEPT ![i] = Filter(mergePredicate(@.predicate, p))]

\* Null when nothing is left; one left stands alone.
Rest(op, remaining) ==
    CASE remaining = <<>> -> Null
      [] Len(remaining) = 1 -> remaining[1]
      [] OTHER -> Many(op, remaining)
PruneLeaf(p, c) == IF isSingleColumn(p, c) THEN Null ELSE p
NotNull(exprs) == SelectSeq(exprs, LAMBDA e : e # Null)
PruneFlat(p, c) ==
    IF Compound(p) THEN Rest(p.op, NotNull([i \in DOMAIN p.exprs |-> PruneLeaf(p.exprs[i], c)]))
                   ELSE PruneLeaf(p, c)
pruneColumn(p, c) ==
    IF p.op = "and" THEN Rest("and", NotNull([i \in DOMAIN p.exprs |-> PruneFlat(p.exprs[i], c)]))
                    ELSE PruneFlat(p, c)

removePredicate(os, c) ==
    LET pruned(op) == IF IsFilter(op) THEN pruneColumn(op.predicate, c) ELSE op
        left == SelectSeq(os, LAMBDA op : pruned(op) # Null)
    IN [i \in DOMAIN left |-> IF IsFilter(left[i]) THEN Filter(pruned(left[i])) ELSE left[i]]

\* The conjuncts of the first filter.
activePredicates(os) ==
    LET p == os[FilterIdx(os)].predicate
    IN IF FilterIdx(os) = 0 THEN <<>> ELSE IF p.op = "and" THEN p.exprs ELSE <<p>>

appendNotIn_Slip(os, c, v) == addPredicate(removePredicate(os, c), NotIn(c, {v}))
appendNotIn(os, c, v) ==
    LET isNotIn(p) == p.op = "not_in" /\ p.column = c
        i == SelectInSeq(activePredicates(os), isNotIn)
        values == IF i = 0 THEN {} ELSE activePredicates(os)[i].values
    IN addPredicate(removePredicate(os, c), NotIn(c, values \cup {v}))

-----------------------------------------------------------------------------
(* What a view shows: the rows that every filter keeps, if every filter is  *)
(* on columns that are there where it stands.                               *)

\* What a derived column or a count holds is not told apart: it is 1.
ValueOf(c, r) == IF c \in Range(Columns) THEN r[c] ELSE 1

Holds(p, r) ==
    LET v == ValueOf(p.column, r)
    IN CASE p.op = "is_null" -> v = Null
         [] p.op = "is_not_null" -> v # Null
         [] p.op # "is_null" /\ v = Null -> FALSE
         [] p.op = "eq" -> v = p.value
         [] p.op = "ne" -> v # p.value
         [] p.op = "gt" -> v > p.value
         [] p.op = "lt" -> v < p.value
         [] p.op = "between" -> p.lo <= v /\ v <= p.hi
         [] p.op = "not_in" -> v \notin p.values
         [] p.op = "contains" -> v \in Matches[p.value]
HoldsFlat(p, r) ==
    CASE p.op = "or" -> \E i \in DOMAIN p.exprs : Holds(p.exprs[i], r)
      [] p.op = "and" -> \A i \in DOMAIN p.exprs : Holds(p.exprs[i], r)
      [] OTHER -> Holds(p, r)
HoldsAll(p, r) ==
    IF p.op = "and" THEN \A i \in DOMAIN p.exprs : HoldsFlat(p.exprs[i], r) ELSE HoldsFlat(p, r)

ColumnsOf(p) ==
    LET flat(e) == IF Compound(e) THEN {e.exprs[i].column : i \in DOMAIN e.exprs} ELSE {e.column}
    IN IF p.op = "and" THEN UNION {flat(p.exprs[i]) : i \in DOMAIN p.exprs} ELSE flat(p)

After(cols, op) ==
    CASE op.type = "drop" -> cols \ {op.column}
      [] op.type = "derive" -> cols \cup {op.name}
      [] op.type = "group_by" -> {op.column, "n"}
      [] OTHER -> cols
ShownColumns(os) == FoldLeft(After, Range(Columns), os)

Fails(os) ==
    \E i \in DOMAIN os :
        IsFilter(os[i]) /\ ~ ColumnsOf(os[i].predicate) \subseteq ShownColumns(SubSeq(os, 1, i - 1))
ShownRows(os) == {r \in Rows : \A i \in DOMAIN os : IsFilter(os[i]) => HoldsAll(os[i].predicate, r)}

-----------------------------------------------------------------------------
(* The view store. *)

Init ==
    /\ ops = <<>> /\ menu = NoMenu
    /\ builder = [open |-> FALSE, rows |-> <<[column |-> Blank, operator |-> "eq", value |-> Blank]>>,
                  combinator |-> "and"]
    /\ popover = Null /\ drag = NotDragging

setOps(os) == ops' = os /\ Len(os) <= MaxOps
addOp(op) == setOps(Append(ops, op))
removeOp(i) == setOps(RemoveAt(ops, i))

SortKeys == LET i == SelectInSeq(ops, LAMBDA op : op.type = "sort") IN IF i = 0 THEN <<>> ELSE ops[i].keys
setSort(keys) ==
    LET withoutSort == SelectSeq(ops, LAMBDA op : op.type # "sort")
    IN setOps(IF keys = <<>> THEN withoutSort ELSE Append(withoutSort, [type |-> "sort", keys |-> keys]))
Key(c, d) == [column |-> c, descending |-> d]

IsSearch(op) ==
    LET p == op.predicate
    IN /\ IsFilter(op)
       /\ \/ p.op = "contains"
          \/ p.op = "or" /\ (\A i \in DOMAIN p.exprs : p.exprs[i].op = "contains")
WithoutSearch == SelectSeq(ops, LAMBDA op : ~ IsSearch(op))
setSearch(text) ==
    LET leaves == [i \in DOMAIN TextColumns |-> Leaf("contains", TextColumns[i], text)]
    IN setOps(Append(WithoutSearch, Filter(IF Len(leaves) = 1 THEN leaves[1] ELSE Many("or", leaves))))
clearSearch == setOps(WithoutSearch)

clearOps == ops' = <<>>

-----------------------------------------------------------------------------
(* The search box, the chips and the palette.  The press that begins a      *)
(* command closes the menu and lets go of the histogram.                    *)

Idle == menu = NoMenu /\ popover = Null /\ ~ builder.open

\* What is typed goes into the ops at once; the box keeps its text whatever
\* becomes of them, and nothing reads it again.
Search(text) == Idle /\ TextColumns # <<>> /\ setSearch(text) /\ UNCHANGED widgets
SearchCleared == Idle /\ clearSearch /\ UNCHANGED widgets

RemoveChip == Idle /\ (\E i \in DOMAIN ops : removeOp(i)) /\ UNCHANGED widgets
ClearAll == Idle /\ clearOps /\ UNCHANGED widgets
PaletteSort == Idle /\ (\E c \in Range(Columns), d \in BOOLEAN : setSort(<<Key(c, d)>>)) /\ UNCHANGED widgets

-----------------------------------------------------------------------------
(* The headers of the columns, which are those of the source. *)

\* A click sorts by the column, then the other way round, then not at all.
HeaderClick(c) ==
    /\ Idle
    /\ \/ SortKeys = <<Key(c, FALSE)>> /\ setSort(<<Key(c, TRUE)>>)
       \/ SortKeys = <<Key(c, TRUE)>> /\ setSort(<<>>)
       \/ SortKeys \notin {<<Key(c, FALSE)>>, <<Key(c, TRUE)>>} /\ setSort(<<Key(c, FALSE)>>)
    /\ UNCHANGED widgets

\* With the shift key it adds the column to the keys, or turns its key round.
HeaderShiftClick(c) ==
    /\ Idle
    /\ LET i == SelectInSeq(SortKeys, LAMBDA k : k.column = c)
       IN IF i > 0 THEN setSort([SortKeys EXCEPT ![i].descending = ~ @])
                   ELSE setSort(Append(SortKeys, Key(c, FALSE)))
    /\ UNCHANGED widgets

OpenColumnMenu(c) ==
    /\ Idle
    /\ menu' = [kind |-> "column", column |-> c]
    /\ UNCHANGED <<ops, builder, popover, drag>>

CloseMenu == menu # NoMenu /\ menu' = NoMenu /\ UNCHANGED <<ops, builder, popover, drag>>
Chosen == menu' = NoMenu /\ UNCHANGED <<builder, popover, drag>>

MenuSort ==
    /\ menu.kind = "column" /\ (\E d \in BOOLEAN : setSort(<<Key(menu.column, d)>>)) /\ Chosen
MenuDrop == menu.kind = "column" /\ addOp([type |-> "drop", column |-> menu.column]) /\ Chosen
MenuGroupBy ==
    /\ menu.kind = "column" /\ addOp([type |-> "group_by", column |-> menu.column]) /\ Chosen
submitDerive ==
    /\ menu.kind = "column"
    /\ (\E c \in Range(Columns) : addOp([type |-> "derive", name |-> "d", from |-> c])) /\ Chosen

-----------------------------------------------------------------------------
(* The menu of a cell, of a row the view shows. *)

OpenCellMenu ==
    /\ Idle /\ ~ Fails(ops)
    /\ \E c \in ShownColumns(ops), r \in ShownRows(ops) :
          menu' = [kind |-> "cell", column |-> c, value |-> ValueOf(c, r)]
    /\ UNCHANGED <<ops, builder, popover, drag>>

CellPredicates ==
    IF menu.kind # "cell" THEN {}
    ELSE IF menu.value = Null THEN {Leaf("is_null", menu.column, Null), Leaf("is_not_null", menu.column, Null)}
    ELSE {Leaf(op, menu.column, menu.value) :
             op \in {"eq", "ne"} \cup (IF menu.column \in NumericColumns THEN {"gt", "lt"} ELSE {})}

CellFilter(p) ==
    /\ p \in CellPredicates
    /\ setOps(addPredicate(ops, p)) /\ Chosen
Exclude ==
    /\ menu.kind = "cell" /\ menu.value # Null
    /\ setOps(appendNotIn(ops, menu.column, menu.value)) /\ Chosen

-----------------------------------------------------------------------------
(* The filter builder. *)

OpenBuilder ==
    /\ Idle /\ builder' = [builder EXCEPT !.open = TRUE]
    /\ UNCHANGED <<ops, menu, popover, drag>>
Building == builder.open /\ UNCHANGED <<menu, popover, drag>>

newRow == [column |-> Columns[1], operator |-> "eq", value |-> Blank]
AddRow ==
    /\ Building /\ Len(builder.rows) < MaxBuilderRows
    /\ builder' = [builder EXCEPT !.rows = Append(@, newRow)] /\ UNCHANGED ops
RemoveRow ==
    /\ Building /\ UNCHANGED ops
    /\ \E i \in DOMAIN builder.rows : builder' = [builder EXCEPT !.rows = RemoveAt(@, i)]
UpdateRow ==
    /\ Building /\ UNCHANGED ops
    /\ \E i \in DOMAIN builder.rows, row \in BuilderRows : builder' = [builder EXCEPT !.rows[i] = row]
SetCombinator ==
    /\ Building /\ UNCHANGED ops
    /\ \E c \in {"and", "or"} : builder' = [builder EXCEPT !.combinator = c]
CloseBuilder == Building /\ builder' = [builder EXCEPT !.open = FALSE] /\ UNCHANGED ops

\* A row without a column or without the value it needs does not count.
ValidRows ==
    SelectSeq(builder.rows, LAMBDA r : r.column # Blank /\ (r.operator \in {"is_null", "is_not_null"} \/ r.value # Blank))
WithoutFilters == SelectSeq(ops, LAMBDA op : ~ IsFilter(op))

ApplyBuilder ==
    LET leaves == [i \in DOMAIN ValidRows |->
                     Leaf(ValidRows[i].operator, ValidRows[i].column, ValidRows[i].value)]
    IN /\ Building /\ leaves # <<>>
       /\ setOps(Append(WithoutFilters,
                        Filter(IF Len(leaves) = 1 THEN leaves[1] ELSE Many(builder.combinator, leaves))))
       /\ builder' = [builder EXCEPT !.open = FALSE]
ClearBuilder ==
    /\ Building /\ setOps(WithoutFilters)
    /\ builder' = [builder EXCEPT !.rows = <<newRow>>]

-----------------------------------------------------------------------------
(* The histogram of a column, whose bars are clicked or dragged over. *)

ShowHistogram(c) ==
    /\ Idle /\ popover' = c /\ drag' = NotDragging
    /\ UNCHANGED <<ops, menu, builder>>
HideHistogram ==
    /\ popover # Null /\ popover' = Null /\ drag' = NotDragging
    /\ UNCHANGED <<ops, menu, builder>>
Hovering == popover # Null /\ UNCHANGED <<menu, builder, popover>>
HasBars == popover # Null /\ popover \in NumericColumns

\* The mouse goes down on a bar, and over others; that it came over a bar with
\* no button down is not told apart.
DragStart(i) == Hovering /\ HasBars /\ drag' = [drag EXCEPT !.start = i] /\ UNCHANGED ops
DragOver(i) == Hovering /\ drag.start # 0 /\ drag' = [drag EXCEPT !.end = i] /\ UNCHANGED ops

Between(i, j) == [op |-> "between", column |-> popover, lo |-> Buckets[i].lo, hi |-> Buckets[j].hi]
Smaller(i, j) == IF i <= j THEN i ELSE j
Larger(i, j) == IF i <= j THEN j ELSE i
handleHistogramDragEnd ==
    /\ Hovering /\ drag.start # 0 /\ drag.end # 0
    /\ setOps(addPredicate(ops, Between(Smaller(drag.start, drag.end), Larger(drag.start, drag.end))))
    /\ drag' = NotDragging
handleHistogramClick(i) ==
    /\ Hovering /\ HasBars /\ (drag.start = 0 \/ drag.end = 0)
    /\ setOps(addPredicate(ops, Between(i, i))) /\ UNCHANGED drag

NullBand ==
    /\ Hovering /\ UNCHANGED drag
    /\ \E op \in {"is_null", "is_not_null"} : setOps(addPredicate(ops, Leaf(op, popover, Null)))
submitCustom ==
    /\ Hovering /\ UNCHANGED drag
    /\ \/ \E op \in {"eq", "ne"}, v \in Values[popover] : setOps(addPredicate(ops, Leaf(op, popover, v)))
       \/ \E op \in {"gt", "lt"}, v \in Values[popover] :
             popover \in NumericColumns /\ setOps(addPredicate(ops, Leaf(op, popover, v)))
       \/ \E text \in DOMAIN Matches : setOps(addPredicate(ops, Leaf("contains", popover, text)))

-----------------------------------------------------------------------------
Boxes ==
    \/ \E text \in DOMAIN Matches : Search(text)
    \/ SearchCleared \/ RemoveChip \/ ClearAll \/ PaletteSort
Headers ==
    \/ \E c \in Range(Columns) : HeaderClick(c) \/ HeaderShiftClick(c) \/ OpenColumnMenu(c)
    \/ MenuSort \/ MenuDrop \/ MenuGroupBy \/ submitDerive
Cells == OpenCellMenu \/ CloseMenu \/ (\E p \in CellPredicates : CellFilter(p)) \/ Exclude
Builder ==
    \/ OpenBuilder \/ AddRow \/ RemoveRow \/ UpdateRow \/ SetCombinator \/ CloseBuilder
    \/ ApplyBuilder \/ ClearBuilder
Histogram ==
    \/ \E c \in Range(Columns) : ShowHistogram(c)
    \/ HideHistogram
    \/ \E i \in DOMAIN Buckets : DragStart(i) \/ DragOver(i) \/ handleHistogramClick(i)
    \/ handleHistogramDragEnd \/ NullBand \/ submitCustom

Next == Boxes \/ Headers \/ Cells \/ Builder \/ Histogram

Spec == Init /\ [][Next]_vars

-----------------------------------------------------------------------------
(* Properties. *)

HiddenBy(c, r) ==
    LET conjuncts == activePredicates(ops)
    IN \E i \in DOMAIN conjuncts : isSingleColumn(conjuncts[i], c) /\ ~ Holds(conjuncts[i], r)

\* What a filter chosen in the menu of a cell makes of the view: it does not
\* fail, it shows those of its rows that satisfy the filter and none that does
\* not, and of the rows that were hidden it shows only such as another filter on
\* the same column had hidden.
Narrowed(p) ==
    /\ ~ Fails(ops')
    /\ \A r \in ShownRows(ops') : Holds(p, r)
    /\ \A r \in ShownRows(ops) : Holds(p, r) => r \in ShownRows(ops')
    /\ \A r \in ShownRows(ops') \ ShownRows(ops) : HiddenBy(p.column, r)

\* While the view has the columns of its source, whatever search, filters of
\* the builder, ranges of the histogram and dropped columns are there, a filter
\* chosen in a cell joins them as their conjunction ("Right-click a cell to
\* filter on its value", README.md:86).
ColumnsAreTheSources == \A i \in DOMAIN ops : ops[i].type \notin {"derive", "group_by"}
CellFilterNarrows ==
    [][ \A p \in CellPredicates : ColumnsAreTheSources /\ CellFilter(p) => Narrowed(p) ]_vars

\* A value excluded in the menu of a cell stays hidden while further values of
\* its column are excluded, though each of these removes the predicates on the
\* column and adds one.
Excluded(os, c) ==
    LET conjuncts == activePredicates(os)
        notIn == {i \in DOMAIN conjuncts : conjuncts[i].op = "not_in" /\ conjuncts[i].column = c}
    IN UNION {conjuncts[i].values : i \in notIn}
ExcludedStayHidden ==
    [][ Exclude /\ ColumnsAreTheSources =>
          LET hidden == Excluded(ops, menu.column) \cup {menu.value}
          IN \A r \in ShownRows(ops') : r[menu.column] \notin hidden ]_vars
=============================================================================
