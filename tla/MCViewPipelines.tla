---------------------------- MODULE MCViewPipelines ----------------------------
(* Six rows in three row groups, or files, each of them sorted by b though *)
(* the whole is not; and four rows that are sorted by b and c.             *)
EXTENDS Pictures

Row(x, y, z) == [a |-> x, b |-> y, c |-> z]
Cell(n) == [kind |-> "int", v |-> n]
Key(c, d, n) == [column |-> c, descending |-> d, nulls_last |-> n]

Groups == << <<Row(Null, 1, 6), Row(1, 2, 3)>>,
             <<Row(3, 1, 2), Row(Null, 2, 5)>>,
             <<Row(5, 1, 4), Row(Null, 2, 1)>> >>
InOrder == << <<Row(1, 1, 1), Row(2, 1, 2)>>, <<Row(Null, 2, 3), Row(4, 2, 4)>> >>

Source(f, groups, keys) ==
  [format |-> f, cols |-> <<"a", "b", "c">>, groups |-> groups, pre_sorted_by |-> keys]

OneFile == Source("parquet", Groups, <<Key("b", FALSE, TRUE)>>)
AllSources ==
  {OneFile, Source("multi", Groups, Null), Source("csv", Groups, Null),
   Source("parquet", InOrder, <<Key("b", FALSE, TRUE), Key("c", FALSE, TRUE)>>)}

Low == [op |-> "And", exprs |-> <<[op |-> "Gte", column |-> "a", value |-> Cell(2)],
                                 [op |-> "Lt", column |-> "c", value |-> Cell(5)]>>]
Either == [op |-> "Or", exprs |-> <<[op |-> "Eq", column |-> "a", value |-> Cell(1)],
                                  [op |-> "Gt", column |-> "c", value |-> Cell(3)]>>]

Predicates ==
  {Low, Either, [op |-> "Not", expr |-> Low], [op |-> "In", column |-> "a", values |-> <<Cell(1), Cell(5)>>],
   [op |-> "IsNull", column |-> "a"], [op |-> "IsNotNull", column |-> "a"],
   [op |-> "And", exprs |-> <<[op |-> "Eq", column |-> "b", value |-> [kind |-> "bool", v |-> TRUE]],
                              [op |-> "Ne", column |-> "c", value |-> Cell(5)]>>]}

(* The numbers of the rows, and of the texts the index takes them for.     *)
Lits == {[kind |-> k, v |-> n] : k \in {"int", "text"}, n \in {1, 2, 5}}
Simple ==
  {[op |-> o, column |-> c, value |-> l] : o \in Leaves, c \in {"a", "b", "c"}, l \in Lits}
  \cup {[op |-> o, column |-> c, values |-> <<l, m>>] :
          o \in {"In", "NotIn"}, c \in {"a", "b"}, l \in Lits, m \in Lits}
  \cup {[op |-> "Between", column |-> c, lo |-> Cell(2), hi |-> Cell(4)] : c \in {"a", "c"}}
  \cup {[op |-> o, column |-> c] : o \in {"IsNull", "IsNotNull"}, c \in {"a", "b"}}
Few == {Low, Either} \cup {[op |-> "Eq", column |-> "b", value |-> l] : l \in Lits}
IndexAsked ==
  Simple \cup {[op |-> "Not", expr |-> p] : p \in Few}
  \cup {[op |-> o, exprs |-> <<p, q>>] : o \in {"And", "Or"}, p \in Few, q \in Few}

SortB == [type |-> "Sort", keys |-> <<Key("b", FALSE, TRUE)>>]
SortA == [type |-> "Sort", keys |-> <<Key("a", TRUE, FALSE), Key("c", FALSE, TRUE)>>]
Limit2 == [type |-> "Limit", n |-> 2]
SortsAndLimits == {SortA, SortB, Limit2}

AllOps ==
  {[type |-> "Filter", predicate |-> p] : p \in Predicates} \cup SortsAndLimits
  \cup {[type |-> "Select", columns |-> <<"c", "a">>],
        [type |-> "Derive", name |-> "d", left |-> "b", right |-> "c"],
        [type |-> "Rename", from |-> "a", to |-> "z"],
        [type |-> "Sample", n |-> 2],
        [type |-> "Deduplicate", columns |-> <<"b">>],
        [type |-> "GroupBy", keys |-> <<"b">>,
         aggs |-> <<[fn |-> "Count", column |-> "b", alias |-> "n"],
                    [fn |-> "Sum", column |-> "c", alias |-> "s"]>>]}

WholeAndCorner ==
  {[row |-> 0, rows |-> 9, col |-> 0, cols |-> 9], [row |-> 1, rows |-> 2, col |-> 0, cols |-> 1]}

(* Columns of one to six cells in one to three row groups.                 *)
Sample(f, groups) ==
  [format |-> f, cols |-> <<"v">>, pre_sorted_by |-> Null,
   groups |-> [g \in DOMAIN groups |-> [i \in DOMAIN groups[g] |-> [v |-> groups[g][i]]]]]
AllSamples ==
  {Sample("parquet", groups) :
     groups \in {<< <<7>> >>, << <<Null>>, <<Null, Null>> >>, << <<3, 3>>, <<3, Null>> >>,
                << <<0, 0>>, <<0>>, <<7>> >>, << <<-3, 1>>, <<Null, Null, Null>>, <<2>> >>,
                << <<1, 2>>, <<3, 4, 5>>, <<99>> >>, << <<5>>, <<Null>>, <<1, 9, 1, 1>> >>,
                << <<-50>>, <<1, 1, 2, 2, 1>> >>, << <<4, 4, 4, 4, 4, 8>> >>}}

PanelHeights == {1, 2, 4, 5, 7, 9}
Sizes == {1, 2, 3, 9, 20}
Tenths == {-70, -21, 0, 20, 30}

LastFirst(total, n) == [i \in 1 .. n |-> total + 1 - i]
Alphabet == <<"a", "b", "c", "d", "n", "s", "z">>
=============================================================================
