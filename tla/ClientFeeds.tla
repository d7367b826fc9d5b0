------------------------------ MODULE ClientFeeds ------------------------------
(***************************************************************************)
(* What the web client keeps beside its tiles: the row count and the       *)
(* schema of the view, the code of the export panel, the correlations of   *)
(* the source and the statistics of its columns.  Each is asked for by an  *)
(* effect that runs when the stores change, and arrives later, in any      *)
(* order, or fails.  The two stores are the table store, which holds the   *)
(* source object, and the view store, which holds the source's id and the  *)
(* operations.                                                             *)
(*                                                                         *)
(* An effect runs in the step that changes what it depends on: React runs  *)
(* it before the browser handles another event.                            *)
(*                                                                         *)
(* Name_Slip is Name with a slip.                                          *)
(***************************************************************************)
EXTENDS Naturals, FiniteSets, Bags

CONSTANTS
  Sources,         \* ids of sources
  Ops,             \* pipelines a user may set up
  NoOps,           \* the empty pipeline
  CountChanging,   \* the pipelines with an operation that changes the row count
  SchemaAffecting, \* those with an operation that changes the schema
  Columns,         \* column indices
  None

View == [source : Sources, ops : Ops]

ASSUME FeedsAssumption ==
  /\ NoOps \in Ops
  /\ CountChanging \subseteq Ops \ {NoOps} /\ SchemaAffecting \subseteq Ops \ {NoOps}
  /\ None \notin Sources /\ None \notin View

VARIABLES
  source,        \* table.source: the id of the source object, or None
  sourceId, ops, \* the view store
  count,         \* virtualRowCount: the view whose rows were counted, or None
  schema,        \* virtualSchema: the view whose schema it is, or None
  code,          \* ExportPanel's code: the view it was generated for, or None
  correlations,  \* stats.correlations: the source they are of, or None
  fetching,      \* useCorrelations' fetchingRef
  matrix,        \* EDAPanel's own correlations
  stats, pending,\* the stats store: keys with statistics, keys asked for
  open,          \* the panels that are open
  timers,        \* the debounce timers that are running
  requests,      \* a bag of the requests under way
  late, failed   \* history, of the kinds of feeds: what was stored last was for
                 \* another view; it failed, or was reset and not asked for again

counted   == <<count, schema, late>>
explored  == <<correlations, fetching, matrix>>
columns   == <<stats, pending>>
feedVars  == <<source, sourceId, ops, counted, code, explored, columns, open, timers,
               requests, failed>>

Panels == {"sources", "add", "catalog", "export", "explore", "columns"}
Tools  == {"export", "explore", "columns"}

(* buildViewExpr                                                           *)
ViewOf(id, o) == IF id = None THEN None ELSE [source |-> id, ops |-> o]

view == ViewOf(sourceId, ops)

(* What fetchViewCount counts, and what source.n_rows says: a pipeline     *)
(* that does not change the count has the count of the source.             *)
CountOf(v) == [v EXCEPT !.ops = IF v.ops \in CountChanging THEN v.ops ELSE NoOps]

Total(s) == [source |-> s, ops |-> NoOps]

Key(s, c) == [source |-> s, column |-> c]

SchemaOf(v) == IF v.ops \in SchemaAffecting THEN v ELSE None

(* A request for the view, source or column `of`, sent while s was shown.  *)
Request(kind, of, s) == [kind |-> kind, of |-> of, while |-> s]

UnderWay(kind) == {r \in BagToSet(requests) : r.kind = kind}

-----------------------------------------------------------------------------
(* The effects.  A step that changes the stores says which source, id and  *)
(* pipeline come next, whether the source object is another one, and which *)
(* of count and schema the store resets.                                   *)

Changes(s, id, o) == s # source \/ ViewOf(id, o) # view

(* useRowCount waits before it counts, and only when the count can change. *)
CountEffect(v, s, object) ==
  IF object \/ v # view
    THEN s # None /\ v # None /\ v.ops \in CountChanging
    ELSE "count" \in timers

CountNow_LeavesCount(v, s, object, reset) ==
  IF reset \/ ((object \/ v # view) /\ (s = None \/ v = None)) THEN None ELSE count

(* What the count is at once.                                              *)
CountNow(v, s, object, reset) ==
  IF (object \/ v # view) /\ (s = None \/ v = None) THEN None
  ELSE IF (object \/ v # view) /\ v.ops \notin CountChanging THEN Total(s)
  ELSE IF reset THEN None
  ELSE count

(* useVirtualSchema forgets the schema, or asks for it and keeps the old   *)
(* one until the answer.                                                   *)
SchemaWanted(v, s, object) ==
  (object \/ v # view) /\ s # None /\ v # None /\ SchemaOf(v) # None

SchemaNow(v, s, object, reset) ==
  IF reset \/ ((object \/ v # view) /\ ~ SchemaWanted(v, s, object)) THEN None ELSE schema

(* useCorrelations asks unless the store has them or a request for the     *)
(* same source is under way.                                               *)
CorrelationsWanted(s, have, ref) == s # None /\ have # s /\ ref # s

CodeWanted(v, panels) == "export" \in panels /\ v # None

(* A panel that is shown runs its effects when it opens and when the       *)
(* source becomes another one.                                             *)
Runs(p, s, panels) == p \in panels /\ s # None /\ (p \notin open \/ s # source)

(* EDAPanel, on its correlations tab, asks while it has none of any source.*)
MatrixWanted(s, panels) == Runs("explore", s, panels) /\ matrix = None

FetchStats_Again(s, cols) == {c \in cols : Key(s, c) \notin stats}

(* fetchStats sends nothing for a key that is there or under way.          *)
FetchStats(s, cols) == {c \in cols : Key(s, c) \notin stats \cup pending}

(* The panels that ask for the statistics of every column.                 *)
StatsWanted(s, panels) ==
  IF Runs("explore", s, panels) \/ Runs("columns", s, panels)
    THEN FetchStats(s, Columns) ELSE {}

UrlRuns_OnSource(v) == v # view /\ (v = None \/ view = None \/ v.source # view.source)

(* The view that the URL is to name is another one.                        *)
UrlRuns(v) == v # view

Sent(kind, cond, of, s) == IF cond THEN SetToBag({Request(kind, of, s)}) ELSE EmptyBag

Without_Nothing(b, cond) == b

(* The code effect aborts the request before it.                           *)
Without(b, cond) ==
  IF cond THEN [r \in {q \in DOMAIN b : q.kind # "code"} |-> b[r]] ELSE b

(* Everything a step does that leaves source s, id, pipeline o and panels; *)
(* rest are the requests it leaves under way.                              *)
Become(rest, s, object, id, o, panels, resets) ==
  LET v           == ViewOf(id, o)
      viewChanged == v # view
      codeRuns    == viewChanged \/ (("export" \in panels) # ("export" \in open))
      corrAsks    == s # source /\ CorrelationsWanted(s, correlations, fetching)
      cols        == StatsWanted(s, panels)
  IN  /\ source' = s /\ sourceId' = id /\ ops' = o /\ open' = panels
      /\ count' = CountNow(v, s, object, "count" \in resets)
      /\ schema' = SchemaNow(v, s, object, "schema" \in resets)
      /\ timers' = (timers \ {"count", "url"})
                     \cup (IF CountEffect(v, s, object) THEN {"count"} ELSE {})
                     \cup (IF UrlRuns(v) \/ "url" \in timers THEN {"url"} ELSE {})
      /\ code' = IF codeRuns /\ CodeWanted(v, panels) THEN None ELSE code
      /\ fetching' = IF corrAsks THEN s ELSE fetching
      /\ pending' = pending \cup {Key(s, c) : c \in cols}
      /\ requests' = Without(rest, codeRuns)
           (+) Sent("schema", SchemaWanted(v, s, object), v, s)
           (+) Sent("code", codeRuns /\ CodeWanted(v, panels), v, s)
           (+) Sent("correlations", corrAsks, Total(s), s)
           (+) Sent("matrix", MatrixWanted(s, panels), Total(s), s)
           (+) SetToBag({Request("stats", Key(s, c), s) : c \in cols})
      /\ LET fresh == (IF object \/ viewChanged THEN {"count", "schema"} ELSE {})
                        \cup (IF viewChanged THEN {"url"} ELSE {})
                        \cup (IF s # source THEN {"correlations"} ELSE {})
         IN  /\ late' = late \ fresh
             /\ failed' = (failed \ fresh)
                    \cup (resets \ fresh)
      /\ UNCHANGED <<correlations, matrix, stats>>

-----------------------------------------------------------------------------
(* Actions of the user that stay on the source, and what the grid asks for.*)

(* Each operation of the view store on the pipeline resets the count,      *)
(* whether or not the pipeline becomes another one.                        *)
SetOps(o) ==
  /\ sourceId # None
  /\ Become(requests, source, FALSE, sourceId, o, open, {"count"})

OpenPanel(p) ==
  /\ p \in Tools \ open
  /\ source # None
  /\ Become(requests, source, FALSE, sourceId, ops, open \cup {p}, {})

ClosePanel(p) ==
  /\ p \in Tools \cap open
  /\ Become(requests, source, FALSE, sourceId, ops, open \ {p}, {})

(* The grid asks for the statistics of a column it draws or that is        *)
(* hovered.                                                                *)
LookAt(c) ==
  /\ source # None
  /\ FetchStats(source, {c}) # {}
  /\ pending' = pending \cup {Key(source, c)}
  /\ requests' = requests (+) SetToBag({Request("stats", Key(source, c), source)})
  /\ UNCHANGED <<source, sourceId, ops, counted, code, explored, stats, open, timers, failed>>

-----------------------------------------------------------------------------
(* The timer of the count, and the answers.                                *)

CountTimer ==
  /\ "count" \in timers
  /\ timers' = timers \ {"count"}
  /\ requests' = requests (+) SetToBag({Request("count", view, source)})
  /\ UNCHANGED <<source, sourceId, ops, counted, code, explored, columns, open, failed>>

Taken(r) == BagIn(r, requests) /\ requests' = requests (-) SetToBag({r})

(* Whether the answer was for another view than the one that is shown.     *)
Noted(r) == late' = IF r.of = view THEN late \ {r.kind} ELSE late \cup {r.kind}

CountAnswered(r) ==
  /\ r.kind = "count" /\ Taken(r)
  /\ count' = CountOf(r.of)
  /\ Noted(r) /\ failed' = failed \ {"count"}
  /\ UNCHANGED <<source, sourceId, ops, schema, code, explored, columns, open, timers>>

CountFailed(r) ==
  /\ r.kind = "count" /\ Taken(r)
  /\ count' = Total(r.while)
  /\ Noted(r) /\ failed' = failed \cup {r.kind}
  /\ UNCHANGED <<source, sourceId, ops, schema, code, explored, columns, open, timers>>

SchemaAnswered(r) ==
  /\ r.kind = "schema" /\ Taken(r)
  /\ schema' = SchemaOf(r.of)
  /\ Noted(r) /\ failed' = failed \ {"schema"}
  /\ UNCHANGED <<source, sourceId, ops, count, code, explored, columns, open, timers>>

SchemaFailed(r) ==
  /\ r.kind = "schema" /\ Taken(r)
  /\ schema' = None
  /\ Noted(r) /\ failed' = failed \cup {r.kind}
  /\ UNCHANGED <<source, sourceId, ops, count, code, explored, columns, open, timers>>

CodeAnswered(r) ==
  /\ r.kind = "code" /\ Taken(r)
  /\ code' = r.of
  /\ UNCHANGED <<source, sourceId, ops, counted, explored, columns, open, timers, failed>>

(* A failure is shown as a comment in the code, or as a message.           *)
CodeFailed(r) ==
  /\ r.kind \in {"code", "matrix"} /\ Taken(r)
  /\ UNCHANGED <<source, sourceId, ops, counted, code, explored, columns, open, timers, failed>>

(* The answer is stored whatever the source is by now, and the effect runs *)
(* again because the store changed.                                        *)
CorrelationsAnswered(r) ==
  /\ r.kind = "correlations" /\ BagIn(r, requests)
  /\ correlations' = r.of.source
  /\ LET again == CorrelationsWanted(source, r.of.source, None)
     IN  /\ fetching' = IF again THEN source ELSE None
         /\ requests' = (requests (-) SetToBag({r})) (+) Sent("correlations", again, Total(source), source)
  /\ failed' = failed \ {"correlations"}
  /\ UNCHANGED <<source, sourceId, ops, counted, code, matrix, columns, open, timers>>

CorrelationsFailed(r) ==
  /\ r.kind = "correlations" /\ Taken(r)
  /\ fetching' = None
  /\ failed' = IF r.of.source = source THEN failed \cup {"correlations"} ELSE failed
  /\ UNCHANGED <<source, sourceId, ops, counted, code, correlations, matrix, columns, open, timers>>

MatrixAnswered(r) ==
  /\ r.kind = "matrix" /\ Taken(r)
  /\ matrix' = r.of.source
  /\ UNCHANGED <<source, sourceId, ops, counted, code, correlations, fetching, columns, open, timers, failed>>

StatsAnswered(r) ==
  /\ r.kind = "stats" /\ Taken(r)
  /\ stats' = stats \cup {r.of} /\ pending' = pending \ {r.of}
  /\ UNCHANGED <<source, sourceId, ops, counted, code, explored, open, timers, failed>>

StatsFailed(r) ==
  /\ r.kind = "stats" /\ Taken(r)
  /\ pending' = pending \ {r.of}
  /\ UNCHANGED <<source, sourceId, ops, counted, code, explored, stats, open, timers, failed>>

Answer ==
  \E r \in BagToSet(requests) :
    \/ CountAnswered(r) \/ CountFailed(r) \/ SchemaAnswered(r) \/ SchemaFailed(r)
    \/ CodeAnswered(r) \/ CodeFailed(r) \/ CorrelationsAnswered(r)
    \/ CorrelationsFailed(r) \/ MatrixAnswered(r) \/ StatsAnswered(r) \/ StatsFailed(r)

FeedsInit ==
  /\ source = None /\ sourceId = None /\ ops = NoOps
  /\ count = None /\ schema = None /\ code = None
  /\ correlations = None /\ fetching = None /\ matrix = None
  /\ stats = {} /\ pending = {} /\ open = {} /\ timers = {}
  /\ late = {} /\ failed = {}

-----------------------------------------------------------------------------
Waiting(kind) == UnderWay(kind) # {}

(* When nothing of the kind is on its way, the row count and the schema    *)
(* that are shown are those of the view, through every change of source    *)
(* and pipeline, unless the last answer was for a view that had been       *)
(* replaced or failed, or the count was reset by an operation that left    *)
(* the pipeline as it was (useRowCount.ts, useVirtualSchema.ts).  While    *)
(* the correlations are not those of the source, a request for them is     *)
(* under way or has failed, in whatever order the answers for the sources  *)
(* opened before arrive (useCorrelations.ts).                              *)
FeedsAreOfTheView ==
  (source # None /\ sourceId = source) =>
    /\ ("count" \in timers \cup late \cup failed \/ Waiting("count") \/ count = CountOf(view))
    /\ ("schema" \in late \cup failed \/ Waiting("schema") \/ schema = SchemaOf(view))
    /\ \/ correlations = source \/ "correlations" \in failed
       \/ \E r \in UnderWay("correlations") : r.of.source = source

(* The code in the export panel is that of the view, even when the answer  *)
(* for an earlier view comes last: the effect aborts what it replaces      *)
(* (ExportPanel).                                                          *)
CodeIsOfTheView ==
  ("export" \in open /\ view # None /\ code # None) => code = view

(* Several panels and the grid ask for the same statistics: a key is       *)
(* marked as asked for exactly while one request for it is under way, so   *)
(* a failed one can be asked for again (stores/stats.ts).                  *)
OneStatsRequest ==
  /\ {r.of : r \in UnderWay("stats")} = pending
  /\ \A r \in UnderWay("stats") : requests[r] = 1

=============================================================================
