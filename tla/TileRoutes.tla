------------------------------- MODULE TileRoutes -------------------------------
(***************************************************************************)
(* The tile routes of the server (crates/tv-server/src/routes/query.rs and *)
(* tiles.rs) around their cache: a request looks a tile up under a key made*)
(* of source, view and tile number, asks the engine on a miss, and caches  *)
(* what the engine answers.  Three routes share the cache:                 *)
(*   "tile"   query_tile, of any view, within a timeout;                   *)
(*   "batch"  one tile of query_tiles_batch, with no timeout;              *)
(*   "get"    get_tile, of the source itself, sorted or filtered.          *)
(* Rows and columns are treated alike by the code; the model has rows.     *)
(*                                                                         *)
(* The engine is modelled by what the routes see of it: it refuses a source*)
(* that is unknown, or modified since it was registered, and answers a     *)
(* sorted view provisionally at first.                                     *)
(***************************************************************************)
EXTENDS Integers, FiniteSets

CONSTANTS
  Requests, Sources,
  Views,       \* views of a source, as far as their hashes tell them apart
  Slow,        \* views that need a sort: the engine may answer provisionally
  Offsets,     \* first rows asked for
  Heights,     \* numbers of rows asked for
  Modes,       \* "raw", "agg"
  NRows,       \* rows of each view
  MaxAsked     \* bound: requests made

ASSUME RoutesAssumption ==
  /\ Offsets \subseteq Nat /\ Heights \subseteq Nat /\ NRows \in Nat
  /\ Slow \subseteq Views /\ Modes \subseteq {"raw", "agg"} /\ MaxAsked \in Nat
  /\ {} \notin {Sources, Views, Offsets, Heights, Modes}

VARIABLES
  cache,     \* a partial function from keys to tiles
  modified,  \* sources whose file changed since they were registered
  removed,   \* sources removed
  pc,        \* per request: "idle", "lookup", "engine", "read", "store", then an outcome
  question,  \* what it asks
  tile,      \* the tile it answers with
  asked      \* requests made so far

vars == <<cache, modified, removed, pc, question, tile, asked>>

(* Outcomes: a tile, an error status, an empty frame of a batch, a dropped *)
(* connection.                                                             *)
Outcomes == {"answered", "error", "timeout", "empty", "panicked"}

Question == [route : {"tile", "batch", "get"}, source : Sources, view : Views,
             row : Offsets, rows : Heights, mode : Modes]

Tile == [source : Sources, view : Views, from : 0 .. NRows, to : 0 .. NRows,
         mode : Modes \cup {"raw"}, provisional : BOOLEAN]

Goto(r, label) == pc' = [pc EXCEPT ![r] = label]

-----------------------------------------------------------------------------
(* Keys.  A batch divides by max(1, rows), the others by rows.             *)

Height(q) == IF q.route = "batch" /\ q.rows = 0 THEN 1 ELSE q.rows

Key_NoView(q) ==
  [plain |-> q.route = "get", source |-> q.source, n |-> q.row \div Height(q)]

(* tile_key.  The hash of get_tile is of its own sort and filter.          *)
Key(q) ==
  [plain |-> q.route = "get", source |-> q.source, view |-> q.view,
   n |-> q.row \div Height(q)]

Lesser(a, b) == IF a < b THEN a ELSE b

(* The tile the engine reads: the rows of the view there are at the window.*)
Window(q, provisional) ==
  [source |-> q.source, view |-> q.view,
   from |-> Lesser(q.row, NRows), to |-> Lesser(q.row + q.rows, NRows),
   mode |-> IF q.route = "tile" THEN q.mode ELSE "raw", provisional |-> provisional]

-----------------------------------------------------------------------------
Ask(r, q) ==
  /\ pc[r] \in {"idle"} \cup Outcomes /\ asked < MaxAsked
  /\ question' = [question EXCEPT ![r] = q]
  /\ asked' = asked + 1
  /\ Goto(r, IF Height(q) = 0 THEN "panicked" ELSE "lookup")
  /\ UNCHANGED <<cache, modified, removed, tile>>

Hit(r) ==
  /\ pc[r] = "lookup" /\ Key(question[r]) \in DOMAIN cache
  /\ tile' = [tile EXCEPT ![r] = cache[Key(question[r])]]
  /\ Goto(r, "answered")
  /\ UNCHANGED <<cache, modified, removed, question, asked>>

Miss(r) ==
  /\ pc[r] = "lookup" /\ Key(question[r]) \notin DOMAIN cache
  /\ Goto(r, "engine")
  /\ UNCHANGED <<cache, modified, removed, question, tile, asked>>

Failed(r) == IF question[r].route = "batch" THEN "empty" ELSE "error"

(* The engine refuses a modified source on the routes of views only.       *)
Refuse(r) ==
  LET q == question[r]
  IN  /\ pc[r] = "engine"
      /\ q.source \in removed \/ (q.route # "get" /\ q.source \in modified)
      /\ Goto(r, Failed(r))
      /\ UNCHANGED <<cache, modified, removed, question, tile, asked>>

Accept(r) ==
  LET q == question[r]
  IN  /\ pc[r] = "engine"
      /\ q.source \notin removed /\ (q.route = "get" \/ q.source \notin modified)
      /\ Goto(r, "read")
      /\ UNCHANGED <<cache, modified, removed, question, tile, asked>>

EngineError(r) ==
  /\ pc[r] = "read"
  /\ Goto(r, Failed(r))
  /\ UNCHANGED <<cache, modified, removed, question, tile, asked>>

Read(r, provisional) ==
  LET q == question[r]
  IN  /\ pc[r] = "read"
      /\ provisional => q.view \in Slow /\ q.route # "get"
      /\ tile' = [tile EXCEPT ![r] = Window(q, provisional)]
      /\ Goto(r, "store")
      /\ UNCHANGED <<cache, modified, removed, question, asked>>

Store_Always(r) ==
  /\ pc[r] = "store"
  /\ cache' = [k \in DOMAIN cache \cup {Key(question[r])} |->
                 IF k = Key(question[r]) THEN tile[r] ELSE cache[k]]
  /\ Goto(r, "answered")
  /\ UNCHANGED <<modified, removed, question, tile, asked>>

(* A provisional tile is answered and not cached.                          *)
Store(r) ==
  /\ pc[r] = "store"
  /\ cache' = IF tile[r].provisional
                THEN cache
                ELSE [k \in DOMAIN cache \cup {Key(question[r])} |->
                        IF k = Key(question[r]) THEN tile[r] ELSE cache[k]]
  /\ Goto(r, "answered")
  /\ UNCHANGED <<modified, removed, question, tile, asked>>

Timeout_AnsweredOnly(r) ==
  /\ pc[r] = "store" /\ question[r].route = "tile"
  /\ Goto(r, "timeout")
  /\ UNCHANGED <<cache, modified, removed, question, tile, asked>>

(* The timeout of query_tile is around the engine's part.                  *)
Timeout(r) ==
  /\ pc[r] \in {"engine", "read"} /\ question[r].route = "tile"
  /\ Goto(r, "timeout")
  /\ UNCHANGED <<cache, modified, removed, question, tile, asked>>

-----------------------------------------------------------------------------
(* The cache may forget a tile: see LossyMap.                              *)
Forget(k) ==
  /\ cache' = [j \in DOMAIN cache \ {k} |-> cache[j]]
  /\ UNCHANGED <<modified, removed, pc, question, tile, asked>>

(* Someone writes the file of a source.                                    *)
Modify(s) ==
  /\ modified' = modified \cup {s}
  /\ UNCHANGED <<cache, removed, pc, question, tile, asked>>

(* delete_source: the engine forgets the source, the cache is left alone.  *)
DeleteSource(s) ==
  /\ removed' = removed \cup {s}
  /\ UNCHANGED <<cache, modified, pc, question, tile, asked>>

Init ==
  /\ cache = [k \in {} |-> k] /\ modified = {} /\ removed = {} /\ asked = 0
  /\ pc = [r \in Requests |-> "idle"]
  /\ question = [r \in Requests |-> CHOOSE q \in Question : TRUE]
  /\ tile = [r \in Requests |-> CHOOSE t \in {Window(q, FALSE) : q \in Question} : TRUE]

Handle(r) == Hit(r) \/ Miss(r) \/ Store(r) \/ Timeout(r)

Engine(r) ==
  Refuse(r) \/ Accept(r) \/ EngineError(r) \/ \E provisional \in BOOLEAN : Read(r, provisional)

Next ==
  \/ \E r \in Requests : Handle(r) \/ Engine(r) \/ \E q \in Question : Ask(r, q)
  \/ \E k \in DOMAIN cache : Forget(k)
  \/ \E s \in Sources : Modify(s) \/ DeleteSource(s)

Spec == Init /\ [][Next]_vars

(* The handlers run on and the timer fires; the engine need not answer: a  *)
(* request may wait for a view whose builder is gone (ViewMaterializer).   *)
FairSpec == Spec /\ \A r \in Requests : WF_vars(Handle(r))

-----------------------------------------------------------------------------
(* Every variable has its type: no tile reaches beyond the rows there are. *)
TypeOK ==
  /\ \A k \in DOMAIN cache : cache[k] \in Tile
  /\ modified \subseteq Sources /\ removed \subseteq Sources
  /\ pc \in [Requests -> {"idle", "lookup", "engine", "read", "store"} \cup Outcomes]
  /\ question \in [Requests -> Question] /\ tile \in [Requests -> Tile]
  /\ asked \in 0 .. MaxAsked

Answered(r) == pc[r] = "answered"

(* A request answered with a tile is answered with the tile it asked for:  *)
(* its view of its source, all of its rows and no other, in its mode,      *)
(* whoever asked first.  So it is as long as all ask for tiles of one      *)
(* size, at multiples of it, in one mode.                                  *)
AnswersTheQuestion ==
  \A r \in Requests : Answered(r) =>
    tile[r] \in {Window(question[r], TRUE), Window(question[r], FALSE)}

(* Only full answers are kept: what a hit labels "exact" is exact, and who *)
(* asks again after a provisional answer asks the engine again.            *)
HitsAreExact == \A k \in DOMAIN cache : ~ cache[k].provisional

(* A request of query_tile ends, though the engine may never answer.       *)
TileRequestsEnd ==
  \A r \in Requests :
    (pc[r] \in {"lookup", "engine", "read", "store"} /\ question[r].route = "tile")
      ~> pc[r] \in Outcomes
=============================================================================
