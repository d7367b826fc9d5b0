----------------------------- MODULE TileLoading -----------------------------
(***************************************************************************)
(* How the grid of the web client gets its tiles: the effects of useTiles, *)
(* the store of tiles the grid draws from, the prefetch model and the      *)
(* promises between them and the tile manager.  Each change of the view,   *)
(* the zoom or the position runs the effects; a request is answered at any *)
(* later time, by when the tile it asked for may have another size, another*)
(* place or another view.                                                  *)
(*                                                                         *)
(* Here the tile manager is what its callers see of it: one promise for a  *)
(* key, whoever asks; a cache that forgets; keys that failed.  Rows stand  *)
(* for columns too, a pixel is a small integer and the store's budget is a *)
(* number of tiles.  React runs the effects of a change of a store before  *)
(* the next event, so that a change and its effects are one step.          *)
(* A name with _Slip is that definition with a slip in it.                 *)
(***************************************************************************)
EXTENDS Integers, SequencesExt

CONSTANTS
    Views,          \* view hashes, each with its expression
    Zooms,          \* zoom levels
    AggZooms,       \* those below AGG_THRESHOLD_ZOOM
    CELL_H,         \* [Zooms -> Nat \ {0}]: the height of a row in pixels
    TILE_ROWS,      \* [Zooms -> Nat \ {0}]
    NRows,          \* source.n_rows
    Count,          \* [Views -> Nat]: the rows of a view
    Height,         \* viewport.height
    Tops,           \* the values of viewport.scrollY
    JUMP_THRESHOLD_VIEWPORTS,
    TILE_STORE_MAX, \* the tiles the store has room for
    CACHE_MAX,      \* those the cache of the manager has room for
    HISTORY_LEN, PREFETCH_CANDIDATES,
    MaxSteps,       \* a bound on what the user does and what goes wrong
    MaxTimers       \* a bound on the prefetch timers that run at a time

ASSUME ZoomsAssumption ==
    /\ AggZooms \subseteq Zooms
    /\ CELL_H \in [Zooms -> Nat \ {0}] /\ TILE_ROWS \in [Zooms -> Nat \ {0}]
ASSUME SizesAssumption ==
    /\ NRows \in Nat /\ Count \in [Views -> Nat] /\ Height \in Nat /\ Tops \subseteq Nat
    /\ {JUMP_THRESHOLD_VIEWPORTS, TILE_STORE_MAX, CACHE_MAX, HISTORY_LEN, PREFETCH_CANDIDATES} \subseteq Nat \ {0}
    /\ MaxSteps \in Nat /\ MaxTimers \in Nat

NoCount == -1
Nothing == <<>>     \* the function without arguments, and the empty sequence

VARIABLES
    view, zoom, top, count,     \* viewHash, zoom, scrollY, virtualRowCount
    store,      \* the table store: tiles (oldest first), loading, stale
    manager,    \* the tile manager: inflight, cache and failed, by key
    calls,      \* the promises whose then and catch useTiles waits for
    hook,       \* the refs of useTiles: prevView, prevTop, prevRows
    settle,     \* a settle timer runs after a jump
    prefetchTimers, \* those that run, with what they captured
    walk,       \* the tiles the prefetch model recorded since its reset
    listening,  \* the event source of activeJobId is open
    missed,     \* history: tiles that failed or were evicted since the effect ran
    steps       \* history: what the user did and what went wrong

loadingVars == <<view, zoom, top, count, store, manager, calls, hook, settle,
                 prefetchTimers, walk, listening, missed, steps>>

Abs(a) == IF a >= 0 THEN a ELSE -a
Least(a, b) == IF a <= b THEN a ELSE b
Most(a, b) == IF a >= b THEN a ELSE b
Ceil(a, b) == (a + b - 1) \div b

EmptyManager == [inflight |-> Nothing, cache |-> Nothing, failed |-> {}]
EmptyStore == [tiles |-> <<>>, loading |-> {}, stale |-> Nothing]
EffectiveRowCount(c) == IF c # NoCount THEN c ELSE NRows

\* f with the arguments of S alone, f without them, f with x |-> y.
On(f, S) == [x \in DOMAIN f \cap S |-> f[x]]
Off(f, S) == [x \in DOMAIN f \ S |-> f[x]]
With(f, x, y) == [z \in DOMAIN f \union {x} |-> IF z = x THEN y ELSE f[z]]

\* A set of integers from the least on, and the elements of s at places of S.
InOrder(S) == CHOOSE s \in [1 .. Cardinality(S) -> S] :
                 \A m, n \in 1 .. Cardinality(S) : m < n => s[m] < s[n]
Chosen(s, S) == [n \in DOMAIN InOrder(S) |-> s[InOrder(S)[n]]]

-----------------------------------------------------------------------------
(* The table store. *)

Places(st) == {e.at : e \in ToSet(st.tiles)}
TileAt(st, i) == (CHOOSE e \in ToSet(st.tiles) : e.at = i).tile

\* cacheTile for each place that tiles has one for, from the first on: the
\* tiles become the youngest, and the oldest make room.
cacheTiles(st, tiles) ==
    LET others == Chosen(st.tiles, {n \in DOMAIN st.tiles : st.tiles[n].at \notin DOMAIN tiles})
        new == [n \in DOMAIN InOrder(DOMAIN tiles) |->
                   LET i == InOrder(DOMAIN tiles)[n] IN [at |-> i, tile |-> tiles[i]]]
        all == others \o new
        evicted == Most(0, Len(all) - TILE_STORE_MAX)
    IN [st EXCEPT !.tiles = SubSeq(all, evicted + 1, Len(all)),
                  !.loading = @ \ {[view |-> tiles[i].view, at |-> i] : i \in DOMAIN tiles},
                  !.stale = Off(@, DOMAIN tiles)]

stashTilesAsStale(st) == [EmptyStore EXCEPT !.stale = [i \in Places(st) |-> TileAt(st, i)]]
clearStaleTiles(st) == [st EXCEPT !.stale = Nothing]

-----------------------------------------------------------------------------
(* The prefetch model: after the tiles visited last, those that followed    *)
(* the last two most often, or else those straight ahead.                   *)

History == SubSeq(walk, Most(1, Len(walk) - HISTORY_LEN + 1), Len(walk))
Followers(p, q) == {walk[k] : k \in {j \in 3..Len(walk) : walk[j - 2] = p /\ walk[j - 1] = q}}
TimesAfter(p, q, r) ==
    Cardinality({j \in 3..Len(walk) : walk[j - 2] = p /\ walk[j - 1] = q /\ walk[j] = r})

fallbackPredictions(prev, last) ==
    IF last # prev THEN {last + (last - prev), last + 2 * (last - prev)}
    ELSE {last + 1, last - 1}

\* Of those that followed equally often any may be among the first.
Predictions ==
    LET n == Len(History)
        prev == History[n - 1]
        last == History[n]
        next == Followers(prev, last)
    IN IF n < 2 THEN {{}}
       ELSE IF next = {} THEN {fallbackPredictions(prev, last)}
       ELSE {P \in SUBSET next :
                /\ Cardinality(P) = Least(PREFETCH_CANDIDATES, Cardinality(next))
                /\ \A a \in P, b \in next \ P : TimesAfter(prev, last, a) >= TimesAfter(prev, last, b)}

-----------------------------------------------------------------------------
(* Requests.  A key is a view and the row a tile starts at. *)

Key(v, z, i) == [view |-> v, off |-> i * TILE_ROWS[z]]
KeyOf(c) == Key(c.view, c.zoom, c.at)
Asked(key, z, mode) ==
    [view |-> key.view, first |-> key.off, rows |-> TILE_ROWS[z], mode |-> mode]
tileMode(z) == IF z \in AggZooms THEN "agg" ELSE "raw"

\* getTile for keys that are not cached: a promise under way is shared.
getTiles(m, keys, z, mode) ==
    [m EXCEPT !.inflight = [key \in DOMAIN @ \union keys |->
        IF key \in DOMAIN m.inflight THEN m.inflight[key] ELSE Asked(key, z, mode)]]
cancelStale(m, visibleKeys) == [m EXCEPT !.inflight = On(@, visibleKeys)]

visibleTiles(z, t, prefetch) ==
    LET h == CELL_H[z] * TILE_ROWS[z]
    IN Most(0, t \div h - prefetch) .. Ceil(t + Height, h) + prefetch - 1
Wanted(z, t, c, prefetch) ==
    {i \in visibleTiles(z, t, prefetch) : i * TILE_ROWS[z] < EffectiveRowCount(c)}

Rejected(m) == {c \in calls : KeyOf(c) \notin DOMAIN m.inflight}
Unmark_Slip(st, cs) == st
\* The callers of promises that were rejected take their marks back.
Unmark(st, cs) == [st EXCEPT !.loading = @ \ {[view |-> c.view, at |-> c.at] : c \in cs}]

\* What the effects find: the stores and refs at the time they run.
Here == [store |-> store, manager |-> manager, walk |-> walk, settle |-> settle]

\* The effect on the hash of the view.
ViewEffect(f, v) ==
    IF v = hook.view THEN f
    ELSE [f EXCEPT !.manager = EmptyManager, !.walk = <<>>, !.store = stashTilesAsStale(f.store)]

\* A change of the size of tiles empties the manager and the store.
SizeEffect_Slip(f, z) ==
    IF TILE_ROWS[z] = hook.rows THEN f
    ELSE [f EXCEPT !.store = EmptyStore]
SizeEffect(f, z) ==
    IF TILE_ROWS[z] = hook.rows THEN f
    ELSE [f EXCEPT !.store = EmptyStore, !.manager = EmptyManager]

isJump(t) == Abs(t - hook.top) > Height * JUMP_THRESHOLD_VIEWPORTS

\* The main effect: cancels what is not visible, and asks for the visible
\* tiles that are neither stored nor asked for nor failed; after a jump it
\* only starts the settle timer.  It looks one tile further unless the user
\* moves fast.
MainEffect(f, v, z, t, c) ==
    \E prefetch \in 0..1, rapid \in BOOLEAN :
        LET wanted == Wanted(z, t, c, prefetch)
            m == cancelStale(f.manager, {Key(v, z, i) : i \in wanted})
            missing == {i \in wanted \ Places(f.store) :
                           /\ [view |-> v, at |-> i] \notin f.store.loading
                           /\ Key(v, z, i) \notin m.failed}
            hits == {i \in missing : Key(v, z, i) \in DOMAIN m.cache}
            asks == missing \ hits
            marked == [f.store EXCEPT !.loading = @ \union {[view |-> v, at |-> i] : i \in asks}]
            shown == cacheTiles(Unmark(marked, Rejected(m)), [i \in hits |-> m.cache[Key(v, z, i)]])
        IN /\ hook' = [view |-> v, top |-> t, rows |-> TILE_ROWS[z]]
           /\ view' = v /\ zoom' = z /\ top' = t /\ count' = c
           /\ prefetch = 1 => ~isJump(t) /\ ~rapid
           /\ IF isJump(t)
              THEN /\ ~rapid /\ missed' = {}
                   /\ settle' = TRUE
                   /\ store' = Unmark(f.store, Rejected(m))
                   /\ manager' = m
                   /\ calls' = calls \ Rejected(m)
                   /\ walk' = f.walk
                   /\ UNCHANGED prefetchTimers
              ELSE /\ settle' = f.settle
                   /\ store' = shown /\ missed' = (Places(f.store) \union hits) \ Places(shown)
                   /\ manager' = getTiles(m, {Key(v, z, i) : i \in asks}, z, tileMode(z))
                   /\ calls' = (calls \ Rejected(m))
                               \union {[view |-> v, zoom |-> z, at |-> i] : i \in asks}
                   /\ walk' = f.walk \o InOrder(missing)
                   /\ IF rapid \/ Cardinality(prefetchTimers) >= MaxTimers THEN UNCHANGED prefetchTimers
                      ELSE prefetchTimers' = prefetchTimers \union {[view |-> v, zoom |-> z, count |-> c]}

Effects(f, v, z, t, c) == MainEffect(SizeEffect(ViewEffect(f, v), z), v, z, t, c)

-----------------------------------------------------------------------------
(* The user, and what else changes the stores. *)

Counted == steps < MaxSteps /\ steps' = steps + 1

setViewport(t) == Counted /\ t # top /\ Effects(Here, view, zoom, t, count) /\ UNCHANGED listening
setZoom(z, t) == Counted /\ z # zoom /\ Effects(Here, view, z, t, count) /\ UNCHANGED listening
setOps(v) == Counted /\ v # view /\ Effects(Here, v, zoom, top, NoCount) /\ UNCHANGED listening

\* A source is opened: the store is emptied before the effects run; when
\* the catalog opens it the view stays as it is.
setSource(v) ==
    /\ Counted
    /\ Effects([Here EXCEPT !.store = EmptyStore], v, zoom, top, IF v = view THEN count ELSE NoCount)
    /\ UNCHANGED listening

setVirtualRowCount ==
    /\ count = NoCount
    /\ Effects(Here, view, zoom, top, Count[view])
    /\ UNCHANGED <<listening, steps>>

-----------------------------------------------------------------------------
(* Answers and timers. *)

\* fetchViewTile and a tile of fetchViewTileBatch: a batch does not send the
\* mode, and takes every tile for final; a frame that is empty or does not
\* parse is skipped, and its tile fails with the end of the batch.
fetchViewTile(asked) == {[tile |-> asked, provisional |-> p] : p \in BOOLEAN}
fetchViewTileBatch(asked) == {[tile |-> [asked EXCEPT !.mode = "raw"], provisional |-> FALSE]}

\* The promise of a key is resolved: each caller stores the tile at the place
\* it asked for, unless the view has changed.
Answered(key) ==
    \E meta \in fetchViewTile(manager.inflight[key]) \union fetchViewTileBatch(manager.inflight[key]) :
        LET callers == {c \in calls : KeyOf(c) = key}
            places == IF key.view # view THEN {} ELSE {c.at : c \in callers}
            stored == cacheTiles(store, [i \in places |-> meta.tile])
        IN /\ store' = stored
           /\ missed' = missed \union (Places(store) \ Places(stored))
           /\ calls' = calls \ callers
           /\ \E kept \in SUBSET DOMAIN manager.cache :
                /\ Cardinality(kept) = Least(CACHE_MAX - 1, Cardinality(DOMAIN manager.cache))
                /\ manager' = [manager EXCEPT !.inflight = Off(@, {key}),
                        !.cache = With(On(@, kept), key, meta.tile)]
           /\ listening' = (listening \/ (places # {} /\ meta.provisional))
TileAnswered ==
    /\ \E key \in DOMAIN manager.inflight : Answered(key)
    /\ UNCHANGED <<view, zoom, top, count, hook, settle, prefetchTimers, walk, steps>>

\* The promise is rejected, by the server, by its timeout or by the collector
\* of old promises; after enough retries the key is failed for a while.
TileFailed ==
    /\ Counted
    /\ \E key \in DOMAIN manager.inflight, gaveUp \in BOOLEAN :
        LET callers == {c \in calls : KeyOf(c) = key}
        IN /\ store' = Unmark(store, callers)
           /\ missed' = missed \union {c.at : c \in {d \in callers : d.view = view}}
           /\ calls' = calls \ callers
           /\ manager' = [manager EXCEPT !.inflight = Off(@, {key}),
                                         !.failed = IF gaveUp THEN @ \union {key} ELSE @]
    /\ UNCHANGED <<view, zoom, top, count, hook, settle, prefetchTimers, walk, listening>>

FailuresExpire ==
    /\ manager.failed # {}
    /\ manager' = [manager EXCEPT !.failed = {}]
    /\ missed' = missed \union {i \in Wanted(zoom, top, count, 0) : Key(view, zoom, i) \in manager.failed}
    /\ UNCHANGED <<view, zoom, top, count, store, hook, calls, settle, prefetchTimers, walk, listening, steps>>

\* The 60 ms after a jump are over: the epoch changes and the effect runs.
SettleFires ==
    /\ settle
    /\ Effects([Here EXCEPT !.settle = FALSE], view, zoom, top, count)
    /\ UNCHANGED <<listening, steps>>

\* The 100 ms after an effect are over: the tiles the model predicts are asked
\* for, with the zoom and the row count of that effect and without a mode.
PrefetchFires ==
    /\ \E p \in prefetchTimers :
        /\ prefetchTimers' = prefetchTimers \ {p}
        /\ \E predicted \in IF p.view = view THEN Predictions ELSE {{}} :
            LET asks == {i \in predicted :
                            /\ i * TILE_ROWS[p.zoom] < EffectiveRowCount(p.count)
                            /\ Key(p.view, p.zoom, i) \notin DOMAIN manager.cache
                            /\ Key(p.view, p.zoom, i) \notin manager.failed}
            IN manager' = getTiles(manager, {Key(p.view, p.zoom, i) : i \in asks}, p.zoom, "raw")
    /\ UNCHANGED <<view, zoom, top, count, store, hook, calls, settle, walk, listening, missed, steps>>

\* The event source of a job: the view is complete, or its build failed, or
\* the stream broke.
JobComplete ==
    /\ listening
    /\ listening' = FALSE
    /\ Effects([Here EXCEPT !.store = stashTilesAsStale(store), !.manager = EmptyManager, !.walk = <<>>],
               view, zoom, top, count)
    /\ UNCHANGED steps
JobFailed ==
    /\ Counted
    /\ listening
    /\ listening' = FALSE
    /\ store' = clearStaleTiles(store)
    /\ UNCHANGED <<view, zoom, top, count, manager, hook, calls, settle, prefetchTimers, walk, missed>>
JobStreamBroke ==
    /\ Counted
    /\ listening
    /\ listening' = FALSE
    /\ UNCHANGED <<view, zoom, top, count, store, manager, hook, calls, settle, prefetchTimers, walk, missed>>

-----------------------------------------------------------------------------

\* A source has just been opened: its first effect runs.
LoadingInit ==
    /\ view \in Views /\ zoom \in Zooms /\ top = 0 /\ count = NoCount
    /\ store = EmptyStore /\ manager = EmptyManager
    /\ calls = {} /\ prefetchTimers = {} /\ walk = <<>>
    /\ hook = [view |-> view, top |-> 0, rows |-> TILE_ROWS[zoom]]
    /\ settle = TRUE
    /\ listening = FALSE /\ missed = {} /\ steps = 0

LoadingNext ==
    \/ \E t \in Tops : setViewport(t) \/ \E z \in Zooms : setZoom(z, t)
    \/ \E v \in Views : setOps(v) \/ setSource(v)
    \/ setVirtualRowCount
    \/ TileAnswered \/ TileFailed \/ FailuresExpire
    \/ SettleFires \/ PrefetchFires
    \/ JobComplete \/ JobFailed \/ JobStreamBroke

LoadingSpec == LoadingInit /\ [][LoadingNext]_loadingVars

-----------------------------------------------------------------------------
(* Properties. *)

\* What renderCells takes for a row: the tile at its place, or a stale one,
\* which it dims.  A tile that is too short leaves the row blank, and an
\* aggregated tile has no rows of the view.
DrawnFrom(row) ==
    LET i == row \div TILE_ROWS[zoom]
        stale == i \notin Places(store)
        there == ~stale \/ i \in DOMAIN store.stale
        tile == IF stale THEN store.stale[i] ELSE TileAt(store, i)
    IN IF ~there THEN {}
       ELSE {[row |-> tile.first + (row % TILE_ROWS[zoom]), view |-> tile.view, dimmed |-> stale] :
                x \in {y \in {tile} : y.mode = "raw" /\ row % TILE_ROWS[zoom] < y.rows}}
DrawnRows ==
    (top \div CELL_H[zoom]) .. Least(EffectiveRowCount(count), Ceil(top + Height, CELL_H[zoom]) + 1) - 1

\* Whatever size, place and view were current when a tile was asked for, the
\* grid draws in each row the values of that row, and of the view on show
\* unless it dims them.
CellsShowTheirRow ==
    \A row \in DrawnRows : \A d \in DrawnFrom(row) : d.row = row /\ (d.view = view \/ d.dimmed)

\* No tile is forgotten: each tile in sight is in the store, or an answer
\* will store it there, or the effect will run after a jump, or it failed or was
\* evicted since the effect ran.
VisibleTilesComing ==
    \A i \in Wanted(zoom, top, count, 0) :
        \/ i \in Places(store)
        \/ \E c \in calls : /\ c.at = i /\ KeyOf(c) = Key(view, zoom, i)
                           /\ KeyOf(c) \in DOMAIN manager.inflight
        \/ settle
        \/ i \in missed \/ Key(view, zoom, i) \in manager.failed
=============================================================================
