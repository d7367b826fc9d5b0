------------------------------ MODULE TileManager ------------------------------
(***************************************************************************)
(* The tile manager of the web client (web/src/lib/tile-manager.ts) with   *)
(* its LRU cache (tile-cache.ts), in the browser's event loop.  A step is  *)
(* an event handler with the promise reactions it sets off, with two       *)
(* exceptions, where the code lets others in between:                      *)
(*   - calls of the API made in one task (an effect that invalidates and   *)
(*     then asks for tiles): the reactions of the promises the first call  *)
(*     rejects, which delete inflight entries by key, run after the last   *)
(*     one; the deletions due are in owed, and Microtasks runs them;       *)
(*   - drain, which starts one fetch per step while turn is "drain".       *)
(*                                                                         *)
(* A request is its number, and stands for its promise and its queue item. *)
(* A batch, the set of its requests, stands for its fetch and for the      *)
(* AbortController of that fetch.  The order of the heap is the viewport's *)
(* business: any queued tile may be next.                                  *)
(*                                                                         *)
(* Name_Slip is Name with a slip; see the README.                          *)
(***************************************************************************)
EXTENDS Integers, Sequences, FiniteSets, FiniteSetsExt

CONSTANTS
  Keys,            \* tile keys: row and column offset, view hash
  SourceOf,        \* the source a key's view reads
  Sizes,           \* per key the bytes a tile may take
  MaxCacheBytes,   \* maxBytes
  MAX_CONCURRENCY, \* fetches at a time, and tiles in a batch
  MAX_RETRIES,
  MaxRequests,     \* bound: tiles requested
  MaxGenerations   \* bound: invalidations

ASSUME TilesAssumption ==
  /\ Sizes \in [Keys -> SUBSET (Nat \ {0})] /\ MaxCacheBytes \in Nat
  /\ MAX_CONCURRENCY \in Nat \ {0} /\ MAX_RETRIES \in Nat \ {0}
  /\ MaxRequests \in Nat /\ MaxGenerations \in Nat

VARIABLES
  promise,        \* per request: its key, generation and status; crossed, see Request
  inflight,       \* a partial function from keys to entries
  queue,          \* requests queued
  fetches,        \* a partial function from batches to fetches under way
  active, generation, drainScheduled,
  retries,        \* attempts failed per key
  failedAt,       \* keys that failed less than FAILED_TTL_MS ago
  timers,         \* retries due: request and generation
  cache,          \* the tiles cached, least recently used first
  currentBytes,
  turn,           \* "calls" or "drain"
  owed            \* keys whose deletion from inflight is a microtask away

cacheVars == <<cache, currentBytes>>
retryVars == <<retries, failedAt, timers>>
vars == <<promise, inflight, queue, fetches, active, generation, drainScheduled,
          retryVars, cacheVars, turn, owed>>

-----------------------------------------------------------------------------
Pending(i) == promise[i].status = "pending"

(* resolve or reject, which do nothing to a promise that is settled.       *)
Settle(S, status) ==
  promise' = [i \in DOMAIN promise |->
                IF i \in S /\ Pending(i) THEN [promise[i] EXCEPT !.status = status]
                                         ELSE promise[i]]

(* The inflight keys the reactions of these promises delete.               *)
Reactions(S) == {promise[i].key : i \in {j \in S : Pending(j)}}

Without(f, S) == [x \in DOMAIN f \ S |-> f[x]]

AbortAll(K) ==
  fetches' = [b \in DOMAIN fetches |->
    IF \E k \in K : inflight[k].controller = b
      THEN [fetches[b] EXCEPT !.aborted = TRUE] ELSE fetches[b]]

(* scheduleRetry of each request of a batch: a key is tried MAX_RETRIES     *)
(* times, and the failure that is the last sets no timer.                  *)
Failures(i, S) ==
  retries[promise[i].key] + Cardinality({j \in S : promise[j].key = promise[i].key /\ j <= i})

ScheduleRetry(S) ==
  LET last == {i \in S : Failures(i, S) % MAX_RETRIES = 0}
  IN  /\ retries' = [k \in Keys |->
           (retries[k] + Cardinality({i \in S : promise[i].key = k})) % MAX_RETRIES]
      /\ failedAt' = failedAt \cup {promise[i].key : i \in last}
      /\ timers' = timers \cup {[id |-> i, gen |-> generation] : i \in S \ last}

-----------------------------------------------------------------------------
(* TileCache.                                                              *)

IsCached(k) == \E n \in DOMAIN cache : cache[n].key = k

At(k) == CHOOSE n \in DOMAIN cache : cache[n].key = k

Except(k) ==
  IF IsCached(k) THEN SubSeq(cache, 1, At(k) - 1) \o SubSeq(cache, At(k) + 1, Len(cache))
                 ELSE cache

BytesIn(s) == MapThenSumSet(LAMBDA n : s[n].bytes, DOMAIN s)

(* set: in place of the key's tile, if there is one, after dropping from   *)
(* the least recently used end until the new one fits or nothing is left.  *)
CacheSet(k, gen, bytes) ==
  LET total == currentBytes - (IF IsCached(k) THEN cache[At(k)].bytes ELSE 0)
      kept  == Except(k)
      evict == Cardinality({n \in DOMAIN kept : \A m \in 0 .. n - 1 :
                              total - BytesIn(SubSeq(kept, 1, m)) + bytes > MaxCacheBytes})
  IN  /\ cache' = Append(SubSeq(kept, evict + 1, Len(kept)),
                         [key |-> k, gen |-> gen, bytes |-> bytes])
      /\ currentBytes' = total - BytesIn(SubSeq(kept, 1, evict)) + bytes

CacheClear == cache' = << >> /\ currentBytes' = 0

-----------------------------------------------------------------------------
(* The API, called in tasks of the page.                                   *)

(* getTile of a cached tile: it becomes the most recently used.            *)
Touch(k) ==
  /\ turn = "calls" /\ IsCached(k)
  /\ cache' = Append(Except(k), cache[At(k)])
  /\ UNCHANGED <<promise, inflight, queue, fetches, active, generation, drainScheduled,
                 retryVars, currentBytes, turn, owed>>

(* getTile of a tile neither cached, nor failed of late, nor in flight.    *)
(* crossed is no part of the program: the tile is asked for while its key  *)
(* is about to be deleted from inflight, or has an older promise pending   *)
(* which settles some day.                                                 *)
Request(k) ==
  LET i == Len(promise) + 1
  IN  /\ turn = "calls" /\ i <= MaxRequests
      /\ ~ IsCached(k) /\ k \notin failedAt /\ k \notin DOMAIN inflight
      /\ promise' = Append(promise, [key |-> k, gen |-> generation, status |-> "pending",
           crossed |-> k \in owed \/ \E j \in DOMAIN promise : promise[j].key = k /\ Pending(j)])
      /\ inflight' = [x \in DOMAIN inflight \cup {k} |->
           IF x = k THEN [id |-> i, controller |-> {}, old |-> FALSE] ELSE inflight[x]]
      /\ queue' = queue \cup {i}
      /\ drainScheduled' = TRUE
      /\ UNCHANGED <<fetches, active, generation, retryVars, cacheVars, turn, owed>>

(* cancelStale: what is not visible is aborted, rejected and taken out of  *)
(* inflight and of the queue.                                              *)
CancelStale(visible) ==
  LET stale == DOMAIN inflight \ visible
      ids   == {inflight[k].id : k \in stale}
  IN  /\ turn = "calls"
      /\ AbortAll(stale)
      /\ Settle(ids, "rejected")
      /\ owed' = owed \cup Reactions(ids)
      /\ inflight' = Without(inflight, stale)
      /\ queue' = {i \in queue : promise[i].key \in visible}
      /\ UNCHANGED <<active, generation, drainScheduled, retryVars, cacheVars, turn>>

Invalidate_FreesSlots ==
  LET ids == queue \cup {inflight[k].id : k \in DOMAIN inflight}
  IN  /\ turn = "calls" /\ generation < MaxGenerations
      /\ AbortAll(DOMAIN inflight)
      /\ Settle(ids, "rejected")
      /\ owed' = owed \cup Reactions(ids)
      /\ inflight' = Without(inflight, DOMAIN inflight)
      /\ queue' = {}
      /\ generation' = generation + 1
      /\ CacheClear
      /\ failedAt' = {} /\ retries' = [k \in Keys |-> 0]
      /\ active' = 0
      /\ UNCHANGED <<drainScheduled, timers, turn>>

(* invalidate: everything queued or in flight is rejected, what is being   *)
(* fetched aborted as well, and the maps are cleared.                      *)
Invalidate ==
  LET ids == queue \cup {inflight[k].id : k \in DOMAIN inflight}
  IN  /\ turn = "calls" /\ generation < MaxGenerations
      /\ AbortAll(DOMAIN inflight)
      /\ Settle(ids, "rejected")
      /\ owed' = owed \cup Reactions(ids)
      /\ inflight' = Without(inflight, DOMAIN inflight)
      /\ queue' = {}
      /\ generation' = generation + 1
      /\ CacheClear
      /\ failedAt' = {} /\ retries' = [k \in Keys |-> 0]
      /\ UNCHANGED <<active, drainScheduled, timers, turn>>

(* The reactions, once the task of these calls is over.                    *)
Microtasks ==
  /\ turn = "calls" /\ owed # {}
  /\ inflight' = Without(inflight, owed)
  /\ owed' = {}
  /\ UNCHANGED <<promise, queue, fetches, active, generation, drainScheduled,
                 retryVars, cacheVars, turn>>

(* Between two tasks of the page other events are handled.                 *)
BetweenTasks == turn = "calls" /\ owed = {}

-----------------------------------------------------------------------------
(* drain and the fetches it starts.                                        *)

Live == {i \in queue : promise[i].key \in DOMAIN inflight}

(* The animation frame that scheduleDrain asked for.                       *)
Frame ==
  /\ BetweenTasks /\ drainScheduled
  /\ drainScheduled' = FALSE
  /\ turn' = "drain"
  /\ UNCHANGED <<promise, inflight, queue, fetches, active, generation, retryVars,
                 cacheVars, owed>>

(* collectBatch: a live request and as many of its source as are queued,   *)
(* up to MAX_CONCURRENCY; requests that are not live are dropped when they *)
(* are popped, which is all of them unless the batch fills up first.       *)
IsBatch(b, dropped) ==
  \E first \in Live :
    LET same == {i \in Live : SourceOf[promise[i].key] = SourceOf[promise[first].key]}
    IN  /\ first \in b /\ b \subseteq same
        /\ dropped \subseteq queue \ Live
        /\ IF Cardinality(same) < MAX_CONCURRENCY
             THEN b = same /\ dropped = queue \ Live
             ELSE Cardinality(b) = MAX_CONCURRENCY

(* executeSingleTile, executeBatchTiles.                                   *)
Execute(b, dropped) ==
  /\ turn = "drain" /\ active < MAX_CONCURRENCY
  /\ IsBatch(b, dropped)
  /\ queue' = queue \ (b \cup dropped)
  /\ inflight' = [k \in DOMAIN inflight |->
       IF \E i \in b : promise[i].key = k THEN [inflight[k] EXCEPT !.controller = b]
                                          ELSE inflight[k]]
  /\ fetches' = [c \in DOMAIN fetches \cup {b} |->
       IF c = b THEN [gen |-> generation, resolved |-> {}, aborted |-> FALSE] ELSE fetches[c]]
  /\ active' = active + 1
  /\ UNCHANGED <<promise, generation, drainScheduled, retryVars, cacheVars, turn, owed>>

(* The loop ends; the reactions of what the handler rejected come after it.*)
DrainEnds ==
  /\ turn = "drain" /\ (active >= MAX_CONCURRENCY \/ Live = {})
  /\ queue' = IF active >= MAX_CONCURRENCY THEN queue ELSE {}
  /\ inflight' = Without(inflight, owed)
  /\ owed' = {}
  /\ turn' = "calls"
  /\ UNCHANGED <<promise, fetches, active, generation, drainScheduled, retryVars, cacheVars>>

Current(b) == fetches[b].gen = generation

IsSingle(b) == Cardinality(b) = 1

(* finally: one fetch less, and drain.                                     *)
Finally(b) ==
  /\ fetches' = Without(fetches, {b})
  /\ active' = active - 1
  /\ turn' = "drain"
  /\ UNCHANGED <<queue, generation, drainScheduled>>

(* A browser without AbortSignal.any ignores the abort of a single fetch.  *)
SingleArrives(b, i, bytes) ==
  /\ BetweenTasks /\ b = {i}
  /\ IF Current(b)
       THEN /\ retries' = [retries EXCEPT ![promise[i].key] = 0]
            /\ CacheSet(promise[i].key, promise[i].gen, bytes)
            /\ Settle(b, "resolved")
       ELSE /\ Settle(b, "rejected")
            /\ UNCHANGED <<retries, cacheVars>>
  /\ inflight' = Without(inflight, Reactions(b))
  /\ Finally(b)
  /\ UNCHANGED <<failedAt, timers, owed>>

(* onTile of a batch.                                                      *)
TileArrives(b, i, bytes) ==
  /\ BetweenTasks /\ ~ IsSingle(b) /\ ~ fetches[b].aborted
  /\ Current(b) /\ i \in b \ fetches[b].resolved
  /\ fetches' = [fetches EXCEPT ![b].resolved = @ \cup {i}]
  /\ retries' = [retries EXCEPT ![promise[i].key] = 0]
  /\ CacheSet(promise[i].key, promise[i].gen, bytes)
  /\ Settle({i}, "resolved")
  /\ inflight' = Without(inflight, Reactions({i}))
  /\ UNCHANGED <<queue, active, generation, drainScheduled, failedAt, timers, turn, owed>>

(* The stream of a batch ends; what the server did not send is retried.    *)
BatchEnds(b) ==
  /\ BetweenTasks /\ ~ IsSingle(b) /\ ~ fetches[b].aborted
  /\ IF Current(b)
       THEN LET missing == b \ fetches[b].resolved
            IN  /\ ScheduleRetry(missing)
                /\ Settle(missing, "rejected")
                /\ inflight' = Without(inflight, Reactions(missing))
       ELSE UNCHANGED <<promise, inflight, retryVars>>
  /\ Finally(b)
  /\ UNCHANGED <<cacheVars, owed>>

(* Any other error: every tile of the batch is retried, sent or not.       *)
FetchFails(b) ==
  /\ BetweenTasks
  /\ IF Current(b) THEN ScheduleRetry(b) ELSE UNCHANGED retryVars
  /\ Settle(b, "rejected")
  /\ owed' = Reactions(b)
  /\ Finally(b)
  /\ UNCHANGED <<inflight, cacheVars>>

(* AbortError: by its controller, or, for a single tile, after 30 s.       *)
FetchAborted(b) ==
  /\ BetweenTasks /\ (fetches[b].aborted \/ IsSingle(b))
  /\ Settle(b, "rejected")
  /\ owed' = Reactions(b)
  /\ Finally(b)
  /\ UNCHANGED <<inflight, retryVars, cacheVars>>

-----------------------------------------------------------------------------
(* Timers.                                                                 *)

RetryFires_AnyGeneration(t) ==
  /\ BetweenTasks
  /\ timers' = timers \ {t}
  /\ queue' = queue \cup {t.id} /\ turn' = "drain"
  /\ UNCHANGED <<promise, inflight, fetches, active, generation, drainScheduled,
                 retries, failedAt, cacheVars, owed>>

RetryFires(t) ==
  /\ BetweenTasks
  /\ timers' = timers \ {t}
  /\ IF t.gen = generation THEN queue' = queue \cup {t.id} /\ turn' = "drain"
                           ELSE UNCHANGED <<queue, turn>>
  /\ UNCHANGED <<promise, inflight, fetches, active, generation, drainScheduled,
                 retries, failedAt, cacheVars, owed>>

(* FAILED_TTL_MS goes by.                                                  *)
FailureExpires(k) ==
  /\ k \in failedAt
  /\ failedAt' = failedAt \ {k}
  /\ UNCHANGED <<promise, inflight, queue, fetches, active, generation, drainScheduled,
                 retries, timers, cacheVars, turn, owed>>

(* 45 seconds go by.                                                       *)
Ages(k) ==
  /\ k \in DOMAIN inflight /\ ~ inflight[k].old
  /\ inflight' = [inflight EXCEPT ![k].old = TRUE]
  /\ UNCHANGED <<promise, queue, fetches, active, generation, drainScheduled,
                 retryVars, cacheVars, turn, owed>>

GC_KeepsPromise ==
  LET old == {k \in DOMAIN inflight : inflight[k].old}
  IN  /\ BetweenTasks /\ old # {}
      /\ AbortAll(old)
      /\ inflight' = Without(inflight, old)
      /\ UNCHANGED <<promise, queue, active, generation, drainScheduled, retryVars,
                     cacheVars, turn, owed>>

(* The interval of startGC.                                                *)
GC ==
  LET old == {k \in DOMAIN inflight : inflight[k].old}
  IN  /\ BetweenTasks /\ old # {}
      /\ AbortAll(old)
      /\ Settle({inflight[k].id : k \in old}, "rejected")
      /\ inflight' = Without(inflight, old)
      /\ UNCHANGED <<queue, active, generation, drainScheduled, retryVars,
                     cacheVars, turn, owed>>

-----------------------------------------------------------------------------
Init ==
  /\ promise = << >> /\ inflight = [k \in {} |-> k] /\ queue = {}
  /\ fetches = [b \in {} |-> b] /\ active = 0 /\ generation = 0
  /\ drainScheduled = FALSE
  /\ retries = [k \in Keys |-> 0] /\ failedAt = {} /\ timers = {}
  /\ cache = << >> /\ currentBytes = 0
  /\ turn = "calls" /\ owed = {}

Call ==
  \/ \E k \in Keys : Touch(k) \/ Request(k)
  \/ \E visible \in SUBSET Keys : CancelStale(visible)
  \/ Invalidate

Drain ==
  \/ \E b, dropped \in SUBSET queue : Execute(b, dropped)
  \/ DrainEnds

Answer ==
  \E b \in DOMAIN fetches :
    \/ \E i \in b : \E n \in Sizes[promise[i].key] : SingleArrives(b, i, n) \/ TileArrives(b, i, n)
    \/ BatchEnds(b) \/ FetchFails(b) \/ FetchAborted(b)

Time ==
  \/ \E t \in timers : RetryFires(t)
  \/ \E k \in Keys : FailureExpires(k) \/ Ages(k)
  \/ GC

Next == Call \/ Microtasks \/ Frame \/ Drain \/ Answer \/ Time

Spec == Init /\ [][Next]_vars

(* The event loop goes on and the interval of the collector fires.  Nothing*)
(* obliges the network to answer, an animation frame to come (a hidden tab *)
(* has none), or the page to call.                                         *)
FairSpec ==
  /\ Spec
  /\ WF_vars(Microtasks) /\ WF_vars(Drain) /\ WF_vars(GC)
  /\ \A k \in Keys : WF_vars(Ages(k))

-----------------------------------------------------------------------------
Requests == 1 .. MaxRequests

Promise == [key : Keys, gen : Nat, status : {"pending", "resolved", "rejected"},
            crossed : BOOLEAN]

PromisesOK == promise \in Seq(Promise) /\ Len(promise) <= MaxRequests

InflightOK ==
  /\ DOMAIN inflight \subseteq Keys
  /\ \A k \in DOMAIN inflight :
       /\ inflight[k] \in [id : DOMAIN promise, controller : SUBSET DOMAIN promise, old : BOOLEAN]
       /\ promise[inflight[k].id].key = k

WorkOK ==
  /\ queue \subseteq DOMAIN promise
  /\ DOMAIN fetches \subseteq (SUBSET DOMAIN promise) \ {{}}
  /\ \A b \in DOMAIN fetches :
       fetches[b] \in [gen : Nat, resolved : SUBSET b, aborted : BOOLEAN]
  /\ timers \subseteq [id : DOMAIN promise, gen : Nat]

RetriesOK == retries \in [Keys -> 0 .. MAX_RETRIES - 1] /\ failedAt \subseteq Keys

CacheOK == cache \in Seq([key : Keys, gen : Nat, bytes : Nat])

(* What is queued, fetched, retried or in flight was requested, an entry of*)
(* inflight is a request for its key, and a key that is tried again has    *)
(* failed less than MAX_RETRIES times.                                     *)
TypeOK ==
  /\ PromisesOK /\ InflightOK /\ WorkOK /\ RetriesOK /\ CacheOK
  /\ active \in Int /\ generation \in Nat /\ drainScheduled \in BOOLEAN
  /\ turn \in {"calls", "drain"} /\ owed \subseteq Keys

(* The counter of fetches is their number, whatever is aborted, late or    *)
(* invalidated meanwhile, and stays within the limit: no slot leaks.       *)
SlotsExact == active = Cardinality(DOMAIN fetches) /\ active <= MAX_CONCURRENCY

(* No tile asked for before an invalidation is cached after it, although   *)
(* its fetch may end, and its retry fire, after the invalidation.          *)
CacheIsCurrent == \A n \in DOMAIN cache : cache[n].gen = generation

(* Every request settles, were the network silent and the tab hidden.      *)
EveryRequestSettles ==
  \A i \in Requests :
    i \in DOMAIN promise /\ Pending(i) /\ ~ promise[i].crossed
      ~> i \in DOMAIN promise /\ ~ Pending(i)

=============================================================================
