--------------------------- MODULE TileManager_proofs ---------------------------
(* Theorems about TileManager for any keys, sources, tiles and limits, and  *)
(* about TileLoading, the hook that calls it, for any views, zooms and sizes.*)
EXTENDS TileManager, TileLoading, SumLemmas, FiniteSetTheorems, TLAPS

(***************************************************************************)
(* What steps do to promises, fetches and the cache, as far as the proofs  *)
(* tell them apart.                                                        *)
(***************************************************************************)

(* Promises settle, and stay about the same key and generation.            *)
Settled ==
  /\ DOMAIN promise' = DOMAIN promise /\ promise' = [i \in DOMAIN promise |-> promise'[i]]
  /\ \A i \in DOMAIN promise :
       /\ promise'[i] \in Promise
       /\ promise'[i].key = promise[i].key /\ promise'[i].gen = promise[i].gen

(* Some fetches are aborted and none begins or ends.                       *)
Aborted ==
  /\ DOMAIN fetches' = DOMAIN fetches
  /\ \A b \in DOMAIN fetches :
       /\ fetches'[b] \in [gen : Nat, resolved : SUBSET b, aborted : BOOLEAN]
       /\ fetches'[b].gen = fetches[b].gen

(* The numbers of the requests.                                            *)
LEMMA DomainType ==
  ASSUME PromisesOK
  PROVE  /\ Len(promise) \in Nat /\ DOMAIN promise = 1 .. Len(promise)
         /\ IsFiniteSet(DOMAIN promise)
         /\ \A i \in DOMAIN promise : promise[i] \in Promise
         /\ \A S \in SUBSET DOMAIN promise : IsFiniteSet(S) /\ Cardinality(S) \in Nat
<1>1. Len(promise) \in Nat /\ DOMAIN promise = 1 .. Len(promise)
  BY DEF PromisesOK
<1>2. \A i \in DOMAIN promise : promise[i] \in Promise
  BY <1>1 DEF PromisesOK
<1>3. IsFiniteSet(DOMAIN promise)
  BY <1>1, FS_Interval
<1>4. \A S \in SUBSET DOMAIN promise : IsFiniteSet(S) /\ Cardinality(S) \in Nat
  BY <1>3, FS_Subset, FS_CardinalityType
<1>. QED  BY <1>1, <1>2, <1>3, <1>4

(* Settling is of that kind.                                               *)
LEMMA SettleSettles ==
  ASSUME PromisesOK, NEW S, NEW status \in {"resolved", "rejected"}, Settle(S, status)
  PROVE  Settled
<1>1. \A i \in DOMAIN promise : promise[i] \in Promise
  BY DomainType
<1>2. DOMAIN promise' = DOMAIN promise
  BY DEF Settle
<1>3. \A i \in DOMAIN promise :
        promise'[i] = [promise[i] EXCEPT !.status = status] \/ promise'[i] = promise[i]
  BY DEF Settle
<1>4. \A i \in DOMAIN promise :
        /\ promise'[i] \in Promise
        /\ promise'[i].key = promise[i].key /\ promise'[i].gen = promise[i].gen
  BY <1>1, <1>3 DEF Promise
<1>5. promise' = [i \in DOMAIN promise |-> promise'[i]]
  BY DEF Settle
<1>. QED  BY <1>2, <1>4, <1>5 DEF Settled

(* And it keeps the type of the promises.                                  *)
LEMMA SettledType ==
  ASSUME PromisesOK, Settled
  PROVE  PromisesOK'
<1>1. Len(promise) \in Nat /\ DOMAIN promise = 1 .. Len(promise)
  BY DomainType
<1>2. promise' \in Seq(Promise) /\ Len(promise') = Len(promise)
  BY <1>1 DEF Settled
<1>. QED  BY <1>2 DEF PromisesOK

(* What a settled promise's reaction deletes is a key.                     *)
LEMMA ReactionsType ==
  ASSUME PromisesOK, NEW S \in SUBSET DOMAIN promise
  PROVE  Reactions(S) \subseteq Keys
BY DomainType DEF Reactions, Promise

(* Aborting is of its kind.                                                *)
LEMMA AbortAborts ==
  ASSUME WorkOK, NEW K, AbortAll(K)
  PROVE  Aborted
BY DEF AbortAll, Aborted, WorkOK

(* A number of failures is one of those that leave another try.            *)
LEMMA ScheduleRetryType ==
  ASSUME PromisesOK, WorkOK, RetriesOK, generation \in Nat,
         NEW S \in SUBSET DOMAIN promise, ScheduleRetry(S)
  PROVE  /\ RetriesOK' /\ timers' \subseteq [id : DOMAIN promise, gen : Nat]
         /\ \A t \in timers' : t \in timers \/ (t.id \in S /\ t.gen = generation)
<1>1. \A i \in S : promise[i] \in Promise
  BY DomainType
<1>2. \A k \in Keys : retries[k] \in Nat /\ Cardinality({i \in S : promise[i].key = k}) \in Nat
  BY DomainType, TilesAssumption DEF RetriesOK
<1>3. MAX_RETRIES \in Nat \ {0}
  BY TilesAssumption
<1>4. \A k \in Keys : (retries[k] + Cardinality({i \in S : promise[i].key = k})) % MAX_RETRIES
                        \in 0 .. MAX_RETRIES - 1
  BY <1>2, <1>3
<1>5. retries' \in [Keys -> 0 .. MAX_RETRIES - 1]
  BY <1>4 DEF ScheduleRetry
<1>6. failedAt' \subseteq Keys
  BY <1>1 DEF ScheduleRetry, RetriesOK, Promise
<1>7. \A t \in timers' : t \in timers \/ \E i \in S : t = [id |-> i, gen |-> generation]
  BY DEF ScheduleRetry
<1>. QED  BY <1>5, <1>6, <1>7 DEF RetriesOK, WorkOK

(* What is left of the cache without a key is of the same kind.            *)
LEMMA ExceptType ==
  ASSUME NEW E, cache \in Seq(E), NEW k
  PROVE  Except(k) \in Seq(E) /\ (IsCached(k) => cache[At(k)] \in E)
<1>1. CASE IsCached(k)
  <2>1. At(k) \in 1 .. Len(cache) /\ Len(cache) \in Nat
    BY <1>1 DEF IsCached, At
  <2>2. SubSeq(cache, 1, At(k) - 1) \in Seq(E)
    BY <2>1
  <2>3. SubSeq(cache, At(k) + 1, Len(cache)) \in Seq(E)
    BY <2>1
  <2>4. cache[At(k)] \in E
    BY <2>1
  <2>. QED  BY <1>1, <2>2, <2>3, <2>4 DEF Except
<1>2. CASE ~ IsCached(k)
  BY <1>2 DEF Except
<1>. QED  BY <1>1, <1>2

(* So is the cache after a tile of that kind is set.                       *)
LEMMA CacheSetType ==
  ASSUME NEW E, cache \in Seq(E), NEW k, NEW gen, NEW bytes,
         [key |-> k, gen |-> gen, bytes |-> bytes] \in E, CacheSet(k, gen, bytes)
  PROVE  cache' \in Seq(E)
<1>. DEFINE total == currentBytes - (IF IsCached(k) THEN cache[At(k)].bytes ELSE 0)
            kept == Except(k)
            dropped == {n \in DOMAIN kept : \A m \in 0 .. n - 1 :
                          total - BytesIn(SubSeq(kept, 1, m)) + bytes > MaxCacheBytes}
            new == [key |-> k, gen |-> gen, bytes |-> bytes]
<1>1. kept \in Seq(E)
  BY ExceptType
<1>2. cache' = Append(SubSeq(kept, Cardinality(dropped) + 1, Len(kept)), new)
  BY DEF CacheSet
<1>3. dropped \subseteq DOMAIN kept
  OBVIOUS
<1>. HIDE DEF kept, dropped, new
<1>4. Cardinality(dropped) \in Nat
  <2>1. IsFiniteSet(1 .. Len(kept)) /\ DOMAIN kept = 1 .. Len(kept)
    BY <1>1, FS_Interval
  <2>. QED  BY <1>3, <2>1, FS_Subset, FS_CardinalityType
<1>5. SubSeq(kept, Cardinality(dropped) + 1, Len(kept)) \in Seq(E)
  BY <1>1, <1>4
<1>. QED  BY <1>2, <1>5 DEF new

(***************************************************************************)
(* Type correctness.                                                       *)
(***************************************************************************)

(* Entries may leave inflight while promises settle.                       *)
LEMMA LeaveType ==
  ASSUME PromisesOK, InflightOK, Settled, NEW S, inflight' = Without(inflight, S)
  PROVE  InflightOK'
BY DEF InflightOK, Without, Settled

(* The initial state is well typed.                                        *)
LEMMA InitType == Init => TypeOK
<1>. SUFFICES ASSUME Init PROVE TypeOK
  OBVIOUS
<1>0. active \in Int /\ generation \in Nat /\ turn \in {"calls", "drain"} /\ owed \subseteq Keys
  BY DEF Init
<1>4. drainScheduled \in BOOLEAN
  BY Zenon DEF Init
<1>1. PromisesOK /\ CacheOK
  BY TilesAssumption DEF Init, PromisesOK, CacheOK
<1>2. InflightOK /\ WorkOK
  BY DEF Init, InflightOK, WorkOK
<1>3. RetriesOK
  BY TilesAssumption DEF Init, RetriesOK
<1>. QED  BY Zenon, <1>0, <1>1, <1>2, <1>3, <1>4 DEF TypeOK

(* Promises that do not change settle, as far as the proofs tell.          *)
LEMMA SameSettled ==
  ASSUME PromisesOK, promise' = promise
  PROVE  Settled
BY DomainType DEF Settled, PromisesOK

(* The calls keep the types.                                               *)
LEMMA CallType ==
  ASSUME TypeOK, Call
  PROVE  TypeOK'
<1>. USE DEF TypeOK
<1>1. ASSUME NEW k \in Keys, Touch(k) PROVE TypeOK'
  <2>1. CacheOK'
    <3>. DEFINE E == [key : Keys, gen : Nat, bytes : Nat]
    <3>1. IsCached(k) /\ cache' = Append(Except(k), cache[At(k)]) /\ cache \in Seq(E)
      BY <1>1 DEF Touch, CacheOK
    <3>. HIDE DEF E
    <3>2. Except(k) \in Seq(E) /\ cache[At(k)] \in E
      BY <3>1, ExceptType
    <3>3. cache' \in Seq(E)
      BY <3>1, <3>2
    <3>. QED  BY <3>3 DEF CacheOK, E
  <2>. QED  BY <1>1, <2>1 DEF Touch, PromisesOK, InflightOK, WorkOK, RetriesOK, retryVars
<1>2. ASSUME NEW k \in Keys, Request(k) PROVE TypeOK'
  <2>. DEFINE i == Len(promise) + 1
              p == [key |-> k, gen |-> generation, status |-> "pending",
                    crossed |-> k \in owed \/ \E j \in DOMAIN promise : promise[j].key = k /\ Pending(j)]
  <2>1. p \in Promise
    BY DEF Promise
  <2>2. promise' = Append(promise, p) /\ i <= MaxRequests
    BY <1>2 DEF Request
  <2>. HIDE DEF p
  <2>3. /\ PromisesOK' /\ DOMAIN promise' = 1 .. i /\ DOMAIN promise = 1 .. Len(promise)
        /\ \A j \in DOMAIN promise : promise'[j] = promise[j]
        /\ promise'[i] = p /\ i \in Nat
    BY <2>1, <2>2 DEF PromisesOK
  <2>4. p.key = k
    BY DEF p
  <2>5. InflightOK'
    BY <1>2, <2>3, <2>4 DEF Request, InflightOK
  <2>6. WorkOK'
    BY <1>2, <2>3 DEF Request, WorkOK, retryVars
  <2>. QED  BY <1>2, <2>3, <2>5, <2>6 DEF Request, RetriesOK, CacheOK, retryVars, cacheVars
<1>3. ASSUME NEW visible \in SUBSET Keys, CancelStale(visible) PROVE TypeOK'
  <2>. DEFINE stale == DOMAIN inflight \ visible
              ids == {inflight[k].id : k \in stale}
  <2>1. ids \in SUBSET DOMAIN promise
    BY DEF InflightOK
  <2>2. Settle(ids, "rejected") /\ owed' = owed \cup Reactions(ids)
    BY <1>3 DEF CancelStale
  <2>3. AbortAll(stale) /\ inflight' = Without(inflight, stale)
    BY <1>3 DEF CancelStale
  <2>. HIDE DEF stale, ids
  <2>4. Settled
    BY <2>2, SettleSettles
  <2>5. PromisesOK' /\ InflightOK' /\ owed' \subseteq Keys
    BY <2>1, <2>2, <2>3, <2>4, SettledType, LeaveType, ReactionsType
  <2>6. Aborted
    BY <2>3, AbortAborts
  <2>7. WorkOK'
    BY <1>3, <2>4, <2>6 DEF CancelStale, WorkOK, Aborted, Settled, retryVars
  <2>. QED  BY <1>3, <2>5, <2>7 DEF CancelStale, RetriesOK, CacheOK, retryVars, cacheVars
<1>4. CASE Invalidate
  <2>. DEFINE ids == queue \cup {inflight[k].id : k \in DOMAIN inflight}
  <2>1. ids \in SUBSET DOMAIN promise
    BY DEF InflightOK, WorkOK
  <2>2. Settle(ids, "rejected") /\ owed' = owed \cup Reactions(ids)
    BY <1>4 DEF Invalidate
  <2>3. AbortAll(DOMAIN inflight) /\ inflight' = Without(inflight, DOMAIN inflight)
    BY <1>4 DEF Invalidate
  <2>. HIDE DEF ids
  <2>4. Settled
    BY <2>2, SettleSettles
  <2>5. PromisesOK' /\ InflightOK' /\ owed' \subseteq Keys
    BY <2>1, <2>2, <2>3, <2>4, SettledType, LeaveType, ReactionsType
  <2>6. Aborted
    BY <2>3, AbortAborts
  <2>7. WorkOK'
    BY <1>4, <2>4, <2>6 DEF Invalidate, WorkOK, Aborted, Settled
  <2>8. RetriesOK' /\ CacheOK'
    BY <1>4, TilesAssumption DEF Invalidate, CacheClear, RetriesOK, CacheOK
  <2>. QED  BY <1>4, <2>5, <2>7, <2>8 DEF Invalidate
<1>. QED  BY <1>1, <1>2, <1>3, <1>4 DEF Call

(* So do the steps of the event loop.                                      *)
LEMMA LoopType ==
  ASSUME TypeOK, Microtasks \/ Frame \/ Drain
  PROVE  TypeOK'
<1>. USE DEF TypeOK
<1>0. promise' = promise => Settled
  BY SameSettled
<1>1. CASE Microtasks
  <2>1. InflightOK'
    BY <1>0, <1>1, LeaveType DEF Microtasks
  <2>. QED
    BY <1>1, <2>1 DEF Microtasks, PromisesOK, WorkOK, RetriesOK, CacheOK, retryVars, cacheVars
<1>2. CASE Frame
  BY <1>2 DEF Frame, PromisesOK, InflightOK, WorkOK, RetriesOK, CacheOK, retryVars, cacheVars
<1>3. ASSUME NEW b \in SUBSET queue, NEW dropped \in SUBSET queue, Execute(b, dropped)
      PROVE  TypeOK'
  <2>1. b # {} /\ b \subseteq DOMAIN promise
    BY <1>3 DEF Execute, IsBatch, WorkOK
  <2>2. WorkOK'
    BY <1>3, <2>1 DEF Execute, WorkOK, retryVars
  <2>3. InflightOK'
    BY <1>3, <2>1 DEF Execute, InflightOK
  <2>. QED
    BY <1>3, <2>2, <2>3 DEF Execute, PromisesOK, RetriesOK, CacheOK, retryVars, cacheVars
<1>4. CASE DrainEnds
  <2>1. InflightOK'
    BY <1>0, <1>4, LeaveType DEF DrainEnds
  <2>. QED
    BY <1>4, <2>1 DEF DrainEnds, PromisesOK, WorkOK, RetriesOK, CacheOK, retryVars, cacheVars
<1>. QED  BY <1>1, <1>2, <1>3, <1>4 DEF Drain

(* What an answer leaves of the fetches is well typed.                     *)
LEMMA FinallyType ==
  ASSUME TypeOK, NEW b \in DOMAIN fetches, Finally(b), Settled,
         timers' \subseteq [id : DOMAIN promise, gen : Nat]
  PROVE  /\ WorkOK' /\ active' \in Int /\ turn' \in {"calls", "drain"}
         /\ generation' \in Nat /\ drainScheduled' \in BOOLEAN
BY DEF TypeOK, WorkOK, Finally, Without, Settled

(* So do the answers.                                                      *)
LEMMA AnswerType ==
  ASSUME TypeOK, Answer
  PROVE  TypeOK'
<1>1. PICK b \in DOMAIN fetches :
        \/ \E i \in b : \E n \in Sizes[promise[i].key] : SingleArrives(b, i, n) \/ TileArrives(b, i, n)
        \/ BatchEnds(b) \/ FetchFails(b) \/ FetchAborted(b)
  BY DEF Answer
<1>. DEFINE E == [key : Keys, gen : Nat, bytes : Nat]
<1>2. /\ PromisesOK /\ InflightOK /\ WorkOK /\ RetriesOK /\ CacheOK /\ generation \in Nat
      /\ owed \subseteq Keys /\ active \in Int
      /\ b \in SUBSET DOMAIN promise /\ cache \in Seq(E)
      /\ \A S \in SUBSET DOMAIN promise : Reactions(S) \subseteq Keys
      /\ timers \subseteq [id : DOMAIN promise, gen : Nat]
  BY ReactionsType DEF TypeOK, WorkOK, CacheOK
<1>3. ASSUME NEW i \in b, NEW n \in Sizes[promise[i].key]
      PROVE  /\ i \in DOMAIN promise /\ promise[i].key \in Keys /\ promise[i].gen \in Nat /\ n \in Nat
             /\ [key |-> promise[i].key, gen |-> promise[i].gen, bytes |-> n] \in E
  <2>1. i \in DOMAIN promise /\ promise[i].key \in Keys /\ promise[i].gen \in Nat
    BY <1>2, DomainType DEF Promise
  <2>. QED  BY <2>1, TilesAssumption
<1>. HIDE DEF E
<1>4. ASSUME NEW i \in b, NEW n \in Sizes[promise[i].key], SingleArrives(b, i, n) PROVE TypeOK'
  <2>1. Settled
    BY <1>2, <1>4, SettleSettles DEF SingleArrives
  <2>2. PromisesOK' /\ InflightOK'
    BY <1>2, <1>4, <2>1, SettledType, LeaveType DEF SingleArrives
  <2>3. cache' \in Seq(E)
    BY <1>2, <1>3, <1>4, CacheSetType DEF SingleArrives, cacheVars
  <2>4. RetriesOK'
    BY <1>2, <1>4, TilesAssumption DEF SingleArrives, RetriesOK
  <2>5. Finally(b) /\ timers' = timers /\ owed' = owed
    BY <1>4 DEF SingleArrives
  <2>6. /\ WorkOK' /\ active' \in Int /\ turn' \in {"calls", "drain"}
        /\ generation' \in Nat /\ drainScheduled' \in BOOLEAN
    BY <1>2, <2>1, <2>5, FinallyType
  <2>. QED  BY <1>2, <2>2, <2>3, <2>4, <2>5, <2>6 DEF TypeOK, CacheOK, E
<1>5. ASSUME NEW i \in b, NEW n \in Sizes[promise[i].key], TileArrives(b, i, n) PROVE TypeOK'
  <2>1. Settled
    BY <1>2, <1>5, SettleSettles DEF TileArrives
  <2>2. PromisesOK' /\ InflightOK'
    BY <1>2, <1>5, <2>1, SettledType, LeaveType DEF TileArrives
  <2>3. cache' \in Seq(E)
    BY <1>2, <1>3, <1>5, CacheSetType DEF TileArrives
  <2>4. RetriesOK'
    <3>1. promise[i].key \in Keys
      BY <1>3
    <3>2. retries' = [retries EXCEPT ![promise[i].key] = 0] /\ failedAt' = failedAt
      BY <1>5 DEF TileArrives
    <3>. QED  BY <1>2, <3>1, <3>2, TilesAssumption DEF RetriesOK
  <2>5. WorkOK'
    BY <1>2, <1>5, <2>1 DEF TileArrives, WorkOK, Settled
  <2>. QED  BY <1>2, <1>5, <2>2, <2>3, <2>4, <2>5 DEF TileArrives, TypeOK, CacheOK, E
<1>6. CASE BatchEnds(b)
  <2>. DEFINE missing == b \ fetches[b].resolved
  <2>1. missing \in SUBSET DOMAIN promise
    BY <1>2
  <2>2. Current(b) => /\ ScheduleRetry(missing) /\ Settle(missing, "rejected")
                      /\ inflight' = Without(inflight, Reactions(missing))
    BY <1>6 DEF BatchEnds
  <2>3. ~ Current(b) => UNCHANGED <<promise, inflight, retryVars>>
    BY <1>6 DEF BatchEnds
  <2>. HIDE DEF missing
  <2>4. Settled
    BY <1>2, <2>2, <2>3, SettleSettles, SameSettled
  <2>5. PromisesOK' /\ InflightOK'
    <3>1. CASE Current(b)
      BY <1>2, <2>2, <2>4, <3>1, SettledType, LeaveType
    <3>2. CASE ~ Current(b)
      BY <1>2, <2>3, <3>2 DEF PromisesOK, InflightOK
    <3>. QED  BY <3>1, <3>2
  <2>6. RetriesOK' /\ timers' \subseteq [id : DOMAIN promise, gen : Nat]
    <3>1. CASE Current(b)
      BY <1>2, <2>1, <2>2, <3>1, ScheduleRetryType
    <3>2. CASE ~ Current(b)
      BY <1>2, <2>3, <3>2 DEF RetriesOK, retryVars
    <3>. QED  BY <3>1, <3>2
  <2>7. Finally(b) /\ cache' = cache /\ owed' = owed
    BY <1>6 DEF BatchEnds, cacheVars
  <2>8. /\ WorkOK' /\ active' \in Int /\ turn' \in {"calls", "drain"}
        /\ generation' \in Nat /\ drainScheduled' \in BOOLEAN
    BY <2>4, <2>6, <2>7, FinallyType
  <2>. QED  BY <1>2, <2>5, <2>6, <2>7, <2>8 DEF TypeOK, CacheOK
<1>7. ASSUME FetchFails(b) \/ FetchAborted(b) PROVE TypeOK'
  <2>1. Settle(b, "rejected") /\ owed' = Reactions(b) /\ Finally(b)
    BY <1>7 DEF FetchFails, FetchAborted
  <2>2. inflight' = inflight /\ cache' = cache
    BY <1>7 DEF FetchFails, FetchAborted, cacheVars
  <2>3. ScheduleRetry(b) \/ UNCHANGED retryVars
    BY <1>7 DEF FetchFails, FetchAborted
  <2>4. Settled
    BY <1>2, <2>1, SettleSettles
  <2>5. PromisesOK' /\ InflightOK'
    BY <1>2, <2>2, <2>4, SettledType DEF InflightOK, Settled
  <2>6. RetriesOK' /\ timers' \subseteq [id : DOMAIN promise, gen : Nat]
    <3>1. CASE ScheduleRetry(b)
      BY <1>2, <3>1, ScheduleRetryType
    <3>2. CASE UNCHANGED retryVars
      BY <1>2, <3>2 DEF RetriesOK, retryVars
    <3>. QED  BY <2>3, <3>1, <3>2
  <2>7. /\ WorkOK' /\ active' \in Int /\ turn' \in {"calls", "drain"}
        /\ generation' \in Nat /\ drainScheduled' \in BOOLEAN
    BY <2>1, <2>4, <2>6, FinallyType
  <2>8. owed' \subseteq Keys
    BY <1>2, <2>1
  <2>. QED  BY <1>2, <2>2, <2>5, <2>6, <2>7, <2>8 DEF TypeOK, CacheOK
<1>. QED  BY <1>1, <1>4, <1>5, <1>6, <1>7

(* And what time brings.                                                   *)
LEMMA TimeType ==
  ASSUME TypeOK, Time
  PROVE  TypeOK'
<1>. USE DEF TypeOK
<1>1. ASSUME NEW t \in timers, RetryFires(t) PROVE TypeOK'
  <2>1. WorkOK'
    BY <1>1 DEF RetryFires, WorkOK
  <2>2. turn' \in {"calls", "drain"}
    BY <1>1 DEF RetryFires
  <2>. QED
    BY <1>1, <2>1, <2>2 DEF RetryFires, PromisesOK, InflightOK, RetriesOK, CacheOK, cacheVars
<1>2. ASSUME NEW k \in Keys, FailureExpires(k) PROVE TypeOK'
  BY <1>2 DEF FailureExpires, PromisesOK, InflightOK, WorkOK, RetriesOK, CacheOK, cacheVars
<1>3. ASSUME NEW k \in Keys, Ages(k) PROVE TypeOK'
  <2>1. /\ DOMAIN inflight' = DOMAIN inflight /\ promise' = promise
        /\ \A x \in DOMAIN inflight : inflight'[x] \in {inflight[x], [inflight[x] EXCEPT !.old = TRUE]}
    BY <1>3 DEF Ages
  <2>2. \A x \in DOMAIN inflight :
          /\ inflight'[x] \in [id : DOMAIN promise, controller : SUBSET DOMAIN promise, old : BOOLEAN]
          /\ inflight'[x].id = inflight[x].id
    <3>. SUFFICES ASSUME NEW x \in DOMAIN inflight
                  PROVE  /\ inflight'[x] \in [id : DOMAIN promise, controller : SUBSET DOMAIN promise, old : BOOLEAN]
                         /\ inflight'[x].id = inflight[x].id
      OBVIOUS
    <3>1. inflight[x] \in [id : DOMAIN promise, controller : SUBSET DOMAIN promise, old : BOOLEAN]
      BY DEF InflightOK
    <3>2. inflight'[x] = inflight[x] \/ inflight'[x] = [inflight[x] EXCEPT !.old = TRUE]
      BY <2>1
    <3>. QED  BY <3>1, <3>2
  <2>3. InflightOK'
    BY <2>1, <2>2 DEF InflightOK
  <2>. QED
    BY <1>3, <2>3 DEF Ages, PromisesOK, WorkOK, RetriesOK, CacheOK, cacheVars, retryVars
<1>4. CASE GC
  <2>. DEFINE aged == {k \in DOMAIN inflight : inflight[k].old}
              ids == {inflight[k].id : k \in aged}
  <2>1. Settle(ids, "rejected") /\ AbortAll(aged) /\ inflight' = Without(inflight, aged)
    BY <1>4 DEF GC
  <2>. HIDE DEF aged, ids
  <2>2. Settled /\ Aborted
    BY <2>1, SettleSettles, AbortAborts
  <2>3. PromisesOK' /\ InflightOK'
    BY <2>1, <2>2, SettledType, LeaveType
  <2>4. WorkOK'
    BY <1>4, <2>2 DEF GC, WorkOK, Aborted, Settled, retryVars
  <2>. QED  BY <1>4, <2>3, <2>4 DEF GC, RetriesOK, CacheOK, cacheVars, retryVars
<1>. QED  BY <1>1, <1>2, <1>3, <1>4 DEF Time

(* Every step keeps the types.                                             *)
LEMMA NextType ==
  ASSUME TypeOK, [Next]_vars
  PROVE  TypeOK'
<1>1. CASE Next
  BY <1>1, CallType, LoopType, AnswerType, TimeType DEF Next
<1>2. CASE UNCHANGED vars
  BY <1>2 DEF vars, TypeOK, PromisesOK, InflightOK, WorkOK, RetriesOK, CacheOK, retryVars, cacheVars
<1>. QED  BY <1>1, <1>2

(* What is queued, fetched, retried or in flight was requested, for its    *)
(* key, and the counts of failures stay below MAX_RETRIES.                 *)
THEOREM TilesTypeOK == Spec => []TypeOK
<1>. QED  BY InitType, NextType, PTL DEF Spec

(***************************************************************************)
(* A request is queued, or in one fetch, or has one timer, and what was    *)
(* asked for before an invalidation can be told from what came after it.   *)
(***************************************************************************)

Apart ==
  /\ \A b \in DOMAIN fetches : b \cap queue = {}
  /\ \A b, c \in DOMAIN fetches : b = c \/ b \cap c = {}
  /\ \A t \in timers : t.id \notin queue /\ \A b \in DOMAIN fetches : t.id \notin b
  /\ \A t, u \in timers : t.id = u.id => t = u

Generations ==
  /\ \A i \in queue : promise[i].gen = generation
  /\ \A b \in DOMAIN fetches : \A i \in b : promise[i].gen = fetches[b].gen
  /\ \A t \in timers : promise[t.id].gen = t.gen

CacheNow == cache \in Seq([key : Keys, gen : {generation}, bytes : Nat])

Inv == TypeOK /\ Apart /\ Generations /\ CacheNow /\ SlotsExact

(* What most steps do: nothing is queued, no fetch begins, and a timer is  *)
(* set only for a request whose fetch has ended.                           *)
Calm ==
  /\ Settled /\ generation' = generation
  /\ queue' \subseteq queue
  /\ DOMAIN fetches' \subseteq DOMAIN fetches
  /\ \A b \in DOMAIN fetches' : fetches'[b].gen = fetches[b].gen
  /\ \A t \in timers' :
       \/ t \in timers
       \/ \E b \in DOMAIN fetches \ DOMAIN fetches' :
            t.id \in b /\ t.gen = generation /\ fetches[b].gen = generation

LEMMA CalmKeeps ==
  ASSUME TypeOK, TypeOK', Apart, Generations, Calm
  PROVE  Apart' /\ Generations'
<1>1. /\ queue \subseteq DOMAIN promise /\ timers \subseteq [id : DOMAIN promise, gen : Nat]
      /\ timers' \subseteq [id : DOMAIN promise, gen : Nat]
      /\ \A b \in DOMAIN fetches : b \subseteq DOMAIN promise
  BY DEF TypeOK, WorkOK, Calm, Settled
<1>2. \A b \in DOMAIN fetches' : b \cap queue' = {}
  BY DEF Calm, Apart
<1>3. \A b, c \in DOMAIN fetches' : b = c \/ b \cap c = {}
  BY DEF Calm, Apart
<1>4. \A t \in timers' : t.id \notin queue' /\ \A b \in DOMAIN fetches' : t.id \notin b
  BY DEF Calm, Apart
<1>5. \A t, u \in timers' : t.id = u.id => t = u
  BY <1>1 DEF Calm, Apart
<1>6. \A i \in queue' : promise'[i].gen = generation'
  BY <1>1 DEF Calm, Generations, Settled
<1>7. \A b \in DOMAIN fetches' : \A i \in b : promise'[i].gen = fetches'[b].gen
  BY <1>1 DEF Calm, Generations, Settled
<1>8. \A t \in timers' : promise'[t.id].gen = t.gen
  BY <1>1 DEF Calm, Generations, Settled
<1>. QED  BY <1>2, <1>3, <1>4, <1>5, <1>6, <1>7, <1>8 DEF Apart, Generations

(* The end of a fetch frees its slot and no other.                         *)
LEMMA FinallySlots ==
  ASSUME TypeOK, SlotsExact, NEW b \in DOMAIN fetches, Finally(b)
  PROVE  SlotsExact'
<1>1. IsFiniteSet(DOMAIN fetches)
  <2>1. IsFiniteSet(SUBSET DOMAIN promise) /\ DOMAIN fetches \subseteq SUBSET DOMAIN promise
    BY DomainType, FS_SUBSET DEF TypeOK, WorkOK
  <2>. QED  BY <2>1, FS_Subset
<1>2. DOMAIN fetches' = DOMAIN fetches \ {b}
  BY DEF Finally, Without
<1>3. Cardinality(DOMAIN fetches') = Cardinality(DOMAIN fetches) - 1
  BY <1>1, <1>2, FS_RemoveElement
<1>4. active' = active - 1 /\ active \in Int /\ MAX_CONCURRENCY \in Nat
  BY TilesAssumption DEF Finally, TypeOK
<1>. QED  BY <1>3, <1>4 DEF SlotsExact

(* The cache of one generation stays so when a tile of it is set.          *)
LEMMA SetNow ==
  ASSUME Inv, NEW k \in Keys, NEW n \in Nat, generation' = generation,
         CacheSet(k, generation, n)
  PROVE  CacheNow'
<1>. DEFINE E == [key : Keys, gen : {generation}, bytes : Nat]
<1>1. cache \in Seq(E) /\ [key |-> k, gen |-> generation, bytes |-> n] \in E
  BY DEF Inv, CacheNow
<1>. HIDE DEF E
<1>2. cache' \in Seq(E)
  BY <1>1, CacheSetType
<1>. QED  BY <1>2 DEF CacheNow, E

(* The calls.                                                              *)
LEMMA CallInv ==
  ASSUME Inv, TypeOK', Call
  PROVE  Inv'
<1>0. TypeOK /\ Apart /\ Generations /\ CacheNow /\ SlotsExact /\ PromisesOK /\ WorkOK
  BY DEF Inv, TypeOK
<1>1. ASSUME NEW k \in Keys, Touch(k) PROVE Inv'
  <2>1. Calm
    BY <1>0, <1>1, SameSettled DEF Touch, Calm, retryVars
  <2>2. Apart' /\ Generations'
    BY <1>0, <2>1, CalmKeeps
  <2>3. SlotsExact'
    BY <1>0, <1>1 DEF Touch, SlotsExact
  <2>4. CacheNow'
    <3>. DEFINE E == [key : Keys, gen : {generation}, bytes : Nat]
    <3>1. IsCached(k) /\ cache' = Append(Except(k), cache[At(k)]) /\ cache \in Seq(E)
          /\ generation' = generation
      BY <1>0, <1>1 DEF Touch, CacheNow
    <3>. HIDE DEF E
    <3>2. cache' \in Seq(E)
      BY <3>1, ExceptType
    <3>. QED  BY <3>1, <3>2 DEF CacheNow, E
  <2>. QED  BY <2>2, <2>3, <2>4 DEF Inv
<1>2. ASSUME NEW k \in Keys, Request(k) PROVE Inv'
  <2>. DEFINE i == Len(promise) + 1
  <2>1. /\ DOMAIN promise = 1 .. Len(promise) /\ Len(promise) \in Nat
        /\ \A j \in DOMAIN promise : promise'[j] = promise[j]
        /\ promise'[i].gen = generation /\ i \notin DOMAIN promise
    BY <1>0, <1>2, DomainType DEF Request, PromisesOK
  <2>2. queue' = queue \cup {i} /\ generation' = generation
        /\ fetches' = fetches /\ timers' = timers /\ active' = active /\ cache' = cache
    BY <1>2 DEF Request, retryVars, cacheVars
  <2>. HIDE DEF i
  <2>3. Apart'
    BY <1>0, <2>1, <2>2 DEF Apart, WorkOK
  <2>4. Generations'
    BY <1>0, <2>1, <2>2 DEF Generations, WorkOK
  <2>. QED  BY <1>0, <2>2, <2>3, <2>4 DEF Inv, SlotsExact, CacheNow
<1>3. ASSUME NEW visible \in SUBSET Keys, CancelStale(visible) PROVE Inv'
  <2>1. Settled /\ Aborted
    BY <1>0, <1>3, SettleSettles, AbortAborts DEF CancelStale
  <2>2. Calm
    BY <1>3, <2>1 DEF CancelStale, Calm, Aborted, retryVars
  <2>3. Apart' /\ Generations'
    BY <1>0, <2>2, CalmKeeps
  <2>. QED  BY <1>0, <1>3, <2>1, <2>3 DEF CancelStale, Inv, SlotsExact, CacheNow, cacheVars, Aborted
<1>4. CASE Invalidate
  <2>1. Settled /\ Aborted
    BY <1>0, <1>4, SettleSettles, AbortAborts DEF Invalidate
  <2>2. queue' = {} /\ timers' = timers /\ active' = active /\ cache' = << >>
    BY <1>4 DEF Invalidate, CacheClear
  <2>3. Apart'
    BY <1>0, <2>1, <2>2 DEF Apart, Aborted
  <2>4. Generations'
    BY <1>0, <2>1, <2>2 DEF Generations, Aborted, Settled, WorkOK
  <2>5. CacheNow' /\ SlotsExact'
    BY <1>0, <2>1, <2>2 DEF CacheNow, SlotsExact, Aborted
  <2>. QED  BY <2>3, <2>4, <2>5 DEF Inv
<1>. QED  BY <1>1, <1>2, <1>3, <1>4 DEF Call

(* The event loop: a fetch that begins takes a slot and its requests from  *)
(* the queue.                                                              *)
LEMMA LoopInv ==
  ASSUME Inv, TypeOK', Microtasks \/ Frame \/ Drain
  PROVE  Inv'
<1>0. TypeOK /\ Apart /\ Generations /\ CacheNow /\ SlotsExact /\ PromisesOK /\ WorkOK
  BY DEF Inv, TypeOK
<1>1. ASSUME Microtasks \/ Frame \/ DrainEnds PROVE Inv'
  <2>1. /\ promise' = promise /\ fetches' = fetches /\ timers' = timers
        /\ queue' \subseteq queue /\ generation' = generation
        /\ active' = active /\ cache' = cache
    BY <1>1 DEF Microtasks, Frame, DrainEnds, retryVars, cacheVars
  <2>2. Calm
    BY <1>0, <2>1, SameSettled DEF Calm
  <2>3. Apart' /\ Generations'
    BY <1>0, <2>2, CalmKeeps
  <2>. QED  BY <1>0, <2>1, <2>3 DEF Inv, SlotsExact, CacheNow
<1>2. ASSUME NEW b \in SUBSET queue, NEW dropped \in SUBSET queue, Execute(b, dropped)
      PROVE  Inv'
  <2>1. /\ b # {} /\ b \subseteq queue /\ queue' = queue \ (b \cup dropped)
        /\ DOMAIN fetches' = DOMAIN fetches \cup {b} /\ fetches'[b].gen = generation
        /\ \A c \in DOMAIN fetches : c # b => fetches'[c] = fetches[c]
        /\ promise' = promise /\ generation' = generation /\ timers' = timers /\ cache' = cache
        /\ active' = active + 1 /\ active < MAX_CONCURRENCY
    BY <1>2 DEF Execute, IsBatch, retryVars, cacheVars
  <2>2. b \notin DOMAIN fetches
    BY <1>0, <2>1 DEF Apart
  <2>3. Apart'
    BY <1>0, <2>1 DEF Apart
  <2>4. Generations'
    BY <1>0, <2>1, <2>2 DEF Generations
  <2>5. SlotsExact'
    <3>1. IsFiniteSet(SUBSET DOMAIN promise) /\ DOMAIN fetches \subseteq SUBSET DOMAIN promise
      BY <1>0, DomainType, FS_SUBSET DEF WorkOK
    <3>2. Cardinality(DOMAIN fetches') = Cardinality(DOMAIN fetches) + 1
      BY <2>1, <2>2, <3>1, FS_Subset, FS_AddElement
    <3>3. active \in Int /\ MAX_CONCURRENCY \in Nat
      BY <1>0, TilesAssumption DEF TypeOK
    <3>. QED  BY <1>0, <2>1, <3>2, <3>3 DEF SlotsExact
  <2>. QED  BY <1>0, <2>1, <2>3, <2>4, <2>5 DEF Inv, CacheNow
<1>. QED  BY <1>1, <1>2 DEF Drain

(* The end of a fetch, with the retries it asks for, is calm.              *)
LEMMA FinallyCalm ==
  ASSUME Inv, NEW b \in DOMAIN fetches, Finally(b), Settled,
         \A t \in timers' : t \in timers \/ (t.id \in b /\ t.gen = generation /\ Current(b))
  PROVE  Calm
BY DEF Calm, Finally, Without, Current

(* The answers.                                                            *)
LEMMA AnswerInv ==
  ASSUME Inv, TypeOK', Answer
  PROVE  Inv'
<1>0. /\ TypeOK /\ Apart /\ Generations /\ CacheNow /\ SlotsExact
      /\ PromisesOK /\ WorkOK /\ RetriesOK /\ generation \in Nat
  BY DEF Inv, TypeOK
<1>1. PICK b \in DOMAIN fetches :
        \/ \E i \in b : \E n \in Sizes[promise[i].key] : SingleArrives(b, i, n) \/ TileArrives(b, i, n)
        \/ BatchEnds(b) \/ FetchFails(b) \/ FetchAborted(b)
  BY DEF Answer
<1>2. b \in SUBSET DOMAIN promise
  BY <1>0 DEF WorkOK
<1>3. ASSUME NEW i \in b, NEW n \in Sizes[promise[i].key]
      PROVE  promise[i].key \in Keys /\ n \in Nat
  <2>1. promise[i].key \in Keys
    BY <1>0, <1>2, DomainType DEF Promise
  <2>. QED  BY <2>1, TilesAssumption
<1>4. ASSUME NEW i \in b, Current(b) PROVE promise[i].gen = generation
  BY <1>0, <1>4 DEF Generations, Current
<1>5. ASSUME NEW i \in b, NEW n \in Sizes[promise[i].key], SingleArrives(b, i, n) PROVE Inv'
  <2>1. Settled
    BY <1>0, <1>5, SettleSettles DEF SingleArrives
  <2>2. Finally(b) /\ timers' = timers /\ generation' = generation
    BY <1>5 DEF SingleArrives, Finally
  <2>3. Apart' /\ Generations' /\ SlotsExact'
    BY <1>0, <2>1, <2>2, FinallyCalm, CalmKeeps, FinallySlots
  <2>4. CacheNow'
    <3>1. CASE Current(b)
      BY <1>3, <1>4, <1>5, <2>2, <3>1, SetNow DEF SingleArrives
    <3>2. CASE ~ Current(b)
      BY <1>0, <1>5, <2>2, <3>2 DEF SingleArrives, CacheNow, cacheVars
    <3>. QED  BY <3>1, <3>2
  <2>. QED  BY <2>3, <2>4 DEF Inv
<1>6. ASSUME NEW i \in b, NEW n \in Sizes[promise[i].key], TileArrives(b, i, n) PROVE Inv'
  <2>1. Settled
    BY <1>0, <1>6, SettleSettles DEF TileArrives
  <2>2. /\ timers' = timers /\ generation' = generation /\ queue' = queue /\ active' = active
        /\ DOMAIN fetches' = DOMAIN fetches
        /\ \A c \in DOMAIN fetches : fetches'[c].gen = fetches[c].gen
    BY <1>0, <1>6 DEF TileArrives, WorkOK
  <2>3. Calm
    BY <2>1, <2>2 DEF Calm
  <2>4. Apart' /\ Generations'
    BY <1>0, <2>3, CalmKeeps
  <2>5. CacheNow'
    BY <1>3, <1>4, <1>6, <2>2, SetNow DEF TileArrives
  <2>. QED  BY <1>0, <2>2, <2>4, <2>5 DEF Inv, SlotsExact
<1>7. ASSUME BatchEnds(b) \/ FetchFails(b) \/ FetchAborted(b) PROVE Inv'
  <2>1. Finally(b) /\ cache' = cache /\ generation' = generation
    BY <1>7 DEF BatchEnds, FetchFails, FetchAborted, Finally, cacheVars
  <2>2. Settled
    BY <1>0, <1>7, SettleSettles, SameSettled DEF BatchEnds, FetchFails, FetchAborted
  <2>3. \A t \in timers' : t \in timers \/ (t.id \in b /\ t.gen = generation /\ Current(b))
    <3>1. \/ timers' = timers
          \/ Current(b) /\ \E S \in SUBSET b : ScheduleRetry(S)
      BY <1>7 DEF BatchEnds, FetchFails, FetchAborted, retryVars
    <3>2. ASSUME NEW S \in SUBSET b, ScheduleRetry(S)
          PROVE  \A t \in timers' : t \in timers \/ (t.id \in b /\ t.gen = generation)
      BY <1>0, <1>2, <3>2, ScheduleRetryType
    <3>. QED  BY <3>1, <3>2
  <2>4. Apart' /\ Generations' /\ SlotsExact'
    BY <1>0, <2>1, <2>2, <2>3, FinallyCalm, CalmKeeps, FinallySlots
  <2>. QED  BY <1>0, <2>1, <2>4 DEF Inv, CacheNow
<1>. QED  BY <1>1, <1>5, <1>6, <1>7

(* Time: a retry of this generation is queued again, an older one is not.  *)
LEMMA TimeInv ==
  ASSUME Inv, TypeOK', Time
  PROVE  Inv'
<1>0. TypeOK /\ Apart /\ Generations /\ CacheNow /\ SlotsExact /\ PromisesOK /\ WorkOK
  BY DEF Inv, TypeOK
<1>1. ASSUME NEW t \in timers, RetryFires(t) PROVE Inv'
  <2>1. /\ promise' = promise /\ fetches' = fetches /\ timers' = timers \ {t}
        /\ generation' = generation /\ active' = active /\ cache' = cache
        /\ queue' = queue \/ (queue' = queue \cup {t.id} /\ t.gen = generation)
    BY <1>1 DEF RetryFires, cacheVars
  <2>2. Apart'
    BY <1>0, <2>1 DEF Apart
  <2>3. Generations'
    BY <1>0, <2>1 DEF Generations
  <2>. QED  BY <1>0, <2>1, <2>2, <2>3 DEF Inv, SlotsExact, CacheNow
<1>2. ASSUME GC \/ \E k \in Keys : FailureExpires(k) \/ Ages(k) PROVE Inv'
  <2>1. Settled /\ (Aborted \/ fetches' = fetches)
    BY <1>0, <1>2, SettleSettles, SameSettled, AbortAborts DEF GC, FailureExpires, Ages
  <2>2. /\ timers' = timers /\ queue' = queue /\ generation' = generation
        /\ active' = active /\ cache' = cache
    BY <1>2 DEF GC, FailureExpires, Ages, retryVars, cacheVars
  <2>3. Calm
    BY <2>1, <2>2 DEF Calm, Aborted
  <2>4. Apart' /\ Generations'
    BY <1>0, <2>3, CalmKeeps
  <2>. QED  BY <1>0, <2>1, <2>2, <2>4 DEF Inv, SlotsExact, CacheNow, Aborted
<1>. QED  BY <1>1, <1>2 DEF Time

(* The invariant is inductive.                                             *)
LEMMA TilesInv == Spec => []Inv
<1>1. Init => Inv
  <2>. SUFFICES ASSUME Init PROVE Inv
    OBVIOUS
  <2>1. Apart /\ Generations
    BY DEF Init, Apart, Generations
  <2>2. CacheNow
    BY DEF Init, CacheNow
  <2>3. SlotsExact
    BY FS_EmptySet, TilesAssumption DEF Init, SlotsExact
  <2>. QED  BY <2>1, <2>2, <2>3, InitType DEF Inv
<1>2. Inv /\ [Next]_vars => Inv'
  <2>. SUFFICES ASSUME Inv, [Next]_vars PROVE Inv'
    OBVIOUS
  <2>1. TypeOK'
    BY NextType DEF Inv
  <2>2. CASE Next
    BY <2>1, <2>2, CallInv, LoopInv, AnswerInv, TimeInv DEF Next
  <2>3. CASE UNCHANGED vars
    BY <2>1, <2>3 DEF vars, Inv, Apart, Generations, CacheNow, SlotsExact, retryVars, cacheVars
  <2>. QED  BY <2>2, <2>3
<1>. QED  BY <1>1, <1>2, PTL DEF Spec

(* The counter of fetches is exact and within its limit: no slot leaks,    *)
(* whatever is aborted, retried or invalidated meanwhile.                  *)
THEOREM NoSlotLeaks == Spec => []SlotsExact
<1>1. Inv => SlotsExact
  BY DEF Inv
<1>. QED  BY <1>1, TilesInv, PTL

(* No tile asked for before an invalidation is cached after it.            *)
THEOREM NothingOldIsCached == Spec => []CacheIsCurrent
<1>1. Inv => CacheIsCurrent
  <2>. SUFFICES ASSUME Inv, NEW n \in DOMAIN cache PROVE cache[n].gen = generation
    BY DEF CacheIsCurrent
  <2>. DEFINE E == [key : Keys, gen : {generation}, bytes : Nat]
  <2>0. cache \in Seq(E)
    BY DEF Inv, CacheNow
  <2>. HIDE DEF E
  <2>1. cache[n] \in E
    BY <2>0
  <2>. QED  BY <2>1 DEF E
<1>. QED  BY <1>1, TilesInv, PTL

(***************************************************************************)
(* No promise is lost: what EveryRequestSettles rests on.                  *)
(***************************************************************************)

(* A request that is pending and not crossed is the one that inflight      *)
(* names for its key, and will stay so until it settles: no reaction that  *)
(* is due deletes its entry, and no other pending request has its key.     *)
Held(i) ==
  /\ promise[i].key \in DOMAIN inflight /\ inflight[promise[i].key].id = i
  /\ promise[i].key \notin owed
  /\ \A j \in DOMAIN promise : Pending(j) /\ promise[j].key = promise[i].key => j = i

AllHeld == \A i \in DOMAIN promise : Pending(i) /\ ~ promise[i].crossed => Held(i)

(* The requests of S settle.                                               *)
Settles(S) ==
  /\ DOMAIN promise' = DOMAIN promise
  /\ \A i \in DOMAIN promise :
       /\ promise'[i].key = promise[i].key /\ promise'[i].crossed = promise[i].crossed
       /\ promise'[i].status = "pending" => Pending(i) /\ i \notin S

(* What inflight loses is what they had there, or was due to be deleted.   *)
Forgets(S) ==
  \A k \in DOMAIN inflight :
    \/ k \in owed \cup Reactions(S) \/ inflight[k].id \in S
    \/ k \in DOMAIN inflight' /\ inflight'[k].id = inflight[k].id

LEMMA SettleIs ==
  ASSUME PromisesOK, NEW S, NEW status \in {"resolved", "rejected"}, Settle(S, status)
  PROVE  Settles(S)
<1>1. \A i \in DOMAIN promise : promise[i] \in Promise
  BY DomainType
<1>2. DOMAIN promise' = DOMAIN promise
  BY DEF Settle
<1>3. ASSUME NEW i \in DOMAIN promise
      PROVE  /\ promise'[i].key = promise[i].key /\ promise'[i].crossed = promise[i].crossed
             /\ promise'[i].status = "pending" => Pending(i) /\ i \notin S
  <2>1. CASE i \in S /\ Pending(i)
    <3>1. promise'[i] = [promise[i] EXCEPT !.status = status]
      BY <1>3, <2>1 DEF Settle
    <3>. QED  BY <1>1, <1>3, <3>1 DEF Promise
  <2>2. CASE ~ (i \in S /\ Pending(i))
    <3>1. promise'[i] = promise[i]
      BY <1>3, <2>2 DEF Settle
    <3>. QED  BY <2>2, <3>1 DEF Pending
  <2>. QED  BY <2>1, <2>2
<1>. QED  BY <1>2, <1>3 DEF Settles

(* Then the others are held as before.                                     *)
LEMMA OthersHeld ==
  ASSUME AllHeld, NEW S, S \subseteq DOMAIN promise, Settles(S), Forgets(S), owed' \subseteq owed \cup Reactions(S)
  PROVE  AllHeld'
<1>. SUFFICES ASSUME NEW i \in DOMAIN promise', promise'[i].status = "pending",
                     ~ promise'[i].crossed
              PROVE  Held(i)'
  BY DEF AllHeld, Pending
<1>1. i \in DOMAIN promise /\ Pending(i) /\ i \notin S /\ Held(i) /\ promise'[i].key = promise[i].key
  BY DEF Settles, AllHeld
<1>2. promise[i].key \notin Reactions(S)
  <2>1. ASSUME NEW j \in S, Pending(j), promise[j].key = promise[i].key PROVE FALSE
    BY <1>1, <2>1 DEF Held
  <2>. QED  BY <2>1 DEF Reactions
<1>. QED  BY <1>1, <1>2 DEF Held, Settles, Forgets, Pending

(* A request is held when it is asked for, or crossed.                     *)
LEMMA RequestHeld ==
  ASSUME TypeOK, AllHeld, NEW k \in Keys, Request(k)
  PROVE  AllHeld'
<1>0. PICK n : n = Len(promise) + 1
  OBVIOUS
<1>. DEFINE crossed == k \in owed \/ \E j \in DOMAIN promise : promise[j].key = k /\ Pending(j)
            new     == [key |-> k, gen |-> generation, status |-> "pending", crossed |-> crossed]
<1>1. Len(promise) \in Nat /\ DOMAIN promise = 1 .. Len(promise) /\ promise \in Seq(Promise)
  BY DomainType DEF TypeOK, PromisesOK
<1>2. promise' = Append(promise, new) /\ k \notin DOMAIN inflight /\ owed' = owed
  BY DEF Request
<1>3. /\ DOMAIN promise' = DOMAIN promise \cup {n} /\ n \notin DOMAIN promise
      /\ promise'[n] = new /\ \A i \in DOMAIN promise : promise'[i] = promise[i]
  BY <1>0, <1>1, <1>2
<1>4. /\ DOMAIN inflight' = DOMAIN inflight \cup {k} /\ inflight'[k].id = n
      /\ \A x \in DOMAIN inflight : inflight'[x] = inflight[x]
  BY <1>0, <1>2 DEF Request
<1>5. new.key = k /\ new.crossed = crossed
  OBVIOUS
<1>. HIDE DEF new, crossed
<1>6. ASSUME ~ crossed PROVE Held(n)'
  <2>1. k \notin owed /\ \A j \in DOMAIN promise : promise[j].key = k => ~ Pending(j)
    BY <1>6 DEF crossed
  <2>. QED  BY <1>2, <1>3, <1>4, <1>5, <2>1 DEF Held, Pending
<1>7. ASSUME NEW i \in DOMAIN promise, Pending(i), ~ promise[i].crossed PROVE Held(i)'
  <2>1. Held(i) /\ promise[i].key # k
    BY <1>2, <1>7 DEF AllHeld, Held
  <2>. QED  BY <1>2, <1>3, <1>4, <1>5, <2>1 DEF Held, Pending
<1>. QED  BY <1>3, <1>5, <1>6, <1>7 DEF AllHeld, Pending

LEMMA NextHeld ==
  ASSUME TypeOK, AllHeld, [Next]_vars
  PROVE  AllHeld'
<1>0. PromisesOK /\ InflightOK /\ WorkOK
  BY DEF TypeOK
<1>1. ASSUME promise' = promise, Forgets({}), owed' \subseteq owed PROVE AllHeld'
  <2>1. Settles({})
    BY <1>1 DEF Settles, Pending
  <2>. QED  BY <1>1, <2>1, OthersHeld
<1>2. ASSUME promise' = promise, inflight' = inflight, owed' = owed PROVE AllHeld'
  BY <1>1, <1>2 DEF Forgets
<1>3. ASSUME NEW S, S \subseteq DOMAIN promise, NEW status \in {"resolved", "rejected"},
             Settle(S, status), Forgets(S), owed' \subseteq owed \cup Reactions(S)
      PROVE  AllHeld'
  <2>1. Settles(S)
    BY <1>0, <1>3, SettleIs
  <2>. QED  BY <1>3, <2>1, OthersHeld
<1>4. \A k \in DOMAIN inflight : inflight[k].id \in DOMAIN promise
  BY <1>0 DEF InflightOK
<1>5. CASE Call
  <2>1. ASSUME NEW k \in Keys, Touch(k) PROVE AllHeld'
    BY <1>2, <2>1 DEF Touch
  <2>2. ASSUME NEW k \in Keys, Request(k) PROVE AllHeld'
    BY <2>2, RequestHeld
  <2>3. ASSUME NEW visible \in SUBSET Keys, CancelStale(visible) PROVE AllHeld'
    <3>. DEFINE stale == DOMAIN inflight \ visible
                ids   == {inflight[k].id : k \in stale}
    <3>1. /\ Settle(ids, "rejected") /\ owed' = owed \cup Reactions(ids)
          /\ inflight' = Without(inflight, stale)
      BY <2>3 DEF CancelStale
    <3>2. ids \subseteq DOMAIN promise /\ \A k \in stale : inflight[k].id \in ids
      BY <1>4
    <3>. HIDE DEF stale, ids
    <3>3. Forgets(ids)
      BY <3>1, <3>2 DEF Forgets, Without
    <3>. QED  BY <1>3, <3>1, <3>2, <3>3
  <2>4. CASE Invalidate
    <3>. DEFINE ids == queue \cup {inflight[k].id : k \in DOMAIN inflight}
    <3>1. Settle(ids, "rejected") /\ owed' = owed \cup Reactions(ids)
      BY <2>4 DEF Invalidate
    <3>2. ids \subseteq DOMAIN promise /\ \A k \in DOMAIN inflight : inflight[k].id \in ids
      BY <1>0, <1>4 DEF WorkOK
    <3>. HIDE DEF ids
    <3>3. Forgets(ids)
      BY <3>2 DEF Forgets
    <3>. QED  BY <1>3, <3>1, <3>2, <3>3
  <2>. QED  BY <1>5, <2>1, <2>2, <2>3, <2>4 DEF Call
<1>6. CASE Microtasks \/ DrainEnds
  <2>1. promise' = promise /\ owed' = {} /\ inflight' = Without(inflight, owed)
    BY <1>6 DEF Microtasks, DrainEnds
  <2>2. Forgets({})
    BY <2>1 DEF Forgets, Without
  <2>. QED  BY <1>1, <2>1, <2>2
<1>7. ASSUME NEW b, NEW dropped, Execute(b, dropped) PROVE AllHeld'
  <2>1. /\ promise' = promise /\ owed' = owed /\ DOMAIN inflight' = DOMAIN inflight
        /\ \A k \in DOMAIN inflight :
             inflight'[k] = [inflight[k] EXCEPT !.controller = b] \/ inflight'[k] = inflight[k]
    BY <1>7 DEF Execute
  <2>2. \A k \in DOMAIN inflight : inflight'[k].id = inflight[k].id
    BY <1>0, <2>1 DEF InflightOK
  <2>. QED  BY <1>1, <2>1, <2>2 DEF Forgets
<1>8. CASE Answer
  <2>. SUFFICES ASSUME NEW b \in DOMAIN fetches,
                       \/ \E i \in b : \E n \in Sizes[promise[i].key] :
                            SingleArrives(b, i, n) \/ TileArrives(b, i, n)
                       \/ BatchEnds(b) \/ FetchFails(b) \/ FetchAborted(b)
                PROVE  AllHeld'
    BY <1>8 DEF Answer
  <2>1. b \subseteq DOMAIN promise
    BY <1>0 DEF WorkOK
  <2>2. ASSUME NEW S, S \subseteq DOMAIN promise, NEW status \in {"resolved", "rejected"},
               Settle(S, status), inflight' = Without(inflight, Reactions(S)), owed' = owed
        PROVE  AllHeld'
    BY <1>3, <2>2 DEF Forgets, Without
  <2>3. ASSUME NEW i \in b, NEW n, SingleArrives(b, i, n) PROVE AllHeld'
    BY <2>1, <2>2, <2>3 DEF SingleArrives
  <2>4. ASSUME NEW i \in b, NEW n, TileArrives(b, i, n) PROVE AllHeld'
    BY <2>1, <2>2, <2>4 DEF TileArrives
  <2>5. CASE BatchEnds(b)
    <3>1. CASE Current(b)
      <4>. DEFINE missing == b \ fetches[b].resolved
      <4>1. /\ Settle(missing, "rejected") /\ owed' = owed
            /\ inflight' = Without(inflight, Reactions(missing))
        BY <2>5, <3>1 DEF BatchEnds
      <4>. QED  BY <2>1, <2>2, <4>1
    <3>2. CASE ~ Current(b)
      BY <1>2, <2>5, <3>2 DEF BatchEnds
    <3>. QED  BY <3>1, <3>2
  <2>6. CASE FetchFails(b) \/ FetchAborted(b)
    <3>1. Settle(b, "rejected") /\ inflight' = inflight /\ owed' = Reactions(b)
      BY <2>6 DEF FetchFails, FetchAborted
    <3>. QED  BY <1>3, <2>1, <3>1 DEF Forgets
  <2>. QED  BY <2>3, <2>4, <2>5, <2>6
<1>9. CASE GC
  <2>. DEFINE old == {k \in DOMAIN inflight : inflight[k].old}
              ids == {inflight[k].id : k \in old}
  <2>1. Settle(ids, "rejected") /\ inflight' = Without(inflight, old) /\ owed' = owed
    BY <1>9 DEF GC
  <2>2. ids \subseteq DOMAIN promise /\ \A k \in old : inflight[k].id \in ids
    BY <1>4
  <2>. HIDE DEF old, ids
  <2>3. Forgets(ids)
    BY <2>1, <2>2 DEF Forgets, Without
  <2>. QED  BY <1>3, <2>1, <2>2, <2>3
<1>10. ASSUME NEW k, Ages(k) PROVE AllHeld'
  <2>1. promise' = promise /\ owed' = owed /\ inflight' = [inflight EXCEPT ![k].old = TRUE]
    BY <1>10 DEF Ages
  <2>2. DOMAIN inflight' = DOMAIN inflight /\ \A x \in DOMAIN inflight : inflight'[x].id = inflight[x].id
    BY <1>0, <2>1 DEF InflightOK
  <2>. QED  BY <1>1, <2>1, <2>2 DEF Forgets
<1>11. CASE Frame \/ (\E t \in timers : RetryFires(t)) \/ (\E k \in Keys : FailureExpires(k))
            \/ UNCHANGED vars
  BY <1>2, <1>11 DEF Frame, RetryFires, FailureExpires, vars
<1>. QED  BY <1>5, <1>6, <1>7, <1>8, <1>9, <1>10, <1>11 DEF Next, Drain, Time

(* Every request that is pending and not crossed is in flight under its    *)
(* key, alone, whatever was cancelled, invalidated, collected or answered  *)
(* before: the collector finds it when it is old, so that no caller of     *)
(* getTile waits for a promise that nobody holds.                          *)
THEOREM NoPromiseIsLost == Spec => []AllHeld
<1>1. Init => AllHeld
  BY DEF Init, AllHeld
<1>. QED  BY <1>1, NextHeld, TilesTypeOK, PTL DEF Spec

(***************************************************************************)
(* TileLoading: the hook that asks the tile manager and stores its tiles.  *)
(***************************************************************************)

(***************************************************************************)
(* Finite sets of integers in ascending order.                             *)
(***************************************************************************)

(* A finite set of integers that is not empty has a greatest element.      *)
LEMMA HasGreatest ==
  ASSUME NEW S, S \subseteq Int, IsFiniteSet(S), S # {}
  PROVE  \E m \in S : \A x \in S : x <= m
<1>. DEFINE P == {t \in SUBSET S : t = {} \/ \E m \in t : \A x \in t : x <= m}
<1>1. {} \in P
  OBVIOUS
<1>2. ASSUME NEW t \in SUBSET S, t # {}, \A x \in t : t \ {x} \in P PROVE t \in P
  <2>1. PICK y \in t : TRUE
    BY <1>2
  <2>2. t \ {y} = {} \/ \E m \in t \ {y} : \A x \in t \ {y} : x <= m
    BY <1>2, <2>1
  <2>3. CASE t \ {y} = {}
    <3>1. \A x \in t : x = y
      BY <2>3
    <3>. QED  BY <2>1, <3>1
  <2>4. CASE \E m \in t \ {y} : \A x \in t \ {y} : x <= m
    <3>1. PICK m \in t \ {y} : \A x \in t \ {y} : x <= m
      BY <2>4
    <3>2. CASE y <= m
      BY <3>1, <3>2
    <3>3. CASE ~ (y <= m)
      BY <2>1, <3>1, <3>3
    <3>. QED  BY <3>2, <3>3
  <2>. QED  BY <2>2, <2>3, <2>4
<1>. HIDE DEF P
<1>3. S \in P
  BY <1>1, <1>2, SubsetInduction
<1>. QED  BY <1>3 DEF P

(* The first n elements of s ascend.                                       *)
Ascends(s, n) == \A i, j \in 1 .. n : i < j => s[i] < s[j]

LEMMA HasAscending ==
  ASSUME NEW S, S \subseteq Int, IsFiniteSet(S)
  PROVE  \E s \in [1 .. Cardinality(S) -> S] : Ascends(s, Cardinality(S))
<1>. DEFINE P == {t \in SUBSET S : \E s \in [1 .. Cardinality(t) -> t] : Ascends(s, Cardinality(t))}
<1>1. {} \in P
  <2>1. Cardinality({}) = 0
    BY FS_EmptySet
  <2>2. [i \in 1 .. 0 |-> i] \in [1 .. 0 -> {}] /\ Ascends([i \in 1 .. 0 |-> i], 0)
    BY DEF Ascends
  <2>. QED  BY <2>1, <2>2
<1>2. ASSUME NEW t \in SUBSET S, t # {}, \A x \in t : t \ {x} \in P PROVE t \in P
  <2>1. IsFiniteSet(t) /\ t \subseteq Int
    BY FS_Subset
  <2>2. PICK m \in t : \A x \in t : x <= m
    BY <1>2, <2>1, HasGreatest
  <2>3. PICK n : n = Cardinality(t)
    OBVIOUS
  <2>4. n \in Nat /\ n > 0 /\ Cardinality(t \ {m}) = n - 1
    <3>1. n \in Nat
      BY <2>1, <2>3, FS_CardinalityType
    <3>2. n # 0
      BY <1>2, <2>1, <2>3, FS_EmptySet
    <3>3. Cardinality(t \ {m}) = Cardinality(t) - 1
      BY <2>1, <2>2, FS_RemoveElement
    <3>. QED  BY <2>3, <3>1, <3>2, <3>3
  <2>5. PICK s \in [1 .. n - 1 -> t \ {m}] : Ascends(s, n - 1)
    BY <1>2, <2>2, <2>4
  <2>. DEFINE r == [i \in 1 .. n |-> IF i = n THEN m ELSE s[i]]
  <2>6. r \in [1 .. n -> t]
    BY <2>2, <2>4, <2>5
  <2>7. ASSUME NEW i \in 1 .. n, NEW j \in 1 .. n, i < j PROVE r[i] < r[j]
    <3>1. i \in 1 .. n - 1 /\ r[i] = s[i] /\ s[i] \in t \ {m}
      BY <2>4, <2>5, <2>7
    <3>2. CASE j = n
      <4>1. r[j] = m /\ s[i] # m /\ s[i] <= m /\ s[i] \in Int /\ m \in Int
        BY <2>1, <2>2, <3>1, <3>2
      <4>2. s[i] < m
        BY <4>1
      <4>. QED  BY <3>1, <4>1, <4>2
    <3>3. CASE j # n
      <4>1. j \in 1 .. n - 1 /\ r[j] = s[j]
        BY <2>4, <3>3
      <4>2. s[i] < s[j]
        BY <2>5, <2>7, <3>1, <4>1 DEF Ascends
      <4>. QED  BY <3>1, <4>1, <4>2
    <3>. QED  BY <3>2, <3>3
  <2>8. Ascends(r, n)
    BY <2>7 DEF Ascends
  <2>. HIDE DEF r
  <2>. QED  BY <2>3, <2>6, <2>8
<1>. HIDE DEF P
<1>3. S \in P
  BY <1>1, <1>2, SubsetInduction
<1>. QED  BY <1>3 DEF P

(* InOrder lists the elements of its set and no others.                    *)
LEMMA InOrderLists ==
  ASSUME NEW S, S \subseteq Int, IsFiniteSet(S)
  PROVE  /\ InOrder(S) \in Seq(S) /\ Len(InOrder(S)) = Cardinality(S)
         /\ DOMAIN InOrder(S) = 1 .. Cardinality(S) /\ Cardinality(S) \in Nat
         /\ \A x \in S : \E n \in DOMAIN InOrder(S) : InOrder(S)[n] = x
<1>1. PICK n : n = Cardinality(S)
  OBVIOUS
<1>2. PICK s : s = InOrder(S)
  OBVIOUS
<1>3. \E r \in [1 .. n -> S] : \A i, j \in 1 .. n : i < j => r[i] < r[j]
  BY <1>1, HasAscending DEF Ascends
<1>4. s \in [1 .. n -> S] /\ \A i, j \in 1 .. n : i < j => s[i] < s[j]
  BY <1>1, <1>2, <1>3 DEF InOrder
<1>5. n \in Nat
  BY <1>1, FS_CardinalityType
<1>6. s \in Seq(S) /\ Len(s) = n /\ DOMAIN s = 1 .. n
  BY <1>4, <1>5
<1>7. ASSUME NEW i \in 1 .. n, NEW j \in 1 .. n, s[i] = s[j] PROVE i = j
  <2>1. s[i] \in Int /\ s[j] \in Int
    BY <1>4
  <2>2. ~ (i < j) /\ ~ (j < i)
    BY <1>4, <1>7, <2>1
  <2>. QED  BY <2>2
<1>8. s \in Injection(1 .. n, S)
  BY <1>4, <1>7 DEF Injection, IsInjective
<1>9. IsFiniteSet(1 .. n) /\ Cardinality(1 .. n) = n
  BY <1>5, FS_Interval
<1>10. s \in Surjection(1 .. n, S)
  BY <1>1, <1>8, <1>9, FS_Injection
<1>11. \A x \in S : \E k \in 1 .. n : s[k] = x
  BY <1>10 DEF Surjection
<1>. QED  BY <1>1, <1>2, <1>5, <1>6, <1>11

(* Chosen has the elements of s at places of S.                            *)
LEMMA ChosenElements ==
  ASSUME NEW T, NEW s \in Seq(T), NEW S \in SUBSET (DOMAIN s)
  PROVE  /\ Chosen(s, S) \in Seq(T)
         /\ \A n \in DOMAIN Chosen(s, S) : \E k \in S : Chosen(s, S)[n] = s[k]
         /\ \A k \in S : \E n \in DOMAIN Chosen(s, S) : Chosen(s, S)[n] = s[k]
<1>1. DOMAIN s = 1 .. Len(s) /\ Len(s) \in Nat
  OBVIOUS
<1>2. S \subseteq Int /\ IsFiniteSet(S)
  <2>1. IsFiniteSet(1 .. Len(s))
    BY <1>1, FS_Interval
  <2>2. S \subseteq 1 .. Len(s)
    BY <1>1
  <2>. QED  BY <2>1, <2>2, FS_Subset
<1>3. PICK o : o = InOrder(S)
  OBVIOUS
<1>4. /\ o \in Seq(S) /\ \A x \in S : \E n \in DOMAIN o : o[n] = x
  BY <1>2, <1>3, InOrderLists
<1>5. Chosen(s, S) = [n \in DOMAIN o |-> s[o[n]]]
  BY <1>3 DEF Chosen
<1>6. \A n \in DOMAIN o : o[n] \in S /\ s[o[n]] \in T
  BY <1>4
<1>7. [n \in DOMAIN o |-> s[o[n]]] \in Seq(T)
  BY <1>4, <1>6
<1>. QED  BY <1>4, <1>5, <1>6, <1>7

(***************************************************************************)
(* What the store and the manager hold.                                    *)
(***************************************************************************)

(* t is a tile of view v that starts at row o, whatever its size and mode. *)
IsTile(t, v, o) == t = [view |-> v, first |-> o, rows |-> t.rows, mode |-> t.mode]

(* The store is a record of three parts; its tiles have a place.           *)
StoreOK(st) ==
  /\ st = [tiles |-> st.tiles, loading |-> st.loading, stale |-> st.stale]
  /\ st.tiles \in Seq(ToSet(st.tiles))
  /\ \A e \in ToSet(st.tiles) : e.at \in Int

(* So is the manager.                                                      *)
ManagerOK(m) == m = [inflight |-> m.inflight, cache |-> m.cache, failed |-> m.failed]

(* The tiles stored are of view v and stand where tiles of TILE_ROWS[z]    *)
(* rows do.                                                                *)
TilesFit(st, v, z) == \A e \in ToSet(st.tiles) : IsTile(e.tile, v, e.at * TILE_ROWS[z])

(* So do those kept from another view.                                     *)
StaleFit(st, z) == \A i \in DOMAIN st.stale : st.stale[i].first = i * TILE_ROWS[z]

(* A promise, and a tile in the manager's cache, is of the view and the    *)
(* row of its key.                                                         *)
KeysTell(f) == \A key \in DOMAIN f : IsTile(f[key], key.view, key.off)

(* A caller waits for a promise under way, of view v and a tile of         *)
(* TILE_ROWS[z] rows.                                                      *)
CallsFit(m, v, z) ==
  \A c \in calls : /\ c.view = v /\ c.at \in Int /\ KeyOf(c) = Key(v, z, c.at)
                   /\ KeyOf(c) \in DOMAIN m.inflight

(* Who marked a tile as loading still waits for it.                        *)
MarksHaveCalls(st) == \A x \in st.loading : \E c \in calls : x = [view |-> c.view, at |-> c.at]

(* The refs of the hook are of the view and the size on show.              *)
HookFollows == hook.view = view /\ hook.rows = TILE_ROWS[zoom]

(* What is on show has a size.                                             *)
SizesOK == view \in Views /\ zoom \in Zooms /\ top \in Nat /\ count \in {NoCount} \union Nat

(* What every step keeps.  VisibleTilesComing is not inductive without the *)
(* rest: a tile that is marked as loading is not asked for again, so that  *)
(* a mark needs its caller, the caller a promise under way, and the answer *)
(* has to be for the view, the size and the place that are on show.        *)
LoadingInv ==
  /\ SizesOK /\ StoreOK(store) /\ ManagerOK(manager)
  /\ HookFollows
  /\ TilesFit(store, view, zoom) /\ StaleFit(store, zoom)
  /\ KeysTell(manager.inflight) /\ KeysTell(manager.cache)
  /\ CallsFit(manager, view, zoom)
  /\ MarksHaveCalls(store)
  /\ VisibleTilesComing

(***************************************************************************)
(* What the operators return.                                              *)
(***************************************************************************)

(* ToSet of a sequence is what stands somewhere in it.                     *)
LEMMA ToSetIs ==
  ASSUME NEW s, NEW x
  PROVE  x \in ToSet(s) <=> \E n \in DOMAIN s : s[n] = x
BY DEF ToSet

(* What lies in an interval is a finite set of integers.                   *)
LEMMA IntervalFinite ==
  ASSUME NEW a \in Int, NEW b \in Int, NEW S, S \subseteq a .. b
  PROVE  S \subseteq Int /\ IsFiniteSet(S)
<1>1. IsFiniteSet(a .. b)
  BY FS_Interval
<1>2. IsFiniteSet(S)
  BY <1>1, FS_Subset
<1>3. S \subseteq Int
  OBVIOUS
<1>. QED  BY <1>2, <1>3

(* The last elements of two sequences, one after the other.                *)
LEMMA LastOfBoth ==
  ASSUME NEW T, NEW s \in Seq(T), NEW r \in Seq(T), NEW k \in Nat, k <= Len(s) + Len(r)
  PROVE  LET q == SubSeq(s \o r, k + 1, Len(s \o r))
         IN  /\ q \in Seq(T)
             /\ \A x \in ToSet(q) : x \in ToSet(s) \union ToSet(r)
             /\ k < Len(s) + Len(r) /\ Len(r) >= 1 => r[Len(r)] \in ToSet(q)
<1>. DEFINE a == s \o r
            q == SubSeq(a, k + 1, Len(a))
<1>1. /\ a \in Seq(T) /\ Len(a) = Len(s) + Len(r) /\ Len(s) \in Nat /\ Len(r) \in Nat
      /\ DOMAIN s = 1 .. Len(s) /\ DOMAIN r = 1 .. Len(r) /\ DOMAIN a = 1 .. Len(a)
      /\ \A n \in 1 .. Len(s) : a[n] = s[n]
      /\ \A n \in 1 .. Len(r) : a[Len(s) + n] = r[n]
  OBVIOUS
<1>2. \A n \in DOMAIN a : a[n] \in ToSet(s) \union ToSet(r)
  <2>. TAKE n \in DOMAIN a
  <2>1. CASE n <= Len(s)
    <3>1. n \in DOMAIN s /\ s[n] = a[n]
      BY <1>1, <2>1
    <3>. QED  BY <3>1, ToSetIs
  <2>2. CASE ~ (n <= Len(s))
    <3>1. n - Len(s) \in DOMAIN r /\ r[n - Len(s)] = a[n]
      BY <1>1, <2>2
    <3>. QED  BY <3>1, ToSetIs
  <2>. QED  BY <2>1, <2>2
<1>3. a \in Seq(T) /\ Len(a) \in Nat /\ Len(a) = Len(s) + Len(r) /\ k <= Len(a)
  BY <1>1
<1>. HIDE DEF a
<1>4. /\ q \in Seq(T) /\ Len(q) = Len(a) - k /\ DOMAIN q = 1 .. Len(a) - k
      /\ \A n \in 1 .. Len(a) - k : q[n] = a[k + n]
  BY <1>3
<1>. HIDE DEF q
<1>5. \A x \in ToSet(q) : x \in ToSet(s) \union ToSet(r)
  <2>. TAKE x \in ToSet(q)
  <2>1. PICK n \in DOMAIN q : q[n] = x
    BY ToSetIs
  <2>2. k + n \in DOMAIN a /\ a[k + n] = x
    BY <1>1, <1>3, <1>4, <2>1
  <2>. QED  BY <1>2, <2>2
<1>6. ASSUME k < Len(s) + Len(r), Len(r) >= 1 PROVE r[Len(r)] \in ToSet(q)
  <2>1. a[Len(a)] = r[Len(r)]
    BY <1>1, <1>6
  <2>2. Len(a) - k \in DOMAIN q /\ q[Len(a) - k] = a[Len(a)]
    BY <1>3, <1>4, <1>6
  <2>. QED  BY <2>1, <2>2, ToSetIs
<1>. QED  BY <1>4, <1>5, <1>6 DEF q, a

(* cacheTiles keeps or evicts the tiles at other places and stores one for *)
(* each place of tiles.  A tile that is stored alone is not evicted, for   *)
(* the store has room for one at least.                                    *)
LEMMA CacheTilesResult ==
  ASSUME NEW st, StoreOK(st), NEW tiles, DOMAIN tiles \subseteq Int, IsFiniteSet(DOMAIN tiles)
  PROVE  LET r == cacheTiles(st, tiles)
         IN  /\ StoreOK(r)
             /\ \A e \in ToSet(r.tiles) : \/ e \in ToSet(st.tiles)
                                          \/ \E i \in DOMAIN tiles : e = [at |-> i, tile |-> tiles[i]]
             /\ r.loading = st.loading \ {[view |-> tiles[i].view, at |-> i] : i \in DOMAIN tiles}
             /\ r.stale = Off(st.stale, DOMAIN tiles)
             /\ \A i : DOMAIN tiles = {i} => i \in Places(r)
<1>. DEFINE news == {[at |-> i, tile |-> tiles[i]] : i \in DOMAIN tiles}
            T == ToSet(st.tiles) \union news
            kept == {n \in DOMAIN st.tiles : st.tiles[n].at \notin DOMAIN tiles}
            others == Chosen(st.tiles, kept)
            order == InOrder(DOMAIN tiles)
            new == [n \in DOMAIN order |-> LET i == order[n] IN [at |-> i, tile |-> tiles[i]]]
            all == others \o new
            evicted == Most(0, Len(all) - TILE_STORE_MAX)
            last == SubSeq(all, evicted + 1, Len(all))
            gone == {[view |-> tiles[i].view, at |-> i] : i \in DOMAIN tiles}
            r == cacheTiles(st, tiles)
<1>1. r = [tiles |-> last, loading |-> st.loading \ gone, stale |-> Off(st.stale, DOMAIN tiles)]
  <2>1. r = [st EXCEPT !.tiles = last, !.loading = @ \ gone, !.stale = Off(@, DOMAIN tiles)]
    BY DEF cacheTiles
  <2>. HIDE DEF last, gone, r
  <2>. QED  BY <2>1 DEF StoreOK
<1>2. st.tiles \in Seq(T)
  <2>1. \A n \in DOMAIN st.tiles : st.tiles[n] \in T
    BY ToSetIs
  <2>. HIDE DEF T
  <2>. QED  BY <2>1 DEF StoreOK
<1>3. /\ others \in Seq(T)
      /\ \A n \in DOMAIN others : \E k \in kept : others[n] = st.tiles[k]
  <2>1. kept \in SUBSET DOMAIN st.tiles
    OBVIOUS
  <2>. HIDE DEF T, kept
  <2>. QED  BY <1>2, <2>1, ChosenElements
<1>4. /\ order \in Seq(DOMAIN tiles) /\ Len(order) = Cardinality(DOMAIN tiles)
      /\ \A x \in DOMAIN tiles : \E n \in DOMAIN order : order[n] = x
  BY InOrderLists
<1>. HIDE DEF order
<1>5. /\ new \in Seq(T) /\ Len(new) = Len(order) /\ DOMAIN new = 1 .. Len(order)
      /\ \A n \in DOMAIN new : new[n] = [at |-> order[n], tile |-> tiles[order[n]]]
  <2>1. \A n \in DOMAIN order : order[n] \in DOMAIN tiles /\ new[n] = [at |-> order[n], tile |-> tiles[order[n]]]
    BY <1>4
  <2>2. \A n \in DOMAIN order : new[n] \in T
    BY <2>1
  <2>. HIDE DEF T
  <2>3. DOMAIN order = 1 .. Len(order) /\ Len(order) \in Nat
    BY <1>4
  <2>. QED  BY <2>1, <2>2, <2>3
<1>. HIDE DEF T, new, others
<1>6. PICK k : k = evicted
  OBVIOUS
<1>7. /\ Len(others) \in Nat /\ Len(new) \in Nat /\ TILE_STORE_MAX \in Nat \ {0}
      /\ Len(all) = Len(others) + Len(new)
  <2>1. TILE_STORE_MAX \in Nat \ {0}
    BY SizesAssumption
  <2>2. Len(others) \in Nat /\ Len(new) \in Nat /\ Len(others \o new) = Len(others) + Len(new)
    BY <1>3, <1>5
  <2>. QED  BY <2>1, <2>2
<1>8. k \in Nat /\ k <= Len(others) + Len(new) /\ (Len(new) >= 1 => k < Len(others) + Len(new))
  BY <1>6, <1>7 DEF Most
<1>9. /\ last \in Seq(T)
      /\ \A x \in ToSet(last) : x \in ToSet(others) \union ToSet(new)
      /\ Len(new) >= 1 => new[Len(new)] \in ToSet(last)
  <2>1. last = SubSeq(others \o new, k + 1, Len(others \o new))
    BY <1>6
  <2>. HIDE DEF last, all
  <2>. QED  BY <1>3, <1>5, <1>8, <2>1, LastOfBoth
<1>. HIDE DEF last
<1>10. ASSUME NEW e \in ToSet(last)
       PROVE  e \in ToSet(st.tiles) \/ \E i \in DOMAIN tiles : e = [at |-> i, tile |-> tiles[i]]
  <2>1. CASE e \in ToSet(others)
    <3>1. PICK n \in DOMAIN others : others[n] = e
      BY <2>1, ToSetIs
    <3>2. PICK j \in kept : e = st.tiles[j]
      BY <1>3, <3>1
    <3>. QED  BY <3>2, ToSetIs
  <2>2. CASE e \in ToSet(new)
    <3>1. PICK n \in DOMAIN new : new[n] = e
      BY <2>2, ToSetIs
    <3>2. order[n] \in DOMAIN tiles
      BY <1>4, <1>5, <3>1
    <3>. QED  BY <1>5, <3>1, <3>2
  <2>. QED  BY <1>9, <2>1, <2>2
<1>11. StoreOK(r)
  <2>1. r.tiles = last
    BY <1>1
  <2>2. \A e \in ToSet(r.tiles) : e.at \in Int
    BY <1>10, <2>1 DEF StoreOK
  <2>3. r.tiles \in Seq(ToSet(r.tiles))
    <3>1. \A n \in DOMAIN last : last[n] \in ToSet(last)
      BY ToSetIs
    <3>2. last \in Seq(T)
      BY <1>9
    <3>3. last \in Seq(ToSet(last))
      BY <3>1, <3>2
    <3>. QED  BY <2>1, <3>3
  <2>4. r = [tiles |-> r.tiles, loading |-> r.loading, stale |-> r.stale]
    <3>. HIDE DEF r, gone
    <3>. QED  BY <1>1
  <2>. QED  BY <2>2, <2>3, <2>4 DEF StoreOK
<1>12. ASSUME NEW i, DOMAIN tiles = {i} PROVE i \in Places(r)
  <2>1. Len(new) = 1
    BY <1>4, <1>5, <1>12, FS_Singleton
  <2>2. new[1] \in ToSet(last)
    BY <1>9, <2>1
  <2>3. order[1] \in DOMAIN tiles /\ new[1].at = order[1]
    BY <1>4, <1>5, <2>1
  <2>4. new[1].at = i
    BY <1>12, <2>3
  <2>5. r.tiles = last
    BY <1>1
  <2>. HIDE DEF r
  <2>. QED  BY <2>2, <2>4, <2>5 DEF Places
<1>13. r.loading = st.loading \ gone /\ r.stale = Off(st.stale, DOMAIN tiles) /\ r.tiles = last
  BY <1>1
<1>. HIDE DEF r, gone
<1>14. \A e \in ToSet(r.tiles) : e \in ToSet(st.tiles) \/ \E i \in DOMAIN tiles : e = [at |-> i, tile |-> tiles[i]]
  BY <1>10, <1>13
<1>. QED  BY <1>11, <1>12, <1>13, <1>14 DEF r, gone
LEMMA DivInt ==
  ASSUME NEW a \in Int, NEW b \in Nat \ {0}
  PROVE  a \div b \in Int
OBVIOUS

(* The effect wants finitely many tiles, and all those in sight.           *)
LEMMA WantedTiles ==
  ASSUME NEW z \in Zooms, NEW t \in Nat, NEW c \in {NoCount} \union Nat, NEW p \in 0 .. 1
  PROVE  /\ Wanted(z, t, c, p) \subseteq Int /\ IsFiniteSet(Wanted(z, t, c, p))
         /\ Wanted(z, t, c, 0) \subseteq Wanted(z, t, c, p)
<1>. DEFINE h == CELL_H[z] * TILE_ROWS[z]
            a == Most(0, t \div h - p)
            b == Ceil(t + Height, h)
<1>1. h \in Nat \ {0}
  <2>1. CELL_H[z] \in Nat \ {0} /\ TILE_ROWS[z] \in Nat \ {0}
    BY ZoomsAssumption
  <2>. QED  BY <2>1
<1>. HIDE DEF h
<1>2. t \div h \in Int /\ (t + Height + h - 1) \div h \in Int
  <2>1. t \in Int /\ t + Height + h - 1 \in Int
    BY <1>1, SizesAssumption
  <2>. QED  BY <1>1, <2>1, DivInt
<1>3. a \in Int /\ b \in Int /\ a <= Most(0, t \div h - 0)
  BY <1>2 DEF Most, Ceil
<1>4. visibleTiles(z, t, p) = a .. b + p - 1
  BY DEF visibleTiles, h
<1>5. visibleTiles(z, t, 0) = Most(0, t \div h - 0) .. b + 0 - 1
  BY DEF visibleTiles, h
<1>6. Most(0, t \div h - 0) \in Int
  BY <1>2 DEF Most
<1>. HIDE DEF a, b
<1>7. visibleTiles(z, t, 0) \subseteq visibleTiles(z, t, p)
  BY <1>3, <1>4, <1>5, <1>6
<1>8. Wanted(z, t, c, p) \subseteq a .. b + p - 1
  BY <1>4 DEF Wanted
<1>9. b + p - 1 \in Int
  BY <1>3
<1>10. Wanted(z, t, c, p) \subseteq Int /\ IsFiniteSet(Wanted(z, t, c, p))
  BY <1>3, <1>8, <1>9, IntervalFinite
<1>. QED  BY <1>7, <1>10 DEF Wanted

(* Unmark takes marks away and nothing else.                               *)
LEMMA UnmarkResult ==
  ASSUME NEW st, StoreOK(st), NEW C
  PROVE  LET r == Unmark(st, C)
         IN  /\ StoreOK(r) /\ r.tiles = st.tiles /\ r.stale = st.stale
             /\ r.loading = st.loading \ {[view |-> c.view, at |-> c.at] : c \in C}
<1>. DEFINE gone == {[view |-> c.view, at |-> c.at] : c \in C}
            r == Unmark(st, C)
<1>1. r = [st EXCEPT !.loading = @ \ gone]
  BY DEF Unmark
<1>. HIDE DEF gone, r
<1>2. r = [tiles |-> st.tiles, loading |-> st.loading \ gone, stale |-> st.stale]
  BY <1>1 DEF StoreOK
<1>3. StoreOK(r) /\ r.tiles = st.tiles /\ r.stale = st.stale /\ r.loading = st.loading \ gone
  BY <1>2 DEF StoreOK
<1>. QED  BY <1>3 DEF gone, r

(* cancelStale takes promises away and nothing else.                       *)
LEMMA CancelResult ==
  ASSUME NEW m, ManagerOK(m), NEW K
  PROVE  LET r == cancelStale(m, K)
         IN  /\ ManagerOK(r) /\ r.cache = m.cache /\ r.failed = m.failed
             /\ DOMAIN r.inflight = DOMAIN m.inflight \cap K
             /\ \A key \in DOMAIN r.inflight : r.inflight[key] = m.inflight[key]
<1>1. cancelStale(m, K) = [inflight |-> On(m.inflight, K), cache |-> m.cache, failed |-> m.failed]
  BY DEF cancelStale, ManagerOK
<1>. QED  BY <1>1 DEF ManagerOK, On

(* getTiles adds promises for the keys that had none.                      *)
LEMMA GetTilesResult ==
  ASSUME NEW m, ManagerOK(m), KeysTell(m.inflight), NEW K, NEW z, NEW mode
  PROVE  LET r == getTiles(m, K, z, mode)
         IN  /\ ManagerOK(r) /\ r.cache = m.cache /\ r.failed = m.failed
             /\ DOMAIN r.inflight = DOMAIN m.inflight \union K
             /\ KeysTell(r.inflight)
<1>. DEFINE g == [key \in DOMAIN m.inflight \union K |->
                    IF key \in DOMAIN m.inflight THEN m.inflight[key] ELSE Asked(key, z, mode)]
<1>1. getTiles(m, K, z, mode) = [inflight |-> g, cache |-> m.cache, failed |-> m.failed]
  BY DEF getTiles, ManagerOK
<1>2. KeysTell(g)
  <2>. SUFFICES ASSUME NEW key \in DOMAIN m.inflight \union K
                PROVE  IsTile(g[key], key.view, key.off)
    BY DEF KeysTell
  <2>1. CASE key \in DOMAIN m.inflight
    BY <2>1 DEF KeysTell
  <2>2. CASE key \notin DOMAIN m.inflight
    <3>1. g[key] = [view |-> key.view, first |-> key.off, rows |-> TILE_ROWS[z], mode |-> mode]
      BY <2>2 DEF Asked
    <3>. QED  BY <3>1 DEF IsTile
  <2>. QED  BY <2>1, <2>2
<1>3. DOMAIN g = DOMAIN m.inflight \union K
  OBVIOUS
<1>. HIDE DEF g
<1>. QED  BY <1>1, <1>2, <1>3 DEF ManagerOK
(***************************************************************************)
(* The main effect.                                                        *)
(***************************************************************************)

(* What the first two effects leave for the main one: all that is stored   *)
(* and asked for fits the view and the zoom, or all promises are gone and  *)
(* so are the marks.                                                       *)
Ready(f, v, z) ==
  /\ v \in Views /\ z \in Zooms
  /\ StoreOK(f.store) /\ ManagerOK(f.manager)
  /\ TilesFit(f.store, v, z) /\ StaleFit(f.store, z)
  /\ KeysTell(f.manager.inflight) /\ KeysTell(f.manager.cache)
  /\ MarksHaveCalls(f.store)
  /\ \/ CallsFit(f.manager, v, z)
     \/ DOMAIN f.manager.inflight = {} /\ f.store.loading = {}

(* After a cancellation the callers that are left fit, and so do the marks *)
(* that are left when those of the others are taken back.                  *)
LEMMA CallersLeft ==
  ASSUME NEW f, NEW v, NEW z, Ready(f, v, z), NEW K, NEW m, m = cancelStale(f.manager, K)
  PROVE  /\ \A c \in calls \ Rejected(m) : /\ c.view = v /\ c.at \in Int /\ KeyOf(c) = Key(v, z, c.at)
                                           /\ KeyOf(c) \in DOMAIN m.inflight
         /\ \A x \in f.store.loading \ {[view |-> c.view, at |-> c.at] : c \in Rejected(m)} :
               \E c \in calls \ Rejected(m) : x = [view |-> c.view, at |-> c.at]
<1>1. DOMAIN m.inflight = DOMAIN f.manager.inflight \cap K
  BY CancelResult DEF Ready
<1>2. ASSUME NEW c \in calls \ Rejected(m)
      PROVE  /\ c.view = v /\ c.at \in Int /\ KeyOf(c) = Key(v, z, c.at)
             /\ KeyOf(c) \in DOMAIN m.inflight
  <2>1. KeyOf(c) \in DOMAIN m.inflight
    BY DEF Rejected
  <2>2. CallsFit(f.manager, v, z)
    BY <1>1, <2>1 DEF Ready
  <2>. QED  BY <2>1, <2>2 DEF CallsFit
<1>3. ASSUME NEW x \in f.store.loading \ {[view |-> c.view, at |-> c.at] : c \in Rejected(m)}
      PROVE  \E c \in calls \ Rejected(m) : x = [view |-> c.view, at |-> c.at]
  <2>1. PICK c \in calls : x = [view |-> c.view, at |-> c.at]
    BY DEF Ready, MarksHaveCalls
  <2>2. c \notin Rejected(m)
    BY <2>1
  <2>. QED  BY <2>1, <2>2
<1>. QED  BY <1>2, <1>3

(* The main effect makes the invariant hold of the new view, zoom and      *)
(* position: what is missing is asked for, unless the settle timer runs.   *)
LEMMA MainEffectKeeps ==
  ASSUME NEW f, NEW v, NEW z, NEW t \in Nat, NEW c \in {NoCount} \union Nat,
         Ready(f, v, z), MainEffect(f, v, z, t, c)
  PROVE  LoadingInv'
<1>1. PICK p \in 0 .. 1, rapid \in BOOLEAN :
        LET wanted == Wanted(z, t, c, p)
            m == cancelStale(f.manager, {Key(v, z, i) : i \in wanted})
            missing == {i \in wanted \ Places(f.store) :
                           /\ [view |-> v, at |-> i] \notin f.store.loading
                           /\ Key(v, z, i) \notin m.failed}
            hits == {i \in missing : Key(v, z, i) \in DOMAIN m.cache}
            asks == missing \ hits
            marked == [f.store EXCEPT !.loading = @ \union {[view |-> v, at |-> i] : i \in asks}]
            shown == cacheTiles(Unmark(marked, Rejected(m)), [i \in hits |-> m.cache[Key(v, z, i)]])
        IN /\ hook' = [view |-> v, top |-> t, rows |-> TILE_ROWS[z]]
           /\ view' = v /\ zoom' = z /\ top' = t /\ count' = c
           /\ IF isJump(t)
              THEN /\ settle' = TRUE
                   /\ store' = Unmark(f.store, Rejected(m))
                   /\ manager' = m
                   /\ calls' = calls \ Rejected(m)
              ELSE /\ store' = shown /\ missed' = (Places(f.store) \union hits) \ Places(shown)
                   /\ manager' = getTiles(m, {Key(v, z, i) : i \in asks}, z, tileMode(z))
                   /\ calls' = (calls \ Rejected(m))
                               \union {[view |-> v, zoom |-> z, at |-> i] : i \in asks}
  BY DEF MainEffect
<1>2. PICK wanted : wanted = Wanted(z, t, c, p)
  OBVIOUS
<1>3. PICK keys : keys = {Key(v, z, i) : i \in wanted}
  OBVIOUS
<1>4. PICK m : m = cancelStale(f.manager, keys)
  OBVIOUS
<1>5. PICK missing : missing = {i \in wanted \ Places(f.store) :
                                   /\ [view |-> v, at |-> i] \notin f.store.loading
                                   /\ Key(v, z, i) \notin m.failed}
  OBVIOUS
<1>6. PICK hits : hits = {i \in missing : Key(v, z, i) \in DOMAIN m.cache}
  OBVIOUS
<1>7. PICK asks : asks = missing \ hits
  OBVIOUS
<1>8. PICK marked : marked = [f.store EXCEPT !.loading = @ \union {[view |-> v, at |-> i] : i \in asks}]
  OBVIOUS
<1>9. PICK rejected : rejected = Rejected(m)
  OBVIOUS
<1>10. PICK tiles : tiles = [i \in hits |-> m.cache[Key(v, z, i)]]
  OBVIOUS
<1>11. PICK jump : jump = isJump(t)
  OBVIOUS
<1>12. /\ hook' = [view |-> v, top |-> t, rows |-> TILE_ROWS[z]]
       /\ view' = v /\ zoom' = z /\ top' = t /\ count' = c
  BY <1>1
<1>13. jump => /\ settle' = TRUE
               /\ store' = Unmark(f.store, rejected)
               /\ manager' = m
               /\ calls' = calls \ rejected
  BY <1>1, <1>2, <1>3, <1>4, <1>9, <1>11
<1>14. ~ jump => /\ store' = cacheTiles(Unmark(marked, rejected), tiles)
                 /\ missed' = (Places(f.store) \union hits) \ Places(cacheTiles(Unmark(marked, rejected), tiles))
                 /\ manager' = getTiles(m, {Key(v, z, i) : i \in asks}, z, tileMode(z))
                 /\ calls' = (calls \ rejected) \union {[view |-> v, zoom |-> z, at |-> i] : i \in asks}
  BY <1>1, <1>2, <1>3, <1>4, <1>5, <1>6, <1>7, <1>8, <1>9, <1>10, <1>11
<1>15. v \in Views /\ z \in Zooms /\ StoreOK(f.store) /\ ManagerOK(f.manager)
  BY DEF Ready
<1>16. /\ wanted \subseteq Int /\ IsFiniteSet(wanted)
       /\ Wanted(z, t, c, 0) \subseteq wanted
  BY <1>2, <1>15, WantedTiles
<1>17. SizesOK' /\ HookFollows'
  BY <1>12, <1>15 DEF SizesOK, HookFollows
<1>18. /\ ManagerOK(m) /\ m.cache = f.manager.cache /\ m.failed = f.manager.failed
       /\ DOMAIN m.inflight = DOMAIN f.manager.inflight \cap keys
       /\ KeysTell(m.inflight) /\ KeysTell(m.cache)
  <2>1. /\ ManagerOK(m) /\ m.cache = f.manager.cache /\ m.failed = f.manager.failed
        /\ DOMAIN m.inflight = DOMAIN f.manager.inflight \cap keys
        /\ \A key \in DOMAIN m.inflight : m.inflight[key] = f.manager.inflight[key]
    BY <1>4, <1>15, CancelResult
  <2>. QED  BY <2>1 DEF Ready, KeysTell
<1>19. /\ \A d \in calls \ rejected : /\ d.view = v /\ d.at \in Int /\ KeyOf(d) = Key(v, z, d.at)
                                      /\ KeyOf(d) \in DOMAIN m.inflight
       /\ \A x \in f.store.loading \ {[view |-> d.view, at |-> d.at] : d \in rejected} :
             \E d \in calls \ rejected : x = [view |-> d.view, at |-> d.at]
  <2>1. /\ \A d \in calls \ Rejected(m) : /\ d.view = v /\ d.at \in Int /\ KeyOf(d) = Key(v, z, d.at)
                                           /\ KeyOf(d) \in DOMAIN m.inflight
        /\ \A x \in f.store.loading \ {[view |-> d.view, at |-> d.at] : d \in Rejected(m)} :
              \E d \in calls \ Rejected(m) : x = [view |-> d.view, at |-> d.at]
    BY <1>4, CallersLeft
  <2>. QED  BY <1>9, <2>1
<1>20. CASE jump
  <2>1. /\ StoreOK(store') /\ store'.tiles = f.store.tiles /\ store'.stale = f.store.stale
        /\ store'.loading = f.store.loading \ {[view |-> d.view, at |-> d.at] : d \in rejected}
    BY <1>13, <1>15, <1>20, UnmarkResult
  <2>2. ManagerOK(manager') /\ KeysTell(manager'.inflight) /\ KeysTell(manager'.cache)
    BY <1>13, <1>18, <1>20
  <2>3. TilesFit(store', v, z) /\ StaleFit(store', z)
    BY <2>1 DEF Ready, TilesFit, StaleFit
  <2>4. CallsFit(manager, view, zoom)'
    BY <1>12, <1>13, <1>19, <1>20 DEF CallsFit
  <2>5. MarksHaveCalls(store)'
    BY <1>13, <1>19, <1>20, <2>1 DEF MarksHaveCalls
  <2>6. VisibleTilesComing'
    BY <1>13, <1>20 DEF VisibleTilesComing
  <2>. QED  BY <1>12, <1>17, <2>1, <2>2, <2>3, <2>4, <2>5, <2>6 DEF LoadingInv
<1>21. CASE ~ jump
  <2>. PICK u : u = Unmark(marked, rejected)
    OBVIOUS
  <2>1. /\ StoreOK(marked) /\ marked.tiles = f.store.tiles /\ marked.stale = f.store.stale
        /\ marked.loading = f.store.loading \union {[view |-> v, at |-> i] : i \in asks}
    <3>1. PICK marks : marks = {[view |-> v, at |-> i] : i \in asks}
      OBVIOUS
    <3>2. marked = [tiles |-> f.store.tiles, loading |-> f.store.loading \union marks, stale |-> f.store.stale]
      BY <1>8, <1>15, <3>1 DEF StoreOK
    <3>3. StoreOK(marked) /\ marked.tiles = f.store.tiles /\ marked.stale = f.store.stale
      BY <1>15, <3>2 DEF StoreOK
    <3>4. marked.loading = f.store.loading \union marks
      BY <3>2
    <3>. QED  BY <3>1, <3>3, <3>4
  <2>2. /\ StoreOK(u) /\ u.tiles = f.store.tiles /\ u.stale = f.store.stale
        /\ u.loading = marked.loading \ {[view |-> d.view, at |-> d.at] : d \in rejected}
    BY <2>1, UnmarkResult
  <2>3. DOMAIN tiles = hits /\ hits \subseteq wanted /\ hits \subseteq Int /\ IsFiniteSet(hits)
    <3>1. DOMAIN tiles = hits /\ hits \subseteq wanted
      BY <1>5, <1>6, <1>10
    <3>2. IsFiniteSet(hits)
      BY <1>16, <3>1, FS_Subset
    <3>. QED  BY <1>16, <3>1, <3>2
  <2>4. /\ StoreOK(store')
        /\ \A e \in ToSet(store'.tiles) : \/ e \in ToSet(u.tiles)
                                          \/ \E i \in DOMAIN tiles : e = [at |-> i, tile |-> tiles[i]]
        /\ store'.loading = u.loading \ {[view |-> tiles[i].view, at |-> i] : i \in DOMAIN tiles}
        /\ store'.stale = Off(u.stale, DOMAIN tiles)
    BY <1>14, <1>21, <2>2, <2>3, CacheTilesResult
  <2>5. TilesFit(store', v, z)
    <3>. SUFFICES ASSUME NEW e \in ToSet(store'.tiles) PROVE IsTile(e.tile, v, e.at * TILE_ROWS[z])
      BY DEF TilesFit
    <3>1. CASE e \in ToSet(u.tiles)
      BY <2>2, <3>1 DEF Ready, TilesFit
    <3>2. CASE \E i \in DOMAIN tiles : e = [at |-> i, tile |-> tiles[i]]
      <4>1. PICK i \in hits : e = [at |-> i, tile |-> m.cache[Key(v, z, i)]] /\ Key(v, z, i) \in DOMAIN m.cache
        BY <1>6, <1>10, <2>3, <3>2
      <4>2. IsTile(m.cache[Key(v, z, i)], Key(v, z, i).view, Key(v, z, i).off)
        BY <1>18, <4>1 DEF KeysTell
      <4>3. Key(v, z, i).view = v /\ Key(v, z, i).off = i * TILE_ROWS[z]
        BY DEF Key
      <4>. QED  BY <4>1, <4>2, <4>3
    <3>. QED  BY <2>4, <3>1, <3>2
  <2>6. StaleFit(store', z)
    BY <2>2, <2>4 DEF Ready, StaleFit, Off
  <2>. PICK keysOfAsks : keysOfAsks = {Key(v, z, i) : i \in asks}
    OBVIOUS
  <2>7. /\ ManagerOK(manager') /\ manager'.cache = m.cache /\ manager'.failed = m.failed
        /\ DOMAIN manager'.inflight = DOMAIN m.inflight \union keysOfAsks
        /\ KeysTell(manager'.inflight)
    BY <1>14, <1>18, <1>21, GetTilesResult
  <2>8. \A i \in asks : LET d == [view |-> v, zoom |-> z, at |-> i]
                        IN  /\ d \in calls' /\ KeyOf(d) = Key(v, z, i) /\ i \in Int
                            /\ Key(v, z, i) \in DOMAIN manager'.inflight
    BY <1>5, <1>7, <1>14, <1>16, <1>21, <2>7 DEF KeyOf
  <2>9. ASSUME NEW d \in calls'
        PROVE  /\ d.view = v /\ d.at \in Int /\ KeyOf(d) = Key(v, z, d.at)
               /\ KeyOf(d) \in DOMAIN manager'.inflight
    <3>1. CASE d \in calls \ rejected
      BY <1>19, <2>7, <3>1
    <3>2. CASE \E i \in asks : d = [view |-> v, zoom |-> z, at |-> i]
      BY <2>8, <3>2
    <3>. QED  BY <1>14, <1>21, <3>1, <3>2
  <2>10. CallsFit(manager, view, zoom)'
    BY <1>12, <2>9 DEF CallsFit
  <2>11. MarksHaveCalls(store)'
    <3>. SUFFICES ASSUME NEW x \in store'.loading PROVE \E d \in calls' : x = [view |-> d.view, at |-> d.at]
      BY DEF MarksHaveCalls
    <3>1. CASE \E i \in asks : x = [view |-> v, at |-> i]
      BY <2>8, <3>1
    <3>2. CASE x \in f.store.loading \ {[view |-> d.view, at |-> d.at] : d \in rejected}
      BY <1>14, <1>19, <1>21, <3>2
    <3>. QED  BY <2>1, <2>2, <2>4, <3>1, <3>2
  <2>12. VisibleTilesComing'
    <3>. SUFFICES ASSUME NEW i \in Wanted(z, t, c, 0)
                  PROVE  \/ i \in Places(store')
                         \/ \E d \in calls' : /\ d.at = i /\ KeyOf(d) = Key(v, z, i)
                                              /\ KeyOf(d) \in DOMAIN manager'.inflight
                         \/ i \in missed' \/ Key(v, z, i) \in manager'.failed
      BY <1>12 DEF VisibleTilesComing
    <3>1. i \in wanted /\ Key(v, z, i) \in keys
      BY <1>3, <1>16
    <3>2. CASE i \in Places(f.store) \union hits
      BY <1>14, <1>21, <3>2
    <3>3. CASE i \in asks
      BY <2>8, <3>3
    <3>4. CASE [view |-> v, at |-> i] \in f.store.loading
      <4>1. PICK d \in calls : [view |-> v, at |-> i] = [view |-> d.view, at |-> d.at]
        BY <3>4 DEF Ready, MarksHaveCalls
      <4>2. d.at = i
        BY <4>1
      <4>3. CallsFit(f.manager, v, z)
        BY <3>4 DEF Ready
      <4>4. KeyOf(d) = Key(v, z, i) /\ KeyOf(d) \in DOMAIN f.manager.inflight
        BY <4>2, <4>3 DEF CallsFit
      <4>5. KeyOf(d) \in DOMAIN m.inflight
        BY <1>18, <3>1, <4>4
      <4>6. d \in calls'
        BY <1>9, <1>14, <1>21, <4>5 DEF Rejected
      <4>. QED  BY <2>9, <4>2, <4>4, <4>6
    <3>5. CASE Key(v, z, i) \in m.failed
      BY <2>7, <3>5
    <3>. QED  BY <1>5, <1>6, <1>7, <3>1, <3>2, <3>3, <3>4, <3>5
  <2>. QED  BY <1>12, <1>17, <1>18, <2>4, <2>5, <2>6, <2>7, <2>10, <2>11, <2>12 DEF LoadingInv
<1>. QED  BY <1>20, <1>21

(***************************************************************************)
(* The effects before it, and what runs them.                              *)
(***************************************************************************)

(* The manager after invalidate, and the store after invalidateTiles.      *)
LEMMA EmptyManagerResult ==
  /\ ManagerOK(EmptyManager) /\ KeysTell(EmptyManager.inflight) /\ KeysTell(EmptyManager.cache)
  /\ DOMAIN EmptyManager.inflight = {}
BY DEF EmptyManager, Nothing, ManagerOK, KeysTell

LEMMA EmptyStoreResult ==
  ASSUME NEW v, NEW z
  PROVE  /\ StoreOK(EmptyStore) /\ TilesFit(EmptyStore, v, z) /\ StaleFit(EmptyStore, z)
         /\ MarksHaveCalls(EmptyStore) /\ EmptyStore.loading = {}
<1>1. /\ EmptyStore = [tiles |-> <<>>, loading |-> {}, stale |-> <<>>]
      /\ EmptyStore.tiles = <<>> /\ EmptyStore.loading = {} /\ EmptyStore.stale = <<>>
  BY DEF EmptyStore, Nothing
<1>2. ToSet(<<>>) = {}
  BY DEF ToSet
<1>. QED  BY <1>1, <1>2 DEF StoreOK, TilesFit, StaleFit, MarksHaveCalls

(* Tiles that are kept for a change of the view stay where they were.      *)
LEMMA StashResult ==
  ASSUME NEW st, NEW w, NEW z, StoreOK(st), TilesFit(st, w, z), NEW v
  PROVE  LET r == stashTilesAsStale(st)
         IN  /\ StoreOK(r) /\ TilesFit(r, v, z) /\ StaleFit(r, z)
             /\ MarksHaveCalls(r) /\ r.loading = {}
<1>. DEFINE g == [i \in Places(st) |-> TileAt(st, i)]
            r == stashTilesAsStale(st)
<1>1. ASSUME NEW i \in Places(st) PROVE g[i].first = i * TILE_ROWS[z]
  <2>1. \E e \in ToSet(st.tiles) : e.at = i
    BY <1>1 DEF Places
  <2>2. PICK e \in ToSet(st.tiles) : e.at = i /\ TileAt(st, i) = e.tile
    BY <2>1 DEF TileAt
  <2>3. IsTile(e.tile, w, e.at * TILE_ROWS[z])
    BY DEF TilesFit
  <2>. QED  BY <2>2, <2>3 DEF IsTile
<1>2. DOMAIN g = Places(st)
  OBVIOUS
<1>3. r = [EmptyStore EXCEPT !.stale = g]
  BY DEF stashTilesAsStale
<1>. HIDE DEF g, r
<1>4. /\ r = [tiles |-> <<>>, loading |-> {}, stale |-> g]
      /\ r.tiles = <<>> /\ r.loading = {} /\ r.stale = g
  BY <1>3 DEF EmptyStore
<1>5. ToSet(<<>>) = {}
  BY DEF ToSet
<1>6. StoreOK(r) /\ TilesFit(r, v, z) /\ StaleFit(r, z) /\ MarksHaveCalls(r) /\ r.loading = {}
  BY <1>1, <1>2, <1>4, <1>5 DEF StoreOK, TilesFit, StaleFit, MarksHaveCalls
<1>. QED  BY <1>6 DEF r

(* What the effects may find: tiles that fit the view and the zoom before, *)
(* and callers that wait, or no promises and no marks.                     *)
Found(f) ==
  /\ StoreOK(f.store) /\ ManagerOK(f.manager)
  /\ TilesFit(f.store, view, zoom) /\ StaleFit(f.store, zoom)
  /\ KeysTell(f.manager.inflight) /\ KeysTell(f.manager.cache)
  /\ MarksHaveCalls(f.store)
  /\ \/ CallsFit(f.manager, view, zoom)
     \/ DOMAIN f.manager.inflight = {} /\ f.store.loading = {}
  /\ f = [store |-> f.store, manager |-> f.manager, walk |-> f.walk, settle |-> f.settle]

(* The effects together: a change of the view or of the size of the tiles  *)
(* empties the manager, so that no old promise can be answered.            *)
LEMMA EffectsKeep ==
  ASSUME NEW f, NEW v \in Views, NEW z \in Zooms, NEW t \in Nat, NEW c \in {NoCount} \union Nat,
         HookFollows, Found(f), Effects(f, v, z, t, c)
  PROVE  LoadingInv'
<1>1. PICK g : g = ViewEffect(f, v)
  OBVIOUS
<1>2. PICK h : h = SizeEffect(g, z)
  OBVIOUS
<1>3. MainEffect(h, v, z, t, c)
  BY <1>1, <1>2 DEF Effects
<1>4. /\ StoreOK(g.store) /\ ManagerOK(g.manager)
      /\ TilesFit(g.store, v, zoom) /\ StaleFit(g.store, zoom)
      /\ KeysTell(g.manager.inflight) /\ KeysTell(g.manager.cache)
      /\ MarksHaveCalls(g.store)
      /\ \/ CallsFit(g.manager, v, zoom)
         \/ DOMAIN g.manager.inflight = {} /\ g.store.loading = {}
      /\ g = [store |-> g.store, manager |-> g.manager, walk |-> g.walk, settle |-> g.settle]
  <2>1. CASE v = hook.view
    <3>1. g = f /\ v = view
      BY <1>1, <2>1 DEF ViewEffect, HookFollows
    <3>. QED  BY <3>1 DEF Found
  <2>2. CASE v # hook.view
    <3>1. PICK st : st = stashTilesAsStale(f.store)
      OBVIOUS
    <3>2. g = [f EXCEPT !.manager = EmptyManager, !.walk = <<>>, !.store = st]
      BY <1>1, <2>2, <3>1 DEF ViewEffect
    <3>3. g = [store |-> st, manager |-> EmptyManager, walk |-> <<>>, settle |-> f.settle]
      BY <3>2 DEF Found
    <3>4. g.store = st /\ g.manager = EmptyManager
      BY <3>3
    <3>5. /\ StoreOK(st) /\ TilesFit(st, v, zoom) /\ StaleFit(st, zoom)
          /\ MarksHaveCalls(st) /\ st.loading = {}
      BY <3>1, StashResult DEF Found
    <3>6. g = [store |-> g.store, manager |-> g.manager, walk |-> g.walk, settle |-> g.settle]
      BY <3>3
    <3>. QED  BY <3>4, <3>5, <3>6, EmptyManagerResult
  <2>. QED  BY <2>1, <2>2
<1>5. Ready(h, v, z)
  <2>1. CASE TILE_ROWS[z] = hook.rows
    <3>1. h = g /\ TILE_ROWS[z] = TILE_ROWS[zoom]
      BY <1>2, <2>1 DEF SizeEffect, HookFollows
    <3>2. TilesFit(h.store, v, z) /\ StaleFit(h.store, z)
      BY <1>4, <3>1 DEF TilesFit, StaleFit
    <3>3. CallsFit(h.manager, v, z) \/ (DOMAIN h.manager.inflight = {} /\ h.store.loading = {})
      BY <1>4, <3>1 DEF CallsFit, Key
    <3>. QED  BY <1>4, <3>1, <3>2, <3>3 DEF Ready
  <2>2. CASE TILE_ROWS[z] # hook.rows
    <3>1. h = [g EXCEPT !.store = EmptyStore, !.manager = EmptyManager]
      BY <1>2, <2>2 DEF SizeEffect
    <3>2. h = [store |-> EmptyStore, manager |-> EmptyManager, walk |-> g.walk, settle |-> g.settle]
      BY <1>4, <3>1
    <3>3. h.store = EmptyStore /\ h.manager = EmptyManager
      BY <3>2
    <3>. QED  BY <3>3, EmptyManagerResult, EmptyStoreResult DEF Ready
  <2>. QED  BY <2>1, <2>2
<1>. QED  BY <1>3, <1>5, MainEffectKeeps

(* The stores as the effects find them, after what some steps do first.    *)
LEMMA HereFound ==
  ASSUME LoadingInv
  PROVE  /\ Found(Here) /\ Found([Here EXCEPT !.store = EmptyStore])
         /\ Found([Here EXCEPT !.settle = FALSE])
         /\ Found([Here EXCEPT !.store = stashTilesAsStale(store), !.manager = EmptyManager, !.walk = <<>>])
<1>1. Here = [store |-> store, manager |-> manager, walk |-> walk, settle |-> settle]
  BY DEF Here
<1>2. ASSUME NEW b PROVE Found([store |-> store, manager |-> manager, walk |-> walk, settle |-> b])
  BY DEF Found, LoadingInv
<1>3. Found([store |-> EmptyStore, manager |-> manager, walk |-> walk, settle |-> settle])
  BY EmptyStoreResult DEF Found, LoadingInv
<1>4. PICK st : st = stashTilesAsStale(store)
  OBVIOUS
<1>5. StoreOK(st) /\ TilesFit(st, view, zoom) /\ StaleFit(st, zoom) /\ MarksHaveCalls(st) /\ st.loading = {}
  BY <1>4, StashResult DEF LoadingInv
<1>6. Found([store |-> st, manager |-> EmptyManager, walk |-> <<>>, settle |-> settle])
  BY <1>5, EmptyManagerResult DEF Found
<1>7. PICK nothing : nothing = EmptyStore
  OBVIOUS
<1>8. [Here EXCEPT !.store = nothing] = [store |-> nothing, manager |-> manager, walk |-> walk, settle |-> settle]
  BY <1>1
<1>9. PICK no : no = FALSE
  OBVIOUS
<1>10. [Here EXCEPT !.settle = no] = [store |-> store, manager |-> manager, walk |-> walk, settle |-> no]
  BY <1>1
<1>11. PICK none : none = EmptyManager
  OBVIOUS
<1>16. PICK noWalk : noWalk = <<>>
  OBVIOUS
<1>17. [Here EXCEPT !.store = st, !.manager = none, !.walk = noWalk]
          = [store |-> st, manager |-> none, walk |-> noWalk, settle |-> settle]
  <2>1. PICK h : h = Here
    OBVIOUS
  <2>2. h = [store |-> h.store, manager |-> h.manager, walk |-> h.walk, settle |-> h.settle]
    BY <1>1, <2>1
  <2>3. h.settle = settle
    BY <1>1, <2>1
  <2>4. PICK r : r = [h EXCEPT !.store = st, !.manager = none, !.walk = noWalk]
    OBVIOUS
  <2>5. r = [store |-> st, manager |-> none, walk |-> noWalk, settle |-> h.settle]
    BY <2>2, <2>4
  <2>. QED  BY <2>1, <2>3, <2>4, <2>5
<1>12. Found(Here)
  BY <1>1, <1>2
<1>13. Found([Here EXCEPT !.store = EmptyStore])
  BY <1>3, <1>7, <1>8
<1>14. Found([Here EXCEPT !.settle = FALSE])
  BY <1>2, <1>9, <1>10
<1>15. Found([Here EXCEPT !.store = st, !.manager = EmptyManager, !.walk = <<>>])
  BY <1>6, <1>11, <1>16, <1>17
<1>. QED  BY <1>4, <1>12, <1>13, <1>14, <1>15

(* Every step that runs the effects.                                       *)
EffectsRun ==
  \/ \E t \in Tops : setViewport(t) \/ \E z \in Zooms : setZoom(z, t)
  \/ \E v \in Views : setOps(v) \/ setSource(v)
  \/ setVirtualRowCount \/ SettleFires \/ JobComplete

LEMMA EffectsRunInv ==
  ASSUME LoadingInv, EffectsRun
  PROVE  LoadingInv'
<1>. USE HereFound
<1>1. /\ view \in Views /\ zoom \in Zooms /\ top \in Nat /\ count \in {NoCount} \union Nat /\ HookFollows
      /\ NoCount \in {NoCount} \union Nat
  BY DEF LoadingInv, SizesOK
<1>2. ASSUME NEW t \in Tops, setViewport(t) PROVE LoadingInv'
  <2>1. t \in Nat /\ Effects(Here, view, zoom, t, count)
    BY <1>2, SizesAssumption DEF setViewport
  <2>. QED  BY <1>1, <2>1, EffectsKeep
<1>3. ASSUME NEW t \in Tops, NEW z \in Zooms, setZoom(z, t) PROVE LoadingInv'
  <2>1. t \in Nat /\ Effects(Here, view, z, t, count)
    BY <1>3, SizesAssumption DEF setZoom
  <2>. QED  BY <1>1, <2>1, EffectsKeep
<1>4. ASSUME NEW v \in Views, setOps(v) PROVE LoadingInv'
  <2>1. Effects(Here, v, zoom, top, NoCount)
    BY <1>4 DEF setOps
  <2>. QED  BY <1>1, <2>1, EffectsKeep
<1>5. ASSUME NEW v \in Views, setSource(v) PROVE LoadingInv'
  <2>1. PICK c : c = IF v = view THEN count ELSE NoCount
    OBVIOUS
  <2>2. c \in {NoCount} \union Nat
    BY <1>1, <2>1
  <2>3. Effects([Here EXCEPT !.store = EmptyStore], v, zoom, top, c)
    BY <1>5, <2>1 DEF setSource
  <2>. QED  BY <1>1, <2>2, <2>3, EffectsKeep
<1>6. ASSUME setVirtualRowCount PROVE LoadingInv'
  <2>1. Effects(Here, view, zoom, top, Count[view])
    BY <1>6 DEF setVirtualRowCount
  <2>2. Count[view] \in {NoCount} \union Nat
    BY <1>1, SizesAssumption
  <2>. QED  BY <1>1, <2>1, <2>2, EffectsKeep
<1>7. ASSUME SettleFires PROVE LoadingInv'
  <2>1. Effects([Here EXCEPT !.settle = FALSE], view, zoom, top, count)
    BY <1>7 DEF SettleFires
  <2>. QED  BY <1>1, <2>1, EffectsKeep
<1>8. ASSUME JobComplete PROVE LoadingInv'
  <2>1. Effects([Here EXCEPT !.store = stashTilesAsStale(store), !.manager = EmptyManager, !.walk = <<>>],
                view, zoom, top, count)
    BY <1>8 DEF JobComplete
  <2>. QED  BY <1>1, <2>1, EffectsKeep
<1>. QED  BY <1>2, <1>3, <1>4, <1>5, <1>6, <1>7, <1>8 DEF EffectsRun

(***************************************************************************)
(* Answers and timers.                                                     *)
(***************************************************************************)

(* What a resolved promise brings is a tile of the view and the row asked  *)
(* for, by either route.                                                   *)
LEMMA AnswerIsTile ==
  ASSUME NEW asked, NEW v, NEW o, IsTile(asked, v, o),
         NEW meta \in fetchViewTile(asked) \union fetchViewTileBatch(asked)
  PROVE  IsTile(meta.tile, v, o) /\ meta.tile.view = v
<1>1. asked = [view |-> v, first |-> o, rows |-> asked.rows, mode |-> asked.mode]
  BY DEF IsTile
<1>2. meta.tile = asked \/ meta.tile = [asked EXCEPT !.mode = "raw"]
  BY DEF fetchViewTile, fetchViewTileBatch
<1>3. [asked EXCEPT !.mode = "raw"] = [view |-> v, first |-> o, rows |-> asked.rows, mode |-> "raw"]
  BY <1>1
<1>. QED  BY <1>1, <1>2, <1>3 DEF IsTile

(* Two callers of a promise wait at the same place.                        *)
LEMMA SamePlace ==
  ASSUME NEW v, NEW z \in Zooms, NEW i \in Int, NEW j \in Int, Key(v, z, i) = Key(v, z, j)
  PROVE  i = j
<1>1. TILE_ROWS[z] \in Nat \ {0}
  BY ZoomsAssumption
<1>2. i * TILE_ROWS[z] = j * TILE_ROWS[z]
  BY DEF Key
<1>3. ASSUME NEW n \in Nat \ {0}, i * n = j * n PROVE i = j
  BY <1>3
<1>. QED  BY <1>1, <1>2, <1>3

(* An answer stores the tile where its callers wait, which is one place,   *)
(* and takes the mark of each caller away.                                 *)
LEMMA TileAnsweredInv ==
  ASSUME LoadingInv, TileAnswered
  PROVE  LoadingInv'
<1>1. PICK key \in DOMAIN manager.inflight : Answered(key)
  BY DEF TileAnswered
<1>2. view' = view /\ zoom' = zoom /\ top' = top /\ count' = count /\ hook' = hook /\ settle' = settle
  BY DEF TileAnswered
<1>3. PICK meta \in fetchViewTile(manager.inflight[key]) \union fetchViewTileBatch(manager.inflight[key]) :
        LET callers == {c \in calls : KeyOf(c) = key}
            places == IF key.view # view THEN {} ELSE {c.at : c \in callers}
            stored == cacheTiles(store, [i \in places |-> meta.tile])
        IN /\ store' = stored
           /\ missed' = missed \union (Places(store) \ Places(stored))
           /\ calls' = calls \ callers
           /\ \E kept \in SUBSET DOMAIN manager.cache :
                 manager' = [manager EXCEPT !.inflight = Off(@, {key}),
                        !.cache = With(On(@, kept), key, meta.tile)]
  BY <1>1 DEF Answered
<1>4. PICK callers : callers = {c \in calls : KeyOf(c) = key}
  OBVIOUS
<1>5. PICK places : places = IF key.view # view THEN {} ELSE {c.at : c \in callers}
  OBVIOUS
<1>6. PICK tiles : tiles = [i \in places |-> meta.tile]
  OBVIOUS
<1>7. /\ store' = cacheTiles(store, tiles)
      /\ missed' = missed \union (Places(store) \ Places(store'))
      /\ calls' = calls \ callers
  BY <1>3, <1>4, <1>5, <1>6
<1>8. PICK kept : manager' = [manager EXCEPT !.inflight = Off(@, {key}),
                                             !.cache = With(On(@, kept), key, meta.tile)]
  BY <1>3
<1>9. /\ SizesOK /\ StoreOK(store) /\ ManagerOK(manager) /\ HookFollows
      /\ TilesFit(store, view, zoom) /\ StaleFit(store, zoom)
      /\ KeysTell(manager.inflight) /\ KeysTell(manager.cache)
      /\ CallsFit(manager, view, zoom) /\ MarksHaveCalls(store)
      /\ VisibleTilesComing
  BY DEF LoadingInv
<1>10. IsTile(meta.tile, key.view, key.off) /\ meta.tile.view = key.view
  <2>1. IsTile(manager.inflight[key], key.view, key.off)
    BY <1>9 DEF KeysTell
  <2>. QED  BY <2>1, AnswerIsTile
<1>11. /\ ManagerOK(manager') /\ manager'.failed = manager.failed
       /\ manager'.inflight = Off(manager.inflight, {key})
       /\ manager'.cache = With(On(manager.cache, kept), key, meta.tile)
  <2>1. PICK a : a = Off(manager.inflight, {key})
    OBVIOUS
  <2>2. PICK b : b = With(On(manager.cache, kept), key, meta.tile)
    OBVIOUS
  <2>3. manager' = [inflight |-> a, cache |-> b, failed |-> manager.failed]
    BY <1>8, <1>9, <2>1, <2>2 DEF ManagerOK
  <2>. QED  BY <2>1, <2>2, <2>3 DEF ManagerOK
<1>12. KeysTell(manager'.inflight) /\ KeysTell(manager'.cache)
  <2>1. KeysTell(manager'.inflight)
    BY <1>9, <1>11 DEF KeysTell, Off
  <2>2. KeysTell(manager'.cache)
    BY <1>9, <1>10, <1>11 DEF KeysTell, With, On
  <2>. QED  BY <2>1, <2>2
<1>13. \A c \in callers : /\ c \in calls /\ c.view = view /\ c.at \in Int
                          /\ key = Key(view, zoom, c.at) /\ key.view = view /\ key.off = c.at * TILE_ROWS[zoom]
  BY <1>4, <1>9 DEF CallsFit, Key
<1>14. \A c, d \in callers : c.at = d.at
  <2>1. zoom \in Zooms
    BY <1>9 DEF SizesOK
  <2>. QED  BY <1>13, <2>1, SamePlace
<1>15. /\ \A c \in callers : places = {c.at}
       /\ callers = {} => places = {}
       /\ \A i \in places : \E c \in callers : c.at = i
  BY <1>5, <1>13, <1>14
<1>16. DOMAIN tiles = places /\ places \subseteq Int /\ IsFiniteSet(places)
  <2>1. places \subseteq Int
    BY <1>13, <1>15
  <2>2. IsFiniteSet(places)
    <3>1. IsFiniteSet({}) /\ \A i : IsFiniteSet({i})
      BY FS_EmptySet, FS_Singleton
    <3>2. places = {} \/ \E i : places = {i}
      BY <1>15
    <3>. QED  BY <3>1, <3>2
  <2>. QED  BY <1>6, <2>1, <2>2
<1>17. /\ StoreOK(store')
       /\ \A e \in ToSet(store'.tiles) : \/ e \in ToSet(store.tiles)
                                         \/ \E i \in DOMAIN tiles : e = [at |-> i, tile |-> tiles[i]]
       /\ store'.loading = store.loading \ {[view |-> tiles[i].view, at |-> i] : i \in DOMAIN tiles}
       /\ store'.stale = Off(store.stale, DOMAIN tiles)
       /\ \A i : DOMAIN tiles = {i} => i \in Places(store')
  <2>1. DOMAIN tiles \subseteq Int /\ IsFiniteSet(DOMAIN tiles)
    BY <1>16
  <2>2. PICK r : r = cacheTiles(store, tiles)
    OBVIOUS
  <2>3. /\ StoreOK(r)
        /\ \A e \in ToSet(r.tiles) : \/ e \in ToSet(store.tiles)
                                     \/ \E i \in DOMAIN tiles : e = [at |-> i, tile |-> tiles[i]]
        /\ r.loading = store.loading \ {[view |-> tiles[i].view, at |-> i] : i \in DOMAIN tiles}
        /\ r.stale = Off(store.stale, DOMAIN tiles)
        /\ \A i : DOMAIN tiles = {i} => i \in Places(r)
    BY <1>9, <2>1, <2>2, CacheTilesResult
  <2>. QED  BY <1>7, <2>2, <2>3
<1>18. TilesFit(store', view, zoom)
  <2>. SUFFICES ASSUME NEW e \in ToSet(store'.tiles) PROVE IsTile(e.tile, view, e.at * TILE_ROWS[zoom])
    BY DEF TilesFit
  <2>1. CASE e \in ToSet(store.tiles)
    BY <1>9, <2>1 DEF TilesFit
  <2>2. CASE \E i \in DOMAIN tiles : e = [at |-> i, tile |-> tiles[i]]
    <3>1. PICK i \in places : e.at = i /\ e.tile = meta.tile
      BY <1>6, <1>16, <2>2
    <3>2. key.view = view /\ key.off = i * TILE_ROWS[zoom]
      BY <1>13, <1>15
    <3>. QED  BY <1>10, <3>1, <3>2
  <2>. QED  BY <1>17, <2>1, <2>2
<1>19. StaleFit(store', zoom)
  BY <1>9, <1>17 DEF StaleFit, Off
<1>20. CallsFit(manager, view, zoom)'
  <2>. SUFFICES ASSUME NEW c \in calls'
                PROVE  /\ c.view = view /\ c.at \in Int /\ KeyOf(c) = Key(view, zoom, c.at)
                       /\ KeyOf(c) \in DOMAIN manager'.inflight
    BY <1>2 DEF CallsFit
  <2>1. c \in calls /\ KeyOf(c) # key
    BY <1>4, <1>7
  <2>. QED  BY <1>9, <1>11, <2>1 DEF CallsFit, Off
<1>21. MarksHaveCalls(store)'
  <2>. SUFFICES ASSUME NEW x \in store'.loading PROVE \E c \in calls' : x = [view |-> c.view, at |-> c.at]
    BY DEF MarksHaveCalls
  <2>1. PICK c \in calls : x = [view |-> c.view, at |-> c.at]
    BY <1>9, <1>17 DEF MarksHaveCalls
  <2>2. CASE c \in callers
    <3>1. c.at \in places /\ tiles[c.at].view = c.view
      BY <1>6, <1>10, <1>13, <1>15, <2>2
    <3>2. x = [view |-> tiles[c.at].view, at |-> c.at]
      BY <2>1, <3>1
    <3>. QED  BY <1>16, <1>17, <3>1, <3>2
  <2>3. CASE c \notin callers
    BY <1>7, <2>1, <2>3
  <2>. QED  BY <2>2, <2>3
<1>22. VisibleTilesComing'
  <2>. SUFFICES ASSUME NEW i \in Wanted(zoom, top, count, 0)
                PROVE  \/ i \in Places(store')
                       \/ \E c \in calls' : /\ c.at = i /\ KeyOf(c) = Key(view, zoom, i)
                                            /\ KeyOf(c) \in DOMAIN manager'.inflight
                       \/ settle' \/ i \in missed' \/ Key(view, zoom, i) \in manager'.failed
    BY <1>2 DEF VisibleTilesComing
  <2>1. \/ i \in Places(store) \/ settle \/ i \in missed \/ Key(view, zoom, i) \in manager.failed
        \/ \E c \in calls : /\ c.at = i /\ KeyOf(c) = Key(view, zoom, i)
                            /\ KeyOf(c) \in DOMAIN manager.inflight
    BY <1>9 DEF VisibleTilesComing
  <2>2. CASE i \in Places(store)
    BY <1>7, <2>2
  <2>3. CASE settle \/ i \in missed \/ Key(view, zoom, i) \in manager.failed
    BY <1>2, <1>7, <1>11, <2>3
  <2>4. ASSUME NEW c \in calls, c.at = i, KeyOf(c) = Key(view, zoom, i), KeyOf(c) \in DOMAIN manager.inflight
        PROVE  \/ i \in Places(store')
               \/ \E d \in calls' : /\ d.at = i /\ KeyOf(d) = Key(view, zoom, i)
                                    /\ KeyOf(d) \in DOMAIN manager'.inflight
    <3>1. CASE c \in callers
      BY <1>15, <1>16, <1>17, <2>4, <3>1
    <3>2. CASE c \notin callers
      <4>1. c \in calls' /\ KeyOf(c) # key
        BY <1>4, <1>7, <3>2
      <4>2. KeyOf(c) \in DOMAIN manager'.inflight
        BY <1>11, <2>4, <4>1 DEF Off
      <4>. QED  BY <2>4, <4>1, <4>2
    <3>. QED  BY <3>1, <3>2
  <2>. QED  BY <2>1, <2>2, <2>3, <2>4
<1>23. SizesOK' /\ HookFollows'
  BY <1>2, <1>9 DEF SizesOK, HookFollows
<1>. QED  BY <1>2, <1>11, <1>12, <1>17, <1>18, <1>19, <1>20, <1>21, <1>22, <1>23 DEF LoadingInv

(* A failure takes the marks of its callers away.                          *)
LEMMA TileFailedInv ==
  ASSUME LoadingInv, TileFailed
  PROVE  LoadingInv'
<1>1. PICK key \in DOMAIN manager.inflight, gaveUp \in BOOLEAN :
        LET callers == {c \in calls : KeyOf(c) = key}
        IN /\ store' = Unmark(store, callers)
           /\ missed' = missed \union {c.at : c \in {d \in callers : d.view = view}}
           /\ calls' = calls \ callers
           /\ manager' = [manager EXCEPT !.inflight = Off(@, {key}),
                                         !.failed = IF gaveUp THEN @ \union {key} ELSE @]
  BY DEF TileFailed
<1>2. view' = view /\ zoom' = zoom /\ top' = top /\ count' = count /\ hook' = hook /\ settle' = settle
  BY DEF TileFailed
<1>3. PICK callers : callers = {c \in calls : KeyOf(c) = key}
  OBVIOUS
<1>4. /\ store' = Unmark(store, callers)
      /\ missed' = missed \union {c.at : c \in {d \in callers : d.view = view}}
      /\ calls' = calls \ callers
  BY <1>1, <1>3
<1>5. /\ SizesOK /\ StoreOK(store) /\ ManagerOK(manager) /\ HookFollows
      /\ TilesFit(store, view, zoom) /\ StaleFit(store, zoom)
      /\ KeysTell(manager.inflight) /\ KeysTell(manager.cache)
      /\ CallsFit(manager, view, zoom) /\ MarksHaveCalls(store)
      /\ VisibleTilesComing
  BY DEF LoadingInv
<1>6. /\ ManagerOK(manager') /\ manager.failed \subseteq manager'.failed
      /\ manager'.inflight = Off(manager.inflight, {key}) /\ manager'.cache = manager.cache
  <2>1. PICK a : a = Off(manager.inflight, {key})
    OBVIOUS
  <2>2. PICK b : b = IF gaveUp THEN manager.failed \union {key} ELSE manager.failed
    OBVIOUS
  <2>3. manager' = [manager EXCEPT !.inflight = a, !.failed = b]
    BY <1>1, <2>1, <2>2
  <2>4. manager' = [inflight |-> a, cache |-> manager.cache, failed |-> b]
    BY <1>5, <2>3 DEF ManagerOK
  <2>. QED  BY <2>1, <2>2, <2>4 DEF ManagerOK
<1>7. /\ StoreOK(store') /\ store'.tiles = store.tiles /\ store'.stale = store.stale
      /\ store'.loading = store.loading \ {[view |-> c.view, at |-> c.at] : c \in callers}
  BY <1>4, <1>5, UnmarkResult
<1>8. KeysTell(manager'.inflight) /\ KeysTell(manager'.cache)
  BY <1>5, <1>6 DEF KeysTell, Off
<1>9. TilesFit(store', view, zoom) /\ StaleFit(store', zoom)
  BY <1>5, <1>7 DEF TilesFit, StaleFit
<1>10. CallsFit(manager, view, zoom)'
  <2>. SUFFICES ASSUME NEW c \in calls'
                PROVE  /\ c.view = view /\ c.at \in Int /\ KeyOf(c) = Key(view, zoom, c.at)
                       /\ KeyOf(c) \in DOMAIN manager'.inflight
    BY <1>2 DEF CallsFit
  <2>1. c \in calls /\ KeyOf(c) # key
    BY <1>3, <1>4
  <2>. QED  BY <1>5, <1>6, <2>1 DEF CallsFit, Off
<1>11. MarksHaveCalls(store)'
  <2>. SUFFICES ASSUME NEW x \in store'.loading PROVE \E c \in calls' : x = [view |-> c.view, at |-> c.at]
    BY DEF MarksHaveCalls
  <2>1. PICK c \in calls : x = [view |-> c.view, at |-> c.at]
    BY <1>5, <1>7 DEF MarksHaveCalls
  <2>2. c \notin callers
    BY <1>7, <2>1
  <2>. QED  BY <1>4, <2>1, <2>2
<1>12. VisibleTilesComing'
  <2>. SUFFICES ASSUME NEW i \in Wanted(zoom, top, count, 0)
                PROVE  \/ i \in Places(store')
                       \/ \E c \in calls' : /\ c.at = i /\ KeyOf(c) = Key(view, zoom, i)
                                            /\ KeyOf(c) \in DOMAIN manager'.inflight
                       \/ settle' \/ i \in missed' \/ Key(view, zoom, i) \in manager'.failed
    BY <1>2 DEF VisibleTilesComing
  <2>1. \/ i \in Places(store) \/ settle \/ i \in missed \/ Key(view, zoom, i) \in manager.failed
        \/ \E c \in calls : /\ c.at = i /\ KeyOf(c) = Key(view, zoom, i)
                            /\ KeyOf(c) \in DOMAIN manager.inflight
    BY <1>5 DEF VisibleTilesComing
  <2>2. CASE i \in Places(store)
    BY <1>7, <2>2 DEF Places
  <2>3. CASE settle \/ i \in missed \/ Key(view, zoom, i) \in manager.failed
    BY <1>2, <1>4, <1>6, <2>3
  <2>4. ASSUME NEW c \in calls, c.at = i, KeyOf(c) = Key(view, zoom, i), KeyOf(c) \in DOMAIN manager.inflight
        PROVE  \/ i \in missed'
               \/ \E d \in calls' : /\ d.at = i /\ KeyOf(d) = Key(view, zoom, i)
                                    /\ KeyOf(d) \in DOMAIN manager'.inflight
    <3>1. CASE c \in callers
      <4>1. c.view = view
        BY <1>5 DEF CallsFit
      <4>. QED  BY <1>4, <2>4, <3>1, <4>1
    <3>2. CASE c \notin callers
      <4>1. c \in calls' /\ KeyOf(c) # key
        BY <1>3, <1>4, <3>2
      <4>2. KeyOf(c) \in DOMAIN manager'.inflight
        BY <1>6, <2>4, <4>1 DEF Off
      <4>. QED  BY <2>4, <4>1, <4>2
    <3>. QED  BY <3>1, <3>2
  <2>. QED  BY <2>1, <2>2, <2>3, <2>4
<1>13. SizesOK' /\ HookFollows'
  BY <1>2, <1>5 DEF SizesOK, HookFollows
<1>. QED  BY <1>2, <1>6, <1>7, <1>8, <1>9, <1>10, <1>11, <1>12, <1>13 DEF LoadingInv

(* The steps that only add promises, forget failures or drop stale tiles.  *)
LEMMA QuietStepInv ==
  ASSUME LoadingInv,
         FailuresExpire \/ PrefetchFires \/ JobFailed \/ JobStreamBroke \/ UNCHANGED loadingVars
  PROVE  LoadingInv'
<1>1. /\ SizesOK /\ StoreOK(store) /\ ManagerOK(manager) /\ HookFollows
      /\ TilesFit(store, view, zoom) /\ StaleFit(store, zoom)
      /\ KeysTell(manager.inflight) /\ KeysTell(manager.cache)
      /\ CallsFit(manager, view, zoom) /\ MarksHaveCalls(store)
      /\ VisibleTilesComing
  BY DEF LoadingInv
<1>2. CASE FailuresExpire
  <2>1. /\ view' = view /\ zoom' = zoom /\ top' = top /\ count' = count /\ hook' = hook
        /\ settle' = settle /\ calls' = calls /\ store' = store
        /\ manager' = [manager EXCEPT !.failed = {}]
        /\ missed' = missed \union {i \in Wanted(zoom, top, count, 0) : Key(view, zoom, i) \in manager.failed}
    BY <1>2 DEF FailuresExpire
  <2>2. manager' = [inflight |-> manager.inflight, cache |-> manager.cache, failed |-> {}]
    BY <1>1, <2>1 DEF ManagerOK
  <2>3. ManagerOK(manager') /\ manager'.inflight = manager.inflight /\ manager'.cache = manager.cache
    BY <2>2 DEF ManagerOK
  <2>4. SizesOK' /\ HookFollows' /\ CallsFit(manager, view, zoom)' /\ MarksHaveCalls(store)'
    BY <1>1, <2>1, <2>3 DEF SizesOK, HookFollows, CallsFit, MarksHaveCalls
  <2>5. VisibleTilesComing'
    BY <1>1, <2>1, <2>3 DEF VisibleTilesComing
  <2>. QED  BY <1>1, <2>1, <2>3, <2>4, <2>5 DEF LoadingInv
<1>3. CASE PrefetchFires
  <2>1. PICK K, z : manager' = getTiles(manager, K, z, "raw")
    BY <1>3 DEF PrefetchFires
  <2>2. /\ view' = view /\ zoom' = zoom /\ top' = top /\ count' = count /\ hook' = hook
        /\ settle' = settle /\ calls' = calls /\ store' = store /\ missed' = missed
    BY <1>3 DEF PrefetchFires
  <2>3. /\ ManagerOK(manager') /\ manager'.cache = manager.cache /\ manager'.failed = manager.failed
        /\ DOMAIN manager'.inflight = DOMAIN manager.inflight \union K
        /\ KeysTell(manager'.inflight)
    BY <1>1, <2>1, GetTilesResult
  <2>4. SizesOK' /\ HookFollows' /\ CallsFit(manager, view, zoom)' /\ MarksHaveCalls(store)'
    BY <1>1, <2>2, <2>3 DEF SizesOK, HookFollows, CallsFit, MarksHaveCalls
  <2>5. VisibleTilesComing'
    BY <1>1, <2>2, <2>3 DEF VisibleTilesComing
  <2>. QED  BY <1>1, <2>2, <2>3, <2>4, <2>5 DEF LoadingInv
<1>4. CASE JobFailed
  <2>1. /\ view' = view /\ zoom' = zoom /\ top' = top /\ count' = count /\ hook' = hook
        /\ settle' = settle /\ calls' = calls /\ manager' = manager /\ missed' = missed
        /\ store' = [store EXCEPT !.stale = Nothing]
    BY <1>4 DEF JobFailed, clearStaleTiles
  <2>2. store' = [tiles |-> store.tiles, loading |-> store.loading, stale |-> <<>>]
    BY <1>1, <2>1 DEF StoreOK, Nothing
  <2>3. /\ StoreOK(store') /\ store'.tiles = store.tiles /\ store'.loading = store.loading
        /\ store'.stale = <<>>
    BY <1>1, <2>2 DEF StoreOK
  <2>4. TilesFit(store', view, zoom) /\ StaleFit(store', zoom)
    BY <1>1, <2>3 DEF TilesFit, StaleFit
  <2>5. SizesOK' /\ HookFollows' /\ CallsFit(manager, view, zoom)' /\ MarksHaveCalls(store)'
    BY <1>1, <2>1, <2>3 DEF SizesOK, HookFollows, CallsFit, MarksHaveCalls
  <2>6. VisibleTilesComing'
    BY <1>1, <2>1, <2>3 DEF VisibleTilesComing, Places
  <2>. QED  BY <1>1, <2>1, <2>3, <2>4, <2>5, <2>6 DEF LoadingInv
<1>5. CASE JobStreamBroke \/ UNCHANGED loadingVars
  <2>1. /\ view' = view /\ zoom' = zoom /\ top' = top /\ count' = count /\ hook' = hook
        /\ settle' = settle /\ calls' = calls /\ store' = store /\ missed' = missed
        /\ manager' = manager
    BY <1>5 DEF JobStreamBroke, loadingVars
  <2>2. SizesOK' /\ HookFollows' /\ CallsFit(manager, view, zoom)' /\ MarksHaveCalls(store)'
    BY <1>1, <2>1 DEF SizesOK, HookFollows, CallsFit, MarksHaveCalls
  <2>3. VisibleTilesComing'
    BY <1>1, <2>1 DEF VisibleTilesComing
  <2>. QED  BY <1>1, <2>1, <2>2, <2>3 DEF LoadingInv
<1>. QED  BY <1>2, <1>3, <1>4, <1>5

LEMMA StartInv == LoadingInit => LoadingInv
<1>. SUFFICES ASSUME LoadingInit PROVE LoadingInv
  OBVIOUS
<1>1. /\ store = EmptyStore /\ manager = EmptyManager /\ settle = TRUE
      /\ view \in Views /\ zoom \in Zooms /\ top = 0 /\ count = NoCount /\ calls = {}
      /\ hook = [view |-> view, top |-> 0, rows |-> TILE_ROWS[zoom]]
  BY DEF LoadingInit
<1>2. SizesOK /\ HookFollows
  BY <1>1 DEF SizesOK, HookFollows
<1>3. /\ StoreOK(store) /\ TilesFit(store, view, zoom) /\ StaleFit(store, zoom) /\ MarksHaveCalls(store)
  BY <1>1, EmptyStoreResult
<1>4. ManagerOK(manager) /\ KeysTell(manager.inflight) /\ KeysTell(manager.cache)
  BY <1>1, EmptyManagerResult
<1>5. CallsFit(manager, view, zoom)
  BY <1>1 DEF CallsFit
<1>6. VisibleTilesComing
  BY <1>1 DEF VisibleTilesComing
<1>. QED  BY <1>2, <1>3, <1>4, <1>5, <1>6 DEF LoadingInv

LEMMA LoadingInvHolds == LoadingSpec => []LoadingInv
<1>1. LoadingInv /\ [LoadingNext]_loadingVars => LoadingInv'
  <2>. SUFFICES ASSUME LoadingInv, [LoadingNext]_loadingVars PROVE LoadingInv'
    OBVIOUS
  <2>1. CASE EffectsRun
    BY <2>1, EffectsRunInv
  <2>2. CASE TileAnswered
    BY <2>2, TileAnsweredInv
  <2>3. CASE TileFailed
    BY <2>3, TileFailedInv
  <2>4. CASE FailuresExpire \/ PrefetchFires \/ JobFailed \/ JobStreamBroke \/ UNCHANGED loadingVars
    BY <2>4, QuietStepInv
  <2>. QED  BY <2>1, <2>2, <2>3, <2>4 DEF LoadingNext, EffectsRun
<1>. QED  BY <1>1, StartInv, PTL DEF LoadingSpec

(* A row is where its tile starts and so much further.                     *)
LEMMA RowOfTile ==
  ASSUME NEW a \in Int, NEW b \in Nat \ {0}
  PROVE  (a \div b) * b + (a % b) = a
OBVIOUS

(* The grid draws in each row the values of that row, and of the view on   *)
(* show unless it dims them, for any sizes of tiles, rows and stores: the  *)
(* places of the store are always those of tiles of the size on show.      *)
THEOREM RowsShowThemselves == LoadingSpec => []CellsShowTheirRow
<1>1. LoadingInv => CellsShowTheirRow
  <2>. SUFFICES ASSUME LoadingInv, NEW row \in DrawnRows, NEW d \in DrawnFrom(row)
                PROVE  d.row = row /\ (d.view = view \/ d.dimmed)
    BY DEF CellsShowTheirRow
  <2>1. row \in Int /\ TILE_ROWS[zoom] \in Nat \ {0}
    BY ZoomsAssumption DEF LoadingInv, SizesOK, DrawnRows
  <2>2. PICK i : i = row \div TILE_ROWS[zoom]
    OBVIOUS
  <2>3. i * TILE_ROWS[zoom] + (row % TILE_ROWS[zoom]) = row
    BY <2>1, <2>2, RowOfTile
  <2>4. TilesFit(store, view, zoom) /\ StaleFit(store, zoom)
    BY DEF LoadingInv
  <2>5. CASE i \in Places(store)
    <3>1. \E e \in ToSet(store.tiles) : e.at = i
      BY <2>5 DEF Places
    <3>2. PICK e \in ToSet(store.tiles) : e.at = i /\ TileAt(store, i) = e.tile
      BY <3>1 DEF TileAt
    <3>3. e.tile.first = i * TILE_ROWS[zoom] /\ e.tile.view = view
      <4>1. IsTile(e.tile, view, i * TILE_ROWS[zoom])
        BY <2>4, <3>2 DEF TilesFit
      <4>2. ASSUME NEW t, NEW o, IsTile(t, view, o) PROVE t.first = o /\ t.view = view
        BY <4>2 DEF IsTile
      <4>. QED  BY <4>1, <4>2
    <3>4. d.row = e.tile.first + (row % TILE_ROWS[zoom]) /\ d.view = e.tile.view
      BY <2>2, <2>5, <3>2 DEF DrawnFrom
    <3>. QED  BY <2>3, <3>3, <3>4
  <2>6. CASE i \notin Places(store)
    <3>1. /\ i \in DOMAIN store.stale
          /\ d.row = store.stale[i].first + (row % TILE_ROWS[zoom]) /\ d.dimmed
      <4>1. PICK stale : stale = (i \notin Places(store))
        OBVIOUS
      <4>2. /\ i \in DOMAIN store.stale
            /\ d \in {[row |-> store.stale[i].first + (row % TILE_ROWS[zoom]),
                       view |-> store.stale[i].view, dimmed |-> stale] :
                       x \in {y \in {store.stale[i]} : y.mode = "raw" /\ row % TILE_ROWS[zoom] < y.rows}}
        BY <2>2, <2>6, <4>1 DEF DrawnFrom
      <4>3. d = [row |-> store.stale[i].first + (row % TILE_ROWS[zoom]),
                 view |-> store.stale[i].view, dimmed |-> stale]
        BY <4>2
      <4>4. d.row = store.stale[i].first + (row % TILE_ROWS[zoom]) /\ d.dimmed = stale
        BY <4>3
      <4>. QED  BY <2>6, <4>1, <4>2, <4>4
    <3>2. store.stale[i].first = i * TILE_ROWS[zoom]
      BY <2>4, <3>1 DEF StaleFit
    <3>. QED  BY <2>3, <3>1, <3>2
  <2>. QED  BY <2>5, <2>6
<1>. QED  BY <1>1, LoadingInvHolds, PTL

(* No tile in sight is forgotten: useTiles never takes one for stored or   *)
(* asked for when nothing will bring it.                                   *)
THEOREM NoTileIsForgotten == LoadingSpec => []VisibleTilesComing
<1>1. LoadingInv => VisibleTilesComing
  BY DEF LoadingInv
<1>. QED  BY <1>1, LoadingInvHolds, PTL

=============================================================================
