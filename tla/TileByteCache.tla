----------------------------- MODULE TileByteCache -----------------------------
(***************************************************************************)
(* OptionalCache, the cache of encoded tiles and statistics of the server  *)
(* (crates/tv-server/src/cache.rs).  It is a DashMap and an atomic counter *)
(* with no lock over both: a step is one operation on the map or one on    *)
(* the counter, and any number of threads run get, set, the cleanup task   *)
(* and invalidate_prefix side by side.                                     *)
(*                                                                         *)
(* The counter is kept as an unbounded integer whose value in the program  *)
(* is its residue modulo Word.  Name_Slip is Name with a slip.             *)
(***************************************************************************)
EXTENDS Integers, FiniteSets, Functions

CONSTANTS
  Threads, Keys,
  Sizes,      \* bytes a value may have
  MaxBytes,   \* max_bytes
  Word,       \* 2^64
  MaxFreq,    \* bound: hits counted on one entry
  MaxSets     \* bound: values set

ASSUME CacheAssumption ==
  /\ IsFiniteSet(Threads) /\ IsFiniteSet(Keys) /\ Keys # {}
  /\ Sizes \subseteq Nat /\ MaxBytes \in Nat /\ Word \in Nat \ {0}
  /\ MaxFreq \in Nat \ {0} /\ MaxSets \in Nat

VARIABLES
  inner,          \* inner: a partial function from keys to entries
  current_bytes,
  pc, key, bytes, \* per thread: its step, the key and size it sets or gets
  owed,           \*   the bytes of what it removed and has to subtract
  todo,           \*   the keys it is about to remove, with the freq it saw
  sets            \* values set so far

vars == <<inner, current_bytes, pc, key, bytes, owed, todo, sets>>

Entry == [bytes : Sizes, freq : 1 .. MaxFreq, expired : BOOLEAN]

PC == {"idle", "remove expired", "replace", "subtract old", "check", "list", "evict",
       "remove least", "subtract least", "insert", "add", "sweep", "subtract swept"}

Nothing == [k \in {} |-> k]

Load(n) == n % Word

Goto(t, label) == pc' = [pc EXCEPT ![t] = label]

Remove(k) == inner' = [j \in DOMAIN inner \ {k} |-> inner[j]]

(* The bytes of the entry that a removal of k returns, if there is one.    *)
Removed(k) == IF k \in DOMAIN inner THEN inner[k].bytes ELSE 0

-----------------------------------------------------------------------------
(* Time: the ttl of an entry goes by.  An entry set with no ttl never does.*)
Expire(k) ==
  /\ k \in DOMAIN inner /\ ~ inner[k].expired
  /\ inner' = [inner EXCEPT ![k].expired = TRUE]
  /\ UNCHANGED <<current_bytes, pc, key, bytes, owed, todo, sets>>

-----------------------------------------------------------------------------
(* get: a hit counts; an expired entry is let go of, then removed by key.  *)

GetHit(t, k) ==
  /\ pc[t] = "idle" /\ k \in DOMAIN inner /\ ~ inner[k].expired
  /\ inner[k].freq < MaxFreq
  /\ inner' = [inner EXCEPT ![k].freq = @ + 1]
  /\ UNCHANGED <<current_bytes, pc, key, bytes, owed, todo, sets>>

GetExpired(t, k) ==
  /\ pc[t] = "idle" /\ k \in DOMAIN inner /\ inner[k].expired
  /\ key' = [key EXCEPT ![t] = k]
  /\ Goto(t, "remove expired")
  /\ UNCHANGED <<inner, current_bytes, bytes, owed, todo, sets>>

RemoveExpired_Renews(t) ==
  /\ pc[t] = "remove expired"
  /\ inner' = [k \in DOMAIN inner |-> IF k = key[t] THEN [inner[k] EXCEPT !.expired = FALSE]
                                                    ELSE inner[k]]
  /\ Goto(t, "idle")
  /\ UNCHANGED <<current_bytes, key, bytes, owed, todo, sets>>

(* Whatever the key holds by now goes, and its bytes stay counted.         *)
RemoveExpired(t) ==
  /\ pc[t] = "remove expired"
  /\ Remove(key[t])
  /\ Goto(t, "idle")
  /\ UNCHANGED <<current_bytes, key, bytes, owed, todo, sets>>

-----------------------------------------------------------------------------
(* set.                                                                    *)

Set(t, k, n) ==
  /\ pc[t] = "idle" /\ sets < MaxSets
  /\ key' = [key EXCEPT ![t] = k]
  /\ bytes' = [bytes EXCEPT ![t] = n]
  /\ sets' = sets + 1
  /\ Goto(t, "replace")
  /\ UNCHANGED <<inner, current_bytes, owed, todo>>

Replace(t) ==
  /\ pc[t] = "replace"
  /\ owed' = [owed EXCEPT ![t] = Removed(key[t])]
  /\ Remove(key[t])
  /\ Goto(t, "subtract old")
  /\ UNCHANGED <<current_bytes, key, bytes, todo, sets>>

(* fetch_sub of what was removed, and on to the next step.                 *)
Subtract(t, from, to) ==
  /\ pc[t] = from
  /\ current_bytes' = current_bytes - owed[t]
  /\ owed' = [owed EXCEPT ![t] = 0]
  /\ Goto(t, to)
  /\ UNCHANGED <<inner, key, bytes, todo, sets>>

SubtractOld(t) == Subtract(t, "subtract old", "check")

(* current + needed <= max_bytes                                           *)
Fits(t) == Load(Load(current_bytes) + bytes[t]) <= MaxBytes

Check(t) ==
  /\ pc[t] = "check"
  /\ Goto(t, IF Fits(t) THEN "insert" ELSE "list")
  /\ UNCHANGED <<inner, current_bytes, key, bytes, owed, todo, sets>>

(* The entries with their counts of hits, sorted by them once.             *)
List(t) ==
  /\ pc[t] = "list"
  /\ todo' = [todo EXCEPT ![t] = [k \in DOMAIN inner |-> inner[k].freq]]
  /\ Goto(t, "evict")
  /\ UNCHANGED <<inner, current_bytes, key, bytes, owed, sets>>

(* The loop goes on until the value fits or the list is at its end.        *)
EvictStep(t) ==
  /\ pc[t] = "evict"
  /\ IF Fits(t) \/ todo[t] = Nothing
       THEN todo' = [todo EXCEPT ![t] = Nothing] /\ Goto(t, "insert")
       ELSE UNCHANGED todo /\ Goto(t, "remove least")
  /\ UNCHANGED <<inner, current_bytes, key, bytes, owed, sets>>

Rest(t, k) == [todo EXCEPT ![t] = [j \in DOMAIN todo[t] \ {k} |-> todo[t][j]]]

RemoveLeast(t, k) ==
  /\ pc[t] = "remove least"
  /\ k \in DOMAIN todo[t] /\ \A j \in DOMAIN todo[t] : todo[t][k] <= todo[t][j]
  /\ todo' = Rest(t, k)
  /\ owed' = [owed EXCEPT ![t] = Removed(k)]
  /\ Remove(k)
  /\ Goto(t, "subtract least")
  /\ UNCHANGED <<current_bytes, key, bytes, sets>>

SubtractLeast(t) == Subtract(t, "subtract least", "evict")

(* insert: in place of an entry another thread inserted meanwhile.         *)
Insert(t) ==
  /\ pc[t] = "insert"
  /\ inner' = [k \in DOMAIN inner \cup {key[t]} |->
       IF k = key[t] THEN [bytes |-> bytes[t], freq |-> 1, expired |-> FALSE] ELSE inner[k]]
  /\ Goto(t, "add")
  /\ UNCHANGED <<current_bytes, key, bytes, owed, todo, sets>>

Add(t) ==
  /\ pc[t] = "add"
  /\ current_bytes' = current_bytes + bytes[t]
  /\ Goto(t, "idle")
  /\ UNCHANGED <<inner, key, bytes, owed, todo, sets>>

-----------------------------------------------------------------------------
(* The cleanup task lists the expired keys, invalidate_prefix those of a   *)
(* source; both then remove what these keys hold by then.                  *)

Sweep(t, S) ==
  /\ pc[t] = "idle" /\ S # {} /\ S \subseteq DOMAIN inner
  /\ todo' = [todo EXCEPT ![t] = [k \in S |-> 0]]
  /\ Goto(t, "sweep")
  /\ UNCHANGED <<inner, current_bytes, key, bytes, owed, sets>>

SpawnCleanup(t)        == Sweep(t, {k \in DOMAIN inner : inner[k].expired})
InvalidatePrefix(t, k) == Sweep(t, {k})

RemoveSwept_ListedBytes(t, k) ==
  /\ pc[t] = "sweep" /\ k \in DOMAIN todo[t]
  /\ todo' = Rest(t, k)
  /\ owed' = [owed EXCEPT ![t] = CHOOSE n \in Sizes : \A m \in Sizes : m <= n]
  /\ Remove(k)
  /\ Goto(t, "subtract swept")
  /\ UNCHANGED <<current_bytes, key, bytes, sets>>

RemoveSwept(t, k) ==
  /\ pc[t] = "sweep" /\ k \in DOMAIN todo[t]
  /\ todo' = Rest(t, k)
  /\ owed' = [owed EXCEPT ![t] = Removed(k)]
  /\ Remove(k)
  /\ Goto(t, "subtract swept")
  /\ UNCHANGED <<current_bytes, key, bytes, sets>>

SubtractSwept(t) ==
  Subtract(t, "subtract swept", IF todo[t] = Nothing THEN "idle" ELSE "sweep")

-----------------------------------------------------------------------------
Init ==
  /\ inner = Nothing /\ current_bytes = 0 /\ sets = 0
  /\ pc    = [t \in Threads |-> "idle"]
  /\ key   = [t \in Threads |-> CHOOSE k \in Keys : TRUE]
  /\ bytes = [t \in Threads |-> 0]
  /\ owed  = [t \in Threads |-> 0]
  /\ todo  = [t \in Threads |-> Nothing]

ThreadStep(t) ==
  \/ RemoveExpired(t) \/ Replace(t) \/ SubtractOld(t) \/ Check(t) \/ List(t) \/ EvictStep(t)
  \/ \E k \in DOMAIN todo[t] : RemoveLeast(t, k) \/ RemoveSwept(t, k)
  \/ SubtractLeast(t) \/ Insert(t) \/ Add(t) \/ SubtractSwept(t)

Start(t) ==
  \/ \E k \in Keys : GetHit(t, k) \/ GetExpired(t, k) \/ InvalidatePrefix(t, k)
  \/ \E k \in Keys, n \in Sizes : Set(t, k, n)
  \/ SpawnCleanup(t)

Next ==
  \/ \E t \in Threads : Start(t) \/ ThreadStep(t)
  \/ \E k \in Keys : Expire(k)

Spec == Init /\ [][Next]_vars

-----------------------------------------------------------------------------
Setting == {"replace", "subtract old", "check", "list", "evict", "remove least",
            "subtract least", "insert"}

(* Every variable has its type: what a thread is setting is a value, and no *)
(* entry is cached with a count of no hit.                                 *)
TypeOK ==
  /\ DOMAIN inner \subseteq Keys /\ \A k \in DOMAIN inner : inner[k] \in Entry
  /\ current_bytes \in Int /\ sets \in 0 .. MaxSets
  /\ pc \in [Threads -> PC] /\ key \in [Threads -> Keys]
  /\ bytes \in [Threads -> Sizes \cup {0}] /\ owed \in [Threads -> Sizes \cup {0}]
  /\ DOMAIN todo = Threads /\ \A t \in Threads : DOMAIN todo[t] \subseteq Keys
  /\ \A t \in Threads : pc[t] \in Setting => bytes[t] \in Sizes

BytesOf(S) == SumFunctionOnSet([k \in S |-> inner[k].bytes], S)

Adding == {t \in Threads : pc[t] = "add"}

(* Bytes threads have inserted and not added yet, removed and not          *)
(* subtracted yet.                                                         *)
Due == SumFunctionOnSet(bytes, Adding) - SumFunctionOnSet(owed, Threads)

(* The counter drifts upwards, where get removes an expired entry or an    *)
(* insert replaces one, but never downwards: once the threads are at rest  *)
(* it counts at least the bytes cached, so the limit is kept.              *)
NeverUndercounts == current_bytes + Due >= BytesOf(DOMAIN inner)

Live == {k \in DOMAIN inner : ~ inner[k].expired}

NoPut == <<>>

Lossy == INSTANCE LossyMap WITH
  Clients <- Threads, Values <- Sizes,
  map     <- [k \in Live |-> inner[k].bytes],
  putting <- [t \in Threads |-> IF pc[t] \in Setting THEN <<key[t], bytes[t]>> ELSE NoPut]

(* For those who use it the cache is a map that forgets: whatever threads  *)
(* interleave, and however the clock goes on, a set takes effect once, and *)
(* what was replaced, evicted or has expired does not come back.           *)
ImplementsLossyMap == Lossy!Spec

=============================================================================
