------------------------- MODULE TileByteCache_proofs -------------------------
(* Theorems about TileByteCache for any threads, keys, sizes and limits.    *)
EXTENDS TileByteCache, SumLemmas

(***************************************************************************)
(* Type correctness.                                                       *)
(***************************************************************************)

EntriesOK == DOMAIN inner \subseteq Keys /\ \A k \in DOMAIN inner : inner[k] \in Entry

(* What is counted is a number.                                            *)
LEMMA SizesAreNumbers == \A n \in Sizes \cup {0} : n \in Nat
<1>1. \A n \in Sizes : n \in Nat
  BY CacheAssumption
<1>2. 0 \in Nat
  OBVIOUS
<1>. QED  BY <1>1, <1>2

(* What is left when keys are removed is well typed, and so are the bytes  *)
(* of what was removed.                                                    *)
LEMMA RemoveType ==
  ASSUME EntriesOK, NEW k, Remove(k)
  PROVE  EntriesOK' /\ Removed(k) \in Sizes \cup {0}
BY DEF EntriesOK, Remove, Removed, Entry

TodoOK == DOMAIN todo = Threads /\ \A t \in Threads : DOMAIN todo[t] \subseteq Keys

(* The keys a thread has yet to remove are keys.                           *)
LEMMA RestType ==
  ASSUME NEW t \in Threads, NEW k, TodoOK, todo' = Rest(t, k)
  PROVE  TodoOK'
<1>1. DOMAIN todo' = Threads /\ \A u \in Threads : DOMAIN todo'[u] \subseteq DOMAIN todo[u]
  BY DEF Rest, TodoOK
<1>. QED  BY <1>1 DEF TodoOK

(* A step of a thread keeps the types.                                     *)
LEMMA ThreadType ==
  ASSUME TypeOK, NEW t \in Threads, Start(t) \/ ThreadStep(t)
  PROVE  TypeOK'
<1>. USE DEF TypeOK
<1>0. EntriesOK /\ TodoOK
  BY DEF EntriesOK, TodoOK
<1>1. ASSUME NEW k \in Keys, GetHit(t, k) PROVE TypeOK'
  <2>1. /\ DOMAIN inner' = DOMAIN inner /\ inner[k] \in Entry
        /\ inner' = [inner EXCEPT ![k].freq = @ + 1] /\ inner[k].freq < MaxFreq
    BY <1>1 DEF GetHit
  <2>2. [inner[k] EXCEPT !.freq = @ + 1] \in Entry
    BY <2>1, CacheAssumption DEF Entry
  <2>3. \A j \in DOMAIN inner' : inner'[j] \in Entry
    BY <2>1, <2>2
  <2>. QED  BY <1>1, <2>1, <2>3 DEF GetHit
<1>2. ASSUME NEW k \in Keys, GetExpired(t, k) PROVE TypeOK'
  BY <1>2 DEF GetExpired, Goto, PC, Setting
<1>3. ASSUME NEW S, Sweep(t, S) PROVE TypeOK'
  <2>1. TodoOK'
    BY <1>0, <1>3 DEF Sweep, TodoOK
  <2>. QED  BY <1>3, <2>1 DEF Sweep, Goto, PC, Setting, TodoOK
<1>4. ASSUME NEW k \in Keys, NEW n \in Sizes, Set(t, k, n) PROVE TypeOK'
  <2>1. /\ inner' = inner /\ current_bytes' = current_bytes /\ todo' = todo /\ owed' = owed
        /\ key' = [key EXCEPT ![t] = k] /\ bytes' = [bytes EXCEPT ![t] = n]
        /\ pc' = [pc EXCEPT ![t] = "replace"]
    BY <1>4 DEF Set, Goto
  <2>2. sets' \in 0 .. MaxSets
    BY <1>4, CacheAssumption DEF Set
  <2>. QED  BY <2>1, <2>2 DEF PC, Setting
<1>5. CASE RemoveExpired(t)
  <2>1. EntriesOK'
    BY <1>0, <1>5, RemoveType DEF RemoveExpired
  <2>. QED  BY <1>5, <2>1 DEF RemoveExpired, Goto, PC, Setting, EntriesOK
<1>6. CASE Replace(t)
  <2>1. EntriesOK' /\ Removed(key[t]) \in Sizes \cup {0}
    BY <1>0, <1>6, RemoveType DEF Replace
  <2>. QED  BY <1>6, <2>1 DEF Replace, Goto, PC, Setting, EntriesOK
<1>7. ASSUME NEW from \in PC, NEW to \in PC, Subtract(t, from, to), to \in Setting => from \in Setting
      PROVE  TypeOK'
  <2>1. current_bytes' \in Int
    <3>1. owed[t] \in Nat
      BY SizesAreNumbers
    <3>2. current_bytes' = current_bytes - owed[t] /\ current_bytes \in Int
      BY <1>7 DEF Subtract
    <3>. QED  BY <3>1, <3>2
  <2>. QED  BY <1>7, <2>1 DEF Subtract, Goto
<1>8. CASE SubtractOld(t) \/ SubtractLeast(t) \/ SubtractSwept(t)
  BY <1>7, <1>8 DEF SubtractOld, SubtractLeast, SubtractSwept, PC, Setting
<1>9. CASE Check(t)
  BY <1>9 DEF Check, Goto, PC, Setting
<1>10. CASE List(t)
  <2>1. TodoOK'
    <3>1. DOMAIN todo' = Threads /\ \A u \in Threads : todo'[u] = todo[u] \/ DOMAIN todo'[u] \subseteq DOMAIN inner
      BY <1>0, <1>10 DEF List, TodoOK
    <3>. QED  BY <1>0, <3>1 DEF TodoOK
  <2>. QED  BY <1>10, <2>1 DEF List, Goto, PC, Setting, TodoOK
<1>11. CASE EvictStep(t)
  <2>1. TodoOK'
    <3>1. todo' = todo \/ todo' = [todo EXCEPT ![t] = Nothing]
      BY <1>11 DEF EvictStep
    <3>2. DOMAIN Nothing = {}
      BY DEF Nothing
    <3>. QED  BY <1>0, <3>1, <3>2 DEF TodoOK
  <2>2. /\ UNCHANGED <<inner, current_bytes, key, bytes, owed, sets>>
        /\ pc[t] = "evict"
        /\ pc' = [pc EXCEPT ![t] = "insert"] \/ pc' = [pc EXCEPT ![t] = "remove least"]
    BY <1>11 DEF EvictStep, Goto
  <2>. QED  BY <2>2, <2>1 DEF PC, Setting, TodoOK
<1>12. ASSUME NEW k \in DOMAIN todo[t], RemoveLeast(t, k) \/ RemoveSwept(t, k) PROVE TypeOK'
  <2>1. /\ Remove(k) /\ todo' = Rest(t, k) /\ owed' = [owed EXCEPT ![t] = Removed(k)]
        /\ UNCHANGED <<current_bytes, key, bytes, sets>>
        /\ \/ pc[t] \in Setting /\ pc' = [pc EXCEPT ![t] = "subtract least"]
           \/ pc' = [pc EXCEPT ![t] = "subtract swept"]
    BY <1>12 DEF RemoveLeast, RemoveSwept, Goto, Setting
  <2>2. EntriesOK' /\ Removed(k) \in Sizes \cup {0} /\ TodoOK'
    BY <1>0, <2>1, RemoveType, RestType DEF TodoOK
  <2>3. pc' \in [Threads -> PC] /\ \A u \in Threads : pc'[u] \in Setting => pc[u] \in Setting
    BY <2>1 DEF PC, Setting
  <2>. QED  BY <2>1, <2>2, <2>3 DEF EntriesOK, TodoOK
<1>13. CASE Insert(t)
  <2>1. key[t] \in Keys /\ [bytes |-> bytes[t], freq |-> 1, expired |-> FALSE] \in Entry
    <3>1. bytes[t] \in Sizes /\ key[t] \in Keys
      BY <1>13 DEF Insert, Setting
    <3>2. 1 \in 1 .. MaxFreq
      BY CacheAssumption
    <3>. QED  BY <3>1, <3>2 DEF Entry
  <2>2. EntriesOK'
    BY <1>0, <1>13, <2>1 DEF Insert, EntriesOK
  <2>. QED  BY <1>13, <2>2 DEF Insert, Goto, PC, Setting, EntriesOK
<1>14. CASE Add(t)
  <2>1. current_bytes' \in Int
    <3>1. bytes[t] \in Nat
      BY SizesAreNumbers
    <3>2. current_bytes' = current_bytes + bytes[t] /\ current_bytes \in Int
      BY <1>14 DEF Add
    <3>. QED  BY <3>1, <3>2
  <2>2. UNCHANGED <<inner, key, bytes, owed, todo, sets>> /\ pc' = [pc EXCEPT ![t] = "idle"]
    BY <1>14 DEF Add, Goto
  <2>. QED  BY <2>1, <2>2 DEF PC, Setting
<1>15. CASE Start(t)
  BY <1>1, <1>2, <1>3, <1>4, <1>15 DEF Start, InvalidatePrefix, SpawnCleanup
<1>16. CASE ThreadStep(t)
  <2>1. CASE \E k \in DOMAIN todo[t] : RemoveLeast(t, k) \/ RemoveSwept(t, k)
    BY <2>1, <1>12
  <2>2. CASE ~ \E k \in DOMAIN todo[t] : RemoveLeast(t, k) \/ RemoveSwept(t, k)
    BY <2>2, <1>5, <1>6, <1>8, <1>9, <1>10, <1>11, <1>13, <1>14, <1>16 DEF ThreadStep
  <2>. QED  BY <2>1, <2>2
<1>. QED  BY <1>15, <1>16

(* So do all.                                                              *)
LEMMA NextType ==
  ASSUME TypeOK, [Next]_vars
  PROVE  TypeOK'
<1>1. ASSUME NEW k \in Keys, Expire(k) PROVE TypeOK'
  <2>1. /\ DOMAIN inner' = DOMAIN inner /\ inner[k] \in Entry
        /\ inner' = [inner EXCEPT ![k].expired = TRUE]
    BY <1>1 DEF Expire, TypeOK
  <2>2. [inner[k] EXCEPT !.expired = TRUE] \in Entry
    BY <2>1 DEF Entry
  <2>3. \A j \in DOMAIN inner' : inner'[j] \in Entry
    BY <2>1, <2>2 DEF TypeOK
  <2>. QED  BY <1>1, <2>1, <2>3 DEF Expire, TypeOK
<1>2. CASE UNCHANGED vars
  BY <1>2 DEF vars, TypeOK
<1>. QED  BY <1>1, <1>2, ThreadType DEF Next

LEMMA InitType == Init => TypeOK
<1>. SUFFICES ASSUME Init PROVE TypeOK
  OBVIOUS
<1>1. (CHOOSE k \in Keys : TRUE) \in Keys
  BY CacheAssumption
<1>2. key \in [Threads -> Keys]
  BY <1>1 DEF Init
<1>. QED  BY <1>2, CacheAssumption DEF Init, TypeOK, Nothing, PC, Setting

(* Every variable has its type: what a thread is setting is a value, and   *)
(* every entry cached has been hit at least once.                          *)
THEOREM ByteCacheTypeOK == Spec => []TypeOK
<1>. QED  BY InitType, NextType, PTL DEF Spec

-----------------------------------------------------------------------------
(***************************************************************************)
(* The cache is a map that forgets.  A removal, whoever makes it and        *)
(* whatever it finds, forgets at most one key; an expiry forgets its key;   *)
(* a set begins when it is called and takes effect when it inserts.  Every  *)
(* other step, of the counter or of a list, is not seen.                   *)
(***************************************************************************)

Seen == [k \in Live |-> inner[k].bytes]

PutOf(t) == IF pc[t] \in Setting THEN <<key[t], bytes[t]>> ELSE NoPut

Puts == [t \in Threads |-> PutOf(t)]

(* A pair is not the mark of a client that is not putting.                 *)
LEMMA PairIsAPut == \A k, n : <<k, n>> # NoPut
BY DEF NoPut

(* What is seen stays as it is when no entry changes its bytes or expires. *)
LEMMA SeenStays ==
  ASSUME DOMAIN inner' = DOMAIN inner,
         \A k \in DOMAIN inner : /\ inner'[k].bytes = inner[k].bytes
                                 /\ inner'[k].expired = inner[k].expired
  PROVE  Seen' = Seen
<1>1. Live' = Live
  BY DEF Live
<1>2. \A k \in Live : inner'[k].bytes = inner[k].bytes
  BY DEF Live
<1>. QED  BY <1>1, <1>2 DEF Seen

(* Nothing begins and nothing takes effect while every thread goes on with *)
(* what it is setting.                                                     *)
LEMMA PutsStay ==
  ASSUME \A t \in Threads : /\ pc'[t] \in Setting <=> pc[t] \in Setting
                            /\ pc[t] \in Setting => key'[t] = key[t] /\ bytes'[t] = bytes[t]
  PROVE  Puts' = Puts
<1>1. \A t \in Threads : PutOf(t)' = PutOf(t)
  BY DEF PutOf, NoPut, Setting
<1>. QED  BY <1>1 DEF Puts

(* A key removed, or one that expires, is forgotten.                       *)
LEMMA SeenForgets ==
  ASSUME Puts' = Puts, NEW S, Live' = Live \ S, \A k \in Live' : inner'[k].bytes = inner[k].bytes
  PROVE  Lossy!Next
<1>1. DOMAIN Seen = Live
  BY DEF Seen
<1>2. Seen' = [k \in DOMAIN Seen \ (S \cap Live) |-> Seen[k]]
  <2>1. DOMAIN Seen \ (S \cap Live) = Live'
    BY <1>1
  <2>2. \A k \in Live' : k \in Live
    OBVIOUS
  <2>. QED  BY <2>1, <2>2 DEF Seen
<1>3. S \cap Live \in SUBSET DOMAIN Seen
  BY <1>1
<1>4. \E R \in SUBSET DOMAIN Seen : Seen' = [k \in DOMAIN Seen \ R |-> Seen[k]] /\ Puts' = Puts
  BY <1>2, <1>3
<1>. QED  BY <1>4 DEF Lossy!Next, Lossy!Forget, Seen, Puts, PutOf

LEMMA RemoveForgets ==
  ASSUME Puts' = Puts, NEW k, Remove(k)
  PROVE  Lossy!Next
<1>1. Live' = Live \ {k} /\ \A j \in Live' : inner'[j].bytes = inner[j].bytes
  BY DEF Remove, Live
<1>2. Puts' = Puts
  OBVIOUS
<1>. QED  BY <1>1, <1>2, SeenForgets

(* A step of a thread is a step of the map, or is not seen.                *)
LEMMA ThreadIsLossy ==
  ASSUME TypeOK, NEW t \in Threads, Start(t) \/ ThreadStep(t)
  PROVE  Lossy!Next \/ (Seen' = Seen /\ Puts' = Puts)
<1>. DEFINE Goal == Lossy!Next \/ (Seen' = Seen /\ Puts' = Puts)
            Calm(from, to) == /\ pc[t] = from /\ pc' = [pc EXCEPT ![t] = to]
                              /\ from \in Setting <=> to \in Setting
                              /\ \/ key' = key
                                 \/ from \notin Setting /\ \E k : key' = [key EXCEPT ![t] = k]
                              /\ bytes' = bytes
<1>0. pc \in [Threads -> PC] /\ key \in [Threads -> Keys] /\ bytes \in [Threads -> Sizes \cup {0}]
  BY DEF TypeOK
<1>1. ASSUME NEW from, NEW to, Calm(from, to) PROVE Puts' = Puts
  <2>1. \A u \in Threads : /\ pc'[u] \in Setting <=> pc[u] \in Setting
                           /\ pc[u] \in Setting => key'[u] = key[u] /\ bytes'[u] = bytes[u]
    BY <1>0, <1>1
  <2>. QED  BY <2>1, PutsStay
<1>2. ASSUME UNCHANGED inner PROVE Seen' = Seen
  BY <1>2, SeenStays
<1>. HIDE DEF Calm
<1>3. ASSUME NEW k \in Keys, GetHit(t, k) PROVE Goal
  <2>1. Seen' = Seen
    <3>1. /\ DOMAIN inner' = DOMAIN inner /\ inner[k] \in Entry
          /\ inner' = [inner EXCEPT ![k].freq = @ + 1]
      BY <1>3 DEF GetHit, TypeOK
    <3>. QED  BY <3>1, SeenStays DEF Entry
  <2>2. Puts' = Puts
    BY <1>3, PutsStay DEF GetHit
  <2>. QED  BY <2>1, <2>2
<1>4. ASSUME NEW k \in Keys, GetExpired(t, k) PROVE Goal
  <2>1. Calm("idle", "remove expired")
    BY <1>4 DEF GetExpired, Goto, Setting, Calm
  <2>. QED  BY <1>1, <1>2, <1>4, <2>1 DEF GetExpired
<1>5. ASSUME NEW S, Sweep(t, S) PROVE Goal
  <2>1. Calm("idle", "sweep")
    BY <1>5 DEF Sweep, Goto, Setting, Calm
  <2>. QED  BY <1>1, <1>2, <1>5, <2>1 DEF Sweep
<1>6. ASSUME NEW k \in Keys, NEW n \in Sizes, Set(t, k, n) PROVE Goal
  <2>1. Puts[t] = NoPut
    BY <1>6 DEF Set, Puts, PutOf, Setting
  <2>2. Puts' = [Puts EXCEPT ![t] = <<k, n>>]
    <3>1. \A u \in Threads : PutOf(u)' = IF u = t THEN <<k, n>> ELSE PutOf(u)
      BY <1>0, <1>6 DEF Set, Goto, PutOf, Setting, NoPut
    <3>. QED  BY <3>1 DEF Puts
  <2>3. Seen' = Seen
    BY <1>2, <1>6 DEF Set
  <2>4. Lossy!Begin(t, k, n)
    BY <2>1, <2>2, <2>3 DEF Lossy!Begin, Seen, Puts, PutOf
  <2>. QED  BY <2>4 DEF Lossy!Next
<1>7. CASE RemoveExpired(t)
  <2>1. Calm("remove expired", "idle")
    BY <1>7 DEF RemoveExpired, Goto, Setting, Calm
  <2>. QED  BY <1>1, <1>7, <2>1, RemoveForgets DEF RemoveExpired
<1>8. CASE Replace(t)
  <2>1. Calm("replace", "subtract old")
    BY <1>8 DEF Replace, Goto, Setting, Calm
  <2>. QED  BY <1>1, <1>8, <2>1, RemoveForgets DEF Replace
<1>9. ASSUME NEW from, NEW to, Subtract(t, from, to), from \in Setting <=> to \in Setting PROVE Goal
  <2>1. Calm(from, to)
    BY <1>9 DEF Subtract, Goto, Calm
  <2>. QED  BY <1>1, <1>2, <1>9, <2>1 DEF Subtract
<1>10. CASE SubtractOld(t) \/ SubtractLeast(t) \/ SubtractSwept(t)
  BY <1>9, <1>10 DEF SubtractOld, SubtractLeast, SubtractSwept, Setting
<1>11. CASE Check(t)
  <2>1. Calm("check", "insert") \/ Calm("check", "list")
    BY <1>11 DEF Check, Goto, Setting, Calm
  <2>. QED  BY <1>1, <1>2, <1>11, <2>1 DEF Check
<1>12. CASE List(t)
  <2>1. Calm("list", "evict")
    BY <1>12 DEF List, Goto, Setting, Calm
  <2>. QED  BY <1>1, <1>2, <1>12, <2>1 DEF List
<1>13. CASE EvictStep(t)
  <2>1. Calm("evict", "insert") \/ Calm("evict", "remove least")
    BY <1>13 DEF EvictStep, Goto, Setting, Calm
  <2>. QED  BY <1>1, <1>2, <1>13, <2>1 DEF EvictStep
<1>14. ASSUME NEW k, RemoveLeast(t, k) PROVE Goal
  <2>1. Calm("remove least", "subtract least")
    BY <1>14 DEF RemoveLeast, Goto, Setting, Calm
  <2>. QED  BY <1>1, <1>14, <2>1, RemoveForgets DEF RemoveLeast
<1>15. ASSUME NEW k, RemoveSwept(t, k) PROVE Goal
  <2>1. Calm("sweep", "subtract swept")
    BY <1>15 DEF RemoveSwept, Goto, Setting, Calm
  <2>. QED  BY <1>1, <1>15, <2>1, RemoveForgets DEF RemoveSwept
<1>16. CASE Insert(t)
  <2>1. Puts[t] = <<key[t], bytes[t]>> /\ Puts[t] # NoPut
    BY <1>16, PairIsAPut DEF Insert, Puts, PutOf, Setting
  <2>2. Puts' = [Puts EXCEPT ![t] = NoPut]
    <3>1. \A u \in Threads : PutOf(u)' = IF u = t THEN NoPut ELSE PutOf(u)
      BY <1>0, <1>16 DEF Insert, Goto, PutOf, Setting, NoPut
    <3>. QED  BY <3>1 DEF Puts
  <2>3. Seen' = [k \in DOMAIN Seen \cup {Puts[t][1]} |-> IF k = Puts[t][1] THEN Puts[t][2] ELSE Seen[k]]
    <3>1. /\ Live' = Live \cup {key[t]} /\ inner'[key[t]].bytes = bytes[t]
          /\ \A k \in Live : k # key[t] => inner'[k].bytes = inner[k].bytes
      BY <1>16 DEF Insert, Live
    <3>2. Puts[t][1] = key[t] /\ Puts[t][2] = bytes[t] /\ DOMAIN Seen = Live
      BY <2>1 DEF Seen
    <3>. QED  BY <3>1, <3>2 DEF Seen
  <2>4. Lossy!TakeEffect(t)
    BY <2>1, <2>2, <2>3 DEF Lossy!TakeEffect, Seen, Puts, PutOf
  <2>. QED  BY <2>4 DEF Lossy!Next
<1>17. CASE Add(t)
  <2>1. Calm("add", "idle")
    BY <1>17 DEF Add, Goto, Setting, Calm
  <2>. QED  BY <1>1, <1>2, <1>17, <2>1 DEF Add
<1>18. CASE Start(t)
  BY <1>3, <1>4, <1>5, <1>6, <1>18 DEF Start, InvalidatePrefix, SpawnCleanup
<1>19. CASE ThreadStep(t)
  BY <1>7, <1>8, <1>10, <1>11, <1>12, <1>13, <1>14, <1>15, <1>16, <1>17, <1>19 DEF ThreadStep
<1>. QED  BY <1>18, <1>19

LEMMA NextIsLossy ==
  ASSUME TypeOK, [Next]_vars
  PROVE  [Lossy!Next]_Lossy!vars
<1>1. SUFFICES Lossy!Next \/ (Seen' = Seen /\ Puts' = Puts)
  BY DEF Lossy!vars, Seen, Puts, PutOf
<1>2. ASSUME NEW k \in Keys, Expire(k) PROVE Lossy!Next
  <2>1. Live' = Live \ {k} /\ \A j \in Live' : inner'[j].bytes = inner[j].bytes
    <3>1. /\ DOMAIN inner' = DOMAIN inner /\ inner[k] \in Entry
          /\ inner' = [inner EXCEPT ![k].expired = TRUE]
      BY <1>2 DEF Expire, TypeOK
    <3>. QED  BY <3>1 DEF Live, Entry
  <2>2. Puts' = Puts
    BY <1>2, PutsStay DEF Expire
  <2>. QED  BY <2>1, <2>2, SeenForgets
<1>3. CASE UNCHANGED vars
  <2>1. Seen' = Seen
    BY <1>3, SeenStays DEF vars
  <2>2. Puts' = Puts
    BY <1>3, PutsStay DEF vars
  <2>. QED  BY <2>1, <2>2
<1>. QED  BY <1>2, <1>3, ThreadIsLossy DEF Next

LEMMA InitIsLossy == Init => Lossy!Init
<1>. SUFFICES ASSUME Init PROVE Lossy!Init
  OBVIOUS
<1>1. Seen = [k \in {} |-> k]
  <2>1. Live = {}
    BY DEF Init, Live, Nothing
  <2>. QED  BY <2>1 DEF Seen
<1>2. Puts = [t \in Threads |-> NoPut]
  BY DEF Init, Puts, PutOf, Setting
<1>. QED  BY <1>1, <1>2 DEF Lossy!Init, Seen, Puts, PutOf

(* However its threads interleave, its clock goes on and its counter       *)
(* drifts, the cache is to its users a map that forgets: what was replaced, *)
(* evicted or has expired never comes back, and a set takes effect once.   *)
THEOREM CacheIsALossyMap == Spec => ImplementsLossyMap
<1>. QED  BY InitType, NextType, InitIsLossy, NextIsLossy, PTL DEF Spec, ImplementsLossyMap, Lossy!Spec

(***************************************************************************)
(* The counter of bytes.                                                   *)
(***************************************************************************)

Cached == BytesOf(DOMAIN inner)
Coming == SumFunctionOnSet(bytes, Adding)
Owed   == SumFunctionOnSet(owed, Threads)

Sized(f, D) == IsFiniteSet(D) /\ \A k \in D : f[k] \in Nat

(* The bytes of some of the entries.                                       *)
LEMMA EntriesSized ==
  ASSUME EntriesOK, NEW D, D \subseteq DOMAIN inner
  PROVE  Sized([k \in D |-> inner[k].bytes], D)
<1>1. IsFiniteSet(D)
  BY CacheAssumption, FS_Subset DEF EntriesOK
<1>2. \A k \in D : inner[k].bytes \in Nat
  BY SizesAreNumbers DEF EntriesOK, Entry
<1>. QED  BY <1>1, <1>2 DEF Sized

(* What is cached, what will be added and what will be subtracted are      *)
(* numbers.                                                                *)
LEMMA CountsAreNumbers ==
  ASSUME TypeOK
  PROVE  /\ Cached \in Nat /\ Coming \in Nat /\ Owed \in Nat /\ current_bytes \in Int
         /\ Due = Coming - Owed
         /\ Sized(bytes, Adding) /\ Sized(bytes, Threads) /\ Sized(owed, Threads)
         /\ EntriesOK
<1>1. /\ Sized(bytes, Threads) /\ Sized(owed, Threads) /\ EntriesOK /\ current_bytes \in Int
  BY CacheAssumption, SizesAreNumbers DEF TypeOK, Sized, EntriesOK
<1>2. Sized(bytes, Adding)
  BY <1>1, FS_Subset DEF Adding, Sized
<1>3. Coming \in Nat /\ Owed \in Nat
  BY <1>1, <1>2, SumNat DEF Coming, Owed, Sized
<1>4. Cached \in Nat
  <2>. DEFINE D == DOMAIN inner
              f == [k \in D |-> inner[k].bytes]
  <2>1. Sized(f, D)
    BY <1>1, EntriesSized
  <2>2. Cached = SumFunctionOnSet(f, D)
    BY DEF Cached, BytesOf
  <2>. HIDE DEF f, D
  <2>. QED  BY <2>1, <2>2, SumNat DEF Sized
<1>. QED  BY <1>1, <1>2, <1>3, <1>4 DEF Coming, Owed, Due

(* A hit and an expiry leave the bytes of the entries as they are.         *)
LEMMA CachedStays ==
  ASSUME EntriesOK, DOMAIN inner' = DOMAIN inner,
         \A k \in DOMAIN inner : inner'[k].bytes = inner[k].bytes
  PROVE  Cached' = Cached
<1>. DEFINE D == DOMAIN inner
            f == [k \in D |-> inner[k].bytes]
            g == [k \in D |-> inner'[k].bytes]
<1>1. Sized(f, D) /\ \A k \in D : f[k] = g[k]
  BY EntriesSized
<1>2. Cached = SumFunctionOnSet(f, D) /\ Cached' = SumFunctionOnSet(g, D)
  BY DEF Cached, BytesOf
<1>. HIDE DEF f, g, D
<1>. QED  BY <1>1, <1>2, SumAgree DEF Sized

(* A removal takes the bytes it returns.                                   *)
LEMMA CachedRemoved ==
  ASSUME EntriesOK, NEW k, Remove(k)
  PROVE  Cached' = Cached - Removed(k)
<1>. DEFINE D == DOMAIN inner
            R == D \ {k}
            f == [j \in D |-> inner[j].bytes]
            g == [j \in R |-> inner[j].bytes]
<1>1. Sized(f, D) /\ \A j \in R : f[j] = g[j]
  BY EntriesSized
<1>2. DOMAIN inner' = R /\ \A j \in R : inner'[j] = inner[j]
  BY DEF Remove
<1>3. Cached = SumFunctionOnSet(f, D)
  BY DEF Cached, BytesOf
<1>4. Cached' = SumFunctionOnSet(g, R)
  <2>1. [j \in DOMAIN inner' |-> inner'[j].bytes] = g
    <3>. HIDE DEF R
    <3>. QED  BY <1>2
  <2>. QED  BY <1>2, <2>1 DEF Cached, BytesOf
<1>5. k \in D => Removed(k) = f[k]
  BY DEF Removed
<1>6. k \notin D => Removed(k) = 0 /\ R = D
  BY DEF Removed
<1>7. IsFiniteSet(R)
  BY <1>1, FS_Subset DEF Sized
<1>. HIDE DEF f, g
<1>8. SumFunctionOnSet(f, R) = SumFunctionOnSet(g, R)
  BY <1>1, <1>7, SumAgree
<1>9. CASE k \in D
  <2>1. SumFunctionOnSet(f, D) = f[k] + SumFunctionOnSet(f, R)
    <3>. HIDE DEF D
    <3>1. \A j \in D : f[j] \in Int
      BY <1>1 DEF Sized
    <3>. QED  BY <1>1, <1>9, <3>1, SumRemove DEF Sized
  <2>2. SumFunctionOnSet(f, R) \in Nat /\ f[k] \in Nat
    <3>1. \A j \in R : f[j] \in Nat
      BY <1>1 DEF Sized
    <3>. HIDE DEF R
    <3>2. SumFunctionOnSet(f, R) \in Nat
      BY <1>7, <3>1, SumNat
    <3>. QED  BY <1>1, <1>9, <3>2 DEF Sized
  <2>. HIDE DEF D, R
  <2>. QED  BY <1>3, <1>4, <1>5, <1>8, <1>9, <2>1, <2>2
<1>10. CASE k \notin D
  <2>1. Cached \in Nat
    <3>. HIDE DEF D
    <3>. QED  BY <1>1, <1>3, SumNat DEF Sized
  <2>2. R = D /\ Removed(k) = 0
    BY <1>6, <1>10
  <2>. HIDE DEF D, R
  <2>. QED  BY <1>3, <1>4, <1>8, <2>1, <2>2
<1>. QED  BY <1>9, <1>10

(* An insert adds the bytes inserted at most: less, where it replaces.     *)
LEMMA CachedInserted ==
  ASSUME EntriesOK, NEW t \in Threads, Insert(t), bytes[t] \in Nat
  PROVE  Cached' <= Cached + bytes[t] /\ Cached' \in Nat
<1>. DEFINE k == key[t]
            D == DOMAIN inner
            R == D \ {k}
            f == [j \in D |-> inner[j].bytes]
            g == [j \in R \cup {k} |-> inner'[j].bytes]
<1>1. Sized(f, D)
  BY EntriesSized
<1>2. DOMAIN inner' = R \cup {k} /\ inner'[k].bytes = bytes[t] /\ \A j \in R : inner'[j] = inner[j]
  BY DEF Insert
<1>3. g[k] = bytes[t] /\ \A j \in R : g[j] = f[j]
  BY <1>2
<1>4. IsFiniteSet(R) /\ k \notin R /\ R \subseteq D
  BY <1>1, FS_Subset DEF Sized
<1>5. Cached = SumFunctionOnSet(f, D)
  BY DEF Cached, BytesOf
<1>6. Cached' = SumFunctionOnSet(g, R \cup {k})
  <2>. HIDE DEF R, k
  <2>. QED  BY <1>2 DEF Cached, BytesOf
<1>. HIDE DEF f, g, D, k, R
<1>7. SumFunctionOnSet(f, R) <= SumFunctionOnSet(f, D)
  BY <1>1, <1>4, SumMonotonic DEF Sized
<1>8. \A j \in R : f[j] \in Nat
  BY <1>1, <1>4 DEF Sized
<1>9. SumFunctionOnSet(g, R) = SumFunctionOnSet(f, R)
  BY <1>3, <1>4, SumAgree
<1>10. SumFunctionOnSet(g, R \cup {k}) = g[k] + SumFunctionOnSet(g, R)
  <2>1. \A j \in R \cup {k} : g[j] \in Int
    BY <1>3, <1>8
  <2>. QED  BY <1>4, <2>1, SumAdd
<1>11. SumFunctionOnSet(f, R) \in Nat /\ SumFunctionOnSet(f, D) \in Nat
  <2>1. SumFunctionOnSet(f, R) \in Nat
    BY <1>4, <1>8, SumNat
  <2>. QED  BY <1>1, <2>1, SumNat DEF Sized
<1>. QED  BY <1>3, <1>5, <1>6, <1>7, <1>9, <1>10, <1>11

(* A thread owes something from a removal to the subtraction only.         *)
Subtracting == {"subtract old", "subtract least", "subtract swept"}

OwedWhenSubtracting == \A t \in Threads : pc[t] \notin Subtracting => owed[t] = 0

(* What one thread owes is the only change to what they owe together.      *)
LEMMA OwedChanges ==
  ASSUME TypeOK, NEW t \in Threads, NEW n \in Nat, owed' = [owed EXCEPT ![t] = n]
  PROVE  Owed' = Owed - owed[t] + n /\ owed[t] \in Nat
<1>1. Sized(owed, Threads) /\ owed \in [Threads -> Sizes \cup {0}]
  BY CountsAreNumbers DEF TypeOK
<1>2. PICK g : g = owed'
  OBVIOUS
<1>3. /\ \A u \in Threads : owed[u] \in Int /\ g[u] \in Int
      /\ \A u \in Threads \ {t} : g[u] = owed[u]
      /\ g[t] = n /\ owed[t] \in Nat
  BY <1>1, <1>2 DEF Sized
<1>4. IsFiniteSet(Threads)
  BY CacheAssumption
<1>5. SumFunctionOnSet(g, Threads) = SumFunctionOnSet(owed, Threads) - owed[t] + g[t]
  BY <1>3, <1>4, SumUpdated
<1>. QED  BY <1>2, <1>3, <1>5 DEF Owed

(* The threads that have yet to add what they inserted are the same while  *)
(* no thread inserts or adds.                                              *)
LEMMA ComingStays ==
  ASSUME TypeOK, Adding' = Adding, \A u \in Adding : bytes'[u] = bytes[u]
  PROVE  Coming' = Coming
<1>1. Sized(bytes, Adding)
  BY CountsAreNumbers
<1>2. PICK g : g = bytes'
  OBVIOUS
<1>3. SumFunctionOnSet(g, Adding) = SumFunctionOnSet(bytes, Adding)
  BY <1>1, <1>2, SumAgree DEF Sized
<1>. QED  BY <1>2, <1>3 DEF Coming

LEMMA ComingMore ==
  ASSUME TypeOK, NEW t \in Threads, t \notin Adding, Adding' = Adding \cup {t}, bytes' = bytes
  PROVE  Coming' = Coming + bytes[t]
<1>1. Sized(bytes, Adding) /\ Sized(bytes, Threads) /\ Coming \in Nat
  BY CountsAreNumbers
<1>2. Coming' = SumFunctionOnSet(bytes, Adding \cup {t})
  BY DEF Coming
<1>3. \A u \in Adding \cup {t} : bytes[u] \in Int
  BY <1>1 DEF Sized
<1>4. SumFunctionOnSet(bytes, Adding \cup {t}) = bytes[t] + SumFunctionOnSet(bytes, Adding)
  BY <1>1, <1>3, SumAdd DEF Sized
<1>5. bytes[t] \in Nat
  BY <1>1 DEF Sized
<1>. QED  BY <1>1, <1>2, <1>4, <1>5 DEF Coming

LEMMA ComingLess ==
  ASSUME TypeOK, NEW t \in Adding, Adding' = Adding \ {t}, bytes' = bytes
  PROVE  Coming' = Coming - bytes[t] /\ bytes[t] \in Nat
<1>1. Sized(bytes, Adding) /\ Coming \in Nat
  BY CountsAreNumbers
<1>2. Coming' = SumFunctionOnSet(bytes, Adding \ {t})
  BY DEF Coming
<1>3. \A u \in Adding : bytes[u] \in Int
  BY <1>1 DEF Sized
<1>4. SumFunctionOnSet(bytes, Adding) = bytes[t] + SumFunctionOnSet(bytes, Adding \ {t})
  BY <1>1, <1>3, SumRemove DEF Sized
<1>5. bytes[t] \in Nat
  BY <1>1 DEF Sized
<1>6. SumFunctionOnSet(bytes, Adding \ {t}) \in Int
  <2>1. IsFiniteSet(Adding \ {t}) /\ \A u \in Adding \ {t} : bytes[u] \in Int
    BY <1>1, <1>3, FS_Subset DEF Sized
  <2>. QED  BY <2>1, SumInt
<1>. QED  BY <1>2, <1>4, <1>5, <1>6 DEF Coming

(* A step that leaves the counter, what is owed and what is coming alone   *)
(* may let go of bytes, but adds none.                                     *)
Calm == /\ current_bytes' = current_bytes /\ owed' = owed
        /\ Adding' = Adding /\ \A u \in Adding : bytes'[u] = bytes[u]

Counts == current_bytes + Coming - Owed >= Cached

LEMMA CalmCounts ==
  ASSUME TypeOK, Counts, Calm, Cached' \in Int, Cached' <= Cached
  PROVE  Counts'
<1>1. Coming' = Coming
  BY ComingStays DEF Calm
<1>2. Owed' = Owed
  BY DEF Owed, Calm
<1>3. Cached \in Nat /\ Coming \in Nat /\ Owed \in Nat /\ current_bytes \in Int
  BY CountsAreNumbers
<1>. QED  BY <1>1, <1>2, <1>3 DEF Calm, Counts

(* Where nothing is removed nothing is let go of.                          *)
LEMMA QuietCounts ==
  ASSUME TypeOK, Counts, Calm, inner' = inner
  PROVE  Counts'
<1>1. Cached' = Cached
  BY CountsAreNumbers, CachedStays
<1>2. Cached \in Nat
  BY CountsAreNumbers
<1>. QED  BY <1>1, <1>2, CalmCounts

(* What a thread removes it owes until it subtracts it.                    *)
LEMMA RemovedCounts ==
  ASSUME TypeOK, Counts, NEW t \in Threads, NEW k, owed[t] = 0, Remove(k),
         owed' = [owed EXCEPT ![t] = Removed(k)], current_bytes' = current_bytes,
         Adding' = Adding, bytes' = bytes
  PROVE  Counts'
<1>1. PICK n : n = Removed(k)
  OBVIOUS
<1>2. EntriesOK /\ Cached \in Nat /\ Coming \in Nat /\ Owed \in Nat /\ current_bytes \in Int
  BY CountsAreNumbers
<1>3. n \in Nat
  BY <1>1, <1>2, RemoveType, SizesAreNumbers
<1>4. Cached' = Cached - n
  BY <1>1, <1>2, CachedRemoved
<1>5. owed' = [owed EXCEPT ![t] = n]
  BY <1>1
<1>6. Owed' = Owed - owed[t] + n
  BY <1>3, <1>5, OwedChanges
<1>7. Coming' = Coming
  BY ComingStays
<1>. QED  BY <1>2, <1>3, <1>4, <1>6, <1>7 DEF Counts

(* Who adds is as before when a thread goes from step to step and neither  *)
(* is the addition.                                                        *)
LEMMA SameAdding ==
  ASSUME TypeOK, NEW t \in Threads, NEW from, NEW to, from # "add", to # "add",
         pc[t] = from, pc' = [pc EXCEPT ![t] = to]
  PROVE  Adding' = Adding /\ t \notin Adding
BY DEF TypeOK, Adding

(* What a thread owes it subtracts.                                        *)
LEMMA SubtractedCounts ==
  ASSUME TypeOK, Counts, NEW t \in Threads, NEW from, NEW to, from # "add", to # "add",
         Subtract(t, from, to)
  PROVE  Counts'
<1>1. /\ current_bytes' = current_bytes - owed[t] /\ owed' = [owed EXCEPT ![t] = 0]
      /\ inner' = inner /\ bytes' = bytes /\ pc[t] = from /\ pc' = [pc EXCEPT ![t] = to]
  BY DEF Subtract, Goto
<1>2. EntriesOK /\ Cached \in Nat /\ Coming \in Nat /\ Owed \in Nat /\ current_bytes \in Int
  BY CountsAreNumbers
<1>3. Adding' = Adding
  BY <1>1, SameAdding
<1>4. Coming' = Coming
  BY <1>1, <1>3, ComingStays
<1>5. Cached' = Cached
  BY <1>1, <1>2, CachedStays
<1>6. PICK n \in Nat : n = 0
  OBVIOUS
<1>7. owed' = [owed EXCEPT ![t] = n]
  BY <1>1, <1>6
<1>8. Owed' = Owed - owed[t] + n /\ owed[t] \in Nat
  BY <1>7, OwedChanges
<1>. QED  BY <1>1, <1>2, <1>4, <1>5, <1>6, <1>8 DEF Counts

LEMMA InsertedCounts ==
  ASSUME TypeOK, Counts, NEW t \in Threads, Insert(t)
  PROVE  Counts'
<1>1. /\ pc[t] = "insert" /\ pc' = [pc EXCEPT ![t] = "add"]
      /\ UNCHANGED <<current_bytes, bytes, owed>>
  BY DEF Insert, Goto
<1>2. EntriesOK /\ Cached \in Nat /\ Coming \in Nat /\ Owed \in Nat /\ current_bytes \in Int
  BY CountsAreNumbers
<1>3. bytes[t] \in Nat
  BY CountsAreNumbers DEF Sized
<1>4. t \notin Adding /\ Adding' = Adding \cup {t}
  BY <1>1 DEF Adding, TypeOK
<1>5. Coming' = Coming + bytes[t]
  BY <1>1, <1>4, ComingMore
<1>6. Cached' <= Cached + bytes[t] /\ Cached' \in Nat
  BY <1>2, <1>3, CachedInserted
<1>7. Owed' = Owed
  BY <1>1 DEF Owed
<1>. QED  BY <1>1, <1>2, <1>3, <1>5, <1>6, <1>7 DEF Counts

LEMMA AddedCounts ==
  ASSUME TypeOK, Counts, NEW t \in Threads, Add(t)
  PROVE  Counts'
<1>1. /\ pc[t] = "add" /\ pc' = [pc EXCEPT ![t] = "idle"]
      /\ current_bytes' = current_bytes + bytes[t] /\ UNCHANGED <<inner, bytes, owed>>
  BY DEF Add, Goto
<1>2. EntriesOK /\ Cached \in Nat /\ Coming \in Nat /\ Owed \in Nat /\ current_bytes \in Int
  BY CountsAreNumbers
<1>3. t \in Adding /\ Adding' = Adding \ {t}
  BY <1>1 DEF Adding, TypeOK
<1>4. Coming' = Coming - bytes[t] /\ bytes[t] \in Nat
  BY <1>1, <1>3, ComingLess
<1>5. Cached' = Cached
  BY <1>1, <1>2, CachedStays
<1>6. Owed' = Owed
  BY <1>1 DEF Owed
<1>. QED  BY <1>1, <1>2, <1>4, <1>5, <1>6 DEF Counts

(* A step of a thread keeps the count.                                     *)
LEMMA ThreadCounts ==
  ASSUME TypeOK, Counts, OwedWhenSubtracting, NEW t \in Threads, Start(t) \/ ThreadStep(t)
  PROVE  Counts'
<1>0. EntriesOK /\ Cached \in Nat
  BY CountsAreNumbers
<1>1. ASSUME NEW from, NEW to, pc[t] = from, pc' = [pc EXCEPT ![t] = to],
             from # "add", to # "add", current_bytes' = current_bytes, owed' = owed,
             \A u \in Threads \ {t} : bytes'[u] = bytes[u]
      PROVE  Calm
  <2>1. Adding' = Adding /\ t \notin Adding
    BY <1>1, SameAdding
  <2>2. \A u \in Adding : bytes'[u] = bytes[u]
    BY <1>1, <2>1 DEF Adding
  <2>. QED  BY <1>1, <2>1, <2>2 DEF Calm
<1>2. ASSUME NEW k \in Keys, GetHit(t, k) PROVE Counts'
  <2>1. /\ DOMAIN inner' = DOMAIN inner /\ inner[k] \in Entry
        /\ inner' = [inner EXCEPT ![k].freq = @ + 1]
    BY <1>2 DEF GetHit, TypeOK
  <2>2. Cached' = Cached
    BY <1>0, <2>1, CachedStays DEF Entry
  <2>3. Calm
    BY <1>2 DEF GetHit, Calm, Adding
  <2>. QED  BY <1>0, <2>2, <2>3, CalmCounts
<1>3. ASSUME NEW k \in Keys, GetExpired(t, k) PROVE Counts'
  <2>1. Calm
    BY <1>1, <1>3 DEF GetExpired, Goto
  <2>. QED  BY <1>3, <2>1, QuietCounts DEF GetExpired
<1>4. ASSUME NEW S, Sweep(t, S) PROVE Counts'
  <2>1. Calm
    BY <1>1, <1>4 DEF Sweep, Goto
  <2>. QED  BY <1>4, <2>1, QuietCounts DEF Sweep
<1>5. ASSUME NEW k \in Keys, NEW n \in Sizes, Set(t, k, n) PROVE Counts'
  <2>1. \A u \in Threads \ {t} : bytes'[u] = bytes[u]
    BY <1>5 DEF Set, TypeOK
  <2>2. Calm
    BY <1>1, <1>5, <2>1 DEF Set, Goto
  <2>. QED  BY <1>5, <2>2, QuietCounts DEF Set
<1>6. CASE RemoveExpired(t)
  <2>1. Calm
    BY <1>1, <1>6 DEF RemoveExpired, Goto
  <2>2. PICK k : k = key[t]
    OBVIOUS
  <2>3. Remove(k)
    BY <1>6, <2>2 DEF RemoveExpired
  <2>4. Cached' = Cached - Removed(k) /\ Removed(k) \in Nat
    BY <1>0, <2>3, CachedRemoved, RemoveType, SizesAreNumbers
  <2>. QED  BY <1>0, <2>1, <2>4, CalmCounts
<1>7. ASSUME NEW k, NEW from, NEW to, pc[t] = from, from \notin Subtracting, from # "add", to # "add",
             pc' = [pc EXCEPT ![t] = to], Remove(k), owed' = [owed EXCEPT ![t] = Removed(k)],
             current_bytes' = current_bytes, bytes' = bytes
      PROVE  Counts'
  <2>1. owed[t] = 0
    BY <1>7 DEF OwedWhenSubtracting
  <2>2. Adding' = Adding
    BY <1>7, SameAdding
  <2>. QED  BY <1>7, <2>1, <2>2, RemovedCounts
<1>8. CASE Replace(t)
  <2>1. PICK k : k = key[t]
    OBVIOUS
  <2>. QED  BY <1>7, <1>8, <2>1 DEF Replace, Goto, Subtracting
<1>9. ASSUME NEW k, RemoveLeast(t, k) \/ RemoveSwept(t, k) PROVE Counts'
  <2>1. CASE RemoveLeast(t, k)
    BY <1>7, <2>1 DEF RemoveLeast, Goto, Subtracting
  <2>2. CASE RemoveSwept(t, k)
    BY <1>7, <2>2 DEF RemoveSwept, Goto, Subtracting
  <2>. QED  BY <1>9, <2>1, <2>2
<1>10. CASE SubtractOld(t) \/ SubtractLeast(t) \/ SubtractSwept(t)
  BY <1>10, SubtractedCounts DEF SubtractOld, SubtractLeast, SubtractSwept
<1>11. CASE Check(t) \/ List(t) \/ EvictStep(t)
  <2>1. Calm
    BY <1>1, <1>11 DEF Check, List, EvictStep, Goto
  <2>. QED  BY <1>11, <2>1, QuietCounts DEF Check, List, EvictStep
<1>12. CASE Insert(t)
  BY <1>12, InsertedCounts
<1>13. CASE Add(t)
  BY <1>13, AddedCounts
<1>14. CASE Start(t)
  BY <1>2, <1>3, <1>4, <1>5, <1>14 DEF Start, InvalidatePrefix, SpawnCleanup
<1>15. CASE ThreadStep(t)
  BY <1>6, <1>8, <1>9, <1>10, <1>11, <1>12, <1>13, <1>15 DEF ThreadStep
<1>. QED  BY <1>14, <1>15

LEMMA ThreadOwes ==
  ASSUME TypeOK, OwedWhenSubtracting, NEW t \in Threads, Start(t) \/ ThreadStep(t)
  PROVE  OwedWhenSubtracting'
<1>0. pc \in [Threads -> PC] /\ owed \in [Threads -> Sizes \cup {0}]
  BY DEF TypeOK
<1>1. ASSUME owed' = owed, NEW from, NEW to, pc[t] = from, from \notin Subtracting,
             pc' = [pc EXCEPT ![t] = to]
      PROVE  OwedWhenSubtracting'
  BY <1>0, <1>1 DEF OwedWhenSubtracting
<1>2. ASSUME NEW n, owed' = [owed EXCEPT ![t] = n], NEW to \in Subtracting,
             pc' = [pc EXCEPT ![t] = to]
      PROVE  OwedWhenSubtracting'
  BY <1>0, <1>2 DEF OwedWhenSubtracting
<1>3. ASSUME NEW from, NEW to, Subtract(t, from, to) PROVE OwedWhenSubtracting'
  <2>1. owed' = [owed EXCEPT ![t] = 0] /\ pc' = [pc EXCEPT ![t] = to]
    BY <1>3 DEF Subtract, Goto
  <2>. QED  BY <1>0, <2>1 DEF OwedWhenSubtracting
<1>4. ASSUME NEW k \in Keys, GetHit(t, k) PROVE OwedWhenSubtracting'
  BY <1>4 DEF GetHit, OwedWhenSubtracting
<1>5. ASSUME NEW k \in Keys, GetExpired(t, k) PROVE OwedWhenSubtracting'
  BY <1>1, <1>5 DEF GetExpired, Goto, Subtracting
<1>6. ASSUME NEW S, Sweep(t, S) PROVE OwedWhenSubtracting'
  BY <1>1, <1>6 DEF Sweep, Goto, Subtracting
<1>7. ASSUME NEW k \in Keys, NEW n \in Sizes, Set(t, k, n) PROVE OwedWhenSubtracting'
  BY <1>1, <1>7 DEF Set, Goto, Subtracting
<1>8. CASE RemoveExpired(t)
  BY <1>1, <1>8 DEF RemoveExpired, Goto, Subtracting
<1>9. CASE Replace(t)
  BY <1>2, <1>9 DEF Replace, Goto, Subtracting
<1>10. ASSUME NEW k, RemoveLeast(t, k) \/ RemoveSwept(t, k) PROVE OwedWhenSubtracting'
  <2>1. CASE RemoveLeast(t, k)
    BY <1>2, <2>1 DEF RemoveLeast, Goto, Subtracting
  <2>2. CASE RemoveSwept(t, k)
    BY <1>2, <2>2 DEF RemoveSwept, Goto, Subtracting
  <2>. QED  BY <1>10, <2>1, <2>2
<1>11. CASE SubtractOld(t) \/ SubtractLeast(t) \/ SubtractSwept(t)
  BY <1>3, <1>11 DEF SubtractOld, SubtractLeast, SubtractSwept
<1>12. CASE Check(t) \/ List(t) \/ EvictStep(t)
  BY <1>1, <1>12 DEF Check, List, EvictStep, Goto, Subtracting
<1>13. CASE Insert(t) \/ Add(t)
  BY <1>1, <1>13 DEF Insert, Add, Goto, Subtracting
<1>14. CASE Start(t)
  BY <1>4, <1>5, <1>6, <1>7, <1>14 DEF Start, InvalidatePrefix, SpawnCleanup
<1>15. CASE ThreadStep(t)
  BY <1>8, <1>9, <1>10, <1>11, <1>12, <1>13, <1>15 DEF ThreadStep
<1>. QED  BY <1>14, <1>15

LEMMA NextCounts ==
  ASSUME TypeOK, Counts, OwedWhenSubtracting, [Next]_vars
  PROVE  Counts' /\ OwedWhenSubtracting'
<1>1. ASSUME NEW t \in Threads, Start(t) \/ ThreadStep(t) PROVE Counts' /\ OwedWhenSubtracting'
  BY <1>1, ThreadCounts, ThreadOwes
<1>2. ASSUME NEW k \in Keys, Expire(k) PROVE Counts' /\ OwedWhenSubtracting'
  <2>1. /\ DOMAIN inner' = DOMAIN inner /\ inner[k] \in Entry
        /\ inner' = [inner EXCEPT ![k].expired = TRUE]
    BY <1>2 DEF Expire, TypeOK
  <2>2. EntriesOK /\ Cached \in Nat
    BY CountsAreNumbers
  <2>3. Cached' = Cached
    BY <2>1, <2>2, CachedStays DEF Entry
  <2>4. Calm
    BY <1>2 DEF Expire, Calm, Adding
  <2>5. Counts'
    BY <2>2, <2>3, <2>4, CalmCounts
  <2>. QED  BY <1>2, <2>5 DEF Expire, OwedWhenSubtracting
<1>3. CASE UNCHANGED vars
  <2>1. Calm
    BY <1>3 DEF vars, Calm, Adding
  <2>2. Counts'
    BY <1>3, <2>1, QuietCounts DEF vars
  <2>. QED  BY <1>3, <2>2 DEF vars, OwedWhenSubtracting
<1>. QED  BY <1>1, <1>2, <1>3 DEF Next

LEMMA InitCounts == Init => Counts /\ OwedWhenSubtracting
<1>. SUFFICES ASSUME Init PROVE Counts /\ OwedWhenSubtracting
  OBVIOUS
<1>1. DOMAIN inner = {} /\ Adding = {} /\ current_bytes = 0
  BY DEF Init, Nothing, Adding
<1>2. Cached = 0 /\ Coming = 0
  BY <1>1, SumEmpty DEF Cached, BytesOf, Coming
<1>3. Owed = 0
  <2>1. \A t \in Threads : owed[t] \in 0 .. 0
    BY DEF Init
  <2>2. Owed <= Cardinality(Threads) * 0
    BY <2>1, CacheAssumption, SumBounded DEF Owed
  <2>3. Owed \in Nat
    <3>1. \A t \in Threads : owed[t] \in Nat
      BY <2>1
    <3>. QED  BY <3>1, CacheAssumption, SumNat DEF Owed
  <2>4. Cardinality(Threads) * 0 = 0
    <3>1. Cardinality(Threads) \in Nat
      BY CacheAssumption, FS_CardinalityType
    <3>. QED  BY <3>1
  <2>. QED  BY <2>2, <2>3, <2>4
<1>4. OwedWhenSubtracting
  BY DEF Init, OwedWhenSubtracting
<1>. QED  BY <1>1, <1>2, <1>3, <1>4 DEF Counts

(* However sets, gets, sweeps and expiries interleave, a byte that is      *)
(* cached is counted, or about to be by the thread that inserted it: the   *)
(* counter errs on the side that keeps the limit.                          *)
THEOREM CounterNeverUndercounts == Spec => []NeverUndercounts
<1>1. ASSUME TypeOK, Counts PROVE NeverUndercounts
  <2>1. /\ Cached \in Nat /\ Coming \in Nat /\ Owed \in Nat /\ current_bytes \in Int
        /\ Due = Coming - Owed
    BY <1>1, CountsAreNumbers
  <2>2. current_bytes + Coming - Owed >= Cached
    BY <1>1 DEF Counts
  <2>. QED  BY <2>1, <2>2 DEF NeverUndercounts, Cached
<1>. QED  BY <1>1, InitType, NextType, InitCounts, NextCounts, PTL DEF Spec

=============================================================================
