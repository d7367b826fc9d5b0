--------------------------- MODULE ViewMaterializer ---------------------------
(***************************************************************************)
(* The cache of materialised views of tv-engine                            *)
(* (crates/tv-engine/src/materializer.rs), at the granularity of its locks *)
(* and atomics: what happens under one lock acquisition is one step, and   *)
(* every await or released lock lets the other requests run.               *)
(*                                                                         *)
(* Callers are the requests inside get_or_materialize; jobs are the        *)
(* spawned tasks that build a full view and replace the cached one;        *)
(* removing a source takes it out of the catalog and later invalidates its *)
(* views.  A caller in Cancellable may be dropped at any of its awaits:    *)
(* the tile route wraps its request in a timeout, and a client hangs up.   *)
(*                                                                         *)
(* A definition Name_Slip is the definition Name with a slip a programmer  *)
(* could make; no action uses it, it shows what a property would catch.    *)
(*                                                                         *)
(* The two u64 counters are kept as unbounded integers whose value in the  *)
(* program is their residue, read through Load.                            *)
(***************************************************************************)
EXTENDS Integers, FiniteSets, Functions

CONSTANTS
  Callers,        \* requests that need a view
  Cancellable,    \* those whose future may be dropped
  Jobs,           \* background tasks that build a full view
  Keys,           \* cache keys "source:hash"
  Sources,
  SourceOf,       \* the source a key starts with
  Built,          \* the views the builder of a key may return
  Full,           \* the views build_full of a key's pipeline may return
  MaxMemoryBytes, \* max_memory_bytes
  MaxDiskBacked,  \* max_disk_backed_count
  Word,           \* 2^64: the counters wrap there
  MaxCalls,       \* bound: calls of all callers
  MaxSeq,         \* bound: access_seq beyond which no plain get is made
  NoChan,         \* no entry in pending
  Orphan,         \* a sender in pending whose builder was dropped
  NoView          \* no view: Err, or not known yet

(* A view, as far as the cache can tell views apart.                       *)
View == [key : Keys, is_disk_backed : BOOLEAN, is_provisional : BOOLEAN, byte_size : Nat]

ASSUME CallersAssumption ==
  /\ IsFiniteSet(Callers) /\ IsFiniteSet(Jobs)
  /\ Cancellable \subseteq Callers
  /\ NoChan \notin Callers /\ Orphan \notin Callers /\ NoChan # Orphan

ASSUME KeysAssumption ==
  /\ IsFiniteSet(Keys) /\ Keys # {}
  /\ SourceOf \in [Keys -> Sources]

ASSUME BoundsAssumption ==
  /\ MaxMemoryBytes \in Nat /\ MaxDiskBacked \in Nat
  /\ Word \in Nat \ {0}
  /\ MaxCalls \in Nat /\ MaxSeq \in Nat

(* build_full never returns a provisional view: its sort branch runs to    *)
(* the end, and without a sort build has no provisional branch.            *)
ASSUME ViewsAssumption ==
  /\ Built \in [Keys -> SUBSET View] /\ Full \in [Keys -> SUBSET View]
  /\ \A k \in Keys :
       /\ \A v \in Built[k] \cup Full[k] : v.key = k
       /\ \A v \in Full[k] : ~ v.is_provisional
  /\ NoView \notin View

VARIABLES
  entries,            \* entries: a partial function from keys to [view, seq]
  pending,            \* pending: per key NoChan, the caller that builds, or Orphan
  current_bytes,      \* current_bytes
  disk_backed_count,  \* disk_backed_count
  access_seq,         \* access_seq
  source,             \* per source: "live", "removed" (from the catalog), "invalidated"
  pc,                 \* where a caller is in get_or_materialize
  key,                \* the key it asked for
  on,                 \* the channel it waits on
  view,               \* the view it holds; its result once pc is "idle"
  seq,                \* the sequence number it drew for its insertion, 0 out of it
  calls,              \* calls made
  jpc, jkey, jview    \* the same for jobs

cache   == <<entries, current_bytes, disk_backed_count, access_seq>>
jobVars == <<jpc, jkey, jview>>
vars    == <<cache, pending, source, pc, key, on, view, seq, calls, jobVars>>

CallerPC == {"idle", "lookup", "claim", "wait", "build", "unclaim", "fail",
             "evict", "seq", "insert", "account", "publish"}
JobPC    == {"idle", "build", "evict", "insert", "done"}

Entry == [view : View, seq : Nat]

-----------------------------------------------------------------------------
(* Accounting.                                                             *)

(* The bytes an entry is accounted with: none when its rows are on disk.   *)
Bytes(v) == IF v.is_disk_backed THEN 0 ELSE v.byte_size

DiskUnits(v) == IF v.is_disk_backed THEN 1 ELSE 0

DiskKeys   == {k \in DOMAIN entries : entries[k].view.is_disk_backed}
MemoryKeys == DOMAIN entries \ DiskKeys

BytesOf(S) == SumFunctionOnSet([k \in S |-> Bytes(entries[k].view)], S)

(* What a load of a counter yields: the u64 it holds.                      *)
Load(n) == n % Word

SatSub(a, b) == IF a >= b THEN a - b ELSE 0

(* The entries of S used before k was.                                     *)
Older(S, k) == {j \in S : entries[j].seq < entries[k].seq}

Evicted_StopsEarly(is_disk_backed) ==
  LET current == Load(current_bytes)
  IN  IF is_disk_backed
        THEN {}
        ELSE {k \in MemoryKeys :
                SatSub(current, BytesOf(Older(MemoryKeys, k) \cup {k})) >= MaxMemoryBytes}

(* The entries evict_if_needed drops: the least recently used ones, over   *)
(* the disk-backed entries by their number, over the others by their bytes.*)
Evicted(is_disk_backed) ==
  IF is_disk_backed
    THEN LET count    == Load(disk_backed_count)
             to_evict == SatSub(Load(count + 1), MaxDiskBacked)
         IN  IF count < MaxDiskBacked
               THEN {}
               ELSE {k \in DiskKeys : Cardinality(Older(DiskKeys, k)) < to_evict}
    ELSE LET current == Load(current_bytes)
         IN  {k \in MemoryKeys :
                SatSub(current, BytesOf(Older(MemoryKeys, k))) >= MaxMemoryBytes}

Drop_UncountedDisk(S) ==
  /\ entries' = [k \in DOMAIN entries \ S |-> entries[k]]
  /\ current_bytes' = current_bytes - BytesOf(S)
  /\ UNCHANGED disk_backed_count

(* entries.remove of a set of keys, with the counters of what it drops.    *)
Drop(S) ==
  /\ entries' = [k \in DOMAIN entries \ S |-> entries[k]]
  /\ current_bytes' = current_bytes - BytesOf(S)
  /\ disk_backed_count' = disk_backed_count - Cardinality(S \cap DiskKeys)

(* entries.insert *)
Put(k, e) == entries' = [j \in DOMAIN entries \cup {k} |-> IF j = k THEN e ELSE entries[j]]

Stamp(k, n) == entries' = [entries EXCEPT ![k] = [view |-> entries[k].view, seq |-> n]]

(* A hit stamps the entry with the next sequence number.                   *)
Touch(k) ==
  /\ Stamp(k, access_seq)
  /\ access_seq' = access_seq + 1

(* The count path and the prefetch of a sort look a key up and leave.      *)
Get(k) ==
  /\ k \in DOMAIN entries
  /\ access_seq < MaxSeq
  /\ Touch(k)
  /\ UNCHANGED <<current_bytes, disk_backed_count, pending, source, pc, key, on,
                 view, seq, calls, jobVars>>

-----------------------------------------------------------------------------
(* get_or_materialize, one action per step between two locks or awaits.    *)

Goto(c, label) == pc' = [pc EXCEPT ![c] = label]

Call_AnySource(c, k) ==
  /\ pc[c] = "idle" /\ calls < MaxCalls
  /\ Goto(c, "lookup")
  /\ key'   = [key EXCEPT ![c] = k]
  /\ view'  = [view EXCEPT ![c] = NoView]
  /\ calls' = calls + 1
  /\ UNCHANGED <<cache, pending, source, on, seq, jobVars>>

(* A request that found its source in the catalog asks for a view.         *)
Call(c, k) ==
  /\ pc[c] = "idle" /\ calls < MaxCalls
  /\ source[SourceOf[k]] = "live"
  /\ Goto(c, "lookup")
  /\ key'   = [key EXCEPT ![c] = k]
  /\ view'  = [view EXCEPT ![c] = NoView]
  /\ calls' = calls + 1
  /\ UNCHANGED <<cache, pending, source, on, seq, jobVars>>

Hit(c) ==
  /\ pc[c] = "lookup" /\ key[c] \in DOMAIN entries
  /\ Touch(key[c])
  /\ view' = [view EXCEPT ![c] = entries[key[c]].view]
  /\ Goto(c, "idle")
  /\ UNCHANGED <<current_bytes, disk_backed_count, pending, source, key, on, seq,
                 calls, jobVars>>

Miss(c) ==
  /\ pc[c] = "lookup" /\ key[c] \notin DOMAIN entries
  /\ Goto(c, "claim")
  /\ UNCHANGED <<cache, pending, source, key, on, view, seq, calls, jobVars>>

(* Another request builds the key: subscribe to its channel.               *)
Subscribe(c) ==
  /\ pc[c] = "claim" /\ pending[key[c]] # NoChan
  /\ on' = [on EXCEPT ![c] = pending[key[c]]]
  /\ Goto(c, "wait")
  /\ UNCHANGED <<cache, pending, source, key, view, seq, calls, jobVars>>

Claim_Unchecked(c) ==
  /\ pc[c] = "claim"
  /\ pending' = [pending EXCEPT ![key[c]] = c]
  /\ Goto(c, "build")
  /\ UNCHANGED <<cache, source, key, on, view, seq, calls, jobVars>>

Claim(c) ==
  /\ pc[c] = "claim" /\ pending[key[c]] = NoChan
  /\ pending' = [pending EXCEPT ![key[c]] = c]
  /\ Goto(c, "build")
  /\ UNCHANGED <<cache, source, key, on, view, seq, calls, jobVars>>

BuildOk(c, v) ==
  /\ pc[c] = "build"
  /\ view' = [view EXCEPT ![c] = v]
  /\ Goto(c, "unclaim")
  /\ UNCHANGED <<cache, pending, source, key, on, seq, calls, jobVars>>

BuildErr(c) ==
  /\ pc[c] = "build"
  /\ Goto(c, "unclaim")
  /\ UNCHANGED <<cache, pending, source, key, on, view, seq, calls, jobVars>>

Unclaim_OnlyIfBuilt(c) ==
  /\ pc[c] = "unclaim"
  /\ pending' = IF view[c] = NoView THEN pending ELSE [pending EXCEPT ![key[c]] = NoChan]
  /\ Goto(c, IF view[c] = NoView THEN "fail" ELSE "evict")
  /\ UNCHANGED <<cache, source, key, on, view, seq, calls, jobVars>>

(* pending.remove: from here on the next request that misses builds again. *)
Unclaim(c) ==
  /\ pc[c] = "unclaim"
  /\ pending' = [pending EXCEPT ![key[c]] = NoChan]
  /\ Goto(c, IF view[c] = NoView THEN "fail" ELSE "evict")
  /\ UNCHANGED <<cache, source, key, on, view, seq, calls, jobVars>>

Waiters_OfAnyKey(c) == {w \in Callers : pc[w] = "wait"}

Waiters(c) == {w \in Callers : pc[w] = "wait" /\ on[w] = c}

(* tx.send: the caller and all who wait on its channel return v.           *)
Return(c, v) ==
  LET done == {c} \cup Waiters(c)
  IN  /\ pc'   = [w \in Callers |-> IF w \in done THEN "idle" ELSE pc[w]]
      /\ view' = [w \in Callers |-> IF w \in done THEN v ELSE view[w]]
      /\ on'   = [w \in Callers |-> IF w \in done THEN NoChan ELSE on[w]]

Fail(c) ==
  /\ pc[c] = "fail"
  /\ Return(c, NoView)
  /\ UNCHANGED <<cache, pending, source, key, seq, calls, jobVars>>

Evict(c) ==
  /\ pc[c] = "evict"
  /\ Drop(Evicted(view[c].is_disk_backed))
  /\ Goto(c, "seq")
  /\ UNCHANGED <<access_seq, pending, source, key, on, view, seq, calls, jobVars>>

TakeSeq(c) ==
  /\ pc[c] = "seq"
  /\ seq' = [seq EXCEPT ![c] = access_seq]
  /\ access_seq' = access_seq + 1
  /\ Goto(c, "insert")
  /\ UNCHANGED <<entries, current_bytes, disk_backed_count, pending, source, key,
                 on, view, calls, jobVars>>

KeepExisting_Overwrites(c) ==
  /\ pc[c] = "insert" /\ key[c] \in DOMAIN entries
  /\ Put(key[c], [view |-> view[c], seq |-> seq[c]])
  /\ seq' = [seq EXCEPT ![c] = 0]
  /\ Goto(c, "publish")
  /\ UNCHANGED <<current_bytes, disk_backed_count, access_seq, pending, source, key,
                 on, view, calls, jobVars>>

KeepExisting_Accounts(c) ==
  /\ pc[c] = "insert" /\ key[c] \in DOMAIN entries
  /\ view' = [view EXCEPT ![c] = entries[key[c]].view]
  /\ seq' = [seq EXCEPT ![c] = 0]
  /\ Goto(c, "account")
  /\ UNCHANGED <<cache, pending, source, key, on, calls, jobVars>>

(* A view that is cached by now is kept, and returned for the one built.   *)
KeepExisting(c) ==
  /\ pc[c] = "insert" /\ key[c] \in DOMAIN entries
  /\ Stamp(key[c], seq[c])
  /\ view' = [view EXCEPT ![c] = entries[key[c]].view]
  /\ seq' = [seq EXCEPT ![c] = 0]
  /\ Goto(c, "publish")
  /\ UNCHANGED <<current_bytes, disk_backed_count, access_seq, pending, source, key,
                 on, calls, jobVars>>

Insert(c) ==
  /\ pc[c] = "insert" /\ key[c] \notin DOMAIN entries
  /\ Put(key[c], [view |-> view[c], seq |-> seq[c]])
  /\ seq' = [seq EXCEPT ![c] = 0]
  /\ Goto(c, "account")
  /\ UNCHANGED <<current_bytes, disk_backed_count, access_seq, pending, source, key,
                 on, view, calls, jobVars>>

(* The counters are added to after the lock on entries is released.        *)
Account(c) ==
  /\ pc[c] = "account"
  /\ current_bytes' = current_bytes + Bytes(view[c])
  /\ disk_backed_count' = disk_backed_count + DiskUnits(view[c])
  /\ Goto(c, "publish")
  /\ UNCHANGED <<entries, access_seq, pending, source, key, on, view, seq, calls, jobVars>>

Publish(c) ==
  /\ pc[c] = "publish"
  /\ Return(c, view[c])
  /\ UNCHANGED <<cache, pending, source, key, seq, calls, jobVars>>

-----------------------------------------------------------------------------
(* A dropped future stops at one of its awaits.  A claim it has in pending *)
(* stays there, and with it the sender; once it has removed the claim, the *)
(* sender is its own and is dropped with it, which fails those who wait.   *)

DropClaimed_FreesKey(c) ==
  /\ c \in Cancellable /\ pc[c] \in {"build", "unclaim"}
  /\ pending' = [pending EXCEPT ![key[c]] = NoChan]
  /\ view' = [view EXCEPT ![c] = NoView]
  /\ Goto(c, "idle")
  /\ UNCHANGED <<cache, source, key, on, seq, calls, jobVars>>

DropClaimed(c) ==
  /\ c \in Cancellable /\ pc[c] \in {"build", "unclaim"}
  /\ pending' = [pending EXCEPT ![key[c]] = Orphan]
  /\ on' = [w \in Callers |-> IF w \in Waiters(c) THEN Orphan ELSE on[w]]
  /\ view' = [view EXCEPT ![c] = NoView]
  /\ Goto(c, "idle")
  /\ UNCHANGED <<cache, source, key, seq, calls, jobVars>>

DropUnclaimed(c) ==
  /\ c \in Cancellable /\ pc[c] \in {"lookup", "claim", "wait", "evict", "insert"}
  /\ Return(c, NoView)
  /\ seq' = [seq EXCEPT ![c] = 0]
  /\ UNCHANGED <<cache, pending, source, key, calls, jobVars>>

-----------------------------------------------------------------------------
(* replace, from a spawned task that ran build_full.                       *)

JobGoto(j, label) == jpc' = [jpc EXCEPT ![j] = label]

StartJob(j, k) ==
  /\ jpc[j] = "idle" /\ source[SourceOf[k]] = "live"
  /\ jkey' = [jkey EXCEPT ![j] = k]
  /\ JobGoto(j, "build")
  /\ UNCHANGED <<cache, pending, source, pc, key, on, view, seq, calls, jview>>

JobBuilt(j, v) ==
  /\ jpc[j] = "build"
  /\ jview' = [jview EXCEPT ![j] = v]
  /\ JobGoto(j, "evict")
  /\ UNCHANGED <<cache, pending, source, pc, key, on, view, seq, calls, jkey>>

JobFailed(j) ==
  /\ jpc[j] = "build"
  /\ JobGoto(j, "done")
  /\ UNCHANGED <<cache, pending, source, pc, key, on, view, seq, calls, jkey, jview>>

JobEvict(j) ==
  /\ jpc[j] = "evict"
  /\ Drop(Evicted(jview[j].is_disk_backed))
  /\ JobGoto(j, "insert")
  /\ UNCHANGED <<access_seq, pending, source, pc, key, on, view, seq, calls, jkey, jview>>

(* insert: overwrites what is cached, and adds and subtracts under the lock.*)
JobInsert(j) ==
  LET old == {jkey[j]} \cap DOMAIN entries
  IN  /\ jpc[j] = "insert"
      /\ Put(jkey[j], [view |-> jview[j], seq |-> access_seq])
      /\ access_seq' = access_seq + 1
      /\ current_bytes' = current_bytes - BytesOf(old) + Bytes(jview[j])
      /\ disk_backed_count' = disk_backed_count - Cardinality(old \cap DiskKeys)
                              + DiskUnits(jview[j])
      /\ JobGoto(j, "done")
      /\ UNCHANGED <<pending, source, pc, key, on, view, seq, calls, jkey, jview>>

-----------------------------------------------------------------------------
(* Removing a source: out of the catalog first, its views later.           *)

RemoveSource(s) ==
  /\ source[s] = "live"
  /\ source' = [source EXCEPT ![s] = "removed"]
  /\ UNCHANGED <<cache, pending, pc, key, on, view, seq, calls, jobVars>>

InvalidateSource(s) ==
  /\ source[s] = "removed"
  /\ source' = [source EXCEPT ![s] = "invalidated"]
  /\ Drop({k \in DOMAIN entries : SourceOf[k] = s})
  /\ UNCHANGED <<access_seq, pending, pc, key, on, view, seq, calls, jobVars>>

-----------------------------------------------------------------------------
(* What a caller or job that has asked for nothing yet has as its key.      *)
FirstKey == CHOOSE k \in Keys : TRUE

Init ==
  /\ entries = [k \in {} |-> k]
  /\ pending = [k \in Keys |-> NoChan]
  /\ current_bytes = 0 /\ disk_backed_count = 0 /\ access_seq = 0
  /\ source = [s \in Sources |-> "live"]
  /\ pc    = [c \in Callers |-> "idle"]
  /\ key   = [c \in Callers |-> FirstKey]
  /\ on    = [c \in Callers |-> NoChan]
  /\ view  = [c \in Callers |-> NoView]
  /\ seq   = [c \in Callers |-> 0]
  /\ calls = 0
  /\ jpc   = [j \in Jobs |-> "idle"]
  /\ jkey  = [j \in Jobs |-> FirstKey]
  /\ jview = [j \in Jobs |-> NoView]

CallerStep(c) ==
  \/ Hit(c) \/ Miss(c) \/ Subscribe(c) \/ Claim(c)
  \/ \E v \in Built[key[c]] : BuildOk(c, v)
  \/ BuildErr(c) \/ Unclaim(c) \/ Fail(c)
  \/ Evict(c) \/ TakeSeq(c) \/ KeepExisting(c) \/ Insert(c) \/ Account(c) \/ Publish(c)

JobStep(j) ==
  \/ \E v \in Full[jkey[j]] : JobBuilt(j, v)
  \/ JobFailed(j) \/ JobEvict(j) \/ JobInsert(j)

Next ==
  \/ \E k \in Keys : Get(k)
  \/ \E c \in Callers, k \in Keys : Call(c, k)
  \/ \E c \in Callers : CallerStep(c) \/ DropClaimed(c) \/ DropUnclaimed(c)
  \/ \E j \in Jobs, k \in Keys : StartJob(j, k)
  \/ \E j \in Jobs : JobStep(j)
  \/ \E s \in Sources : RemoveSource(s) \/ InvalidateSource(s)

Spec == Init /\ [][Next]_vars

(* A task that can run is polled, builders end, locks are fair (tokio's    *)
(* are FIFO).  Nothing obliges a client to call, or to hang up.            *)
FairSpec == Spec /\ \A c \in Callers : WF_vars(CallerStep(c))

-----------------------------------------------------------------------------
EntriesOK ==
  /\ DOMAIN entries \subseteq Keys
  /\ entries \in [DOMAIN entries -> Entry]

(* current_bytes is a number by BytesExact.                                *)
CountersOK == disk_backed_count \in Int /\ access_seq \in Nat

CallersOK ==
  /\ pc \in [Callers -> CallerPC]
  /\ key \in [Callers -> Keys]
  /\ on \in [Callers -> Callers \cup {NoChan, Orphan}]
  /\ view \in [Callers -> View \cup {NoView}]
  /\ seq \in [Callers -> Nat]
  /\ calls \in Nat
  /\ \A c \in Callers :
       /\ pc[c] = "wait" <=> on[c] # NoChan
       /\ pc[c] \in {"evict", "seq", "insert", "account", "publish"} => view[c] \in View

JobsOK ==
  /\ jpc \in [Jobs -> JobPC]
  /\ jkey \in [Jobs -> Keys]
  /\ jview \in [Jobs -> View \cup {NoView}]
  /\ \A j \in Jobs : jpc[j] \in {"evict", "insert"} => jview[j] \in View

(* Every variable holds a value of its type in the code; what a caller or  *)
(* job has in hand at each step is what that step needs.                   *)
TypeOK ==
  /\ EntriesOK /\ CountersOK /\ CallersOK /\ JobsOK
  /\ pending \in [Keys -> Callers \cup {NoChan, Orphan}]
  /\ source \in [Sources -> {"live", "removed", "invalidated"}]

(* Callers between an insertion and its accounting.                        *)
Unaccounted     == {c \in Callers : pc[c] = "account"}
UnaccountedDisk == {c \in Unaccounted : view[c].is_disk_backed}

(* disk_backed_count is the number of disk-backed entries, less those whose*)
(* inserter has not come to the fetch_add yet: no interleaving of inserts, *)
(* evictions, replacements and invalidations makes it drift.               *)
DiskCountExact == disk_backed_count = Cardinality(DiskKeys) - Cardinality(UnaccountedDisk)

(* The same for current_bytes.                                             *)
BytesExact ==
  current_bytes =
    BytesOf(DOMAIN entries)
      - SumFunctionOnSet([c \in Unaccounted |-> Bytes(view[c])], Unaccounted)

Inserters == Cardinality(Callers) + Cardinality(Jobs)

ViewSizes == {Bytes(v) : v \in UNION {Built[k] \cup Full[k] : k \in Keys}}

LargestView == CHOOSE n \in ViewSizes : \A m \in ViewSizes : m <= n

(* There is a largest view, and the limits (by default 32 entries and 2 GiB)*)
(* are so far from the end of a u64 that no overshoot wraps around.        *)
ASSUME LimitsAssumption ==
  /\ \E n \in ViewSizes : \A m \in ViewSizes : m <= n
  /\ MaxDiskBacked + Inserters + 1 < Word
  /\ MaxMemoryBytes + Inserters * LargestView < Word

(* However the requests interleave, the disk-backed views exceed their     *)
(* limit by less than the number of requests and jobs, and those in memory *)
(* theirs by less than as many views: each request passes the eviction     *)
(* check before it inserts, and the check is not repeated.  (A limit of 0  *)
(* is as good as 1: the check makes no room for what is inserted after it.)*)
OvershootBounded ==
  /\ Cardinality(DiskKeys) <= SatSub(MaxDiskBacked, 1) + Inserters
  /\ BytesOf(DOMAIN entries) <= SatSub(MaxMemoryBytes, 1) + Inserters * LargestView

(* At most one caller at a time runs the builder of a key.                 *)
SingleFlight ==
  \A c, d \in Callers :
    /\ pc[c] \in {"build", "unclaim"} /\ pc[d] \in {"build", "unclaim"}
    /\ key[c] = key[d]
    => c = d

(* The claims in pending are those of the callers that build, each under   *)
(* its key: SingleFlight follows, and is not inductive without it.         *)
ClaimsAreBuilders ==
  /\ \A k \in Keys : pending[k] \in Callers =>
       key[pending[k]] = k /\ pc[pending[k]] \in {"build", "unclaim"}
  /\ \A c \in Callers : pc[c] \in {"build", "unclaim"} => pending[key[c]] = c

(* No request is given the view of another key, whether it found it, built *)
(* it, or was sent it by the caller it waited for.                         *)
OwnView ==
  /\ \A c \in Callers : view[c] # NoView => view[c].key = key[c]
  /\ \A k \in DOMAIN entries : entries[k].view.key = k

(* Who waits on a channel waits for a caller that has yet to send on it,   *)
(* and that is about the same key.                                         *)
NoLostWakeup ==
  \A w \in Callers : pc[w] = "wait" /\ on[w] # Orphan =>
    /\ on[w] \in Callers
    /\ pc[on[w]] \notin {"idle", "lookup", "claim", "wait"}
    /\ key[on[w]] = key[w]

(* A full view is never replaced by a provisional one of the same key: a   *)
(* builder that ends after the full view came keeps the full view.         *)
ExactNeverDowngraded ==
  [][\A k \in DOMAIN entries \cap DOMAIN entries' :
       ~ entries[k].view.is_provisional => ~ entries'[k].view.is_provisional]_vars

(* An invalidated source is drained when no entry, request or job is left. *)
Drained(s) ==
  /\ source[s] = "invalidated"
  /\ \A k \in DOMAIN entries : SourceOf[k] # s
  /\ \A c \in Callers : pc[c] = "idle" \/ SourceOf[key[c]] # s
  /\ \A j \in Jobs : jpc[j] \in {"idle", "done"} \/ SourceOf[jkey[j]] # s

(* Once drained, a removed source never has a view in the cache again.     *)
DrainedForGood == [][\A s \in Sources : Drained(s) => Drained(s)']_vars

(* Every request returns.                                                  *)
EveryCallReturns == \A c \in Callers : pc[c] # "idle" ~> pc[c] = "idle"
=============================================================================
