------------------------ MODULE ViewMaterializer_proofs ------------------------
(* Theorems about ViewMaterializer for any callers, jobs, keys and limits. *)
EXTENDS ViewMaterializer, SumLemmas

(***************************************************************************)
(* Type correctness.  The cache is changed in three ways only; the lemmas  *)
(* say that each keeps entries a partial function from keys to entries.    *)
(***************************************************************************)

(* entries.remove keeps the type of entries.                               *)
LEMMA DropType ==
  ASSUME EntriesOK, NEW S, Drop(S)
  PROVE  EntriesOK'
BY DEF EntriesOK, Drop

(* entries.insert of a well-typed entry under a key keeps it.              *)
LEMMA PutType ==
  ASSUME EntriesOK, NEW k \in Keys, NEW e \in Entry, Put(k, e)
  PROVE  EntriesOK'
BY DEF EntriesOK, Put

(* Stamping an entry keeps it.                                             *)
LEMMA StampType ==
  ASSUME EntriesOK, NEW k \in DOMAIN entries, NEW n \in Nat, Stamp(k, n)
  PROVE  EntriesOK'
<1>1. [view |-> entries[k].view, seq |-> n] \in Entry
  BY DEF EntriesOK, Entry
<1>. QED  BY <1>1 DEF EntriesOK, Stamp

(* The disk-backed keys are finitely many, so they can be counted.         *)
LEMMA DiskKeysFinite ==
  ASSUME EntriesOK
  PROVE  IsFiniteSet(DiskKeys) /\ \A S : Cardinality(S \cap DiskKeys) \in Nat
<1>1. DiskKeys \subseteq Keys
  BY DEF EntriesOK, DiskKeys
<1>2. IsFiniteSet(DiskKeys)
  BY <1>1, KeysAssumption, FS_Subset
<1>3. ASSUME NEW S PROVE Cardinality(S \cap DiskKeys) \in Nat
  BY <1>2, FS_Subset, FS_CardinalityType
<1>. QED  BY <1>2, <1>3

(* Eviction and invalidation keep the type of the cache.                   *)
LEMMA DropCacheType ==
  ASSUME EntriesOK, CountersOK, NEW S, Drop(S), UNCHANGED access_seq
  PROVE  EntriesOK' /\ CountersOK'
<1>1. EntriesOK'
  BY DropType
<1>2. CountersOK'
  BY DiskKeysFinite DEF Drop, CountersOK
<1>. QED  BY <1>1, <1>2

(* Returning a view or an error to a caller and its waiters keeps the type *)
(* of the callers' variables.                                              *)
LEMMA ReturnType ==
  ASSUME CallersOK, NEW c \in Callers, NEW v \in View \cup {NoView}, Return(c, v),
         UNCHANGED <<key, calls>>, seq' = seq \/ seq' = [seq EXCEPT ![c] = 0],
         pc[c] # "wait" => on[c] = NoChan
  PROVE  CallersOK'
BY DEF CallersOK, Return, Waiters, CallerPC

(* The initial state is well typed.                                        *)
LEMMA InitType == Init => TypeOK
<1>1. FirstKey \in Keys
  BY KeysAssumption DEF FirstKey
<1>. QED
  BY <1>1, CallersAssumption, ViewsAssumption
  DEF Init, TypeOK, EntriesOK, CountersOK, CallersOK, JobsOK, CallerPC, JobPC

(* Every step keeps every variable of its type.                            *)
LEMMA NextType == TypeOK /\ [Next]_vars => TypeOK'
<1>. SUFFICES ASSUME TypeOK, [Next]_vars PROVE TypeOK'
  OBVIOUS
<1>. USE DEF TypeOK
<1>1. ASSUME NEW k \in Keys, Get(k) PROVE TypeOK'
  <2>1. EntriesOK'
    BY <1>1, StampType DEF Get, Touch, CountersOK
  <2>. QED
    BY <1>1, <2>1 DEF Get, Touch, CountersOK, CallersOK, JobsOK, jobVars
<1>2. ASSUME NEW c \in Callers, NEW k \in Keys, Call(c, k) PROVE TypeOK'
  <2>1. EntriesOK' /\ CountersOK' /\ JobsOK'
    BY <1>2 DEF Call, cache, jobVars, EntriesOK, CountersOK, JobsOK
  <2>2. CallersOK'
    BY <1>2 DEF Call, Goto, CallersOK, CallerPC
  <2>. QED  BY <1>2, <2>1, <2>2 DEF Call
<1>3. ASSUME NEW c \in Callers, CallerStep(c) PROVE TypeOK'
  <2>. DEFINE Unchanged == EntriesOK' /\ CountersOK' /\ JobsOK'
  <2>1. CASE Hit(c)
    <3>1. EntriesOK'
      BY <2>1, StampType DEF Hit, Touch, CountersOK
    <3>2. entries[key[c]].view \in View
      BY <2>1 DEF Hit, EntriesOK, Entry
    <3>3. CallersOK'
      BY <2>1, <3>2 DEF Hit, Goto, CallersOK, CallerPC
    <3>. QED
      BY <2>1, <3>1, <3>3 DEF Hit, Touch, CountersOK, JobsOK, jobVars
  <2>2. CASE Miss(c)
    <3>1. Unchanged
      BY <2>2 DEF Miss, cache, jobVars, EntriesOK, CountersOK, JobsOK
    <3>. QED  BY <2>2, <3>1 DEF Miss, Goto, CallersOK, CallerPC
  <2>3. CASE Subscribe(c)
    <3>1. Unchanged
      BY <2>3 DEF Subscribe, cache, jobVars, EntriesOK, CountersOK, JobsOK
    <3>. QED  BY <2>3, <3>1 DEF Subscribe, Goto, CallersOK, CallerPC
  <2>4. CASE Claim(c)
    <3>1. Unchanged
      BY <2>4 DEF Claim, cache, jobVars, EntriesOK, CountersOK, JobsOK
    <3>. QED  BY <2>4, <3>1 DEF Claim, Goto, CallersOK, CallerPC
  <2>5. ASSUME NEW v \in Built[key[c]], BuildOk(c, v) PROVE TypeOK'
    <3>1. Unchanged
      BY <2>5 DEF BuildOk, cache, jobVars, EntriesOK, CountersOK, JobsOK
    <3>2. v \in View
      BY ViewsAssumption DEF CallersOK
    <3>. QED  BY <2>5, <3>1, <3>2 DEF BuildOk, Goto, CallersOK, CallerPC
  <2>6. CASE BuildErr(c)
    <3>1. Unchanged
      BY <2>6 DEF BuildErr, cache, jobVars, EntriesOK, CountersOK, JobsOK
    <3>. QED  BY <2>6, <3>1 DEF BuildErr, Goto, CallersOK, CallerPC
  <2>7. CASE Unclaim(c)
    <3>1. Unchanged
      BY <2>7 DEF Unclaim, cache, jobVars, EntriesOK, CountersOK, JobsOK
    <3>. QED  BY <2>7, <3>1 DEF Unclaim, Goto, CallersOK, CallerPC
  <2>8. CASE Fail(c)
    <3>1. Unchanged
      BY <2>8 DEF Fail, cache, jobVars, EntriesOK, CountersOK, JobsOK
    <3>2. CallersOK'
      BY <2>8, ReturnType DEF Fail, CallersOK
    <3>. QED  BY <2>8, <3>1, <3>2 DEF Fail
  <2>9. CASE Evict(c)
    <3>1. EntriesOK' /\ CountersOK'
      BY <2>9, DropCacheType DEF Evict
    <3>. QED  BY <2>9, <3>1 DEF Evict, Goto, CallersOK, CallerPC, JobsOK, jobVars
  <2>10. CASE TakeSeq(c)
    <3>1. Unchanged
      BY <2>10 DEF TakeSeq, jobVars, EntriesOK, CountersOK, JobsOK
    <3>. QED  BY <2>10, <3>1 DEF TakeSeq, Goto, CallersOK, CallerPC, CountersOK
  <2>11. CASE KeepExisting(c)
    <3>1. EntriesOK'
      BY <2>11, StampType DEF KeepExisting, CallersOK
    <3>2. entries[key[c]].view \in View
      BY <2>11 DEF KeepExisting, EntriesOK, Entry
    <3>3. CallersOK'
      BY <2>11, <3>2 DEF KeepExisting, Goto, CallersOK, CallerPC
    <3>. QED
      BY <2>11, <3>1, <3>3 DEF KeepExisting, CountersOK, JobsOK, jobVars
  <2>12. CASE Insert(c)
    <3>1. [view |-> view[c], seq |-> seq[c]] \in Entry
      BY <2>12 DEF Insert, CallersOK, Entry
    <3>2. EntriesOK'
      BY <2>12, <3>1, PutType DEF Insert, CallersOK
    <3>. QED
      BY <2>12, <3>2 DEF Insert, Goto, CallersOK, CallerPC, CountersOK, JobsOK, jobVars
  <2>13. CASE Account(c)
    <3>1. EntriesOK' /\ CountersOK' /\ JobsOK'
      BY <2>13 DEF Account, jobVars, EntriesOK, CountersOK, JobsOK, DiskUnits
    <3>. QED  BY <2>13, <3>1 DEF Account, Goto, CallersOK, CallerPC
  <2>14. CASE Publish(c)
    <3>1. Unchanged
      BY <2>14 DEF Publish, cache, jobVars, EntriesOK, CountersOK, JobsOK
    <3>2. CallersOK'
      BY <2>14, ReturnType DEF Publish, CallersOK
    <3>. QED  BY <2>14, <3>1, <3>2 DEF Publish
  <2>. QED
    BY <1>3, <2>1, <2>2, <2>3, <2>4, <2>5, <2>6, <2>7, <2>8, <2>9, <2>10, <2>11, <2>12,
       <2>13, <2>14 DEF CallerStep
<1>4. ASSUME NEW c \in Callers, DropClaimed(c) PROVE TypeOK'
  <2>1. EntriesOK' /\ CountersOK' /\ JobsOK'
    BY <1>4 DEF DropClaimed, cache, jobVars, EntriesOK, CountersOK, JobsOK
  <2>2. CallersOK'
    BY <1>4, CallersAssumption DEF DropClaimed, Waiters, Goto, CallersOK, CallerPC
  <2>. QED  BY <1>4, <2>1, <2>2 DEF DropClaimed, CallersOK
<1>5. ASSUME NEW c \in Callers, DropUnclaimed(c) PROVE TypeOK'
  <2>1. EntriesOK' /\ CountersOK' /\ JobsOK'
    BY <1>5 DEF DropUnclaimed, cache, jobVars, EntriesOK, CountersOK, JobsOK
  <2>2. CallersOK'
    BY <1>5, ReturnType DEF DropUnclaimed, CallersOK
  <2>. QED  BY <1>5, <2>1, <2>2 DEF DropUnclaimed
<1>6. ASSUME NEW j \in Jobs, NEW k \in Keys, StartJob(j, k) PROVE TypeOK'
  <2>1. EntriesOK' /\ CountersOK' /\ CallersOK'
    BY <1>6 DEF StartJob, cache, EntriesOK, CountersOK, CallersOK
  <2>. QED  BY <1>6, <2>1 DEF StartJob, JobGoto, JobsOK, JobPC
<1>7. ASSUME NEW j \in Jobs, JobStep(j) PROVE TypeOK'
  <2>1. CallersOK'
    BY <1>7 DEF JobStep, JobBuilt, JobFailed, JobEvict, JobInsert, CallersOK
  <2>2. ASSUME NEW v \in Full[jkey[j]], JobBuilt(j, v) PROVE TypeOK'
    <3>1. v \in View
      BY ViewsAssumption DEF JobsOK
    <3>. QED
      BY <2>1, <2>2, <3>1 DEF JobBuilt, JobGoto, JobsOK, JobPC, cache, EntriesOK, CountersOK
  <2>3. CASE JobFailed(j)
    BY <2>1, <2>3 DEF JobFailed, JobGoto, JobsOK, JobPC, cache, EntriesOK, CountersOK
  <2>4. CASE JobEvict(j)
    <3>1. EntriesOK' /\ CountersOK'
      BY <2>4, DropCacheType DEF JobEvict
    <3>. QED  BY <2>1, <2>4, <3>1 DEF JobEvict, JobGoto, JobsOK, JobPC
  <2>5. CASE JobInsert(j)
    <3>1. [view |-> jview[j], seq |-> access_seq] \in Entry
      BY <2>5 DEF JobInsert, JobsOK, CountersOK, Entry
    <3>2. EntriesOK'
      BY <2>5, <3>1, PutType DEF JobInsert, JobsOK
    <3>3. Cardinality(({jkey[j]} \cap DOMAIN entries) \cap DiskKeys) \in Nat
      BY DiskKeysFinite
    <3>4. DiskUnits(jview[j]) \in Nat
      BY DEF DiskUnits
    <3>5. CountersOK'
      BY <2>5, <3>3, <3>4 DEF JobInsert, CountersOK
    <3>. QED  BY <2>1, <2>5, <3>2, <3>5 DEF JobInsert, JobGoto, JobsOK, JobPC
  <2>. QED  BY <1>7, <2>2, <2>3, <2>4, <2>5 DEF JobStep
<1>8. ASSUME NEW s \in Sources, RemoveSource(s) PROVE TypeOK'
  BY <1>8 DEF RemoveSource, cache, jobVars, EntriesOK, CountersOK, CallersOK, JobsOK
<1>9. ASSUME NEW s \in Sources, InvalidateSource(s) PROVE TypeOK'
  <2>1. EntriesOK' /\ CountersOK'
    BY <1>9, DropCacheType DEF InvalidateSource
  <2>. QED  BY <1>9, <2>1 DEF InvalidateSource, jobVars, CallersOK, JobsOK
<1>10. CASE UNCHANGED vars
  BY <1>10 DEF vars, cache, jobVars, EntriesOK, CountersOK, CallersOK, JobsOK
<1>. QED
  BY <1>1, <1>2, <1>3, <1>4, <1>5, <1>6, <1>7, <1>8, <1>9, <1>10 DEF Next

(* In every reachable state every variable has its type.                   *)
THEOREM TypeCorrect == Spec => []TypeOK
BY InitType, NextType, PTL DEF Spec

(***************************************************************************)
(* Claims and channels.                                                    *)
(***************************************************************************)

ChannelInv == ClaimsAreBuilders /\ NoLostWakeup

(* A caller that has removed its claim and goes on to another step before  *)
(* it sends disturbs neither claims nor channels.                          *)
LEMMA MoveOn ==
  ASSUME TypeOK, ChannelInv, NEW c \in Callers,
         NEW label \in {"fail", "evict", "seq", "insert", "account", "publish"},
         pc[c] \in {"fail", "evict", "seq", "insert", "account", "publish"},
         pc' = [pc EXCEPT ![c] = label], UNCHANGED <<pending, key, on>>
  PROVE  ChannelInv'
BY DEF TypeOK, CallersOK, ChannelInv, ClaimsAreBuilders, NoLostWakeup

(* Nor does one that has no claim, and takes those who wait for it along   *)
(* when it returns.                                                        *)
LEMMA ReturnChannels ==
  ASSUME TypeOK, ChannelInv, NEW c \in Callers, NEW v, Return(c, v),
         pc[c] \notin {"build", "unclaim"}, UNCHANGED <<pending, key>>
  PROVE  ChannelInv'
BY CallersAssumption
DEF TypeOK, CallersOK, ChannelInv, ClaimsAreBuilders, NoLostWakeup, Return, Waiters

LEMMA InitChannels == Init => ChannelInv
BY CallersAssumption DEF Init, ChannelInv, ClaimsAreBuilders, NoLostWakeup

(* Every step keeps claims and channels.                                   *)
LEMMA NextChannels == TypeOK /\ ChannelInv /\ [Next]_vars => ChannelInv'
<1>. SUFFICES ASSUME TypeOK, ChannelInv, [Next]_vars PROVE ChannelInv'
  OBVIOUS
<1>. USE CallersAssumption DEF ChannelInv
<1>1. ASSUME NEW k \in Keys, Get(k) PROVE ChannelInv'
  BY <1>1 DEF Get, ClaimsAreBuilders, NoLostWakeup
<1>2. ASSUME NEW c \in Callers, NEW k \in Keys, Call(c, k) PROVE ChannelInv'
  BY <1>2 DEF Call, Goto, TypeOK, CallersOK, ClaimsAreBuilders, NoLostWakeup
<1>3. ASSUME NEW c \in Callers, CallerStep(c) PROVE ChannelInv'
  <2>. USE DEF Goto
  <2>1. CASE Hit(c)
    BY <2>1 DEF Hit, TypeOK, CallersOK, ClaimsAreBuilders, NoLostWakeup
  <2>2. CASE Miss(c)
    BY <2>2 DEF Miss, TypeOK, CallersOK, ClaimsAreBuilders, NoLostWakeup
  <2>3. CASE Subscribe(c)
    BY <2>3 DEF Subscribe, TypeOK, CallersOK, ClaimsAreBuilders, NoLostWakeup
  <2>4. CASE Claim(c)
    BY <2>4 DEF Claim, TypeOK, CallersOK, ClaimsAreBuilders, NoLostWakeup
  <2>5. ASSUME NEW v \in Built[key[c]], BuildOk(c, v) PROVE ChannelInv'
    BY <2>5 DEF BuildOk, TypeOK, CallersOK, ClaimsAreBuilders, NoLostWakeup
  <2>6. CASE BuildErr(c)
    BY <2>6 DEF BuildErr, TypeOK, CallersOK, ClaimsAreBuilders, NoLostWakeup
  <2>7. CASE Unclaim(c)
    BY <2>7 DEF Unclaim, TypeOK, CallersOK, ClaimsAreBuilders, NoLostWakeup
  <2>8. CASE Fail(c)
    BY <2>8, ReturnChannels DEF Fail
  <2>9. CASE Evict(c)
    BY <2>9, MoveOn DEF Evict
  <2>10. CASE TakeSeq(c)
    BY <2>10, MoveOn DEF TakeSeq
  <2>11. CASE KeepExisting(c)
    BY <2>11, MoveOn DEF KeepExisting
  <2>12. CASE Insert(c)
    BY <2>12, MoveOn DEF Insert
  <2>13. CASE Account(c)
    BY <2>13, MoveOn DEF Account
  <2>14. CASE Publish(c)
    BY <2>14, ReturnChannels DEF Publish
  <2>. QED
    BY <1>3, <2>1, <2>2, <2>3, <2>4, <2>5, <2>6, <2>7, <2>8, <2>9, <2>10, <2>11, <2>12,
       <2>13, <2>14 DEF CallerStep
<1>4. ASSUME NEW c \in Callers, DropClaimed(c) PROVE ChannelInv'
  BY <1>4 DEF DropClaimed, Waiters, Goto, TypeOK, CallersOK, ClaimsAreBuilders, NoLostWakeup
<1>5. ASSUME NEW c \in Callers, DropUnclaimed(c) PROVE ChannelInv'
  BY <1>5, ReturnChannels DEF DropUnclaimed
<1>6. ASSUME NEW j \in Jobs, NEW k \in Keys, StartJob(j, k) PROVE ChannelInv'
  BY <1>6 DEF StartJob, ClaimsAreBuilders, NoLostWakeup
<1>7. ASSUME NEW j \in Jobs, JobStep(j) PROVE ChannelInv'
  BY <1>7 DEF JobStep, JobBuilt, JobFailed, JobEvict, JobInsert, ClaimsAreBuilders, NoLostWakeup
<1>8. ASSUME NEW s \in Sources, RemoveSource(s) \/ InvalidateSource(s) PROVE ChannelInv'
  BY <1>8 DEF RemoveSource, InvalidateSource, ClaimsAreBuilders, NoLostWakeup
<1>9. CASE UNCHANGED vars
  BY <1>9 DEF vars, ClaimsAreBuilders, NoLostWakeup
<1>. QED
  BY <1>1, <1>2, <1>3, <1>4, <1>5, <1>6, <1>7, <1>8, <1>9 DEF Next

LEMMA ChannelsCorrect == Spec => []ChannelInv
BY InitChannels, NextChannels, TypeCorrect, PTL DEF Spec

(* At most one caller runs the builder of a key, whoever is dropped when.  *)
THEOREM OneBuilderPerKey == Spec => []SingleFlight
<1>1. ChannelInv => SingleFlight
  BY DEF ChannelInv, ClaimsAreBuilders, SingleFlight
<1>. QED  BY <1>1, ChannelsCorrect, PTL

(* Every waiter whose channel is not orphaned waits for a caller that has  *)
(* yet to send on it.                                                      *)
THEOREM WaitersHaveSenders == Spec => []NoLostWakeup
<1>1. ChannelInv => NoLostWakeup
  BY DEF ChannelInv
<1>. QED  BY <1>1, ChannelsCorrect, PTL

(***************************************************************************)
(* Views go to those who asked for them.                                   *)
(***************************************************************************)

(* OwnView, with what jobs hold.                                           *)
OwnViewInv ==
  /\ OwnView
  /\ \A j \in Jobs : jpc[j] \in {"evict", "insert"} => jview[j].key = jkey[j]

LEMMA InitOwnView == Init => OwnViewInv
BY DEF Init, OwnViewInv, OwnView

(* Sending a view of the caller's key gives every waiter its own.          *)
LEMMA ReturnOwnView ==
  ASSUME TypeOK, NoLostWakeup, OwnViewInv, NEW c \in Callers, NEW v,
         v # NoView => v.key = key[c],
         Return(c, v), UNCHANGED <<entries, key, jpc, jkey, jview>>
  PROVE  OwnViewInv'
BY CallersAssumption
DEF OwnViewInv, OwnView, Return, Waiters, NoLostWakeup, TypeOK, CallersOK

(* Every step keeps views with those who asked for them.                   *)
LEMMA NextOwnView == TypeOK /\ NoLostWakeup /\ OwnViewInv /\ [Next]_vars => OwnViewInv'
<1>. SUFFICES ASSUME TypeOK, NoLostWakeup, OwnViewInv, [Next]_vars PROVE OwnViewInv'
  OBVIOUS
<1>1. ASSUME NEW k \in Keys, Get(k) PROVE OwnViewInv'
  BY <1>1 DEF Get, Touch, Stamp, jobVars, OwnViewInv, OwnView, TypeOK, EntriesOK
<1>2. ASSUME NEW c \in Callers, NEW k \in Keys, Call(c, k) PROVE OwnViewInv'
  BY <1>2 DEF Call, cache, jobVars, OwnViewInv, OwnView, TypeOK, CallersOK
<1>3. ASSUME NEW c \in Callers, CallerStep(c) PROVE OwnViewInv'
  <2>1. CASE Hit(c)
    BY <2>1 DEF Hit, Touch, Stamp, jobVars, OwnViewInv, OwnView, TypeOK, EntriesOK, CallersOK
  <2>2. CASE Miss(c) \/ Subscribe(c) \/ Claim(c) \/ BuildErr(c) \/ Unclaim(c)
    BY <2>2 DEF Miss, Subscribe, Claim, BuildErr, Unclaim, cache, jobVars, OwnViewInv, OwnView
  <2>3. ASSUME NEW v \in Built[key[c]], BuildOk(c, v) PROVE OwnViewInv'
    <3>1. v.key = key[c]
      BY ViewsAssumption DEF TypeOK, CallersOK
    <3>. QED
      BY <2>3, <3>1 DEF BuildOk, cache, jobVars, OwnViewInv, OwnView, TypeOK, CallersOK
  <2>4. CASE Fail(c)
    BY <2>4, ReturnOwnView DEF Fail, cache, jobVars
  <2>5. CASE Evict(c)
    BY <2>5 DEF Evict, Drop, jobVars, OwnViewInv, OwnView
  <2>6. CASE TakeSeq(c) \/ Account(c)
    BY <2>6 DEF TakeSeq, Account, jobVars, OwnViewInv, OwnView
  <2>7. CASE KeepExisting(c)
    BY <2>7
    DEF KeepExisting, Stamp, jobVars, OwnViewInv, OwnView, TypeOK, EntriesOK, CallersOK
  <2>8. CASE Insert(c)
    <3>1. view[c] # NoView
      BY <2>8, ViewsAssumption DEF Insert, TypeOK, CallersOK
    <3>. QED
      BY <2>8, <3>1 DEF Insert, Put, jobVars, OwnViewInv, OwnView
  <2>9. CASE Publish(c)
    BY <2>9, ReturnOwnView DEF Publish, cache, jobVars, OwnViewInv, OwnView
  <2>. QED
    BY <1>3, <2>1, <2>2, <2>3, <2>4, <2>5, <2>6, <2>7, <2>8, <2>9 DEF CallerStep
<1>4. ASSUME NEW c \in Callers, DropClaimed(c) PROVE OwnViewInv'
  BY <1>4 DEF DropClaimed, cache, jobVars, OwnViewInv, OwnView, TypeOK, CallersOK
<1>5. ASSUME NEW c \in Callers, DropUnclaimed(c) PROVE OwnViewInv'
  BY <1>5, ReturnOwnView DEF DropUnclaimed, cache, jobVars
<1>6. ASSUME NEW j \in Jobs, NEW k \in Keys, StartJob(j, k) PROVE OwnViewInv'
  BY <1>6 DEF StartJob, JobGoto, cache, OwnViewInv, OwnView, TypeOK, JobsOK
<1>7. ASSUME NEW j \in Jobs, JobStep(j) PROVE OwnViewInv'
  <2>1. ASSUME NEW v \in Full[jkey[j]], JobBuilt(j, v) PROVE OwnViewInv'
    <3>1. v.key = jkey[j]
      BY ViewsAssumption DEF TypeOK, JobsOK
    <3>. QED
      BY <2>1, <3>1 DEF JobBuilt, JobGoto, cache, OwnViewInv, OwnView, TypeOK, JobsOK
  <2>2. CASE JobFailed(j)
    BY <2>2 DEF JobFailed, JobGoto, cache, OwnViewInv, OwnView, TypeOK, JobsOK
  <2>3. CASE JobEvict(j)
    BY <2>3 DEF JobEvict, Drop, JobGoto, OwnViewInv, OwnView, TypeOK, JobsOK
  <2>4. CASE JobInsert(j)
    BY <2>4 DEF JobInsert, Put, JobGoto, OwnViewInv, OwnView, TypeOK, JobsOK
  <2>. QED  BY <1>7, <2>1, <2>2, <2>3, <2>4 DEF JobStep
<1>8. ASSUME NEW s \in Sources, RemoveSource(s) PROVE OwnViewInv'
  BY <1>8 DEF RemoveSource, cache, jobVars, OwnViewInv, OwnView
<1>9. ASSUME NEW s \in Sources, InvalidateSource(s) PROVE OwnViewInv'
  BY <1>9 DEF InvalidateSource, Drop, jobVars, OwnViewInv, OwnView
<1>10. CASE UNCHANGED vars
  BY <1>10 DEF vars, cache, jobVars, OwnViewInv, OwnView
<1>. QED
  BY <1>1, <1>2, <1>3, <1>4, <1>5, <1>6, <1>7, <1>8, <1>9, <1>10 DEF Next

(* No request ever holds, and no key ever caches, the view of another key. *)
THEOREM EveryoneGetsTheirOwnView == Spec => []OwnView
<1>1. ChannelInv => NoLostWakeup
  BY DEF ChannelInv
<1>2. OwnViewInv => OwnView
  BY DEF OwnViewInv
<1>. QED
  BY <1>1, <1>2, InitOwnView, NextOwnView, TypeCorrect, ChannelsCorrect, PTL DEF Spec

(***************************************************************************)
(* The count of disk-backed entries.                                       *)
(***************************************************************************)

LEMMA UnaccountedFinite ==
  IsFiniteSet(UnaccountedDisk) /\ Cardinality(UnaccountedDisk) \in Nat
<1>1. UnaccountedDisk \subseteq Callers
  BY DEF UnaccountedDisk, Unaccounted
<1>. QED  BY <1>1, CallersAssumption, FS_Subset, FS_CardinalityType

(* A step that moves no caller into or out of "account", and leaves the    *)
(* disk-backed keys and the count alone, keeps the count exact.            *)
LEMMA CountUntouched ==
  ASSUME DiskCountExact, DiskKeys' = DiskKeys, UNCHANGED disk_backed_count,
         \A c \in Callers : /\ pc'[c] = "account" <=> pc[c] = "account"
                            /\ pc[c] = "account" => view'[c] = view[c]
  PROVE  DiskCountExact'
<1>1. UnaccountedDisk' = UnaccountedDisk
  BY DEF UnaccountedDisk, Unaccounted
<1>. QED  BY <1>1 DEF DiskCountExact

(* Dropping entries subtracts those that are disk-backed.                  *)
LEMMA DropCounted ==
  ASSUME EntriesOK, DiskCountExact, NEW S, Drop(S),
         \A c \in Callers : /\ pc'[c] = "account" <=> pc[c] = "account"
                            /\ pc[c] = "account" => view'[c] = view[c]
  PROVE  DiskCountExact'
<1>1. DiskKeys' = DiskKeys \ S
  BY DEF Drop, DiskKeys
<1>2. Cardinality(DiskKeys \ S) = Cardinality(DiskKeys) - Cardinality(S \cap DiskKeys)
  <2>1. Cardinality(DiskKeys \ S) = Cardinality(DiskKeys) - Cardinality(DiskKeys \cap S)
    BY DiskKeysFinite, FS_Difference
  <2>2. DiskKeys \cap S = S \cap DiskKeys
    OBVIOUS
  <2>. QED  BY <2>1, <2>2
<1>3. UnaccountedDisk' = UnaccountedDisk
  BY DEF UnaccountedDisk, Unaccounted
<1>4. Cardinality(DiskKeys) \in Nat /\ Cardinality(S \cap DiskKeys) \in Nat
  BY DiskKeysFinite, FS_CardinalityType
<1>5. disk_backed_count' = disk_backed_count - Cardinality(S \cap DiskKeys)
  BY DEF Drop
<1>. QED
  BY <1>1, <1>2, <1>3, <1>4, <1>5, UnaccountedFinite DEF DiskCountExact

(* An entry under a new key, not accounted yet.                            *)
LEMMA InsertCounted ==
  ASSUME TypeOK, DiskCountExact, NEW c \in Callers, Insert(c)
  PROVE  DiskCountExact'
<1>. DEFINE k == key[c]
<1>1. /\ k \notin DiskKeys
      /\ DiskKeys' = IF view[c].is_disk_backed THEN DiskKeys \cup {k} ELSE DiskKeys
  BY DEF Insert, Put, DiskKeys, TypeOK, EntriesOK
<1>2. /\ c \notin UnaccountedDisk
      /\ UnaccountedDisk' = IF view[c].is_disk_backed THEN UnaccountedDisk \cup {c}
                                                     ELSE UnaccountedDisk
  BY DEF Insert, Goto, UnaccountedDisk, Unaccounted, TypeOK, CallersOK
<1>3. IsFiniteSet(DiskKeys) /\ Cardinality(DiskKeys) \in Nat
  BY DiskKeysFinite, FS_CardinalityType DEF TypeOK
<1>4. Cardinality(DiskKeys \cup {k}) = Cardinality(DiskKeys) + 1
  BY <1>1, <1>3, FS_AddElement
<1>5. Cardinality(UnaccountedDisk \cup {c}) = Cardinality(UnaccountedDisk) + 1
  BY <1>2, UnaccountedFinite, FS_AddElement
<1>6. UNCHANGED disk_backed_count
  BY DEF Insert
<1>. QED
  BY <1>1, <1>2, <1>3, <1>4, <1>5, <1>6, UnaccountedFinite DEF DiskCountExact

(* The count of an entry that was inserted before.                         *)
LEMMA AccountCounted ==
  ASSUME TypeOK, DiskCountExact, NEW c \in Callers, Account(c)
  PROVE  DiskCountExact'
<1>. DEFINE n == DiskUnits(view[c])
<1>1. DiskKeys' = DiskKeys
  BY DEF Account, DiskKeys
<1>2. /\ view[c].is_disk_backed => c \in UnaccountedDisk
      /\ UnaccountedDisk' = UnaccountedDisk \ {c}
      /\ ~ view[c].is_disk_backed => c \notin UnaccountedDisk
  BY DEF Account, Goto, UnaccountedDisk, Unaccounted, TypeOK, CallersOK
<1>3. Cardinality(UnaccountedDisk') = Cardinality(UnaccountedDisk) - n
  <2>1. Cardinality(UnaccountedDisk \ {c}) =
          IF c \in UnaccountedDisk THEN Cardinality(UnaccountedDisk) - 1
                                   ELSE Cardinality(UnaccountedDisk)
    BY UnaccountedFinite, FS_RemoveElement
  <2>. QED  BY <1>2, <2>1, UnaccountedFinite DEF DiskUnits
<1>4. n \in Nat /\ Cardinality(DiskKeys) \in Nat
  BY DiskKeysFinite, FS_CardinalityType DEF DiskUnits, TypeOK
<1>5. disk_backed_count' = disk_backed_count + n
  BY DEF Account
<1>. HIDE DEF n
<1>. QED
  BY <1>1, <1>3, <1>4, <1>5, UnaccountedFinite DEF DiskCountExact

(* A replacement takes the old entry off the count and adds the new one.   *)
LEMMA JobInsertCounted ==
  ASSUME TypeOK, DiskCountExact, NEW j \in Jobs, JobInsert(j)
  PROVE  DiskCountExact'
<1>. DEFINE k    == jkey[j]
            n    == DiskUnits(jview[j])
            old  == {k} \cap DOMAIN entries
            rest == DiskKeys \ {k}
<1>1. /\ old \cap DiskKeys = DiskKeys \cap {k}
      /\ k \notin rest
      /\ DiskKeys' = IF jview[j].is_disk_backed THEN rest \cup {k} ELSE rest
  BY DEF JobInsert, Put, DiskKeys, TypeOK, EntriesOK
<1>2. /\ IsFiniteSet(DiskKeys) /\ Cardinality(DiskKeys) \in Nat
      /\ Cardinality(old \cap DiskKeys) \in Nat
  BY DiskKeysFinite, FS_CardinalityType DEF TypeOK
<1>3. /\ IsFiniteSet(rest)
      /\ Cardinality(rest) = Cardinality(DiskKeys) - Cardinality(old \cap DiskKeys)
  <2>1. /\ IsFiniteSet(DiskKeys \ {k})
        /\ Cardinality(DiskKeys \ {k}) = Cardinality(DiskKeys) - Cardinality(DiskKeys \cap {k})
    BY <1>2, FS_Difference
  <2>. QED  BY <1>1, <2>1
<1>4. Cardinality(DiskKeys') = Cardinality(rest) + n
  <2>1. Cardinality(rest \cup {k}) = Cardinality(rest) + 1 /\ Cardinality(rest) \in Nat
    <3>. HIDE DEF rest
    <3>. QED  BY <1>1, <1>3, FS_AddElement, FS_CardinalityType
  <2>. QED  BY <1>1, <2>1 DEF DiskUnits
<1>5. UnaccountedDisk' = UnaccountedDisk
  BY DEF JobInsert, UnaccountedDisk, Unaccounted
<1>6. n \in Nat
  BY DEF DiskUnits
<1>7. disk_backed_count' = disk_backed_count - Cardinality(old \cap DiskKeys) + n
  BY DEF JobInsert
<1>. HIDE DEF n, old, rest
<1>. QED
  BY <1>2, <1>3, <1>4, <1>5, <1>6, <1>7, UnaccountedFinite DEF DiskCountExact

(* Stamping an entry leaves it where it is.                                *)
LEMMA StampCounted ==
  ASSUME EntriesOK, NEW k \in DOMAIN entries, NEW n, Stamp(k, n)
  PROVE  DiskKeys' = DiskKeys
BY DEF EntriesOK, Stamp, DiskKeys

(* Returning touches no caller that is about to account.                   *)
LEMMA ReturnCounted ==
  ASSUME TypeOK, NEW c \in Callers, pc[c] # "account", NEW v, Return(c, v)
  PROVE  \A d \in Callers : /\ pc'[d] = "account" <=> pc[d] = "account"
                            /\ pc[d] = "account" => view'[d] = view[d]
BY DEF TypeOK, CallersOK, Return, Waiters

LEMMA InitCounted == Init => DiskCountExact
<1>. SUFFICES ASSUME Init PROVE DiskCountExact
  OBVIOUS
<1>1. DiskKeys = {} /\ UnaccountedDisk = {}
  BY DEF Init, DiskKeys, UnaccountedDisk, Unaccounted
<1>2. Cardinality({}) = 0
  BY FS_EmptySet
<1>. QED  BY <1>1, <1>2 DEF Init, DiskCountExact

(* Every step keeps the count exact.                                       *)
LEMMA NextCounted == TypeOK /\ DiskCountExact /\ [Next]_vars => DiskCountExact'
<1>. SUFFICES ASSUME TypeOK, DiskCountExact, [Next]_vars PROVE DiskCountExact'
  OBVIOUS
<1>1. ASSUME NEW k \in Keys, Get(k) PROVE DiskCountExact'
  BY <1>1, StampCounted, CountUntouched DEF Get, Touch, TypeOK, CountersOK
<1>2. ASSUME NEW c \in Callers, NEW k \in Keys, Call(c, k) PROVE DiskCountExact'
  <2>1. DiskKeys' = DiskKeys
    BY <1>2 DEF Call, cache, DiskKeys
  <2>. QED
    BY <1>2, <2>1, CountUntouched DEF Call, Goto, cache, TypeOK, CallersOK
<1>3. ASSUME NEW c \in Callers, CallerStep(c) PROVE DiskCountExact'
  <2>1. CASE Hit(c)
    <3>1. DiskKeys' = DiskKeys
      BY <2>1, StampCounted DEF Hit, Touch, TypeOK
    <3>. QED
      BY <2>1, <3>1, CountUntouched DEF Hit, Goto, TypeOK, CallersOK
  <2>2. CASE Miss(c) \/ Subscribe(c) \/ Claim(c) \/ BuildErr(c) \/ Unclaim(c)
    <3>1. DiskKeys' = DiskKeys /\ UNCHANGED disk_backed_count
      BY <2>2 DEF Miss, Subscribe, Claim, BuildErr, Unclaim, cache, DiskKeys
    <3>. QED
      BY <2>2, <3>1, CountUntouched
      DEF Miss, Subscribe, Claim, BuildErr, Unclaim, Goto, TypeOK, CallersOK
  <2>3. ASSUME NEW v \in Built[key[c]], BuildOk(c, v) PROVE DiskCountExact'
    <3>1. DiskKeys' = DiskKeys
      BY <2>3 DEF BuildOk, cache, DiskKeys
    <3>. QED
      BY <2>3, <3>1, CountUntouched DEF BuildOk, Goto, cache, TypeOK, CallersOK
  <2>4. CASE Fail(c) \/ Publish(c)
    <3>1. DiskKeys' = DiskKeys /\ UNCHANGED disk_backed_count
      BY <2>4 DEF Fail, Publish, cache, DiskKeys
    <3>. QED
      BY <2>4, <3>1, ReturnCounted, CountUntouched DEF Fail, Publish
  <2>5. CASE Evict(c)
    BY <2>5, DropCounted DEF Evict, Goto, TypeOK, CallersOK
  <2>6. CASE TakeSeq(c)
    <3>1. DiskKeys' = DiskKeys
      BY <2>6 DEF TakeSeq, DiskKeys
    <3>. QED
      BY <2>6, <3>1, CountUntouched DEF TakeSeq, Goto, TypeOK, CallersOK
  <2>7. CASE KeepExisting(c)
    <3>1. DiskKeys' = DiskKeys
      BY <2>7, StampCounted DEF KeepExisting, TypeOK
    <3>. QED
      BY <2>7, <3>1, CountUntouched DEF KeepExisting, Goto, TypeOK, CallersOK
  <2>8. CASE Insert(c)
    BY <2>8, InsertCounted
  <2>9. CASE Account(c)
    BY <2>9, AccountCounted
  <2>. QED
    BY <1>3, <2>1, <2>2, <2>3, <2>4, <2>5, <2>6, <2>7, <2>8, <2>9 DEF CallerStep
<1>4. ASSUME NEW c \in Callers, DropClaimed(c) \/ DropUnclaimed(c) PROVE DiskCountExact'
  <2>1. DiskKeys' = DiskKeys /\ UNCHANGED disk_backed_count
    BY <1>4 DEF DropClaimed, DropUnclaimed, cache, DiskKeys
  <2>2. CASE DropClaimed(c)
    BY <2>1, <2>2, CountUntouched DEF DropClaimed, Goto, TypeOK, CallersOK
  <2>3. CASE DropUnclaimed(c)
    BY <2>1, <2>3, ReturnCounted, CountUntouched DEF DropUnclaimed
  <2>. QED  BY <1>4, <2>2, <2>3
<1>5. ASSUME NEW j \in Jobs, NEW k \in Keys, StartJob(j, k) PROVE DiskCountExact'
  <2>1. DiskKeys' = DiskKeys
    BY <1>5 DEF StartJob, cache, DiskKeys
  <2>. QED  BY <1>5, <2>1, CountUntouched DEF StartJob, cache
<1>6. ASSUME NEW j \in Jobs, JobStep(j) PROVE DiskCountExact'
  <2>1. CASE JobFailed(j) \/ \E v \in Full[jkey[j]] : JobBuilt(j, v)
    <3>1. DiskKeys' = DiskKeys /\ UNCHANGED <<disk_backed_count, pc, view>>
      BY <2>1 DEF JobFailed, JobBuilt, cache, DiskKeys
    <3>. QED  BY <3>1, CountUntouched
  <2>2. CASE JobEvict(j)
    BY <2>2, DropCounted DEF JobEvict, TypeOK
  <2>3. CASE JobInsert(j)
    BY <2>3, JobInsertCounted
  <2>. QED  BY <1>6, <2>1, <2>2, <2>3 DEF JobStep
<1>7. ASSUME NEW s \in Sources, RemoveSource(s) PROVE DiskCountExact'
  <2>1. DiskKeys' = DiskKeys
    BY <1>7 DEF RemoveSource, cache, DiskKeys
  <2>. QED  BY <1>7, <2>1, CountUntouched DEF RemoveSource, cache
<1>8. ASSUME NEW s \in Sources, InvalidateSource(s) PROVE DiskCountExact'
  BY <1>8, DropCounted DEF InvalidateSource, TypeOK
<1>9. CASE UNCHANGED vars
  <2>1. DiskKeys' = DiskKeys
    BY <1>9 DEF vars, cache, DiskKeys
  <2>. QED  BY <1>9, <2>1, CountUntouched DEF vars, cache
<1>. QED
  BY <1>1, <1>2, <1>3, <1>4, <1>5, <1>6, <1>7, <1>8, <1>9 DEF Next

(* disk_backed_count never drifts, whatever inserts, evictions, replaces,  *)
(* invalidations and dropped requests interleave.                          *)
THEOREM DiskCountCorrect == Spec => []DiskCountExact
BY InitCounted, NextCounted, TypeCorrect, PTL DEF Spec

(***************************************************************************)
(* Full views stay.                                                        *)
(***************************************************************************)

(* A job holds a full view.                                                *)
JobsHoldFull ==
  \A j \in Jobs : jpc[j] \in {"evict", "insert"} => ~ jview[j].is_provisional

LEMMA InitJobsHoldFull == Init => JobsHoldFull
BY DEF Init, JobsHoldFull

LEMMA NextJobsHoldFull == TypeOK /\ JobsHoldFull /\ [Next]_vars => JobsHoldFull'
<1>. SUFFICES ASSUME TypeOK, JobsHoldFull, [Next]_vars PROVE JobsHoldFull'
  OBVIOUS
<1>1. ASSUME NEW j \in Jobs, NEW k \in Keys, StartJob(j, k) PROVE JobsHoldFull'
  BY <1>1 DEF StartJob, JobGoto, JobsHoldFull, TypeOK, JobsOK
<1>2. ASSUME NEW j \in Jobs, NEW v \in Full[jkey[j]], JobBuilt(j, v) PROVE JobsHoldFull'
  <2>1. ~ v.is_provisional
    BY ViewsAssumption DEF TypeOK, JobsOK
  <2>. QED
    BY <1>2, <2>1 DEF JobBuilt, JobGoto, JobsHoldFull, TypeOK, JobsOK
<1>3. ASSUME NEW j \in Jobs, JobFailed(j) \/ JobEvict(j) \/ JobInsert(j) PROVE JobsHoldFull'
  BY <1>3 DEF JobFailed, JobEvict, JobInsert, JobGoto, JobsHoldFull, TypeOK, JobsOK
<1>4. CASE UNCHANGED jobVars
  BY <1>4 DEF jobVars, JobsHoldFull
<1>5. ASSUME NEW c \in Callers, CallerStep(c) PROVE UNCHANGED jobVars
  BY <1>5 DEF CallerStep, Hit, Miss, Subscribe, Claim, BuildOk, BuildErr, Unclaim, Fail,
              Evict, TakeSeq, KeepExisting, Insert, Account, Publish
<1>. QED
  BY <1>1, <1>2, <1>3, <1>4, <1>5
  DEF Next, JobStep, Get, Call, DropClaimed, DropUnclaimed, RemoveSource, InvalidateSource,
      vars

(* What one step does to the views that are cached before and after it.    *)
ViewsKept ==
  \A k \in DOMAIN entries \cap DOMAIN entries' :
    ~ entries[k].view.is_provisional => ~ entries'[k].view.is_provisional

LEMMA NextViewsKept == TypeOK /\ JobsHoldFull /\ [Next]_vars => ViewsKept
<1>. SUFFICES ASSUME TypeOK, JobsHoldFull, [Next]_vars PROVE ViewsKept
  OBVIOUS
<1>. USE DEF ViewsKept
<1>1. ASSUME NEW S, Drop(S) PROVE ViewsKept
  BY <1>1 DEF Drop
<1>2. ASSUME NEW k \in DOMAIN entries, NEW n, Stamp(k, n) PROVE ViewsKept
  BY <1>2 DEF Stamp, TypeOK, EntriesOK
<1>3. CASE UNCHANGED entries
  BY <1>3
<1>4. ASSUME NEW j \in Jobs, JobStep(j) PROVE ViewsKept
  <2>1. CASE JobFailed(j) \/ \E v \in Full[jkey[j]] : JobBuilt(j, v)
    BY <2>1, <1>3 DEF JobFailed, JobBuilt, cache
  <2>2. CASE JobEvict(j)
    BY <2>2, <1>1 DEF JobEvict
  <2>3. CASE JobInsert(j)
    BY <2>3 DEF JobInsert, Put, JobsHoldFull
  <2>. QED  BY <1>4, <2>1, <2>2, <2>3 DEF JobStep
<1>5. ASSUME NEW c \in Callers, CallerStep(c) PROVE ViewsKept
  <2>1. CASE Hit(c)
    BY <2>1, <1>2 DEF Hit, Touch
  <2>2. CASE Evict(c)
    BY <2>2, <1>1 DEF Evict
  <2>3. CASE KeepExisting(c)
    BY <2>3, <1>2 DEF KeepExisting
  <2>4. CASE Insert(c)
    BY <2>4 DEF Insert, Put
  <2>5. CASE TakeSeq(c) \/ Account(c) \/ Fail(c) \/ Publish(c)
    BY <2>5, <1>3 DEF TakeSeq, Account, Fail, Publish, cache
  <2>6. CASE Miss(c) \/ Subscribe(c) \/ Claim(c) \/ BuildErr(c) \/ Unclaim(c)
    BY <2>6, <1>3 DEF Miss, Subscribe, Claim, BuildErr, Unclaim, cache
  <2>7. CASE \E v \in Built[key[c]] : BuildOk(c, v)
    BY <2>7, <1>3 DEF BuildOk, cache
  <2>. QED  BY <1>5, <2>1, <2>2, <2>3, <2>4, <2>5, <2>6, <2>7 DEF CallerStep
<1>6. ASSUME NEW k \in Keys, Get(k) PROVE ViewsKept
  BY <1>6, <1>2 DEF Get, Touch
<1>7. ASSUME NEW s \in Sources, RemoveSource(s) \/ InvalidateSource(s) PROVE ViewsKept
  BY <1>7, <1>1, <1>3 DEF RemoveSource, InvalidateSource, cache
<1>8. ASSUME NEW c \in Callers, DropClaimed(c) \/ DropUnclaimed(c) PROVE ViewsKept
  BY <1>8, <1>3 DEF DropClaimed, DropUnclaimed, cache
<1>9. CASE UNCHANGED vars
  BY <1>9, <1>3 DEF vars, cache
<1>. QED
  BY <1>3, <1>4, <1>5, <1>6, <1>7, <1>8, <1>9 DEF Next, Call, StartJob, cache

(* No step ever replaces a full view by a provisional one.                 *)
THEOREM FullViewsStay == Spec => ExactNeverDowngraded
<1>1. TypeOK /\ JobsHoldFull /\ [Next]_vars => [ViewsKept]_vars
  BY NextViewsKept
<1>2. Spec => []JobsHoldFull
  BY InitJobsHoldFull, NextJobsHoldFull, TypeCorrect, PTL DEF Spec
<1>3. Spec => [][ViewsKept]_vars
  BY <1>1, <1>2, TypeCorrect, PTL DEF Spec
<1>. QED  BY <1>3 DEF ExactNeverDowngraded, ViewsKept
(***************************************************************************)
(* A drained source stays drained.                                         *)
(***************************************************************************)

EntriesGone(s) == \A k \in DOMAIN entries : SourceOf[k] # s
CallersGone(s) == \A c \in Callers : pc[c] = "idle" \/ SourceOf[key[c]] # s
JobsGone(s)    == \A j \in Jobs : jpc[j] \in {"idle", "done"} \/ SourceOf[jkey[j]] # s

(* Nobody gets an entry back: who inserts has a key of another source.     *)
LEMMA EntriesStayGone ==
  ASSUME TypeOK, NEW s \in Sources, Drained(s), [Next]_vars
  PROVE  EntriesGone(s)'
<1>0. EntriesGone(s) /\ CallersGone(s) /\ JobsGone(s)
  BY DEF Drained, EntriesGone, CallersGone, JobsGone
<1>1. ASSUME NEW S, Drop(S) PROVE EntriesGone(s)'
  BY <1>0, <1>1 DEF Drop, EntriesGone
<1>2. ASSUME NEW k \in DOMAIN entries, NEW n, Stamp(k, n) PROVE EntriesGone(s)'
  BY <1>0, <1>2 DEF Stamp, EntriesGone, TypeOK, EntriesOK
<1>3. CASE UNCHANGED entries
  BY <1>0, <1>3 DEF EntriesGone
<1>4. ASSUME NEW k \in Keys, NEW e, Put(k, e), SourceOf[k] # s PROVE EntriesGone(s)'
  BY <1>0, <1>4 DEF Put, EntriesGone
<1>5. ASSUME NEW c \in Callers, CallerStep(c) PROVE EntriesGone(s)'
  <2>1. CASE Hit(c)
    BY <2>1, <1>2 DEF Hit, Touch
  <2>2. CASE Evict(c)
    BY <2>2, <1>1 DEF Evict
  <2>3. CASE KeepExisting(c)
    BY <2>3, <1>2 DEF KeepExisting
  <2>4. CASE Insert(c)
    <3>1. SourceOf[key[c]] # s /\ key[c] \in Keys
      BY <2>4, <1>0 DEF Insert, CallersGone, TypeOK, CallersOK
    <3>. QED  BY <2>4, <3>1, <1>4 DEF Insert
  <2>5. CASE TakeSeq(c) \/ Account(c) \/ Fail(c) \/ Publish(c)
    BY <2>5, <1>3 DEF TakeSeq, Account, Fail, Publish, cache
  <2>6. CASE Miss(c) \/ Subscribe(c) \/ Claim(c) \/ BuildErr(c) \/ Unclaim(c)
    BY <2>6, <1>3 DEF Miss, Subscribe, Claim, BuildErr, Unclaim, cache
  <2>7. CASE \E v \in Built[key[c]] : BuildOk(c, v)
    BY <2>7, <1>3 DEF BuildOk, cache
  <2>. QED  BY <1>5, <2>1, <2>2, <2>3, <2>4, <2>5, <2>6, <2>7 DEF CallerStep
<1>6. ASSUME NEW j \in Jobs, JobStep(j) PROVE EntriesGone(s)'
  <2>1. CASE JobFailed(j) \/ \E v \in Full[jkey[j]] : JobBuilt(j, v)
    BY <2>1, <1>3 DEF JobFailed, JobBuilt, cache
  <2>2. CASE JobEvict(j)
    BY <2>2, <1>1 DEF JobEvict
  <2>3. CASE JobInsert(j)
    <3>1. SourceOf[jkey[j]] # s /\ jkey[j] \in Keys
      BY <2>3, <1>0 DEF JobInsert, JobsGone, TypeOK, JobsOK
    <3>. QED  BY <2>3, <3>1, <1>4 DEF JobInsert
  <2>. QED  BY <1>6, <2>1, <2>2, <2>3 DEF JobStep
<1>7. ASSUME NEW k \in Keys, Get(k) PROVE EntriesGone(s)'
  BY <1>7, <1>2 DEF Get, Touch
<1>8. ASSUME NEW t \in Sources, RemoveSource(t) \/ InvalidateSource(t) PROVE EntriesGone(s)'
  BY <1>8, <1>1, <1>3 DEF RemoveSource, InvalidateSource, cache
<1>9. ASSUME NEW c \in Callers, DropClaimed(c) \/ DropUnclaimed(c) PROVE EntriesGone(s)'
  BY <1>9, <1>3 DEF DropClaimed, DropUnclaimed, cache
<1>10. CASE UNCHANGED vars
  BY <1>10, <1>3 DEF vars, cache
<1>. QED
  BY <1>3, <1>5, <1>6, <1>7, <1>8, <1>9, <1>10 DEF Next, Call, StartJob, cache

(* No request asks for a source that is no longer in the catalog.          *)
LEMMA CallersStayGone ==
  ASSUME TypeOK, NEW s \in Sources, Drained(s), [Next]_vars
  PROVE  CallersGone(s)'
<1>0. CallersGone(s) /\ source[s] = "invalidated"
  BY DEF Drained, CallersGone
<1>. USE DEF CallersGone
<1>1. ASSUME NEW c \in Callers, NEW k \in Keys, Call(c, k) PROVE CallersGone(s)'
  BY <1>0, <1>1 DEF Call, Goto, TypeOK, CallersOK
<1>2. CASE UNCHANGED <<pc, key>>
  BY <1>0, <1>2
<1>3. ASSUME NEW c \in Callers, pc[c] # "idle", NEW label, Goto(c, label), UNCHANGED key
      PROVE  CallersGone(s)'
  BY <1>0, <1>3 DEF Goto, TypeOK, CallersOK
<1>4. ASSUME NEW c \in Callers, NEW v, Return(c, v), UNCHANGED key PROVE CallersGone(s)'
  BY <1>0, <1>4 DEF Return
<1>5. ASSUME NEW c \in Callers, CallerStep(c) PROVE CallersGone(s)'
  <2>1. CASE Hit(c) \/ Miss(c) \/ Subscribe(c) \/ Claim(c)
    BY <2>1, <1>3 DEF Hit, Miss, Subscribe, Claim
  <2>2. CASE BuildErr(c) \/ Unclaim(c) \/ \E v \in Built[key[c]] : BuildOk(c, v)
    BY <2>2, <1>3 DEF BuildErr, Unclaim, BuildOk
  <2>3. CASE Evict(c) \/ TakeSeq(c) \/ KeepExisting(c) \/ Insert(c) \/ Account(c)
    BY <2>3, <1>3 DEF Evict, TakeSeq, KeepExisting, Insert, Account
  <2>4. CASE Fail(c) \/ Publish(c)
    BY <2>4, <1>4 DEF Fail, Publish
  <2>. QED  BY <1>5, <2>1, <2>2, <2>3, <2>4 DEF CallerStep
<1>6. ASSUME NEW c \in Callers, DropClaimed(c) PROVE CallersGone(s)'
  BY <1>6, <1>3 DEF DropClaimed
<1>7. ASSUME NEW c \in Callers, DropUnclaimed(c) PROVE CallersGone(s)'
  BY <1>7, <1>4 DEF DropUnclaimed
<1>8. ASSUME NEW j \in Jobs, JobStep(j) PROVE UNCHANGED <<pc, key>>
  BY <1>8 DEF JobStep, JobBuilt, JobFailed, JobEvict, JobInsert
<1>. QED
  BY <1>1, <1>2, <1>5, <1>6, <1>7, <1>8
  DEF Next, Get, StartJob, RemoveSource, InvalidateSource, vars

(* Nor does a job start for one.                                           *)
LEMMA JobsStayGone ==
  ASSUME TypeOK, NEW s \in Sources, Drained(s), [Next]_vars
  PROVE  JobsGone(s)'
<1>0. JobsGone(s) /\ source[s] = "invalidated"
  BY DEF Drained, JobsGone
<1>. USE DEF JobsGone
<1>1. ASSUME NEW j \in Jobs, NEW k \in Keys, StartJob(j, k) PROVE JobsGone(s)'
  BY <1>0, <1>1 DEF StartJob, JobGoto, TypeOK, JobsOK
<1>2. CASE UNCHANGED jobVars
  BY <1>0, <1>2 DEF jobVars
<1>3. ASSUME NEW j \in Jobs, jpc[j] \notin {"idle", "done"}, NEW label, JobGoto(j, label),
             UNCHANGED jkey
      PROVE  JobsGone(s)'
  BY <1>0, <1>3 DEF JobGoto, TypeOK, JobsOK
<1>4. ASSUME NEW j \in Jobs, JobStep(j) PROVE JobsGone(s)'
  BY <1>3, <1>4 DEF JobStep, JobBuilt, JobFailed, JobEvict, JobInsert
<1>5. ASSUME NEW c \in Callers, CallerStep(c) PROVE UNCHANGED jobVars
  BY <1>5 DEF CallerStep, Hit, Miss, Subscribe, Claim, BuildOk, BuildErr, Unclaim, Fail,
              Evict, TakeSeq, KeepExisting, Insert, Account, Publish
<1>. QED
  BY <1>1, <1>2, <1>4, <1>5
  DEF Next, Get, Call, DropClaimed, DropUnclaimed, RemoveSource, InvalidateSource, vars

(* What one step does to the drained sources.                              *)
StaysDrained == \A s \in Sources : Drained(s) => Drained(s)'

LEMMA NextStaysDrained == TypeOK /\ [Next]_vars => StaysDrained
<1>. SUFFICES ASSUME TypeOK, [Next]_vars, NEW s \in Sources, Drained(s) PROVE Drained(s)'
  BY DEF StaysDrained
<1>1. source'[s] = "invalidated"
  <2>1. ASSUME NEW t \in Sources, RemoveSource(t) \/ InvalidateSource(t)
        PROVE  source'[s] = "invalidated"
    BY <2>1 DEF RemoveSource, InvalidateSource, Drained, TypeOK
  <2>2. ASSUME NEW c \in Callers, CallerStep(c) PROVE UNCHANGED source
    BY <2>2 DEF CallerStep, Hit, Miss, Subscribe, Claim, BuildOk, BuildErr, Unclaim, Fail,
                Evict, TakeSeq, KeepExisting, Insert, Account, Publish
  <2>3. ASSUME NEW j \in Jobs, JobStep(j) PROVE UNCHANGED source
    BY <2>3 DEF JobStep, JobBuilt, JobFailed, JobEvict, JobInsert
  <2>4. CASE UNCHANGED source
    BY <2>4 DEF Drained
  <2>. QED
    BY <2>1, <2>2, <2>3, <2>4
    DEF Next, Get, Call, DropClaimed, DropUnclaimed, StartJob, vars
<1>2. EntriesGone(s)' /\ CallersGone(s)' /\ JobsGone(s)'
  BY EntriesStayGone, CallersStayGone, JobsStayGone
<1>. QED  BY <1>1, <1>2 DEF Drained, EntriesGone, CallersGone, JobsGone

(* Once drained, a removed source never has a view in the cache again.     *)
THEOREM DrainedStaysDrained == Spec => DrainedForGood
<1>1. TypeOK /\ [Next]_vars => [StaysDrained]_vars
  BY NextStaysDrained
<1>2. Spec => [][StaysDrained]_vars
  BY <1>1, TypeCorrect, PTL DEF Spec
<1>. QED  BY <1>2 DEF DrainedForGood, StaysDrained

(***************************************************************************)
(* The bytes of the entries in memory.                                     *)
(***************************************************************************)

Total == BytesOf(DOMAIN entries)

UnaccountedBytes == SumFunctionOnSet([c \in Unaccounted |-> Bytes(view[c])], Unaccounted)

LEMMA BytesAreNat == \A v \in View : Bytes(v) \in Nat
BY DEF Bytes, View

(* The bytes of some of the entries: a number, as are the bytes of each.   *)
LEMMA BytesOfNat ==
  ASSUME EntriesOK, NEW S, S \subseteq DOMAIN entries
  PROVE  /\ IsFiniteSet(S)
         /\ \A k \in S : [j \in S |-> Bytes(entries[j].view)][k] \in Nat
         /\ BytesOf(S) \in Nat
<1>1. IsFiniteSet(S)
  BY KeysAssumption, FS_Subset DEF EntriesOK
<1>2. \A k \in S : Bytes(entries[k].view) \in Nat
  BY BytesAreNat DEF EntriesOK, Entry
<1>. DEFINE f == [j \in S |-> Bytes(entries[j].view)]
<1>3. \A k \in S : f[k] \in Nat
  BY <1>2
<1>. HIDE DEF f
<1>4. SumFunctionOnSet(f, S) \in Nat
  BY <1>1, <1>3, SumNat
<1>. QED  BY <1>1, <1>3, <1>4 DEF BytesOf, f

(* The bytes of a part and of the rest.                                    *)
LEMMA BytesOfSplit ==
  ASSUME EntriesOK, NEW S, S \subseteq DOMAIN entries, NEW T, T \subseteq S
  PROVE  BytesOf(S) = BytesOf(S \ T) + BytesOf(T)
<1>. DEFINE f == [j \in S |-> Bytes(entries[j].view)]
            g == [j \in S \ T |-> Bytes(entries[j].view)]
            h == [j \in T |-> Bytes(entries[j].view)]
<1>1. IsFiniteSet(S) /\ \A k \in S : f[k] \in Int
  <2>1. IsFiniteSet(S) /\ \A k \in S : f[k] \in Nat
    BY BytesOfNat
  <2>. HIDE DEF f
  <2>. QED  BY <2>1
<1>2. IsFiniteSet(S \ T) /\ IsFiniteSet(T)
  BY <1>1, FS_Subset
<1>3. (\A k \in S \ T : f[k] = g[k]) /\ (\A k \in T : f[k] = h[k])
  OBVIOUS
<1>4. BytesOf(S) = SumFunctionOnSet(f, S) /\ BytesOf(S \ T) = SumFunctionOnSet(g, S \ T)
      /\ BytesOf(T) = SumFunctionOnSet(h, T)
  BY DEF BytesOf
<1>. HIDE DEF f, g, h
<1>5. SumFunctionOnSet(f, S \ T) = SumFunctionOnSet(g, S \ T)
  BY <1>2, <1>3, SumAgree
<1>6. SumFunctionOnSet(f, T) = SumFunctionOnSet(h, T)
  BY <1>2, <1>3, SumAgree
<1>7. SumFunctionOnSet(f, S) = SumFunctionOnSet(f, S \ T) + SumFunctionOnSet(f, T)
  BY <1>1, SumSplit
<1>. QED  BY <1>4, <1>5, <1>6, <1>7

(* The bytes of entries whose views stay what they are.                    *)
LEMMA BytesOfStay ==
  ASSUME EntriesOK, NEW S, S \subseteq DOMAIN entries,
         \A k \in S : entries'[k].view = entries[k].view
  PROVE  BytesOf(S)' = BytesOf(S)
<1>. DEFINE f == [j \in S |-> Bytes(entries[j].view)]
            g == [j \in S |-> Bytes(entries'[j].view)]
<1>1. IsFiniteSet(S) /\ \A k \in S : g[k] = f[k]
  BY BytesOfNat
<1>2. BytesOf(S) = SumFunctionOnSet(f, S) /\ BytesOf(S)' = SumFunctionOnSet(g, S)
  BY DEF BytesOf, Bytes
<1>. HIDE DEF f, g
<1>. QED  BY <1>1, <1>2, SumAgree

LEMMA TotalStays ==
  ASSUME EntriesOK, DOMAIN entries' = DOMAIN entries,
         \A k \in DOMAIN entries : entries'[k].view = entries[k].view
  PROVE  Total' = Total
<1>. DEFINE D == DOMAIN entries
<1>1. D \subseteq DOMAIN entries /\ \A k \in D : entries'[k].view = entries[k].view
  OBVIOUS
<1>2. Total' = SumFunctionOnSet([k \in D |-> Bytes(entries'[k].view)], D)
  BY DEF Total, BytesOf, Bytes
<1>3. BytesOf(D)' = BytesOf(D)
  BY <1>1, BytesOfStay
<1>. QED  BY <1>2, <1>3 DEF Total

(* What a drop subtracts is what the entries lose.                         *)
LEMMA TotalDropped ==
  ASSUME EntriesOK, NEW S, S \subseteq DOMAIN entries, Drop(S)
  PROVE  Total' = Total - BytesOf(S) /\ BytesOf(S) \in Nat /\ Total' \in Nat
<1>. DEFINE D == DOMAIN entries
            R == D \ S
<1>1. DOMAIN entries' = R /\ \A k \in R : entries'[k].view = entries[k].view
  BY DEF Drop
<1>2. Total' = SumFunctionOnSet([k \in R |-> Bytes(entries[k].view)], R)
  <2>1. [k \in DOMAIN entries' |-> Bytes(entries'[k].view)] = [k \in R |-> Bytes(entries[k].view)]
    <3>. HIDE DEF R
    <3>. QED  BY <1>1
  <2>. QED  BY <1>1, <2>1 DEF Total, BytesOf, Bytes
<1>3. Total' = BytesOf(R)
  BY <1>2 DEF BytesOf
<1>4. BytesOf(D) = BytesOf(R) + BytesOf(S)
  BY BytesOfSplit
<1>5. BytesOf(R) \in Nat /\ BytesOf(S) \in Nat
  BY BytesOfNat
<1>. HIDE DEF R
<1>. QED  BY <1>3, <1>4, <1>5 DEF Total

(* An entry put under a key takes the place of the one that was there.     *)
LEMMA TotalPut ==
  ASSUME EntriesOK, NEW k \in Keys, NEW e \in Entry, Put(k, e)
  PROVE  /\ Total' = Total - BytesOf({k} \cap DOMAIN entries) + Bytes(e.view)
         /\ Total \in Nat /\ BytesOf({k} \cap DOMAIN entries) \in Nat
<1>. DEFINE D == DOMAIN entries
            R == D \ {k}
            f == [j \in R \cup {k} |-> Bytes(entries'[j].view)]
            g == [j \in R |-> Bytes(entries[j].view)]
<1>1. /\ DOMAIN entries' = R \cup {k} /\ entries'[k] = e
      /\ \A j \in R : entries'[j] = entries[j]
  BY DEF Put
<1>2. Total' = SumFunctionOnSet(f, R \cup {k})
  <2>. HIDE DEF R
  <2>. QED  BY <1>1 DEF Total, BytesOf, Bytes
<1>3. /\ IsFiniteSet(R) /\ k \notin R /\ \A j \in R : g[j] \in Nat
      /\ BytesOf(R) \in Nat /\ BytesOf(R) = SumFunctionOnSet(g, R)
  <2>1. IsFiniteSet(R) /\ (\A j \in R : g[j] \in Nat) /\ BytesOf(R) \in Nat
    BY BytesOfNat
  <2>. QED  BY <2>1 DEF BytesOf
<1>4. f[k] = Bytes(e.view) /\ \A j \in R : f[j] = g[j]
  BY <1>1
<1>5. Bytes(e.view) \in Nat
  BY BytesAreNat DEF Entry
<1>6. \A j \in R \cup {k} : f[j] \in Int
  <2>. HIDE DEF f, g, R
  <2>. QED  BY <1>3, <1>4, <1>5
<1>7. SumFunctionOnSet(f, R \cup {k}) = f[k] + SumFunctionOnSet(f, R)
  <2>. HIDE DEF f, R
  <2>. QED  BY <1>3, <1>6, SumAdd
<1>8. SumFunctionOnSet(f, R) = SumFunctionOnSet(g, R)
  <2>. HIDE DEF f, g, R
  <2>. QED  BY <1>3, <1>4, SumAgree
<1>9. BytesOf(D) = BytesOf(R) + BytesOf({k} \cap D)
  <2>1. D \ ({k} \cap D) = R /\ {k} \cap D \subseteq D
    OBVIOUS
  <2>2. BytesOf(D) = BytesOf(D \ ({k} \cap D)) + BytesOf({k} \cap D)
    BY <2>1, BytesOfSplit
  <2>. QED  BY <2>1, <2>2
<1>10. BytesOf({k} \cap D) \in Nat /\ BytesOf(D) \in Nat
  BY BytesOfNat
<1>. HIDE DEF f, g, R
<1>. QED  BY <1>2, <1>3, <1>4, <1>5, <1>7, <1>8, <1>9, <1>10 DEF Total

(* Callers about to account hold views, whose bytes are added up.          *)
LEMMA UnaccountedNat ==
  ASSUME CallersOK
  PROVE  /\ IsFiniteSet(Unaccounted)
         /\ \A c \in Unaccounted : [d \in Unaccounted |-> Bytes(view[d])][c] \in Nat
         /\ UnaccountedBytes \in Nat
<1>. DEFINE f == [d \in Unaccounted |-> Bytes(view[d])]
<1>1. IsFiniteSet(Unaccounted)
  BY CallersAssumption, FS_Subset DEF Unaccounted
<1>2. \A c \in Unaccounted : f[c] \in Nat
  BY BytesAreNat DEF CallersOK, Unaccounted
<1>. HIDE DEF f
<1>3. SumFunctionOnSet(f, Unaccounted) \in Nat
  BY <1>1, <1>2, SumNat
<1>. QED  BY <1>1, <1>2, <1>3 DEF UnaccountedBytes, f

(* They stay when no caller comes to account or leaves it.                 *)
LEMMA UnaccountedStay ==
  ASSUME CallersOK,
         \A c \in Callers : /\ pc'[c] = "account" <=> pc[c] = "account"
                            /\ pc[c] = "account" => view'[c] = view[c]
  PROVE  UnaccountedBytes' = UnaccountedBytes
<1>1. Unaccounted' = Unaccounted
  BY DEF Unaccounted
<1>2. [c \in Unaccounted' |-> Bytes(view'[c])] = [c \in Unaccounted |-> Bytes(view[c])]
  BY <1>1 DEF Unaccounted, Bytes
<1>. QED  BY <1>1, <1>2 DEF UnaccountedBytes, Bytes

(* One more.                                                               *)
LEMMA UnaccountedMore ==
  ASSUME CallersOK, NEW c \in Callers, pc[c] # "account", view[c] \in View,
         pc' = [pc EXCEPT ![c] = "account"], UNCHANGED view
  PROVE  UnaccountedBytes' = UnaccountedBytes + Bytes(view[c])
<1>. DEFINE U == Unaccounted
            f == [d \in U \cup {c} |-> Bytes(view[d])]
            g == [d \in U |-> Bytes(view[d])]
<1>1. Unaccounted' = U \cup {c} /\ c \notin U
  BY DEF Unaccounted, CallersOK
<1>2. IsFiniteSet(U) /\ (\A d \in U : g[d] \in Nat) /\ UnaccountedBytes \in Nat
  BY UnaccountedNat
<1>3. f[c] = Bytes(view[c]) /\ \A d \in U : f[d] = g[d]
  OBVIOUS
<1>4. Bytes(view[c]) \in Nat
  BY BytesAreNat
<1>5. UnaccountedBytes' = SumFunctionOnSet(f, U \cup {c})
  <2>. HIDE DEF U
  <2>. QED  BY <1>1 DEF UnaccountedBytes, Bytes
<1>6. UnaccountedBytes = SumFunctionOnSet(g, U)
  BY DEF UnaccountedBytes
<1>. HIDE DEF f, g, U
<1>7. \A d \in U \cup {c} : f[d] \in Int
  BY <1>2, <1>3, <1>4
<1>8. SumFunctionOnSet(f, U \cup {c}) = f[c] + SumFunctionOnSet(f, U)
  BY <1>1, <1>2, <1>7, SumAdd
<1>9. SumFunctionOnSet(f, U) = SumFunctionOnSet(g, U)
  BY <1>2, <1>3, SumAgree
<1>. QED  BY <1>2, <1>3, <1>4, <1>5, <1>6, <1>8, <1>9

(* One less.                                                               *)
LEMMA UnaccountedLess ==
  ASSUME CallersOK, NEW c \in Callers, pc[c] = "account",
         pc' = [pc EXCEPT ![c] = "publish"], UNCHANGED view
  PROVE  UnaccountedBytes' = UnaccountedBytes - Bytes(view[c]) /\ Bytes(view[c]) \in Nat
<1>. DEFINE U == Unaccounted
            f == [d \in U |-> Bytes(view[d])]
            g == [d \in U \ {c} |-> Bytes(view[d])]
<1>1. Unaccounted' = U \ {c} /\ c \in U
  BY DEF Unaccounted, CallersOK
<1>2. IsFiniteSet(U) /\ \A d \in U : f[d] \in Nat
  BY UnaccountedNat
<1>3. f[c] = Bytes(view[c]) /\ \A d \in U \ {c} : f[d] = g[d]
  BY <1>1
<1>4. UnaccountedBytes' = SumFunctionOnSet(g, U \ {c})
  <2>. HIDE DEF U
  <2>. QED  BY <1>1 DEF UnaccountedBytes, Bytes
<1>5. UnaccountedBytes = SumFunctionOnSet(f, U)
  BY DEF UnaccountedBytes
<1>. HIDE DEF f, g, U
<1>6. SumFunctionOnSet(f, U) = f[c] + SumFunctionOnSet(f, U \ {c})
  <2>1. \A d \in U : f[d] \in Int
    BY <1>2
  <2>. QED  BY <1>1, <1>2, <2>1, SumRemove
<1>7. SumFunctionOnSet(f, U \ {c}) = SumFunctionOnSet(g, U \ {c})
  <2>1. IsFiniteSet(U \ {c})
    BY <1>2, FS_Subset
  <2>. QED  BY <1>3, <2>1, SumAgree
<1>8. SumFunctionOnSet(f, U \ {c}) \in Nat
  <2>1. IsFiniteSet(U \ {c}) /\ \A d \in U \ {c} : f[d] \in Nat
    BY <1>2, FS_Subset
  <2>. QED  BY <2>1, SumNat
<1>9. f[c] \in Nat
  BY <1>1, <1>2
<1>. QED  BY <1>3, <1>4, <1>5, <1>6, <1>7, <1>8, <1>9

LEMMA BytesExactAs == BytesExact <=> current_bytes = Total - UnaccountedBytes
BY DEF BytesExact, Total, UnaccountedBytes

(* A step that changes no view in the cache, nor who is about to account.  *)
LEMMA BytesUntouched ==
  ASSUME EntriesOK, CallersOK, BytesExact, UNCHANGED current_bytes,
         DOMAIN entries' = DOMAIN entries,
         \A k \in DOMAIN entries : entries'[k].view = entries[k].view,
         \A c \in Callers : /\ pc'[c] = "account" <=> pc[c] = "account"
                            /\ pc[c] = "account" => view'[c] = view[c]
  PROVE  BytesExact'
<1>1. Total' = Total
  BY TotalStays
<1>2. UnaccountedBytes' = UnaccountedBytes
  BY UnaccountedStay
<1>. QED  BY <1>1, <1>2 DEF BytesExact, Total, UnaccountedBytes

(* Dropping entries subtracts their bytes.                                 *)
LEMMA BytesDropped ==
  ASSUME EntriesOK, CallersOK, BytesExact, NEW S, S \subseteq DOMAIN entries, Drop(S),
         \A c \in Callers : /\ pc'[c] = "account" <=> pc[c] = "account"
                            /\ pc[c] = "account" => view'[c] = view[c]
  PROVE  BytesExact'
<1>1. Total' = Total - BytesOf(S) /\ BytesOf(S) \in Nat /\ Total' \in Nat
  BY TotalDropped
<1>2. UnaccountedBytes' = UnaccountedBytes /\ UnaccountedBytes \in Nat
  BY UnaccountedStay, UnaccountedNat
<1>3. current_bytes' = current_bytes - BytesOf(S) /\ current_bytes = Total - UnaccountedBytes
  BY BytesExactAs DEF Drop
<1>4. Total \in Nat
  BY BytesOfNat DEF Total
<1>5. current_bytes' = Total' - UnaccountedBytes'
  BY <1>1, <1>2, <1>3, <1>4
<1>. QED  BY <1>5 DEF BytesExact, Total, UnaccountedBytes

(* An entry under a new key, not accounted yet.                            *)
LEMMA BytesInserted ==
  ASSUME TypeOK, BytesExact, NEW c \in Callers, Insert(c)
  PROVE  BytesExact'
<1>. DEFINE k == key[c]
            e == [view |-> view[c], seq |-> seq[c]]
<1>1. k \in Keys /\ k \notin DOMAIN entries /\ e \in Entry /\ Put(k, e) /\ EntriesOK
  BY DEF Insert, TypeOK, CallersOK, Entry
<1>2. e.view = view[c] /\ view[c] \in View /\ {k} \cap DOMAIN entries = {}
  BY <1>1 DEF Insert, TypeOK, CallersOK
<1>3. Total' = Total - BytesOf({}) + Bytes(view[c]) /\ Total \in Nat /\ BytesOf({}) \in Nat
  <2>. HIDE DEF e, k
  <2>. QED  BY <1>1, <1>2, TotalPut
<1>4. UnaccountedBytes' = UnaccountedBytes + Bytes(view[c]) /\ UnaccountedBytes \in Nat
  <2>1. pc' = [pc EXCEPT ![c] = "account"] /\ pc[c] # "account" /\ UNCHANGED view
    BY DEF Insert, Goto
  <2>. QED  BY <1>2, <2>1, UnaccountedMore, UnaccountedNat DEF TypeOK
<1>5. current_bytes' = current_bytes /\ current_bytes = Total - UnaccountedBytes
  BY BytesExactAs DEF Insert
<1>6. BytesOf({}) = 0
  BY SumEmpty DEF BytesOf
<1>7. Bytes(view[c]) \in Nat
  BY <1>2, BytesAreNat
<1>8. current_bytes' = Total' - UnaccountedBytes'
  BY <1>3, <1>4, <1>5, <1>6, <1>7
<1>. QED  BY <1>8 DEF BytesExact, Total, UnaccountedBytes

(* The bytes of an entry that was inserted before.                         *)
LEMMA BytesAccounted ==
  ASSUME TypeOK, BytesExact, NEW c \in Callers, Account(c)
  PROVE  BytesExact'
<1>1. Total' = Total
  BY TotalStays DEF Account, TypeOK
<1>2. UnaccountedBytes' = UnaccountedBytes - Bytes(view[c]) /\ Bytes(view[c]) \in Nat
  <2>1. pc' = [pc EXCEPT ![c] = "publish"] /\ pc[c] = "account" /\ UNCHANGED view
    BY DEF Account, Goto
  <2>. QED  BY <2>1, UnaccountedLess DEF TypeOK
<1>3. Total \in Nat /\ UnaccountedBytes \in Nat
  BY BytesOfNat, UnaccountedNat DEF Total, TypeOK
<1>4. /\ current_bytes' = current_bytes + Bytes(view[c])
      /\ current_bytes = Total - UnaccountedBytes
  BY BytesExactAs DEF Account
<1>5. current_bytes' = Total' - UnaccountedBytes'
  BY <1>1, <1>2, <1>3, <1>4
<1>. QED  BY <1>5 DEF BytesExact, Total, UnaccountedBytes

(* A replacement takes the old entry's bytes off and adds the new one's.   *)
LEMMA BytesReplaced ==
  ASSUME TypeOK, BytesExact, NEW j \in Jobs, JobInsert(j)
  PROVE  BytesExact'
<1>. DEFINE k   == jkey[j]
            e   == [view |-> jview[j], seq |-> access_seq]
            old == {k} \cap DOMAIN entries
<1>1. k \in Keys /\ e \in Entry /\ e.view = jview[j] /\ Put(k, e) /\ EntriesOK
  BY DEF JobInsert, TypeOK, JobsOK, CountersOK, Entry
<1>2. Total' = Total - BytesOf(old) + Bytes(jview[j]) /\ Total \in Nat /\ BytesOf(old) \in Nat
  <2>. HIDE DEF e, k
  <2>. QED  BY <1>1, TotalPut
<1>3. UnaccountedBytes' = UnaccountedBytes /\ UnaccountedBytes \in Nat
  BY UnaccountedStay, UnaccountedNat DEF JobInsert, TypeOK
<1>4. /\ current_bytes' = current_bytes - BytesOf(old) + Bytes(jview[j])
      /\ current_bytes = Total - UnaccountedBytes
  BY BytesExactAs DEF JobInsert
<1>5. Bytes(jview[j]) \in Nat
  BY BytesAreNat DEF JobInsert, TypeOK, JobsOK
<1>. HIDE DEF old
<1>6. current_bytes' = Total' - UnaccountedBytes'
  BY <1>2, <1>3, <1>4, <1>5
<1>. QED  BY <1>6 DEF BytesExact, Total, UnaccountedBytes

(* Stamping an entry leaves its view.                                      *)
LEMMA StampKeepsViews ==
  ASSUME EntriesOK, NEW k \in DOMAIN entries, NEW n, Stamp(k, n)
  PROVE  /\ DOMAIN entries' = DOMAIN entries
         /\ \A j \in DOMAIN entries : entries'[j].view = entries[j].view
BY DEF EntriesOK, Stamp

LEMMA EvictedAreEntries == \A b \in BOOLEAN : Evicted(b) \subseteq DOMAIN entries
BY DEF Evicted, DiskKeys, MemoryKeys

LEMMA InitBytes == Init => BytesExact
<1>. SUFFICES ASSUME Init PROVE BytesExact
  OBVIOUS
<1>1. DOMAIN entries = {} /\ Unaccounted = {} /\ current_bytes = 0
  BY DEF Init, Unaccounted
<1>2. \A f : SumFunctionOnSet(f, {}) = 0
  BY SumEmpty
<1>. QED  BY <1>1, <1>2 DEF BytesExact, BytesOf

(* Every step keeps the bytes exact.                                       *)
LEMMA NextBytes == TypeOK /\ BytesExact /\ [Next]_vars => BytesExact'
<1>. SUFFICES ASSUME TypeOK, BytesExact, [Next]_vars PROVE BytesExact'
  OBVIOUS
<1>. DEFINE SameEntries  == /\ UNCHANGED current_bytes
                            /\ DOMAIN entries' = DOMAIN entries
                            /\ \A k \in DOMAIN entries : entries'[k].view = entries[k].view
            SameAccounts == \A c \in Callers : /\ pc'[c] = "account" <=> pc[c] = "account"
                                               /\ pc[c] = "account" => view'[c] = view[c]
<1>0. ASSUME SameEntries, SameAccounts PROVE BytesExact'
  BY <1>0, BytesUntouched DEF TypeOK
<1>1. ASSUME NEW k \in Keys, Get(k) PROVE BytesExact'
  <2>1. SameEntries
    BY <1>1, StampKeepsViews DEF Get, Touch, TypeOK
  <2>2. SameAccounts
    BY <1>1 DEF Get
  <2>. QED  BY <1>0, <2>1, <2>2
<1>2. ASSUME NEW c \in Callers, NEW k \in Keys, Call(c, k) PROVE BytesExact'
  <2>1. SameEntries
    BY <1>2 DEF Call, cache
  <2>2. SameAccounts
    BY <1>2 DEF Call, Goto, TypeOK, CallersOK
  <2>. QED  BY <1>0, <2>1, <2>2
<1>3. ASSUME NEW c \in Callers, CallerStep(c) PROVE BytesExact'
  <2>1. CASE Hit(c)
    <3>1. SameEntries
      BY <2>1, StampKeepsViews DEF Hit, Touch, TypeOK
    <3>2. SameAccounts
      BY <2>1 DEF Hit, Goto, TypeOK, CallersOK
    <3>. QED  BY <1>0, <3>1, <3>2
  <2>2. CASE Miss(c) \/ Subscribe(c) \/ Claim(c) \/ BuildErr(c) \/ Unclaim(c)
    <3>1. SameEntries
      BY <2>2 DEF Miss, Subscribe, Claim, BuildErr, Unclaim, cache
    <3>2. SameAccounts
      BY <2>2 DEF Miss, Subscribe, Claim, BuildErr, Unclaim, Goto, TypeOK, CallersOK
    <3>. QED  BY <1>0, <3>1, <3>2
  <2>3. ASSUME NEW v \in Built[key[c]], BuildOk(c, v) PROVE BytesExact'
    <3>1. SameEntries
      BY <2>3 DEF BuildOk, cache
    <3>2. SameAccounts
      BY <2>3 DEF BuildOk, Goto, TypeOK, CallersOK
    <3>. QED  BY <1>0, <3>1, <3>2
  <2>4. CASE Fail(c) \/ Publish(c)
    <3>1. SameEntries
      BY <2>4 DEF Fail, Publish, cache
    <3>2. SameAccounts
      BY <2>4, ReturnCounted DEF Fail, Publish
    <3>. QED  BY <1>0, <3>1, <3>2
  <2>5. CASE Evict(c)
    <3>1. SameAccounts
      BY <2>5 DEF Evict, Goto, TypeOK, CallersOK
    <3>2. view[c].is_disk_backed \in BOOLEAN
      BY <2>5 DEF Evict, TypeOK, CallersOK, View
    <3>3. Evicted(view[c].is_disk_backed) \subseteq DOMAIN entries
      BY <3>2, EvictedAreEntries
    <3>. QED  BY <2>5, <3>1, <3>3, BytesDropped DEF Evict, TypeOK
  <2>6. CASE TakeSeq(c)
    <3>1. SameEntries
      BY <2>6 DEF TakeSeq
    <3>2. SameAccounts
      BY <2>6 DEF TakeSeq, Goto, TypeOK, CallersOK
    <3>. QED  BY <1>0, <3>1, <3>2
  <2>7. CASE KeepExisting(c)
    <3>1. SameEntries
      BY <2>7, StampKeepsViews DEF KeepExisting, TypeOK
    <3>2. SameAccounts
      BY <2>7 DEF KeepExisting, Goto, TypeOK, CallersOK
    <3>. QED  BY <1>0, <3>1, <3>2
  <2>8. CASE Insert(c)
    BY <2>8, BytesInserted
  <2>9. CASE Account(c)
    BY <2>9, BytesAccounted
  <2>. QED
    BY <1>3, <2>1, <2>2, <2>3, <2>4, <2>5, <2>6, <2>7, <2>8, <2>9 DEF CallerStep
<1>4. ASSUME NEW c \in Callers, DropClaimed(c) \/ DropUnclaimed(c) PROVE BytesExact'
  <2>1. SameEntries
    BY <1>4 DEF DropClaimed, DropUnclaimed, cache
  <2>2. CASE DropClaimed(c)
    <3>1. SameAccounts
      BY <2>2 DEF DropClaimed, Goto, TypeOK, CallersOK
    <3>. QED  BY <1>0, <2>1, <3>1
  <2>3. CASE DropUnclaimed(c)
    <3>1. SameAccounts
      BY <2>3, ReturnCounted DEF DropUnclaimed
    <3>. QED  BY <1>0, <2>1, <3>1
  <2>. QED  BY <1>4, <2>2, <2>3
<1>5. ASSUME NEW j \in Jobs, NEW k \in Keys, StartJob(j, k) PROVE BytesExact'
  BY <1>0, <1>5 DEF StartJob, cache
<1>6. ASSUME NEW j \in Jobs, JobStep(j) PROVE BytesExact'
  <2>1. CASE JobFailed(j) \/ \E v \in Full[jkey[j]] : JobBuilt(j, v)
    BY <1>0, <2>1 DEF JobFailed, JobBuilt, cache
  <2>2. CASE JobEvict(j)
    <3>1. Evicted(jview[j].is_disk_backed) \subseteq DOMAIN entries
      BY <2>2, EvictedAreEntries DEF JobEvict, TypeOK, JobsOK, View
    <3>. QED  BY <2>2, <3>1, BytesDropped DEF JobEvict, TypeOK
  <2>3. CASE JobInsert(j)
    BY <2>3, BytesReplaced
  <2>. QED  BY <1>6, <2>1, <2>2, <2>3 DEF JobStep
<1>7. ASSUME NEW s \in Sources, RemoveSource(s) PROVE BytesExact'
  BY <1>0, <1>7 DEF RemoveSource, cache
<1>8. ASSUME NEW s \in Sources, InvalidateSource(s) PROVE BytesExact'
  <2>1. {k \in DOMAIN entries : SourceOf[k] = s} \subseteq DOMAIN entries
    OBVIOUS
  <2>. QED  BY <1>8, <2>1, BytesDropped DEF InvalidateSource, TypeOK
<1>9. CASE UNCHANGED vars
  BY <1>0, <1>9 DEF vars, cache
<1>. QED
  BY <1>1, <1>2, <1>3, <1>4, <1>5, <1>6, <1>7, <1>8, <1>9 DEF Next

(* current_bytes never drifts, whatever inserts, evictions, replaces,      *)
(* invalidations and dropped requests interleave.                          *)
THEOREM BytesCorrect == Spec => []BytesExact
BY InitBytes, NextBytes, TypeCorrect, PTL DEF Spec

(***************************************************************************)
(* The limits.                                                             *)
(***************************************************************************)

LEMMA NatMinimum ==
  ASSUME NEW T, T \subseteq Nat, T # {}
  PROVE  \E n \in T : \A m \in T : n <= m
<1>1. PICK n \in T : \A m \in T : ~ (<<m, n>> \in OpToRel(<, Nat))
  BY NatLessThanWellFounded, WFMin
<1>2. \A m \in T : ~ (m < n)
  BY <1>1 DEF OpToRel
<1>. QED  BY <1>2

(* Among some entries one was used before all others.                      *)
LEMMA OldestExists ==
  ASSUME EntriesOK, NEW R, R \subseteq DOMAIN entries, R # {}
  PROVE  \E k \in R : \A j \in R : entries[k].seq <= entries[j].seq
<1>. DEFINE T == {entries[k].seq : k \in R}
<1>1. T \subseteq Nat /\ T # {}
  BY DEF EntriesOK, Entry
<1>2. PICK n \in T : \A m \in T : n <= m
  <2>. HIDE DEF T
  <2>. QED  BY <1>1, NatMinimum
<1>. QED  BY <1>2

(* Of the disk-backed entries at most so many are left as there were more  *)
(* than the number to evict.                                               *)
LEMMA OldestGoFirst ==
  ASSUME EntriesOK, NEW D, D \subseteq DOMAIN entries, NEW n \in Nat, NEW E,
         E = {k \in D : Cardinality(Older(D, k)) < n}
  PROVE  D \ E = {} \/ Cardinality(D \ E) <= Cardinality(D) - n
<1>1. SUFFICES ASSUME D \ E # {} PROVE Cardinality(D \ E) <= Cardinality(D) - n
  OBVIOUS
<1>2. PICK k \in D \ E : \A j \in D \ E : entries[k].seq <= entries[j].seq
  <2>1. D \ E \subseteq DOMAIN entries
    OBVIOUS
  <2>. QED  BY <1>1, <2>1, OldestExists
<1>3. \A j \in D : entries[j].seq \in Nat
  BY DEF EntriesOK, Entry
<1>4. Older(D, k) \subseteq E
  BY <1>2, <1>3 DEF Older
<1>5. IsFiniteSet(D) /\ E \subseteq D
  BY KeysAssumption, FS_Subset DEF EntriesOK
<1>6. IsFiniteSet(E) /\ Cardinality(Older(D, k)) <= Cardinality(E)
  BY <1>4, <1>5, FS_Subset
<1>7. Cardinality(E) \in Nat /\ Cardinality(D) \in Nat /\ Cardinality(Older(D, k)) \in Nat
  BY <1>4, <1>5, <1>6, FS_CardinalityType, FS_Subset
<1>8. Cardinality(Older(D, k)) >= n
  <2>1. k \in D /\ k \notin E
    BY <1>2
  <2>. QED  BY <1>7, <2>1
<1>9. Cardinality(D \ E) = Cardinality(D) - Cardinality(E)
  <2>1. Cardinality(D \ E) = Cardinality(D) - Cardinality(D \cap E)
    BY <1>5, FS_Difference
  <2>2. D \cap E = E
    BY <1>5
  <2>. QED  BY <2>1, <2>2
<1>. QED  BY <1>6, <1>7, <1>8, <1>9

(* Of the entries in memory those that go are older than those that stay,  *)
(* and without them what is counted is below the limit.                    *)
LEMMA OldestBytesGoFirst ==
  ASSUME EntriesOK, NEW cur \in Nat, NEW E,
         E = {k \in MemoryKeys : SatSub(cur, BytesOf(Older(MemoryKeys, k))) >= MaxMemoryBytes}
  PROVE  MemoryKeys \ E = {} \/ SatSub(cur, BytesOf(E)) < MaxMemoryBytes
<1>. DEFINE M == MemoryKeys
            B(k) == BytesOf(Older(M, k))
<1>1. SUFFICES ASSUME M \ E # {} PROVE SatSub(cur, BytesOf(E)) < MaxMemoryBytes
  OBVIOUS
<1>2. M \subseteq DOMAIN entries /\ E \subseteq M
  BY DEF MemoryKeys
<1>3. PICK k \in M \ E : \A j \in M \ E : entries[k].seq <= entries[j].seq
  <2>1. M \ E \subseteq DOMAIN entries
    BY <1>2
  <2>. QED  BY <1>1, <2>1, OldestExists
<1>4. \A j \in M : entries[j].seq \in Nat
  BY <1>2 DEF EntriesOK, Entry
<1>5. \A j \in M : Older(M, j) \subseteq M /\ B(j) \in Nat
  <2>1. ASSUME NEW j \in M PROVE Older(M, j) \subseteq M /\ B(j) \in Nat
    <3>1. Older(M, j) \subseteq M
      BY DEF Older
    <3>. QED  BY <1>2, <3>1, BytesOfNat
  <2>. QED  BY <2>1
<1>6. ~ (SatSub(cur, B(k)) >= MaxMemoryBytes)
  BY <1>3
<1>7. ASSUME NEW j \in E PROVE j \in Older(M, k)
  <2>1. SUFFICES ASSUME entries[k].seq <= entries[j].seq PROVE FALSE
    BY <1>2, <1>3, <1>4 DEF Older
  <2>2. j \in M /\ k \in M
    BY <1>2, <1>3
  <2>3. Older(M, k) \subseteq Older(M, j)
    BY <1>2, <1>4, <2>1, <2>2 DEF Older
  <2>4. B(j) = BytesOf(Older(M, j) \ Older(M, k)) + B(k)
    <3>1. Older(M, j) \subseteq DOMAIN entries
      BY <1>2, <1>5, <2>2
    <3>. QED  BY <2>3, <3>1, BytesOfSplit
  <2>5. BytesOf(Older(M, j) \ Older(M, k)) \in Nat
    <3>1. Older(M, j) \ Older(M, k) \subseteq DOMAIN entries
      BY <1>2, <1>5, <2>2
    <3>. QED  BY <3>1, BytesOfNat
  <2>6. B(k) \in Nat /\ B(j) \in Nat
    BY <1>5, <2>2
  <2>7. B(k) <= B(j)
    <3>. HIDE DEF B
    <3>. QED  BY <2>4, <2>5, <2>6
  <2>8. SatSub(cur, B(j)) >= MaxMemoryBytes
    OBVIOUS
  <2>. HIDE DEF B
  <2>. QED  BY <1>6, <2>6, <2>7, <2>8, BoundsAssumption DEF SatSub
<1>8. Older(M, k) = E
  <2>1. Older(M, k) \subseteq E
    BY <1>2, <1>3, <1>4 DEF Older
  <2>. QED  BY <1>7, <2>1
<1>9. B(k) \in Nat /\ B(k) = BytesOf(E)
  <2>1. k \in M
    BY <1>3
  <2>. QED  BY <1>5, <1>8, <2>1
<1>. HIDE DEF B
<1>. QED  BY <1>6, <1>9, BoundsAssumption DEF SatSub

(* No view anywhere is larger than the largest that builders return.       *)
Small(v) == v # NoView => Bytes(v) <= LargestView

SmallViews ==
  /\ \A c \in Callers : Small(view[c])
  /\ \A k \in DOMAIN entries : Small(entries[k].view)
  /\ \A j \in Jobs : Small(jview[j])

LEMMA LargestIsLargest ==
  /\ LargestView \in Nat
  /\ \A k \in Keys : \A v \in Built[k] \cup Full[k] : v \in View /\ Small(v)
<1>1. LargestView \in ViewSizes /\ \A m \in ViewSizes : m <= LargestView
  BY LimitsAssumption DEF LargestView
<1>2. ASSUME NEW k \in Keys, NEW v \in Built[k] \cup Full[k] PROVE v \in View /\ Bytes(v) \in ViewSizes
  BY ViewsAssumption DEF ViewSizes
<1>3. \A n \in ViewSizes : n \in Nat
  <2>1. ASSUME NEW n \in ViewSizes PROVE n \in Nat
    <3>1. PICK v \in UNION {Built[k] \cup Full[k] : k \in Keys} : n = Bytes(v)
      BY DEF ViewSizes
    <3>2. v \in View
      BY <1>2
    <3>. QED  BY <3>1, <3>2, BytesAreNat
  <2>. QED  BY <2>1
<1>. QED  BY <1>1, <1>2, <1>3 DEF Small

LEMMA InitSmall == Init => SmallViews
BY DEF Init, SmallViews, Small

LEMMA NextSmall == TypeOK /\ SmallViews /\ [Next]_vars => SmallViews'
<1>. SUFFICES ASSUME TypeOK, SmallViews, [Next]_vars PROVE SmallViews'
  OBVIOUS
<1>0. Small(NoView)
  BY DEF Small
<1>. USE DEF SmallViews
<1>1. ASSUME NEW k \in Keys, Get(k) PROVE SmallViews'
  BY <1>1 DEF Get, Touch, Stamp, jobVars, TypeOK, EntriesOK
<1>2. ASSUME NEW c \in Callers, NEW k \in Keys, Call(c, k) PROVE SmallViews'
  BY <1>0, <1>2 DEF Call, cache, jobVars, TypeOK, CallersOK
<1>3. ASSUME NEW c \in Callers, NEW v, Small(v), Return(c, v),
             UNCHANGED <<entries, jview>>
      PROVE  SmallViews'
  <2>1. \A d \in Callers : view'[d] = v \/ view'[d] = view[d]
    BY <1>3 DEF Return
  <2>. QED  BY <1>3, <2>1
<1>4. ASSUME NEW c \in Callers, CallerStep(c) PROVE SmallViews'
  <2>1. CASE Hit(c)
    BY <2>1 DEF Hit, Touch, Stamp, jobVars, TypeOK, EntriesOK, CallersOK
  <2>2. CASE Miss(c) \/ Subscribe(c) \/ Claim(c) \/ BuildErr(c) \/ Unclaim(c)
    BY <2>2 DEF Miss, Subscribe, Claim, BuildErr, Unclaim, cache, jobVars
  <2>3. ASSUME NEW v \in Built[key[c]], BuildOk(c, v) PROVE SmallViews'
    <3>1. Small(v)
      BY LargestIsLargest DEF TypeOK, CallersOK
    <3>. QED
      BY <2>3, <3>1 DEF BuildOk, cache, jobVars, TypeOK, CallersOK
  <2>4. CASE Fail(c)
    BY <1>0, <1>3, <2>4 DEF Fail, cache, jobVars
  <2>5. CASE Evict(c)
    BY <2>5 DEF Evict, Drop, jobVars
  <2>6. CASE TakeSeq(c) \/ Account(c)
    BY <2>6 DEF TakeSeq, Account, jobVars
  <2>7. CASE KeepExisting(c)
    BY <2>7 DEF KeepExisting, Stamp, jobVars, TypeOK, EntriesOK, CallersOK
  <2>8. CASE Insert(c)
    BY <2>8 DEF Insert, Put, jobVars
  <2>9. CASE Publish(c)
    BY <1>3, <2>9 DEF Publish, cache, jobVars
  <2>. QED
    BY <1>4, <2>1, <2>2, <2>3, <2>4, <2>5, <2>6, <2>7, <2>8, <2>9 DEF CallerStep
<1>5. ASSUME NEW c \in Callers, DropClaimed(c) PROVE SmallViews'
  BY <1>0, <1>5 DEF DropClaimed, cache, jobVars, TypeOK, CallersOK
<1>6. ASSUME NEW c \in Callers, DropUnclaimed(c) PROVE SmallViews'
  BY <1>0, <1>3, <1>6 DEF DropUnclaimed, cache, jobVars
<1>7. ASSUME NEW j \in Jobs, NEW k \in Keys, StartJob(j, k) PROVE SmallViews'
  BY <1>7 DEF StartJob, cache
<1>8. ASSUME NEW j \in Jobs, JobStep(j) PROVE SmallViews'
  <2>1. ASSUME NEW v \in Full[jkey[j]], JobBuilt(j, v) PROVE SmallViews'
    <3>1. Small(v)
      BY LargestIsLargest DEF TypeOK, JobsOK
    <3>. QED
      BY <2>1, <3>1 DEF JobBuilt, JobGoto, cache, TypeOK, JobsOK
  <2>2. CASE JobFailed(j)
    BY <2>2 DEF JobFailed, cache
  <2>3. CASE JobEvict(j)
    BY <2>3 DEF JobEvict, Drop
  <2>4. CASE JobInsert(j)
    BY <2>4 DEF JobInsert, Put
  <2>. QED  BY <1>8, <2>1, <2>2, <2>3, <2>4 DEF JobStep
<1>9. ASSUME NEW s \in Sources, RemoveSource(s) PROVE SmallViews'
  BY <1>9 DEF RemoveSource, cache, jobVars
<1>10. ASSUME NEW s \in Sources, InvalidateSource(s) PROVE SmallViews'
  BY <1>10 DEF InvalidateSource, Drop, jobVars
<1>11. CASE UNCHANGED vars
  BY <1>11 DEF vars, cache, jobVars
<1>. QED
  BY <1>1, <1>2, <1>4, <1>5, <1>6, <1>7, <1>8, <1>9, <1>10, <1>11 DEF Next

(* The views that have passed the eviction check and are not inserted yet, *)
(* of callers and of jobs, that are kept on disk or in memory.             *)
Kept(v)      == IF v.is_disk_backed THEN "disk" ELSE "memory"
InHand(b)    == {c \in Callers : pc[c] \in {"seq", "insert"} /\ Kept(view[c]) = b}
JobInHand(b) == {j \in Jobs : jpc[j] = "insert" /\ Kept(jview[j]) = b}
Ahead(b)     == Cardinality(InHand(b)) + Cardinality(JobInHand(b))

(* The inductive form of OvershootBounded: what is on its way counts too.  *)
DiskRoom   == Cardinality(DiskKeys) + Ahead("disk") <= SatSub(MaxDiskBacked, 1) + Inserters
MemoryRoom == Total + Ahead("memory") * LargestView
                <= SatSub(MaxMemoryBytes, 1) + Inserters * LargestView

(* Callers about to account and views on their way are different requests. *)
LEMMA OneViewEach ==
  ASSUME NEW A, A \subseteq Callers, NEW B, B \subseteq Callers, A \cap B = {},
         NEW J, J \subseteq Jobs
  PROVE  /\ Cardinality(A) \in Nat /\ Cardinality(B) \in Nat /\ Cardinality(J) \in Nat
         /\ Cardinality(A) + (Cardinality(B) + Cardinality(J)) <= Inserters
         /\ Inserters \in Nat
<1>1. IsFiniteSet(A) /\ IsFiniteSet(B) /\ IsFiniteSet(J)
  BY CallersAssumption, FS_Subset
<1>2. Cardinality(A) \in Nat /\ Cardinality(B) \in Nat /\ Cardinality(J) \in Nat
      /\ Cardinality(Callers) \in Nat /\ Cardinality(Jobs) \in Nat
  BY <1>1, CallersAssumption, FS_CardinalityType
<1>3. Cardinality(A \cup B) = Cardinality(A) + Cardinality(B) - Cardinality(A \cap B)
  BY <1>1, FS_Union
<1>4. Cardinality(A \cap B) = 0
  BY FS_EmptySet
<1>5. Cardinality(A \cup B) <= Cardinality(Callers)
  <2>1. A \cup B \subseteq Callers
    OBVIOUS
  <2>. QED  BY <2>1, CallersAssumption, FS_Subset
<1>6. Cardinality(J) <= Cardinality(Jobs)
  BY CallersAssumption, FS_Subset
<1>. QED  BY <1>2, <1>3, <1>4, <1>5, <1>6 DEF Inserters

(* Fewer on their way.                                                     *)
LEMMA FewerAhead ==
  ASSUME NEW A, A \subseteq Callers, NEW B, B \subseteq A,
         NEW J, J \subseteq Jobs, NEW K, K \subseteq J
  PROVE  /\ Cardinality(B) + Cardinality(K) <= Cardinality(A) + Cardinality(J)
         /\ Cardinality(A) + Cardinality(J) \in Nat /\ Cardinality(B) + Cardinality(K) \in Nat
<1>1. IsFiniteSet(A) /\ IsFiniteSet(J)
  BY CallersAssumption, FS_Subset
<1>2. Cardinality(B) <= Cardinality(A) /\ Cardinality(K) <= Cardinality(J)
      /\ IsFiniteSet(B) /\ IsFiniteSet(K)
  BY <1>1, FS_Subset
<1>. QED  BY <1>1, <1>2, FS_CardinalityType

LEMMA LoadSmall == \A n \in Nat : n < Word => Load(n) = n
BY BoundsAssumption DEF Load

LEMMA Times ==
  ASSUME NEW a \in Nat, NEW n \in Nat
  PROVE  a * n \in Nat
OBVIOUS

LEMMA AheadNat ==
  ASSUME NEW b
  PROVE  Ahead(b) \in Nat /\ Inserters \in Nat
<1>1. InHand(b) \subseteq Callers /\ JobInHand(b) \subseteq Jobs
  BY DEF InHand, JobInHand
<1>2. {} \subseteq Callers /\ {} \cap InHand(b) = {}
  OBVIOUS
<1>3. Cardinality(InHand(b)) \in Nat /\ Cardinality(JobInHand(b)) \in Nat /\ Inserters \in Nat
  BY <1>1, <1>2, OneViewEach
<1>. QED  BY <1>3 DEF Ahead

(* After an eviction the disk-backed entries leave room for one more, but  *)
(* for those not counted yet.                                              *)
LEMMA DiskEvicted ==
  ASSUME TypeOK, DiskCountExact, DiskRoom, Drop(Evicted(TRUE))
  PROVE  Cardinality(DiskKeys') <= SatSub(MaxDiskBacked, 1) + Cardinality(UnaccountedDisk)
<1>. DEFINE C  == Cardinality(DiskKeys)
            C2 == Cardinality(DiskKeys')
            U  == Cardinality(UnaccountedDisk)
            d  == disk_backed_count
            n  == SatSub(Load(Load(d) + 1), MaxDiskBacked)
            E  == {k \in DiskKeys : Cardinality(Older(DiskKeys, k)) < n}
<1>1. DiskKeys' = DiskKeys \ Evicted(TRUE)
  BY DEF Drop, DiskKeys
<1>2. IsFiniteSet(DiskKeys) /\ C \in Nat /\ U \in Nat /\ EntriesOK
  BY DiskKeysFinite, UnaccountedFinite, FS_CardinalityType DEF TypeOK
<1>3. C2 \in Nat /\ C2 <= C
  BY <1>1, <1>2, FS_Subset, FS_CardinalityType
<1>4. d = C - U
  BY DEF DiskCountExact
<1>5. C <= SatSub(MaxDiskBacked, 1) + Inserters /\ Inserters \in Nat
  <2>. DEFINE a == Ahead("disk")
  <2>1. a \in Nat /\ Inserters \in Nat
    BY AheadNat
  <2>2. C + a <= SatSub(MaxDiskBacked, 1) + Inserters
    BY DEF DiskRoom
  <2>3. SatSub(MaxDiskBacked, 1) \in Nat
    BY BoundsAssumption DEF SatSub
  <2>. HIDE DEF C, a
  <2>. QED  BY <1>2, <2>1, <2>2, <2>3
<1>6. CASE d < 0
  BY <1>2, <1>3, <1>4, <1>6, BoundsAssumption DEF SatSub
<1>7. CASE d >= 0
  <2>1. d \in Nat /\ d + 1 < Word
    BY <1>2, <1>4, <1>5, <1>7, BoundsAssumption, LimitsAssumption DEF SatSub
  <2>2. Load(d) = d /\ Load(d + 1) = d + 1
    <3>1. d < Word /\ d + 1 \in Nat
      BY <2>1, BoundsAssumption
    <3>. QED  BY <2>1, <3>1, LoadSmall
  <2>3. CASE d < MaxDiskBacked
    BY <1>2, <1>3, <1>4, <2>1, <2>3, BoundsAssumption DEF SatSub
  <2>4. CASE ~ (d < MaxDiskBacked)
    <3>1. n = d + 1 - MaxDiskBacked /\ n \in Nat
      BY <2>1, <2>2, <2>4, BoundsAssumption DEF SatSub
    <3>2. Evicted(TRUE) = E
      BY <2>2, <2>4 DEF Evicted
    <3>3. DiskKeys \ E = {} \/ Cardinality(DiskKeys \ E) <= C - n
      <4>1. DiskKeys \subseteq DOMAIN entries
        BY DEF DiskKeys
      <4>. HIDE DEF n
      <4>. QED  BY <1>2, <3>1, <4>1, OldestGoFirst
    <3>4. C2 = 0 \/ C2 <= C - n
      <4>1. C2 = Cardinality(DiskKeys \ E)
        BY <1>1, <3>2
      <4>. HIDE DEF E
      <4>. QED  BY <3>3, <4>1, FS_EmptySet
    <3>. HIDE DEF n
    <3>. QED
      BY <1>2, <1>3, <1>4, <2>1, <3>1, <3>4, BoundsAssumption DEF SatSub
  <2>. QED  BY <2>3, <2>4
<1>8. d \in Int
  BY <1>2, <1>4
<1>. QED  BY <1>6, <1>7, <1>8

(* What is on disk takes no bytes.                                         *)
LEMMA DiskTakesNoBytes ==
  ASSUME EntriesOK
  PROVE  BytesOf(DiskKeys) = 0
<1>. DEFINE f == [k \in DiskKeys |-> Bytes(entries[k].view)]
<1>1. \A k \in DiskKeys : f[k] \in 0 .. 0
  BY DEF DiskKeys, Bytes
<1>2. IsFiniteSet(DiskKeys) /\ BytesOf(DiskKeys) \in Nat
  <2>1. DiskKeys \subseteq DOMAIN entries
    BY DEF DiskKeys
  <2>. QED  BY <2>1, BytesOfNat
<1>3. BytesOf(DiskKeys) = SumFunctionOnSet(f, DiskKeys)
  BY DEF BytesOf
<1>. HIDE DEF f
<1>4. SumFunctionOnSet(f, DiskKeys) <= Cardinality(DiskKeys) * 0
  BY <1>1, <1>2, SumBounded
<1>5. Cardinality(DiskKeys) \in Nat
  BY <1>2, FS_CardinalityType
<1>. QED  BY <1>2, <1>3, <1>4, <1>5

(* The bytes not accounted yet are those of that many views.               *)
LEMMA UnaccountedSmall ==
  ASSUME TypeOK, SmallViews
  PROVE  UnaccountedBytes <= Cardinality(Unaccounted) * LargestView
<1>. DEFINE f == [c \in Unaccounted |-> Bytes(view[c])]
<1>1. IsFiniteSet(Unaccounted) /\ \A c \in Unaccounted : f[c] \in Nat
  BY UnaccountedNat DEF TypeOK
<1>2. \A c \in Unaccounted : f[c] <= LargestView
  BY ViewsAssumption DEF SmallViews, Small, Unaccounted, TypeOK, CallersOK
<1>3. LargestView \in Nat
  BY LargestIsLargest
<1>4. UnaccountedBytes = SumFunctionOnSet(f, Unaccounted)
  BY DEF UnaccountedBytes
<1>. HIDE DEF f
<1>5. \A c \in Unaccounted : f[c] \in 0 .. LargestView
  BY <1>1, <1>2, <1>3
<1>. QED  BY <1>1, <1>3, <1>4, <1>5, SumBounded

(* After an eviction there is room for one more byte in memory, but for    *)
(* what is not accounted yet.                                              *)
LEMMA MemoryEvicted ==
  ASSUME TypeOK, BytesExact, SmallViews, MemoryRoom, Drop(Evicted(FALSE))
  PROVE  Total' <= SatSub(MaxMemoryBytes, 1) + Cardinality(Unaccounted) * LargestView
<1>. DEFINE E == Evicted(FALSE)
            U == UnaccountedBytes
            c == current_bytes
<1>1. U \in Nat /\ Total \in Nat /\ U <= Cardinality(Unaccounted) * LargestView /\ EntriesOK
  BY UnaccountedNat, UnaccountedSmall, BytesOfNat DEF TypeOK, Total
<1>2. E \subseteq MemoryKeys /\ E \subseteq DOMAIN entries
  BY DEF Evicted, MemoryKeys
<1>3. Total' = Total - BytesOf(E) /\ BytesOf(E) \in Nat /\ Total' \in Nat
  BY <1>1, <1>2, TotalDropped
<1>4. c = Total - U
  BY BytesExactAs
<1>6. Total < Word
  <2>1. Ahead("memory") \in Nat /\ Inserters \in Nat /\ LargestView \in Nat
    BY AheadNat, LargestIsLargest
  <2>2. Ahead("memory") * LargestView \in Nat /\ Inserters * LargestView \in Nat
    BY <2>1, Times
  <2>3. SatSub(MaxMemoryBytes, 1) <= MaxMemoryBytes /\ SatSub(MaxMemoryBytes, 1) \in Nat
    BY BoundsAssumption DEF SatSub
  <2>4. MaxMemoryBytes + Inserters * LargestView < Word
    BY LimitsAssumption
  <2>5. Total + Ahead("memory") * LargestView
          <= SatSub(MaxMemoryBytes, 1) + Inserters * LargestView
    BY DEF MemoryRoom
  <2>6. \A a, p, s, m, q, w \in Nat :
          a + p <= s + q /\ s <= m /\ m + q < w => a < w
    OBVIOUS
  <2>7. MaxMemoryBytes \in Nat /\ Word \in Nat
    BY BoundsAssumption
  <2>. QED  BY <1>1, <2>2, <2>3, <2>4, <2>5, <2>6, <2>7
<1>7. ASSUME c < 0 PROVE Total' <= SatSub(MaxMemoryBytes, 1) + U
  <2>1. SatSub(MaxMemoryBytes, 1) \in Nat
    BY BoundsAssumption DEF SatSub
  <2>2. Total < U
    <3>. HIDE DEF U
    <3>. QED  BY <1>1, <1>4, <1>7
  <2>3. Total' <= Total
    <3>. HIDE DEF E
    <3>. QED  BY <1>1, <1>3
  <2>. HIDE DEF U, E
  <2>. QED  BY <1>1, <1>3, <2>1, <2>2, <2>3
<1>8. ASSUME c >= 0 PROVE Total' <= SatSub(MaxMemoryBytes, 1) + U
  <2>1. c \in Nat /\ Load(c) = c
    BY <1>1, <1>4, <1>6, <1>8, LoadSmall, BoundsAssumption
  <2>2. E = {k \in MemoryKeys : SatSub(c, BytesOf(Older(MemoryKeys, k))) >= MaxMemoryBytes}
    BY <2>1 DEF Evicted
  <2>3. MemoryKeys \ E = {} \/ SatSub(c, BytesOf(E)) < MaxMemoryBytes
    <3>. HIDE DEF E
    <3>. QED  BY <1>1, <2>1, <2>2, OldestBytesGoFirst
  <2>4. CASE MemoryKeys \ E = {}
    <3>1. DOMAIN entries \ E = DiskKeys
      BY <1>2, <2>4 DEF MemoryKeys, DiskKeys
    <3>2. Total = BytesOf(DiskKeys) + BytesOf(E)
      <4>1. Total = BytesOf(DOMAIN entries \ E) + BytesOf(E)
        BY <1>1, <1>2, BytesOfSplit DEF Total
      <4>. QED  BY <3>1, <4>1
    <3>3. BytesOf(DiskKeys) = 0
      BY <1>1, DiskTakesNoBytes
    <3>4. Total' = 0
      <4>. HIDE DEF E
      <4>. QED  BY <1>1, <1>3, <3>2, <3>3
    <3>5. SatSub(MaxMemoryBytes, 1) \in Nat
      BY BoundsAssumption DEF SatSub
    <3>. HIDE DEF U
    <3>. QED  BY <1>1, <3>4, <3>5
  <2>5. CASE SatSub(c, BytesOf(E)) < MaxMemoryBytes
    <3>1. \A n, m, l, x, y \in Nat : n = m - l /\ SatSub(n, x) < y => m - x <= SatSub(y, 1) + l
      BY DEF SatSub
    <3>2. MaxMemoryBytes \in Nat
      BY BoundsAssumption
    <3>3. Total - BytesOf(E) <= SatSub(MaxMemoryBytes, 1) + U
      <4>. HIDE DEF E, U, c
      <4>. QED  BY <1>1, <1>3, <1>4, <2>1, <2>5, <3>1, <3>2
    <3>. HIDE DEF E, U
    <3>. QED  BY <1>3, <3>3
  <2>. QED  BY <2>3, <2>4, <2>5
<1>9. c \in Int
  BY <1>1, <1>4
<1>10. Total' <= SatSub(MaxMemoryBytes, 1) + U
  BY <1>7, <1>8, <1>9
<1>11. Cardinality(Unaccounted) * LargestView \in Nat
  <2>1. Cardinality(Unaccounted) \in Nat /\ LargestView \in Nat
    BY UnaccountedNat, FS_CardinalityType, LargestIsLargest DEF TypeOK
  <2>. QED  BY <2>1, Times
<1>12. SatSub(MaxMemoryBytes, 1) \in Nat
  BY BoundsAssumption DEF SatSub
<1>. HIDE DEF U, E
<1>. QED  BY <1>1, <1>3, <1>10, <1>11, <1>12

(* Fewer entries, fewer bytes.                                             *)
LEMMA TotalShrinks ==
  ASSUME EntriesOK, DOMAIN entries' \subseteq DOMAIN entries,
         \A k \in DOMAIN entries' : entries'[k].view = entries[k].view
  PROVE  Total' \in Nat /\ Total \in Nat /\ Total' <= Total
<1>. DEFINE D == DOMAIN entries
            R == DOMAIN entries'
<1>1. Total' = SumFunctionOnSet([k \in R |-> Bytes(entries[k].view)], R)
  <2>1. [k \in R |-> Bytes(entries'[k].view)] = [k \in R |-> Bytes(entries[k].view)]
    OBVIOUS
  <2>. QED  BY <2>1 DEF Total, BytesOf, Bytes
<1>2. Total' = BytesOf(R)
  BY <1>1 DEF BytesOf
<1>3. BytesOf(D) = BytesOf(D \ R) + BytesOf(R)
  <2>1. D \subseteq DOMAIN entries /\ R \subseteq D
    OBVIOUS
  <2>. QED  BY <2>1, BytesOfSplit
<1>4. BytesOf(R) \in Nat /\ BytesOf(D \ R) \in Nat
  <2>1. R \subseteq DOMAIN entries /\ D \ R \subseteq DOMAIN entries
    OBVIOUS
  <2>. QED  BY <2>1, BytesOfNat
<1>. QED
  <2>1. Total = BytesOf(D)
    BY DEF Total
  <2>. HIDE DEF D, R
  <2>. QED  BY <1>2, <1>3, <1>4, <2>1

(* Nobody new passes the eviction check.                                   *)
NoneNewAhead ==
  /\ \A c \in Callers : pc'[c] \in {"seq", "insert"} =>
       pc[c] \in {"seq", "insert"} /\ view'[c] = view[c]
  /\ \A j \in Jobs : jpc'[j] = "insert" => jpc[j] = "insert" /\ jview'[j] = jview[j]

LEMMA NoneNewFewer ==
  ASSUME NoneNewAhead, NEW b
  PROVE  Ahead(b)' <= Ahead(b) /\ Ahead(b)' \in Nat /\ Ahead(b) \in Nat
<1>1. InHand(b)' \subseteq InHand(b) /\ JobInHand(b)' \subseteq JobInHand(b)
  BY DEF NoneNewAhead, InHand, JobInHand, Kept
<1>2. InHand(b) \subseteq Callers /\ JobInHand(b) \subseteq Jobs
  BY DEF InHand, JobInHand
<1>3. /\ Cardinality(InHand(b)') + Cardinality(JobInHand(b)')
           <= Cardinality(InHand(b)) + Cardinality(JobInHand(b))
      /\ Cardinality(InHand(b)') + Cardinality(JobInHand(b)') \in Nat
      /\ Cardinality(InHand(b)) + Cardinality(JobInHand(b)) \in Nat
  BY <1>1, <1>2, FewerAhead
<1>. QED  BY <1>3 DEF Ahead

LEMMA TimesMonotonic ==
  ASSUME NEW a \in Nat, NEW b \in Nat, NEW n \in Nat, a <= b
  PROVE  a * n <= b * n /\ a * n \in Nat /\ b * n \in Nat
OBVIOUS

LEMMA LimitsNat ==
  SatSub(MaxDiskBacked, 1) \in Nat /\ SatSub(MaxMemoryBytes, 1) \in Nat
BY BoundsAssumption DEF SatSub

LEMMA DiskKeysNat == EntriesOK => IsFiniteSet(DiskKeys) /\ Cardinality(DiskKeys) \in Nat
BY DiskKeysFinite, FS_CardinalityType

LEMMA DiskRoomStays ==
  ASSUME EntriesOK, DiskRoom, DiskKeys' \subseteq DiskKeys, NEW a \in Nat, a = Ahead("disk")',
         a <= Ahead("disk")
  PROVE  DiskRoom'
<1>. DEFINE old == Ahead("disk")
<1>1. IsFiniteSet(DiskKeys) /\ Cardinality(DiskKeys) \in Nat
  BY DiskKeysNat
<1>2. Cardinality(DiskKeys') <= Cardinality(DiskKeys) /\ Cardinality(DiskKeys') \in Nat
  BY <1>1, FS_Subset, FS_CardinalityType
<1>3. old \in Nat /\ Inserters \in Nat
  BY AheadNat
<1>4. Cardinality(DiskKeys) + old <= SatSub(MaxDiskBacked, 1) + Inserters
  BY DEF DiskRoom
<1>5. a <= old
  OBVIOUS
<1>6. Cardinality(DiskKeys') + a <= SatSub(MaxDiskBacked, 1) + Inserters
  <2>. HIDE DEF old
  <2>. QED  BY <1>1, <1>2, <1>3, <1>4, <1>5, LimitsNat
<1>. QED  BY <1>6 DEF DiskRoom, Inserters, SatSub

LEMMA MemoryRoomStays ==
  ASSUME EntriesOK, MemoryRoom, Total' \in Nat, Total \in Nat, Total' <= Total,
         NEW a \in Nat, a = Ahead("memory")', a <= Ahead("memory")
  PROVE  MemoryRoom'
<1>. DEFINE old == Ahead("memory")
<1>1. old \in Nat /\ Inserters \in Nat
  BY AheadNat
<1>2. Total + old * LargestView <= SatSub(MaxMemoryBytes, 1) + Inserters * LargestView
  BY DEF MemoryRoom
<1>3. a <= old /\ LargestView \in Nat
  BY LargestIsLargest
<1>4. Total' + a * LargestView <= SatSub(MaxMemoryBytes, 1) + Inserters * LargestView
  <2>. HIDE DEF old
  <2>1. a * LargestView <= old * LargestView /\ a * LargestView \in Nat /\ old * LargestView \in Nat
    BY <1>1, <1>3, TimesMonotonic
  <2>2. Inserters * LargestView \in Nat
    BY <1>1, <1>3, Times
  <2>. QED  BY <1>2, <2>1, <2>2, LimitsNat
<1>. QED
  BY <1>4 DEF MemoryRoom, Inserters, SatSub, LargestView, ViewSizes, Bytes

(* A step that adds no entry and lets nobody through keeps both.           *)
LEMMA RoomStays ==
  ASSUME EntriesOK, DiskRoom, MemoryRoom, NoneNewAhead, DOMAIN entries' \subseteq DOMAIN entries,
         \A k \in DOMAIN entries' : entries'[k].view = entries[k].view
  PROVE  DiskRoom' /\ MemoryRoom'
<1>1. DiskKeys' \subseteq DiskKeys
  BY DEF DiskKeys
<1>2. Total' \in Nat /\ Total \in Nat /\ Total' <= Total
  BY TotalShrinks
<1>3. /\ Ahead("disk")' \in Nat /\ Ahead("disk")' <= Ahead("disk")
      /\ Ahead("memory")' \in Nat /\ Ahead("memory")' <= Ahead("memory")
  BY NoneNewFewer
<1>4. DiskRoom'
  <2>. DEFINE a == Ahead("disk")'
  <2>1. a \in Nat /\ a = Ahead("disk")' /\ a <= Ahead("disk")
    BY <1>3
  <2>. HIDE DEF a
  <2>. QED  BY <1>1, <2>1, DiskRoomStays
<1>5. MemoryRoom'
  <2>. DEFINE a == Ahead("memory")'
  <2>1. a \in Nat /\ a = Ahead("memory")' /\ a <= Ahead("memory")
    BY <1>3
  <2>. HIDE DEF a
  <2>. QED  BY <1>2, <2>1, MemoryRoomStays
<1>. QED  BY <1>4, <1>5

(* An eviction makes room for all who are on their way.                    *)
LEMMA DiskRoomMade ==
  ASSUME TypeOK, DiskCountExact, DiskRoom, Drop(Evicted(TRUE)),
         UnaccountedDisk \cap InHand("disk")' = {}
  PROVE  DiskRoom'
<1>. DEFINE u == Cardinality(UnaccountedDisk)
            a == Cardinality(InHand("disk")') + Cardinality(JobInHand("disk")')
<1>1. Cardinality(DiskKeys') <= SatSub(MaxDiskBacked, 1) + u
  BY DiskEvicted
<1>2. Cardinality(DiskKeys') \in Nat
  <2>1. DiskKeys' \subseteq DiskKeys
    BY DEF Drop, DiskKeys
  <2>. QED  BY <2>1, DiskKeysNat, FS_Subset, FS_CardinalityType DEF TypeOK
<1>3. u + a <= Inserters /\ u \in Nat /\ a \in Nat /\ Inserters \in Nat
  <2>1. /\ UnaccountedDisk \subseteq Callers /\ InHand("disk")' \subseteq Callers
        /\ JobInHand("disk")' \subseteq Jobs
    BY DEF UnaccountedDisk, Unaccounted, InHand, JobInHand
  <2>. QED  BY <2>1, OneViewEach
<1>4. Cardinality(DiskKeys') + a <= SatSub(MaxDiskBacked, 1) + Inserters
  <2>. HIDE DEF u, a
  <2>. QED  BY <1>1, <1>2, <1>3, LimitsNat
<1>. QED  BY <1>4 DEF DiskRoom, Ahead, Inserters, SatSub

LEMMA MemoryRoomMade ==
  ASSUME TypeOK, BytesExact, SmallViews, MemoryRoom, Drop(Evicted(FALSE)),
         Unaccounted \cap InHand("memory")' = {}
  PROVE  MemoryRoom'
<1>. DEFINE u == Cardinality(Unaccounted)
            a == Cardinality(InHand("memory")') + Cardinality(JobInHand("memory")')
            L == LargestView
<1>1. Total' <= SatSub(MaxMemoryBytes, 1) + u * L
  BY MemoryEvicted
<1>2. Total' \in Nat
  <2>1. DOMAIN entries' \subseteq DOMAIN entries
        /\ \A k \in DOMAIN entries' : entries'[k].view = entries[k].view
    BY DEF Drop
  <2>. QED  BY <2>1, TotalShrinks DEF TypeOK
<1>3. u + a <= Inserters /\ u \in Nat /\ a \in Nat /\ Inserters \in Nat
  <2>. DEFINE B == InHand("memory")'
              J == JobInHand("memory")'
  <2>1. Unaccounted \subseteq Callers /\ B \subseteq Callers /\ J \subseteq Jobs
    BY DEF Unaccounted, InHand, JobInHand
  <2>2. Unaccounted \cap B = {}
    OBVIOUS
  <2>. HIDE DEF B, J
  <2>3. /\ Cardinality(Unaccounted) + (Cardinality(B) + Cardinality(J)) <= Inserters
        /\ Cardinality(Unaccounted) \in Nat /\ Cardinality(B) \in Nat
        /\ Cardinality(J) \in Nat /\ Inserters \in Nat
    BY <2>1, <2>2, OneViewEach
  <2>4. Cardinality(B) + Cardinality(J) \in Nat
    BY <2>3
  <2>. QED  BY <2>3, <2>4 DEF B, J
<1>4. L \in Nat
  BY LargestIsLargest
<1>5. Total' + a * L <= SatSub(MaxMemoryBytes, 1) + Inserters * L
  <2>. HIDE DEF u, a, L
  <2>1. (u + a) * L <= Inserters * L /\ Inserters * L \in Nat
    <3>1. u + a \in Nat
      BY <1>3
    <3>. QED  BY <1>3, <1>4, <3>1, TimesMonotonic
  <2>2. (u + a) * L = u * L + a * L /\ u * L \in Nat /\ a * L \in Nat
    BY <1>3, <1>4
  <2>. QED  BY <1>1, <1>2, <2>1, <2>2, LimitsNat
<1>. QED
  BY <1>5 DEF MemoryRoom, Ahead, Inserters, SatSub, LargestView, ViewSizes, Bytes

(* A view that is inserted is no longer on its way.                        *)
LEMMA OneLessAhead ==
  ASSUME NEW b, NEW c, NEW j,
         \/ c \in InHand(b) /\ InHand(b)' = InHand(b) \ {c} /\ JobInHand(b)' = JobInHand(b)
         \/ j \in JobInHand(b) /\ JobInHand(b)' = JobInHand(b) \ {j} /\ InHand(b)' = InHand(b)
  PROVE  Ahead(b)' + 1 <= Ahead(b) /\ Ahead(b)' \in Nat
<1>1. InHand(b) \subseteq Callers /\ JobInHand(b) \subseteq Jobs
  BY DEF InHand, JobInHand
<1>2. IsFiniteSet(InHand(b)) /\ IsFiniteSet(JobInHand(b))
  BY <1>1, CallersAssumption, FS_Subset
<1>3. Cardinality(InHand(b)) \in Nat /\ Cardinality(JobInHand(b)) \in Nat
  BY <1>2, FS_CardinalityType
<1>4. CASE c \in InHand(b) /\ InHand(b)' = InHand(b) \ {c} /\ JobInHand(b)' = JobInHand(b)
  <2>1. Cardinality(InHand(b)') = Cardinality(InHand(b)) - 1 /\ IsFiniteSet(InHand(b)')
    BY <1>2, <1>4, FS_RemoveElement
  <2>2. Cardinality(InHand(b)') \in Nat
    BY <2>1, FS_CardinalityType
  <2>. QED  BY <1>3, <1>4, <2>1, <2>2 DEF Ahead
<1>5. CASE j \in JobInHand(b) /\ JobInHand(b)' = JobInHand(b) \ {j} /\ InHand(b)' = InHand(b)
  <2>1. Cardinality(JobInHand(b)') = Cardinality(JobInHand(b)) - 1 /\ IsFiniteSet(JobInHand(b)')
    BY <1>2, <1>5, FS_RemoveElement
  <2>2. Cardinality(JobInHand(b)') \in Nat
    BY <2>1, FS_CardinalityType
  <2>. QED  BY <1>3, <1>5, <2>1, <2>2 DEF Ahead
<1>. QED  BY <1>4, <1>5

LEMMA DiskRoomTaken ==
  ASSUME EntriesOK, DiskRoom, NEW k, DiskKeys' \subseteq DiskKeys \cup {k},
         Ahead("disk")' + 1 <= Ahead("disk"), Ahead("disk")' \in Nat
  PROVE  DiskRoom'
<1>1. IsFiniteSet(DiskKeys) /\ Cardinality(DiskKeys) \in Nat
  BY DiskKeysNat
<1>2. /\ IsFiniteSet(DiskKeys \cup {k}) /\ Cardinality(DiskKeys \cup {k}) \in Nat
      /\ Cardinality(DiskKeys \cup {k}) <= Cardinality(DiskKeys) + 1
  BY <1>1, FS_AddElement, FS_CardinalityType
<1>3. Cardinality(DiskKeys') <= Cardinality(DiskKeys \cup {k}) /\ Cardinality(DiskKeys') \in Nat
  BY <1>2, FS_Subset, FS_CardinalityType
<1>4. Ahead("disk") \in Nat /\ Inserters \in Nat
  BY AheadNat
<1>5. Cardinality(DiskKeys) + Ahead("disk") <= SatSub(MaxDiskBacked, 1) + Inserters
  BY DEF DiskRoom
<1>6. Cardinality(DiskKeys') + Ahead("disk")' <= SatSub(MaxDiskBacked, 1) + Inserters
  BY <1>1, <1>2, <1>3, <1>4, <1>5, LimitsNat
<1>. QED  BY <1>6 DEF DiskRoom, Inserters, SatSub

LEMMA MemoryRoomTaken ==
  ASSUME EntriesOK, MemoryRoom, Total' \in Nat, Total \in Nat, Total' <= Total + LargestView,
         Ahead("memory")' + 1 <= Ahead("memory"), Ahead("memory")' \in Nat
  PROVE  MemoryRoom'
<1>. DEFINE old == Ahead("memory")
            new == Ahead("memory")'
            L   == LargestView
<1>1. old \in Nat /\ Inserters \in Nat /\ new \in Nat /\ L \in Nat /\ new + 1 <= old
  BY AheadNat, LargestIsLargest
<1>2. Total + old * L <= SatSub(MaxMemoryBytes, 1) + Inserters * L
  BY DEF MemoryRoom
<1>3. Total' <= Total + L
  OBVIOUS
<1>4. Total' + new * L <= SatSub(MaxMemoryBytes, 1) + Inserters * L
  <2>. HIDE DEF old, new, L
  <2>1. (new + 1) * L <= old * L /\ old * L \in Nat
    <3>1. new + 1 \in Nat
      BY <1>1
    <3>. QED  BY <1>1, <3>1, TimesMonotonic
  <2>2. (new + 1) * L = new * L + L /\ new * L \in Nat
    BY <1>1
  <2>3. Inserters * L \in Nat
    BY <1>1, Times
  <2>. QED  BY <1>1, <1>2, <1>3, <2>1, <2>2, <2>3, LimitsNat
<1>. QED
  BY <1>4 DEF MemoryRoom, Inserters, SatSub, LargestView, ViewSizes, Bytes

(* What an insertion adds was on its way.                                  *)
LEMMA InsertTakesRoom ==
  ASSUME EntriesOK, DiskRoom, MemoryRoom, NEW k \in Keys, NEW e \in Entry, Put(k, e),
         Bytes(e.view) <= LargestView,
         Ahead(Kept(e.view))' + 1 <= Ahead(Kept(e.view)), Ahead(Kept(e.view))' \in Nat,
         \A b : b # Kept(e.view) => Ahead(b)' <= Ahead(b) /\ Ahead(b)' \in Nat
  PROVE  DiskRoom' /\ MemoryRoom'
<1>1. /\ DiskKeys' \subseteq DiskKeys \cup {k}
      /\ Kept(e.view) = "memory" => DiskKeys' \subseteq DiskKeys
  BY DEF Put, DiskKeys, Kept, Entry, View
<1>2. /\ Total' = Total - BytesOf({k} \cap DOMAIN entries) + Bytes(e.view)
      /\ Total \in Nat /\ BytesOf({k} \cap DOMAIN entries) \in Nat
  BY TotalPut
<1>3. Bytes(e.view) \in Nat /\ LargestView \in Nat /\ (Kept(e.view) = "disk" => Bytes(e.view) = 0)
  BY BytesAreNat, LargestIsLargest DEF Entry, Kept, Bytes
<1>4. Total' \in Nat
  <2>1. BytesOf({k} \cap DOMAIN entries) <= Total
    <3>. DEFINE D == DOMAIN entries
                S == {k} \cap D
    <3>1. BytesOf(D) = BytesOf(D \ S) + BytesOf(S)
      BY BytesOfSplit
    <3>2. BytesOf(D \ S) \in Nat
      BY BytesOfNat
    <3>3. BytesOf(D) = Total
      BY DEF Total
    <3>. HIDE DEF D, S
    <3>. QED  BY <1>2, <3>1, <3>2, <3>3 DEF S, D
  <2>. QED  BY <1>2, <1>3, <2>1
<1>5. CASE Kept(e.view) = "disk"
  <2>1. DiskRoom'
    BY <1>1, <1>5, DiskRoomTaken
  <2>2. Total' <= Total
    BY <1>2, <1>3, <1>4, <1>5
  <2>3. Ahead("memory")' \in Nat /\ Ahead("memory")' <= Ahead("memory")
    BY <1>5
  <2>. DEFINE a == Ahead("memory")'
  <2>4. a \in Nat /\ a = Ahead("memory")' /\ a <= Ahead("memory")
    BY <2>3
  <2>. HIDE DEF a
  <2>5. MemoryRoom'
    BY <1>2, <1>4, <2>2, <2>4, MemoryRoomStays
  <2>. QED  BY <2>1, <2>5
<1>6. CASE Kept(e.view) = "memory"
  <2>1. Total' <= Total + LargestView
    BY <1>2, <1>3, <1>4
  <2>2. MemoryRoom'
    BY <1>2, <1>4, <1>6, <2>1, MemoryRoomTaken
  <2>. DEFINE a == Ahead("disk")'
  <2>3. a \in Nat /\ a = Ahead("disk")' /\ a <= Ahead("disk")
    BY <1>6
  <2>. HIDE DEF a
  <2>4. DiskRoom'
    BY <1>1, <1>6, <2>3, DiskRoomStays
  <2>. QED  BY <2>2, <2>4
<1>. QED  BY <1>5, <1>6 DEF Kept

LEMMA InsertRoom ==
  ASSUME TypeOK, SmallViews, DiskRoom, MemoryRoom, NEW c \in Callers, Insert(c)
  PROVE  DiskRoom' /\ MemoryRoom'
<1>. DEFINE e == [view |-> view[c], seq |-> seq[c]]
<1>0. PICK b : b = Kept(view[c])
  OBVIOUS
<1>1. key[c] \in Keys /\ e \in Entry /\ e.view = view[c] /\ Put(key[c], e) /\ EntriesOK
  BY DEF Insert, TypeOK, CallersOK, Entry
<1>2. Bytes(view[c]) <= LargestView
  BY ViewsAssumption DEF Insert, SmallViews, Small, TypeOK, CallersOK
<1>3. c \in InHand(b) /\ InHand(b)' = InHand(b) \ {c} /\ JobInHand(b)' = JobInHand(b)
  BY <1>0 DEF Insert, Goto, InHand, JobInHand, Kept, jobVars, TypeOK, CallersOK
<1>4. Ahead(b)' + 1 <= Ahead(b) /\ Ahead(b)' \in Nat
  BY <1>3, OneLessAhead
<1>5. NoneNewAhead
  BY DEF Insert, Goto, NoneNewAhead, jobVars, TypeOK, CallersOK
<1>6. \A d : Ahead(d)' <= Ahead(d) /\ Ahead(d)' \in Nat
  BY <1>5, NoneNewFewer
<1>. HIDE DEF e
<1>7. Kept(e.view) = b
  BY <1>0, <1>1
<1>. QED  BY <1>1, <1>2, <1>4, <1>6, <1>7, InsertTakesRoom

LEMMA JobInsertRoom ==
  ASSUME TypeOK, SmallViews, DiskRoom, MemoryRoom, NEW j \in Jobs, JobInsert(j)
  PROVE  DiskRoom' /\ MemoryRoom'
<1>. DEFINE e == [view |-> jview[j], seq |-> access_seq]
<1>0. PICK b : b = Kept(jview[j])
  OBVIOUS
<1>1. jkey[j] \in Keys /\ e \in Entry /\ e.view = jview[j] /\ Put(jkey[j], e) /\ EntriesOK
  BY DEF JobInsert, TypeOK, JobsOK, CountersOK, Entry
<1>2. Bytes(jview[j]) <= LargestView
  BY ViewsAssumption DEF JobInsert, SmallViews, Small, TypeOK, JobsOK
<1>3. j \in JobInHand(b) /\ JobInHand(b)' = JobInHand(b) \ {j} /\ InHand(b)' = InHand(b)
  BY <1>0 DEF JobInsert, JobGoto, InHand, JobInHand, Kept, TypeOK, JobsOK
<1>4. Ahead(b)' + 1 <= Ahead(b) /\ Ahead(b)' \in Nat
  BY <1>3, OneLessAhead
<1>5. NoneNewAhead
  BY DEF JobInsert, JobGoto, NoneNewAhead, TypeOK, JobsOK
<1>6. \A d : Ahead(d)' <= Ahead(d) /\ Ahead(d)' \in Nat
  BY <1>5, NoneNewFewer
<1>. HIDE DEF e
<1>7. Kept(e.view) = b
  BY <1>0, <1>1
<1>. QED  BY <1>1, <1>2, <1>4, <1>6, <1>7, InsertTakesRoom

(* An eviction makes room on the side it evicts from, and takes nothing    *)
(* from the other.                                                         *)
LEMMA EvictRoom ==
  ASSUME TypeOK, DiskCountExact, BytesExact, SmallViews, DiskRoom, MemoryRoom,
         NEW d \in BOOLEAN, Drop(Evicted(d)),
         \A c \in Callers : pc[c] = "account" => pc'[c] = "account",
         ~ d => Ahead("disk")' <= Ahead("disk") /\ Ahead("disk")' \in Nat,
         d => Ahead("memory")' <= Ahead("memory") /\ Ahead("memory")' \in Nat
  PROVE  DiskRoom' /\ MemoryRoom'
<1>1. /\ Unaccounted \cap InHand("memory")' = {} /\ UnaccountedDisk \cap InHand("disk")' = {}
      /\ EntriesOK
  BY DEF Unaccounted, UnaccountedDisk, InHand, TypeOK
<1>2. /\ DiskKeys' \subseteq DiskKeys /\ DOMAIN entries' \subseteq DOMAIN entries
      /\ \A k \in DOMAIN entries' : entries'[k].view = entries[k].view
  BY DEF Drop, DiskKeys
<1>3. CASE d
  <2>1. Drop(Evicted(TRUE))
    BY <1>3
  <2>2. DiskRoom'
    BY <1>1, <2>1, DiskRoomMade
  <2>. DEFINE a == Ahead("memory")'
  <2>3. a \in Nat /\ a = Ahead("memory")' /\ a <= Ahead("memory")
    BY <1>3
  <2>. HIDE DEF a
  <2>4. Total' \in Nat /\ Total \in Nat /\ Total' <= Total
    BY <1>1, <1>2, TotalShrinks
  <2>5. MemoryRoom'
    BY <1>1, <2>3, <2>4, MemoryRoomStays
  <2>. QED  BY <2>2, <2>5
<1>4. CASE ~ d
  <2>1. Drop(Evicted(FALSE))
    BY <1>4
  <2>2. MemoryRoom'
    BY <1>1, <2>1, MemoryRoomMade
  <2>. DEFINE a == Ahead("disk")'
  <2>3. a \in Nat /\ a = Ahead("disk")' /\ a <= Ahead("disk")
    BY <1>4
  <2>. HIDE DEF a
  <2>4. DiskRoom'
    BY <1>1, <1>2, <2>3, DiskRoomStays
  <2>. QED  BY <2>2, <2>4
<1>. QED  BY <1>3, <1>4

Room == DiskRoom /\ MemoryRoom

LEMMA InitRoom == Init => Room
<1>. SUFFICES ASSUME Init PROVE Room
  OBVIOUS
<1>1. DOMAIN entries = {} /\ DiskKeys = {} /\ \A b : InHand(b) = {} /\ JobInHand(b) = {}
  BY DEF Init, DiskKeys, InHand, JobInHand
<1>2. Cardinality({}) = 0
  BY FS_EmptySet
<1>3. Total = 0
  BY <1>1, SumEmpty DEF Total, BytesOf
<1>4. ASSUME NEW b PROVE Ahead(b) = 0
  <2>1. Cardinality(InHand(b)) = 0 /\ Cardinality(JobInHand(b)) = 0
    BY <1>1, <1>2
  <2>. QED  BY <2>1 DEF Ahead
<1>5. Inserters \in Nat /\ LargestView \in Nat
  BY AheadNat, LargestIsLargest
<1>6. Inserters * LargestView \in Nat /\ 0 * LargestView = 0
  BY <1>5, Times
<1>7. DiskRoom
  BY <1>1, <1>2, <1>4, <1>5, LimitsNat DEF DiskRoom
<1>8. MemoryRoom
  <2>1. Total + Ahead("memory") * LargestView = 0
    BY <1>3, <1>4, <1>6
  <2>. QED  BY <1>6, <2>1, LimitsNat DEF MemoryRoom
<1>. QED  BY <1>7, <1>8 DEF Room

LEMMA NextRoom ==
  TypeOK /\ DiskCountExact /\ BytesExact /\ SmallViews /\ Room /\ [Next]_vars => Room'
<1>. SUFFICES ASSUME TypeOK, DiskCountExact, BytesExact, SmallViews, Room, [Next]_vars
              PROVE  Room'
  OBVIOUS
<1>. DEFINE NoMoreEntries == /\ DOMAIN entries' \subseteq DOMAIN entries
                             /\ \A k \in DOMAIN entries' : entries'[k].view = entries[k].view
<1>0. ASSUME NoMoreEntries, NoneNewAhead PROVE Room'
  BY <1>0, RoomStays DEF TypeOK, Room
<1>1. ASSUME NEW k \in Keys, Get(k) PROVE Room'
  <2>1. NoMoreEntries
    BY <1>1, StampKeepsViews DEF Get, Touch, TypeOK
  <2>2. NoneNewAhead
    BY <1>1 DEF Get, NoneNewAhead, jobVars
  <2>. QED  BY <1>0, <2>1, <2>2
<1>2. ASSUME NEW c \in Callers, NEW k \in Keys, Call(c, k) PROVE Room'
  <2>1. NoneNewAhead
    BY <1>2 DEF Call, Goto, NoneNewAhead, jobVars, TypeOK, CallersOK
  <2>. QED  BY <1>0, <1>2, <2>1 DEF Call, cache
<1>3. ASSUME NEW c \in Callers, NEW v, Return(c, v), NoMoreEntries, UNCHANGED jobVars PROVE Room'
  <2>1. NoneNewAhead
    BY <1>3 DEF Return, NoneNewAhead, jobVars, TypeOK, CallersOK
  <2>. QED  BY <1>0, <1>3, <2>1
<1>4. ASSUME NEW c \in Callers, CallerStep(c) PROVE Room'
  <2>. USE DEF Goto, jobVars, TypeOK, CallersOK
  <2>1. CASE Hit(c)
    <3>1. NoMoreEntries
      BY <2>1, StampKeepsViews DEF Hit, Touch
    <3>2. NoneNewAhead
      BY <2>1 DEF Hit, NoneNewAhead
    <3>. QED  BY <1>0, <3>1, <3>2
  <2>2. CASE Miss(c) \/ Subscribe(c) \/ Claim(c) \/ BuildErr(c) \/ Unclaim(c)
    <3>1. NoMoreEntries
      BY <2>2 DEF Miss, Subscribe, Claim, BuildErr, Unclaim, cache
    <3>2. NoneNewAhead
      BY <2>2 DEF Miss, Subscribe, Claim, BuildErr, Unclaim, NoneNewAhead
    <3>. QED  BY <1>0, <3>1, <3>2
  <2>3. ASSUME NEW v \in Built[key[c]], BuildOk(c, v) PROVE Room'
    <3>1. NoneNewAhead
      BY <2>3 DEF BuildOk, NoneNewAhead
    <3>. QED  BY <1>0, <2>3, <3>1 DEF BuildOk, cache
  <2>4. CASE Fail(c) \/ Publish(c)
    BY <1>3, <2>4 DEF Fail, Publish, cache
  <2>5. CASE Evict(c)
    <3>1. PICK d \in BOOLEAN : d <=> view[c].is_disk_backed
      OBVIOUS
    <3>2. view[c].is_disk_backed \in BOOLEAN
      BY <2>5 DEF Evict, View
    <3>3. d = view[c].is_disk_backed
      BY <3>1, <3>2
    <3>4. Drop(Evicted(d))
      BY <2>5, <3>3 DEF Evict
    <3>5. \A e \in Callers : pc[e] = "account" => pc'[e] = "account"
      BY <2>5 DEF Evict
    <3>6. ASSUME NEW b, Kept(view[c]) # b PROVE Ahead(b)' <= Ahead(b) /\ Ahead(b)' \in Nat
      <4>1. InHand(b)' \subseteq InHand(b) /\ JobInHand(b)' \subseteq JobInHand(b)
        BY <2>5, <3>6 DEF Evict, InHand, JobInHand, Kept
      <4>2. InHand(b) \subseteq Callers /\ JobInHand(b) \subseteq Jobs
        BY DEF InHand, JobInHand
      <4>. QED  BY <4>1, <4>2, FewerAhead DEF Ahead
    <3>7. /\ ~ d => Ahead("disk")' <= Ahead("disk") /\ Ahead("disk")' \in Nat
          /\ d => Ahead("memory")' <= Ahead("memory") /\ Ahead("memory")' \in Nat
      BY <3>1, <3>6 DEF Kept
    <3>8. DiskRoom' /\ MemoryRoom'
      BY <3>4, <3>5, <3>7, EvictRoom DEF Room
    <3>. QED  BY <3>8 DEF Room
  <2>6. CASE TakeSeq(c)
    <3>1. NoneNewAhead
      BY <2>6 DEF TakeSeq, NoneNewAhead
    <3>. QED  BY <1>0, <2>6, <3>1 DEF TakeSeq
  <2>7. CASE KeepExisting(c)
    <3>1. NoMoreEntries
      BY <2>7, StampKeepsViews DEF KeepExisting
    <3>2. NoneNewAhead
      BY <2>7 DEF KeepExisting, NoneNewAhead
    <3>. QED  BY <1>0, <3>1, <3>2
  <2>8. CASE Insert(c)
    BY <2>8, InsertRoom DEF Room
  <2>9. CASE Account(c)
    <3>1. NoneNewAhead
      BY <2>9 DEF Account, NoneNewAhead
    <3>. QED  BY <1>0, <2>9, <3>1 DEF Account
  <2>. QED
    BY <1>4, <2>1, <2>2, <2>3, <2>4, <2>5, <2>6, <2>7, <2>8, <2>9 DEF CallerStep
<1>5. ASSUME NEW c \in Callers, DropClaimed(c) PROVE Room'
  <2>1. NoneNewAhead
    BY <1>5 DEF DropClaimed, Goto, NoneNewAhead, jobVars, TypeOK, CallersOK
  <2>. QED  BY <1>0, <1>5, <2>1 DEF DropClaimed, cache
<1>6. ASSUME NEW c \in Callers, DropUnclaimed(c) PROVE Room'
  BY <1>3, <1>6 DEF DropUnclaimed, cache
<1>7. ASSUME NEW j \in Jobs, NEW k \in Keys, StartJob(j, k) PROVE Room'
  <2>1. NoneNewAhead
    BY <1>7 DEF StartJob, JobGoto, NoneNewAhead, TypeOK, JobsOK
  <2>. QED  BY <1>0, <1>7, <2>1 DEF StartJob, cache
<1>8. ASSUME NEW j \in Jobs, JobStep(j) PROVE Room'
  <2>. USE DEF JobGoto, TypeOK, JobsOK
  <2>1. CASE JobFailed(j) \/ \E v \in Full[jkey[j]] : JobBuilt(j, v)
    <3>1. NoneNewAhead
      BY <2>1 DEF JobFailed, JobBuilt, NoneNewAhead
    <3>. QED  BY <1>0, <2>1, <3>1 DEF JobFailed, JobBuilt, cache
  <2>2. CASE JobEvict(j)
    <3>1. PICK d \in BOOLEAN : d <=> jview[j].is_disk_backed
      OBVIOUS
    <3>2. jview[j].is_disk_backed \in BOOLEAN
      BY <2>2 DEF JobEvict, View
    <3>3. d = jview[j].is_disk_backed
      BY <3>1, <3>2
    <3>4. Drop(Evicted(d))
      BY <2>2, <3>3 DEF JobEvict
    <3>5. \A e \in Callers : pc[e] = "account" => pc'[e] = "account"
      BY <2>2 DEF JobEvict
    <3>6. ASSUME NEW b, Kept(jview[j]) # b PROVE Ahead(b)' <= Ahead(b) /\ Ahead(b)' \in Nat
      <4>1. InHand(b)' \subseteq InHand(b) /\ JobInHand(b)' \subseteq JobInHand(b)
        BY <2>2, <3>6 DEF JobEvict, InHand, JobInHand, Kept
      <4>2. InHand(b) \subseteq Callers /\ JobInHand(b) \subseteq Jobs
        BY DEF InHand, JobInHand
      <4>. QED  BY <4>1, <4>2, FewerAhead DEF Ahead
    <3>7. /\ ~ d => Ahead("disk")' <= Ahead("disk") /\ Ahead("disk")' \in Nat
          /\ d => Ahead("memory")' <= Ahead("memory") /\ Ahead("memory")' \in Nat
      BY <3>1, <3>6 DEF Kept
    <3>8. DiskRoom' /\ MemoryRoom'
      BY <3>4, <3>5, <3>7, EvictRoom DEF Room
    <3>. QED  BY <3>8 DEF Room
  <2>3. CASE JobInsert(j)
    BY <2>3, JobInsertRoom DEF Room
  <2>. QED  BY <1>8, <2>1, <2>2, <2>3 DEF JobStep
<1>9. ASSUME NEW s \in Sources, RemoveSource(s) PROVE Room'
  <2>1. NoneNewAhead
    BY <1>9 DEF RemoveSource, NoneNewAhead, jobVars
  <2>. QED  BY <1>0, <1>9, <2>1 DEF RemoveSource, cache
<1>10. ASSUME NEW s \in Sources, InvalidateSource(s) PROVE Room'
  <2>1. NoneNewAhead
    BY <1>10 DEF InvalidateSource, NoneNewAhead, jobVars
  <2>. QED  BY <1>0, <1>10, <2>1 DEF InvalidateSource, Drop
<1>11. CASE UNCHANGED vars
  <2>1. NoneNewAhead
    BY <1>11 DEF vars, jobVars, NoneNewAhead
  <2>. QED  BY <1>0, <1>11, <2>1 DEF vars, cache
<1>. QED
  BY <1>1, <1>2, <1>4, <1>5, <1>6, <1>7, <1>8, <1>9, <1>10, <1>11 DEF Next

(* However requests and jobs interleave, each exceeds a limit by one view  *)
(* at most, and no sequence of requests adds up to more.                   *)
THEOREM LimitsHold == Spec => []OvershootBounded
<1>1. ASSUME TypeOK, Room PROVE OvershootBounded
  <2>. DEFINE d == Ahead("disk")
              m == Ahead("memory")
  <2>1. /\ d \in Nat /\ m \in Nat /\ Inserters \in Nat /\ LargestView \in Nat
        /\ Cardinality(DiskKeys) \in Nat /\ Total \in Nat
    BY <1>1, AheadNat, LargestIsLargest, DiskKeysNat, BytesOfNat DEF TypeOK, Total
  <2>2. /\ Cardinality(DiskKeys) + d <= SatSub(MaxDiskBacked, 1) + Inserters
        /\ Total + m * LargestView <= SatSub(MaxMemoryBytes, 1) + Inserters * LargestView
    BY <1>1 DEF Room, DiskRoom, MemoryRoom
  <2>. HIDE DEF d, m
  <2>3. m * LargestView \in Nat /\ Inserters * LargestView \in Nat
    BY <2>1, Times
  <2>. QED  BY <2>1, <2>2, <2>3, LimitsNat DEF OvershootBounded, Total
<1>. QED
  BY <1>1, InitSmall, NextSmall, InitRoom, NextRoom, TypeCorrect, DiskCountCorrect, BytesCorrect,
     PTL DEF Spec

=============================================================================
