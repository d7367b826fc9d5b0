------------------------- MODULE ClientSession_proofs -------------------------
(* Theorems about ClientSession for any sources, pipelines and columns.    *)
EXTENDS ClientSession, TLAPS

(***************************************************************************)
(* Bags of requests.                                                       *)
(***************************************************************************)

(* The union of two bags has the elements of both.                         *)
LEMMA AddBags ==
  ASSUME NEW A, NEW B, IsABag(A), IsABag(B)
  PROVE  /\ IsABag(A (+) B)
         /\ DOMAIN (A (+) B) = DOMAIN A \cup DOMAIN B
         /\ \A e \in DOMAIN A \ DOMAIN B : (A (+) B)[e] = A[e]
         /\ \A e \in DOMAIN B \ DOMAIN A : (A (+) B)[e] = B[e]
<1>. DEFINE C == A (+) B
<1>1. /\ C = [e \in DOMAIN A \cup DOMAIN B |->
               (IF e \in DOMAIN A THEN A[e] ELSE 0) + (IF e \in DOMAIN B THEN B[e] ELSE 0)]
  BY DEF (+)
<1>2. \A e \in DOMAIN A \cup DOMAIN B : C[e] \in {n \in Nat : n > 0}
  BY <1>1 DEF IsABag
<1>. QED  BY <1>1, <1>2 DEF IsABag

(* A set is a bag with one copy of each element.                           *)
LEMMA SetBag ==
  ASSUME NEW S
  PROVE  IsABag(SetToBag(S)) /\ DOMAIN SetToBag(S) = S /\ \A e \in S : SetToBag(S)[e] = 1
BY DEF IsABag, SetToBag

(* Taking an element of a bag takes one copy of it and leaves the others.  *)
LEMMA TakeFromBag ==
  ASSUME NEW A, NEW r, IsABag(A), r \in DOMAIN A
  PROVE  /\ IsABag(A (-) SetToBag({r}))
         /\ DOMAIN (A (-) SetToBag({r})) \subseteq DOMAIN A
         /\ \A e \in DOMAIN A \ {r} :
              e \in DOMAIN (A (-) SetToBag({r})) /\ (A (-) SetToBag({r}))[e] = A[e]
         /\ A[r] = 1 => r \notin DOMAIN (A (-) SetToBag({r}))
<1>. DEFINE One == SetToBag({r})
            D   == [e \in DOMAIN A |-> IF e \in DOMAIN One THEN A[e] - One[e] ELSE A[e]]
            C   == A (-) One
<1>1. DOMAIN One = {r} /\ One[r] = 1
  BY SetBag
<1>2. C = [e \in {d \in DOMAIN D : D[d] > 0} |-> D[e]]
  BY DEF (-)
<1>3. \A e \in DOMAIN A : A[e] \in Nat /\ A[e] > 0
  BY DEF IsABag
<1>4. DOMAIN D = DOMAIN A /\ \A e \in DOMAIN A : D[e] = IF e = r THEN A[r] - 1 ELSE A[e]
  BY <1>1
<1>. HIDE DEF D, One
<1>5. \A e \in DOMAIN A : D[e] \in Nat
  BY <1>3, <1>4
<1>6. DOMAIN C = {d \in DOMAIN A : D[d] > 0} /\ \A e \in DOMAIN C : C[e] = D[e]
  BY <1>2, <1>4
<1>7. IsABag(C)
  <2>1. C = [e \in DOMAIN C |-> C[e]]
    BY <1>2
  <2>. QED  BY <1>5, <1>6, <2>1 DEF IsABag
<1>8. \A e \in DOMAIN A \ {r} : e \in DOMAIN C /\ C[e] = A[e]
  BY <1>3, <1>4, <1>6
<1>9. A[r] = 1 => r \notin DOMAIN C
  BY <1>4, <1>6
<1>. QED  BY <1>6, <1>7, <1>8, <1>9 DEF One

(* EmptyBag adds nothing.                                                  *)
LEMMA NoBag == IsABag(EmptyBag) /\ DOMAIN EmptyBag = {}
BY SetBag DEF EmptyBag

(* Adding requests that are not for statistics leaves those that are.      *)
LEMMA AddQuietly ==
  ASSUME NEW A, IsABag(A), NEW B, IsABag(B), \A e \in DOMAIN B : e.kind # "stats"
  PROVE  /\ IsABag(A (+) B) /\ DOMAIN (A (+) B) = DOMAIN A \cup DOMAIN B
         /\ \A e \in DOMAIN A : e.kind = "stats" => (A (+) B)[e] = A[e]
BY AddBags

(***************************************************************************)
(* The inductive invariant.                                                *)
(***************************************************************************)

StoresOK ==
  /\ source \in Sources \cup {None} /\ sourceId \in Sources \cup {None}
  /\ ops \in Ops
  /\ IsABag(requests)

(* What a reload or a link restores is a view.                             *)
LinksOK ==
  /\ registered \subseteq Sources /\ snapshots \subseteq View
  /\ hash \in View \cup {None}
  /\ path = Root \/ path \in [kind : {"view", "share"}, of : View]
  /\ \A r \in DOMAIN requests : r.kind \in {"hash", "share", "snapshot"} => r.of \in View

(* The code is that of the view, and so is what is asked for.              *)
CodeInv ==
  /\ CodeIsOfTheView
  /\ \A r \in UnderWay("code") : r.of = view

(* A request for statistics is told by its key.                            *)
StatsInv ==
  /\ OneStatsRequest
  /\ \A r \in UnderWay("stats") : r = Request("stats", r.of, r.of.source)

Shown == source # None /\ sourceId = source

CountInv ==
  Shown => "count" \in timers \cup late \cup failed \/ Waiting("count") \/ count = CountOf(view)

SchemaInv ==
  Shown => "schema" \in late \cup failed \/ Waiting("schema") \/ schema = SchemaOf(view)

Asking(s) == \E r \in UnderWay("correlations") : r.of.source = s

(* What fetching names is on its way.                                      *)
CorrelationsInv ==
  /\ source # None => correlations = source \/ "correlations" \in failed \/ Asking(source)
  /\ fetching # None => Asking(fetching)

FeedsOK == CodeInv /\ StatsInv /\ CountInv /\ SchemaInv /\ CorrelationsInv

Inv == StoresOK /\ FeedsOK /\ LinksOK

FeedKinds == {"count", "schema", "code", "correlations", "stats"}
Quiet(r)  == r.kind \notin FeedKinds

(* The requests under way but for some that no feed is about.              *)
Leaves(rest) ==
  /\ IsABag(rest) /\ DOMAIN rest \subseteq DOMAIN requests
  /\ \A e \in DOMAIN requests : ~ Quiet(e) => e \in DOMAIN rest /\ rest[e] = requests[e]

(* An answer that is no feed's leaves the feeds' requests.                 *)
LEMMA LessLeaves ==
  ASSUME StoresOK, NEW r \in DOMAIN requests, Quiet(r)
  PROVE  Leaves(Less(r))
BY TakeFromBag DEF StoresOK, Leaves, Less, Quiet

(* So does a step that takes none.                                         *)
LEMMA AllLeaves == StoresOK => Leaves(requests)
BY DEF StoresOK, Leaves

(* The requests that Become leaves under way, and those it sends.          *)
CodeRuns(id, o, panels) ==
  ViewOf(id, o) # view \/ (("export" \in panels) # ("export" \in open))

CorrAsks(s) == s # source /\ CorrelationsWanted(s, correlations, fetching)

NewStats(s, panels) == {Request("stats", Key(s, c), s) : c \in StatsWanted(s, panels)}

(* The bag that Become leaves, without its order of unions.                *)
LEMMA BecomeRequests ==
  ASSUME NEW rest, IsABag(rest), NEW s, NEW object \in BOOLEAN, NEW id, NEW o, NEW panels,
         NEW resets, Become(rest, s, object, id, o, panels, resets)
  PROVE  LET v == ViewOf(id, o)
         IN  /\ IsABag(requests')
             /\ \A e : e \in DOMAIN requests' <=>
                  \/ e \in DOMAIN rest /\ ~ (CodeRuns(id, o, panels) /\ e.kind = "code")
                  \/ SchemaWanted(v, s, object) /\ e = Request("schema", v, s)
                  \/ CodeRuns(id, o, panels) /\ CodeWanted(v, panels) /\ e = Request("code", v, s)
                  \/ CorrAsks(s) /\ e = Request("correlations", Total(s), s)
                  \/ MatrixWanted(s, panels) /\ e = Request("matrix", Total(s), s)
                  \/ e \in NewStats(s, panels)
             /\ \A e \in DOMAIN rest \ NewStats(s, panels) :
                  e.kind = "stats" => requests'[e] = rest[e]
             /\ \A e \in NewStats(s, panels) \ DOMAIN rest : requests'[e] = 1
<1>. DEFINE v  == ViewOf(id, o)
            cr == CodeRuns(id, o, panels)
            c1 == SchemaWanted(v, s, object)
            c2 == cr /\ CodeWanted(v, panels)
            c3 == CorrAsks(s)
            c4 == MatrixWanted(s, panels)
            s1 == Sent("schema", c1, v, s)
            s2 == Sent("code", c2, v, s)
            s3 == Sent("correlations", c3, Total(s), s)
            s4 == Sent("matrix", c4, Total(s), s)
            b0 == Without(rest, cr)
            b1 == b0 (+) s1
            b2 == b1 (+) s2
            b3 == b2 (+) s3
            b4 == b3 (+) s4
            N  == NewStats(s, panels)
<1>1. requests' = b4 (+) SetToBag(N)
  BY DEF Become, CodeRuns, CorrAsks, NewStats
<1>2. c1 \in BOOLEAN /\ c2 \in BOOLEAN /\ c3 \in BOOLEAN /\ c4 \in BOOLEAN /\ cr \in BOOLEAN
  BY DEF SchemaWanted, CodeRuns, CodeWanted, CorrAsks, CorrelationsWanted, MatrixWanted, Runs
<1>3. /\ IsABag(b0) /\ \A e : e \in DOMAIN b0 <=> e \in DOMAIN rest /\ ~ (cr /\ e.kind = "code")
      /\ \A e \in DOMAIN b0 : b0[e] = rest[e]
  BY <1>2 DEF Without, IsABag
<1>4. /\ IsABag(s1) /\ \A e : e \in DOMAIN s1 <=> c1 /\ e = Request("schema", v, s)
      /\ IsABag(s2) /\ \A e : e \in DOMAIN s2 <=> c2 /\ e = Request("code", v, s)
      /\ IsABag(s3) /\ \A e : e \in DOMAIN s3 <=> c3 /\ e = Request("correlations", Total(s), s)
      /\ IsABag(s4) /\ \A e : e \in DOMAIN s4 <=> c4 /\ e = Request("matrix", Total(s), s)
  <2>. HIDE DEF v, c1, c2, c3, c4
  <2>. QED  BY <1>2, SetBag, NoBag DEF Sent
<1>. HIDE DEF v, cr, c1, c2, c3, c4, b0, s1, s2, s3, s4
<1>5. /\ IsABag(b1)
      /\ \A e : e \in DOMAIN b1 <=> e \in DOMAIN b0 \/ (c1 /\ e = Request("schema", v, s))
      /\ \A e \in DOMAIN b0 : e.kind = "stats" => b1[e] = b0[e]
  <2>1. \A e \in DOMAIN s1 : e.kind # "stats"
    BY <1>4 DEF Request
  <2>2. /\ IsABag(b0 (+) s1) /\ DOMAIN (b0 (+) s1) = DOMAIN b0 \cup DOMAIN s1
        /\ \A e \in DOMAIN b0 : e.kind = "stats" => (b0 (+) s1)[e] = b0[e]
    BY <1>3, <1>4, <2>1, AddQuietly
  <2>. QED  BY <1>4, <2>2
<1>. HIDE DEF b1
<1>6. /\ IsABag(b2)
      /\ \A e : e \in DOMAIN b2 <=> e \in DOMAIN b1 \/ (c2 /\ e = Request("code", v, s))
      /\ \A e \in DOMAIN b1 : e.kind = "stats" => b2[e] = b1[e]
  <2>1. \A e \in DOMAIN s2 : e.kind # "stats"
    BY <1>4 DEF Request
  <2>2. /\ IsABag(b1 (+) s2) /\ DOMAIN (b1 (+) s2) = DOMAIN b1 \cup DOMAIN s2
        /\ \A e \in DOMAIN b1 : e.kind = "stats" => (b1 (+) s2)[e] = b1[e]
    BY <1>5, <1>4, <2>1, AddQuietly
  <2>. QED  BY <1>4, <2>2
<1>. HIDE DEF b2
<1>7. /\ IsABag(b3)
      /\ \A e : e \in DOMAIN b3 <=>
           e \in DOMAIN b2 \/ (c3 /\ e = Request("correlations", Total(s), s))
      /\ \A e \in DOMAIN b2 : e.kind = "stats" => b3[e] = b2[e]
  <2>1. \A e \in DOMAIN s3 : e.kind # "stats"
    BY <1>4 DEF Request
  <2>2. /\ IsABag(b2 (+) s3) /\ DOMAIN (b2 (+) s3) = DOMAIN b2 \cup DOMAIN s3
        /\ \A e \in DOMAIN b2 : e.kind = "stats" => (b2 (+) s3)[e] = b2[e]
    BY <1>6, <1>4, <2>1, AddQuietly
  <2>. QED  BY <1>4, <2>2
<1>. HIDE DEF b3
<1>8. /\ IsABag(b4)
      /\ \A e : e \in DOMAIN b4 <=> e \in DOMAIN b3 \/ (c4 /\ e = Request("matrix", Total(s), s))
      /\ \A e \in DOMAIN b3 : e.kind = "stats" => b4[e] = b3[e]
  <2>1. \A e \in DOMAIN s4 : e.kind # "stats"
    BY <1>4 DEF Request
  <2>2. /\ IsABag(b3 (+) s4) /\ DOMAIN (b3 (+) s4) = DOMAIN b3 \cup DOMAIN s4
        /\ \A e \in DOMAIN b3 : e.kind = "stats" => (b3 (+) s4)[e] = b3[e]
    BY <1>7, <1>4, <2>1, AddQuietly
  <2>. QED  BY <1>4, <2>2
<1>. HIDE DEF b4
<1>9. /\ IsABag(requests')
      /\ \A e : e \in DOMAIN requests' <=> e \in DOMAIN b4 \/ e \in N
      /\ \A e \in DOMAIN b4 \ N : requests'[e] = b4[e]
      /\ \A e \in N \ DOMAIN b4 : requests'[e] = 1
  <2>. DEFINE M == SetToBag(N)
  <2>1. IsABag(M) /\ DOMAIN M = N /\ \A e \in N : M[e] = 1
    BY SetBag
  <2>. HIDE DEF M, N
  <2>2. /\ IsABag(b4 (+) M) /\ DOMAIN (b4 (+) M) = DOMAIN b4 \cup DOMAIN M
        /\ \A e \in DOMAIN b4 \ DOMAIN M : (b4 (+) M)[e] = b4[e]
        /\ \A e \in DOMAIN M \ DOMAIN b4 : (b4 (+) M)[e] = M[e]
    BY <1>8, <2>1, AddBags
  <2>. QED  BY <1>1, <2>1, <2>2 DEF M
<1>10. \A e \in N : e.kind = "stats"
  BY DEF NewStats, Request
<1>. HIDE DEF N
<1>11. \A e \in DOMAIN rest : e.kind = "stats" => e \in DOMAIN b4 /\ b4[e] = rest[e]
  BY <1>3, <1>5, <1>6, <1>7, <1>8
<1>12. \A e \in N : e \in DOMAIN b4 <=> e \in DOMAIN rest
  BY <1>3, <1>5, <1>6, <1>7, <1>8, <1>10 DEF Request
<1>13. \A e : e \in DOMAIN requests' <=>
              \/ e \in DOMAIN rest /\ ~ (cr /\ e.kind = "code")
              \/ c1 /\ e = Request("schema", v, s)
              \/ c2 /\ e = Request("code", v, s)
              \/ c3 /\ e = Request("correlations", Total(s), s)
              \/ c4 /\ e = Request("matrix", Total(s), s)
              \/ e \in N
  BY <1>3, <1>5, <1>6, <1>7, <1>8, <1>9
<1>14. /\ \A e \in DOMAIN rest \ N : e.kind = "stats" => requests'[e] = rest[e]
       /\ \A e \in N \ DOMAIN rest : requests'[e] = 1
  BY <1>9, <1>11, <1>12
<1>. QED  BY <1>9, <1>13, <1>14 DEF v, cr, c1, c2, c3, c4, N

(***************************************************************************)
(* Steps that show another source, pipeline or panel.                      *)
(***************************************************************************)

(* No link comes under way but one that was before.                        *)
NoNewLink ==
  \A r \in DOMAIN requests' : r.kind \in {"hash", "share", "snapshot"} => r \in DOMAIN requests

(* Such a step keeps each feed of the new view, or asks for it, or waits.   *)
LEMMA BecomeKeeps ==
  ASSUME StoresOK, FeedsOK, NEW rest, Leaves(rest), NEW s \in Sources \cup {None},
         NEW object \in BOOLEAN, NEW id \in Sources \cup {None}, NEW o \in Ops, NEW panels,
         NEW resets, object \/ s = source \/ s = None,
         Become(rest, s, object, id, o, panels, resets)
  PROVE  StoresOK' /\ FeedsOK' /\ NoNewLink
<1>. DEFINE v == ViewOf(id, o)
<1>. USE DEF FeedsOK
<1>1. IsABag(rest)
  BY DEF Leaves
<1>2. /\ IsABag(requests')
      /\ \A e : e \in DOMAIN requests' <=>
           \/ e \in DOMAIN rest /\ ~ (CodeRuns(id, o, panels) /\ e.kind = "code")
           \/ SchemaWanted(v, s, object) /\ e = Request("schema", v, s)
           \/ CodeRuns(id, o, panels) /\ CodeWanted(v, panels) /\ e = Request("code", v, s)
           \/ CorrAsks(s) /\ e = Request("correlations", Total(s), s)
           \/ MatrixWanted(s, panels) /\ e = Request("matrix", Total(s), s)
           \/ e \in NewStats(s, panels)
      /\ \A e \in DOMAIN rest \ NewStats(s, panels) : e.kind = "stats" => requests'[e] = rest[e]
      /\ \A e \in NewStats(s, panels) \ DOMAIN rest : requests'[e] = 1
  BY <1>1, BecomeRequests
<1>3. source' = s /\ sourceId' = id /\ ops' = o /\ open' = panels /\ view' = v
  BY DEF Become, view
<1>4. StoresOK'
  BY <1>2, <1>3 DEF StoresOK
<1>5. \A e \in NewStats(s, panels) : e.kind = "stats"
  BY DEF NewStats, Request
<1>6. NoNewLink
  BY <1>2, <1>5 DEF NoNewLink, Request, Leaves
<1>7. CodeInv'
  <2>1. code' = IF CodeRuns(id, o, panels) /\ CodeWanted(v, panels) THEN None ELSE code
    BY DEF Become, CodeRuns
  <2>2. ASSUME NEW r \in DOMAIN requests', r.kind = "code"
        PROVE  r.of = v
    BY <1>2, <1>5, <2>2 DEF Leaves, CodeInv, UnderWay, BagToSet, CodeRuns, Request
  <2>3. ("export" \in panels /\ v # None /\ code' # None) => code' = v
    BY <2>1 DEF CodeRuns, CodeWanted, CodeInv, CodeIsOfTheView
  <2>. QED  BY <1>3, <2>2, <2>3 DEF CodeInv, CodeIsOfTheView, UnderWay, BagToSet
<1>8. StatsInv'
  <2>. DEFINE cols == StatsWanted(s, panels)
  <2>1. pending' = pending \cup {Key(s, c) : c \in cols} /\ UNCHANGED stats
    BY DEF Become
  <2>2. \A c \in cols : Key(s, c) \notin pending
    BY DEF StatsWanted, FetchStats
  <2>3. \A e : e \in DOMAIN requests' /\ e.kind = "stats" <=>
                (e \in DOMAIN requests /\ e.kind = "stats") \/ e \in NewStats(s, panels)
    BY <1>2, <1>5 DEF Leaves, Quiet, FeedKinds, Request
  <2>4. \A c \in cols : Request("stats", Key(s, c), s).of = Key(s, c) /\ Key(s, c).source = s
    BY DEF Request, Key
  <2>5. \A e \in NewStats(s, panels) : e = Request("stats", e.of, e.of.source)
    BY <2>4 DEF NewStats
  <2>6. {e.of : e \in NewStats(s, panels)} = {Key(s, c) : c \in cols}
    BY <2>4 DEF NewStats
  <2>7. \A e \in NewStats(s, panels) : e \notin DOMAIN requests
    BY <1>5, <2>2, <2>4 DEF NewStats, StatsInv, OneStatsRequest, UnderWay, BagToSet
  <2>8. \A e \in DOMAIN requests : e.kind = "stats" => requests'[e] = 1
    BY <1>2, <2>7 DEF Leaves, Quiet, FeedKinds, StatsInv, OneStatsRequest, UnderWay, BagToSet
  <2>9. \A e \in NewStats(s, panels) : requests'[e] = 1
    BY <1>2, <2>7 DEF Leaves
  <2>10. UnderWay("stats")' = UnderWay("stats") \cup NewStats(s, panels)
    BY <2>3 DEF UnderWay, BagToSet
  <2>11. {r.of : r \in UnderWay("stats")'} = pending'
    BY <2>1, <2>6, <2>10 DEF StatsInv, OneStatsRequest
  <2>. QED
    BY <2>5, <2>8, <2>9, <2>10, <2>11 DEF StatsInv, OneStatsRequest, UnderWay, BagToSet
<1>9. ASSUME NEW kind \in {"count", "schema", "correlations"}, NEW e \in UnderWay(kind)
      PROVE  e \in UnderWay(kind)'
  BY <1>2, <1>9 DEF UnderWay, BagToSet, Leaves, Quiet, FeedKinds
<1>10. ASSUME Shown', ~ object, v = view PROVE Shown /\ s = source
  BY <1>3, <1>10, FeedsAssumption DEF Shown, view, ViewOf, View, StoresOK
<1>11. CountInv'
  <2>. SUFFICES ASSUME Shown'
                PROVE  \/ "count" \in timers' \cup late' \cup failed' \/ Waiting("count")'
                       \/ count' = CountOf(v)
    BY <1>3 DEF CountInv
  <2>1. id = s /\ s \in Sources /\ v = [source |-> s, ops |-> o] /\ v # None
    BY <1>3, FeedsAssumption DEF Shown, ViewOf, View
  <2>2. CASE object \/ v # view
    <3>1. CASE o \in CountChanging
      <4>1. CountEffect(v, s, object)
        BY <2>1, <2>2, <3>1, FeedsAssumption DEF CountEffect
      <4>. QED  BY <4>1 DEF Become
    <3>2. CASE o \notin CountChanging
      <4>1. v.ops \notin CountChanging /\ s # None
        BY <2>1, <3>2, FeedsAssumption
      <4>2. count' = Total(s)
        BY <2>1, <2>2, <4>1 DEF Become, CountNow
      <4>3. CountOf(v) = Total(s)
        BY <2>1, <4>1 DEF CountOf, Total
      <4>. QED  BY <4>2, <4>3
    <3>. QED  BY <3>1, <3>2
  <2>3. CASE ~ object /\ v = view
    <3>1. Shown /\ s = source
      BY <1>10, <2>3
    <3>2. Waiting("count") => Waiting("count")'
      BY <1>9 DEF Waiting
    <3>3. late' = late /\ failed' = failed \cup resets
      BY <2>3, <3>1 DEF Become
    <3>4. "count" \in timers => "count" \in timers'
      BY <2>3 DEF Become, CountEffect
    <3>5. "count" \in resets \/ count' = count
      BY <2>3 DEF Become, CountNow
    <3>. QED  BY <2>3, <3>1, <3>2, <3>3, <3>4, <3>5 DEF CountInv
  <2>. QED  BY <2>2, <2>3
<1>12. SchemaInv'
  <2>. SUFFICES ASSUME Shown'
                PROVE  \/ "schema" \in late' \cup failed' \/ Waiting("schema")'
                       \/ schema' = SchemaOf(v)
    BY <1>3 DEF SchemaInv
  <2>1. id = s /\ s \in Sources /\ v = [source |-> s, ops |-> o] /\ v # None /\ s # None
    BY <1>3, FeedsAssumption DEF Shown, ViewOf, View
  <2>2. CASE object \/ v # view
    <3>1. CASE SchemaWanted(v, s, object)
      <4>1. Request("schema", v, s) \in UnderWay("schema")'
        BY <1>2, <3>1 DEF UnderWay, BagToSet, Request
      <4>. QED  BY <4>1 DEF Waiting
    <3>2. CASE ~ SchemaWanted(v, s, object)
      BY <2>1, <2>2, <3>2 DEF Become, SchemaNow, SchemaWanted
    <3>. QED  BY <3>1, <3>2
  <2>3. CASE ~ object /\ v = view
    <3>1. Shown /\ s = source
      BY <1>10, <2>3
    <3>2. Waiting("schema") => Waiting("schema")'
      BY <1>9 DEF Waiting
    <3>3. late' = late /\ failed' = failed \cup resets
      BY <2>3, <3>1 DEF Become
    <3>4. "schema" \in resets \/ schema' = schema
      BY <2>3 DEF Become, SchemaNow
    <3>. QED  BY <2>3, <3>1, <3>2, <3>3, <3>4 DEF SchemaInv
  <2>. QED  BY <2>2, <2>3
<1>13. CorrelationsInv'
  <2>1. \A t : Asking(t) => Asking(t)'
    BY <1>9 DEF Asking
  <2>2. CASE CorrAsks(s)
    <3>1. Request("correlations", Total(s), s) \in UnderWay("correlations")'
      BY <1>2, <2>2 DEF UnderWay, BagToSet, Request
    <3>2. Asking(s)'
      BY <3>1 DEF Asking, Request, Total
    <3>3. fetching' = s
      BY <2>2 DEF Become, CorrAsks
    <3>. QED  BY <1>3, <3>2, <3>3 DEF CorrelationsInv
  <2>3. CASE ~ CorrAsks(s)
    <3>1. fetching' = fetching /\ correlations' = correlations
      BY <2>3 DEF Become, CorrAsks
    <3>2. ASSUME s # None
          PROVE  correlations = s \/ "correlations" \in failed' \/ Asking(s)'
      <4>1. CASE s = source
        <5>1. "correlations" \in failed => "correlations" \in failed'
          BY <4>1 DEF Become
        <5>. QED  BY <2>1, <3>2, <4>1, <5>1 DEF CorrelationsInv
      <4>2. CASE s # source
        BY <2>1, <2>3, <3>2, <4>2 DEF CorrAsks, CorrelationsWanted, CorrelationsInv
      <4>. QED  BY <4>1, <4>2
    <3>. QED  BY <1>3, <2>1, <3>1, <3>2 DEF CorrelationsInv
  <2>. QED  BY <2>2, <2>3
<1>. QED  BY <1>4, <1>6, <1>7, <1>8, <1>11, <1>12, <1>13

(***************************************************************************)
(* Steps that stay on the view: what each feed needs to be left alone.     *)
(***************************************************************************)

SameView == UNCHANGED <<source, sourceId, ops>>

(* The requests of a kind that are under way stay so.                      *)
StillAsked(kind) == \A e \in UnderWay(kind) : e \in UnderWay(kind)'

Kept(kind) ==
  /\ StillAsked(kind)
  /\ kind \in late => kind \in late'
  /\ kind \in failed => kind \in failed'

(* One lemma for each feed.                                                *)
LEMMA CodeStays ==
  ASSUME CodeInv, SameView, UNCHANGED code, "export" \in open' <=> "export" \in open,
         \A e \in UnderWay("code")' : e \in UnderWay("code")
  PROVE  CodeInv'
BY DEF CodeInv, CodeIsOfTheView, SameView, view

LEMMA StatsStay ==
  ASSUME StatsInv, UNCHANGED pending, UnderWay("stats")' = UnderWay("stats"),
         \A e \in UnderWay("stats") : requests'[e] = requests[e]
  PROVE  StatsInv'
BY DEF StatsInv, OneStatsRequest

LEMMA CountStays ==
  ASSUME CountInv, SameView, UNCHANGED count, Kept("count"),
         "count" \in timers => "count" \in timers'
  PROVE  CountInv'
BY DEF CountInv, SameView, Shown, view, Kept, StillAsked, Waiting

LEMMA SchemaStays ==
  ASSUME SchemaInv, SameView, UNCHANGED schema, Kept("schema")
  PROVE  SchemaInv'
BY DEF SchemaInv, SameView, Shown, view, Kept, StillAsked, Waiting

LEMMA CorrelationsStay ==
  ASSUME CorrelationsInv, SameView, UNCHANGED <<correlations, fetching>>, Kept("correlations")
  PROVE  CorrelationsInv'
BY DEF CorrelationsInv, SameView, Kept, StillAsked, Asking

(* The requests of the feeds are those there were.                         *)
SameRequests ==
  /\ IsABag(requests')
  /\ \A e : ~ Quiet(e) => (e \in DOMAIN requests' <=> e \in DOMAIN requests)
  /\ \A e \in DOMAIN requests : ~ Quiet(e) => requests'[e] = requests[e]

(* So they are when something else is sent.                                *)
LEMMA SendsQuietly ==
  ASSUME StoresOK, NEW x, Quiet(x), requests' = requests (+) SetToBag({x})
  PROVE  SameRequests /\ \A e \in DOMAIN requests' : e \in DOMAIN requests \/ e = x
<1>. DEFINE B == SetToBag({x})
<1>1. IsABag(B) /\ DOMAIN B = {x}
  BY SetBag
<1>. HIDE DEF B
<1>2. /\ IsABag(requests (+) B) /\ DOMAIN (requests (+) B) = DOMAIN requests \cup DOMAIN B
      /\ \A e \in DOMAIN requests \ DOMAIN B : (requests (+) B)[e] = requests[e]
  BY <1>1, AddBags DEF StoresOK
<1>. QED  BY <1>1, <1>2 DEF B, SameRequests

(* What taking an answer does to the requests.                             *)
LEMMA Takes ==
  ASSUME StoresOK, NEW r, Taken(r)
  PROVE  /\ r \in DOMAIN requests /\ IsABag(requests')
         /\ DOMAIN requests' \subseteq DOMAIN requests
         /\ \A e \in DOMAIN requests \ {r} : e \in DOMAIN requests' /\ requests'[e] = requests[e]
         /\ requests[r] = 1 => r \notin DOMAIN requests'
BY TakeFromBag DEF StoresOK, Taken, BagIn, BagToSet

(* So they are when something else is answered.                            *)
LEMMA TakesQuietly ==
  ASSUME StoresOK, NEW r, Taken(r), Quiet(r)
  PROVE  SameRequests /\ DOMAIN requests' \subseteq DOMAIN requests
BY Takes DEF SameRequests

(* Then every feed is left alone.                                          *)
LEMMA FeedsStay ==
  ASSUME StoresOK, FeedsOK, SameView, SameRequests,
         UNCHANGED <<counted, code, correlations, fetching, stats, pending>>,
         "export" \in open' <=> "export" \in open, "count" \in timers => "count" \in timers',
         failed \ {"url"} \subseteq failed'
  PROVE  StoresOK' /\ FeedsOK'
<1>1. ASSUME NEW kind \in FeedKinds PROVE UnderWay(kind)' = UnderWay(kind)
  BY DEF SameRequests, Quiet, UnderWay, BagToSet
<1>2. ASSUME NEW kind \in {"count", "schema", "correlations"} PROVE Kept(kind)
  BY <1>1 DEF Kept, StillAsked, FeedKinds, counted
<1>3. \A e \in UnderWay("stats") : requests'[e] = requests[e]
  BY DEF SameRequests, Quiet, FeedKinds, UnderWay, BagToSet
<1>4. CodeInv' /\ StatsInv'
  BY <1>1, <1>3, CodeStays, StatsStay DEF FeedsOK, FeedKinds
<1>5. CountInv' /\ SchemaInv' /\ CorrelationsInv'
  BY <1>2, CountStays, SchemaStays, CorrelationsStay DEF FeedsOK, counted
<1>6. StoresOK'
  BY DEF StoresOK, SameView, SameRequests
<1>. QED  BY <1>4, <1>5, <1>6 DEF FeedsOK

(***************************************************************************)
(* The feeds' own steps.                                                   *)
(***************************************************************************)

(* An answer takes a request of one kind, and leaves those of the others.  *)
LEMMA OtherKinds ==
  ASSUME StoresOK, NEW r, Taken(r), NEW kind, kind # r.kind
  PROVE  /\ UnderWay(kind)' = UnderWay(kind)
         /\ \A e \in UnderWay(kind) : requests'[e] = requests[e]
BY Takes DEF UnderWay, BagToSet

(* A count is for the view, or noted as late.                              *)
LEMMA CountSteps ==
  ASSUME StoresOK, FeedsOK, NEW r, CountAnswered(r) \/ CountFailed(r)
  PROVE  StoresOK' /\ FeedsOK'
<1>. USE DEF CountAnswered, CountFailed
<1>1. Taken(r) /\ r.kind = "count" /\ SameView
  BY DEF SameView
<1>2. StoresOK'
  BY <1>1, Takes DEF StoresOK, SameView
<1>3. CodeInv' /\ StatsInv'
  BY <1>1, OtherKinds, CodeStays, StatsStay DEF FeedsOK, columns
<1>4. Kept("schema") /\ Kept("correlations")
  BY <1>1, OtherKinds DEF Kept, StillAsked, Noted
<1>5. SchemaInv' /\ CorrelationsInv'
  BY <1>1, <1>4, SchemaStays, CorrelationsStay DEF FeedsOK, explored
<1>6. CountInv'
  BY <1>1 DEF CountInv, Noted, SameView, view
<1>. QED  BY <1>2, <1>3, <1>5, <1>6 DEF FeedsOK

(* So is a schema.                                                         *)
LEMMA SchemaSteps ==
  ASSUME StoresOK, FeedsOK, NEW r, SchemaAnswered(r) \/ SchemaFailed(r)
  PROVE  StoresOK' /\ FeedsOK'
<1>. USE DEF SchemaAnswered, SchemaFailed
<1>1. Taken(r) /\ r.kind = "schema" /\ SameView
  BY DEF SameView
<1>2. StoresOK'
  BY <1>1, Takes DEF StoresOK, SameView
<1>3. CodeInv' /\ StatsInv'
  BY <1>1, OtherKinds, CodeStays, StatsStay DEF FeedsOK, columns
<1>4. Kept("count") /\ Kept("correlations")
  BY <1>1, OtherKinds DEF Kept, StillAsked, Noted
<1>5. CountInv' /\ CorrelationsInv'
  BY <1>1, <1>4, CountStays, CorrelationsStay DEF FeedsOK, explored
<1>6. SchemaInv'
  BY <1>1 DEF SchemaInv, Noted, SameView, view
<1>. QED  BY <1>2, <1>3, <1>5, <1>6 DEF FeedsOK

(* Code is for the view: the request for any other was aborted.            *)
LEMMA CodeSteps ==
  ASSUME StoresOK, FeedsOK, NEW r, CodeAnswered(r) \/ CodeFailed(r) \/ MatrixAnswered(r)
  PROVE  StoresOK' /\ FeedsOK'
<1>. USE DEF CodeAnswered, CodeFailed, MatrixAnswered
<1>1. Taken(r) /\ r.kind \in {"code", "matrix"} /\ SameView
  BY DEF SameView
<1>2. StoresOK'
  BY <1>1, Takes DEF StoresOK, SameView
<1>3. StatsInv'
  BY <1>1, OtherKinds, StatsStay DEF FeedsOK, columns
<1>4. Kept("count") /\ Kept("schema") /\ Kept("correlations")
  BY <1>1, OtherKinds DEF Kept, StillAsked, counted
<1>5. CountInv' /\ SchemaInv' /\ CorrelationsInv'
  BY <1>1, <1>4, CountStays, SchemaStays, CorrelationsStay DEF FeedsOK, counted, explored
<1>6. CodeInv'
  <2>1. \A e \in UnderWay("code")' : e \in UnderWay("code")
    BY <1>1, Takes DEF UnderWay, BagToSet
  <2>2. CASE UNCHANGED code
    BY <1>1, <2>1, <2>2, CodeStays DEF FeedsOK
  <2>3. CASE CodeAnswered(r)
    <3>1. r \in UnderWay("code")
      BY <1>1, <2>3, Takes DEF UnderWay, BagToSet
    <3>2. code' = view /\ view' = view
      BY <1>1, <2>3, <3>1 DEF FeedsOK, CodeInv, SameView, view
    <3>. QED  BY <2>1, <3>2 DEF FeedsOK, CodeInv, CodeIsOfTheView
  <2>. QED  BY <2>2, <2>3
<1>. QED  BY <1>2, <1>3, <1>5, <1>6 DEF FeedsOK

(* The one request for a key is taken with its mark.                       *)
LEMMA StatsSteps ==
  ASSUME StoresOK, FeedsOK, NEW r, StatsAnswered(r) \/ StatsFailed(r)
  PROVE  StoresOK' /\ FeedsOK'
<1>. USE DEF StatsAnswered, StatsFailed
<1>1. Taken(r) /\ r.kind = "stats" /\ SameView
  BY DEF SameView
<1>2. StoresOK'
  BY <1>1, Takes DEF StoresOK, SameView
<1>3. CodeInv'
  BY <1>1, OtherKinds, CodeStays DEF FeedsOK
<1>4. Kept("count") /\ Kept("schema") /\ Kept("correlations")
  BY <1>1, OtherKinds DEF Kept, StillAsked, counted
<1>5. CountInv' /\ SchemaInv' /\ CorrelationsInv'
  BY <1>1, <1>4, CountStays, SchemaStays, CorrelationsStay DEF FeedsOK, counted, explored
<1>6. StatsInv'
  <2>1. r \in UnderWay("stats") /\ requests[r] = 1
    BY <1>1, Takes DEF FeedsOK, StatsInv, OneStatsRequest, UnderWay, BagToSet
  <2>2. UnderWay("stats")' = UnderWay("stats") \ {r}
    BY <1>1, <2>1, Takes DEF UnderWay, BagToSet
  <2>3. \A e \in UnderWay("stats") \ {r} : requests'[e] = requests[e] /\ e.of # r.of
    BY <1>1, <2>1, Takes DEF FeedsOK, StatsInv, UnderWay, BagToSet
  <2>4. {e.of : e \in UnderWay("stats")'} = pending'
    BY <2>1, <2>2, <2>3 DEF FeedsOK, StatsInv, OneStatsRequest
  <2>. QED  BY <2>2, <2>3, <2>4 DEF FeedsOK, StatsInv, OneStatsRequest
<1>. QED  BY <1>2, <1>3, <1>5, <1>6 DEF FeedsOK

(* Correlations of another source are stored, and those of this one are    *)
(* asked for at once.                                                      *)
LEMMA CorrelationsSteps ==
  ASSUME StoresOK, FeedsOK, NEW r, CorrelationsAnswered(r) \/ CorrelationsFailed(r)
  PROVE  StoresOK' /\ FeedsOK' /\ NoNewLink
<1>. DEFINE again == CorrelationsAnswered(r) /\ CorrelationsWanted(source, r.of.source, None)
            left  == Less(r)
            asked == Request("correlations", Total(source), source)
<1>1. r.kind = "correlations" /\ r \in DOMAIN requests /\ SameView /\ again \in BOOLEAN
  BY DEF CorrelationsAnswered, CorrelationsFailed, Taken, BagIn, BagToSet, SameView
<1>2. /\ IsABag(left) /\ DOMAIN left \subseteq DOMAIN requests
      /\ \A e \in DOMAIN requests \ {r} : e \in DOMAIN left /\ left[e] = requests[e]
  BY <1>1, TakeFromBag DEF StoresOK, Less
<1>. HIDE DEF left
<1>3. /\ IsABag(requests')
      /\ \A e : e \in DOMAIN requests' <=> e \in DOMAIN left \/ (again /\ e = asked)
      /\ \A e \in DOMAIN left : e.kind = "stats" => requests'[e] = left[e]
  <2>1. CASE again
    <3>. DEFINE B == SetToBag({asked})
    <3>1. IsABag(B) /\ DOMAIN B = {asked}
      BY SetBag
    <3>2. requests' = left (+) B
      BY <2>1 DEF CorrelationsAnswered, Sent, left, Less
    <3>3. \A e \in DOMAIN B : e.kind # "stats"
      BY <3>1 DEF Request
    <3>. HIDE DEF B, asked
    <3>4. /\ IsABag(left (+) B) /\ DOMAIN (left (+) B) = DOMAIN left \cup DOMAIN B
          /\ \A e \in DOMAIN left : e.kind = "stats" => (left (+) B)[e] = left[e]
      BY <1>2, <3>1, <3>3, AddQuietly
    <3>. QED  BY <2>1, <3>1, <3>2, <3>4
  <2>2. CASE ~ again /\ CorrelationsAnswered(r)
    <3>. DEFINE B == EmptyBag
    <3>1. requests' = left (+) B
      BY <2>2 DEF CorrelationsAnswered, Sent, left, Less
    <3>2. IsABag(B) /\ DOMAIN B = {}
      BY NoBag
    <3>. HIDE DEF B
    <3>3. /\ IsABag(left (+) B) /\ DOMAIN (left (+) B) = DOMAIN left \cup DOMAIN B
          /\ \A e \in DOMAIN left : e.kind = "stats" => (left (+) B)[e] = left[e]
      BY <1>2, <3>2, AddQuietly
    <3>. QED  BY <2>2, <3>1, <3>2, <3>3
  <2>3. CASE ~ again /\ CorrelationsFailed(r)
    BY <1>2, <2>3 DEF CorrelationsFailed, Taken, left, Less
  <2>. QED  BY <2>1, <2>2, <2>3
<1>4. StoresOK'
  BY <1>1, <1>3 DEF StoresOK, SameView
<1>5. ASSUME NEW kind, kind # "correlations" PROVE UnderWay(kind)' = UnderWay(kind)
  BY <1>1, <1>2, <1>3, <1>5 DEF UnderWay, BagToSet, Request
<1>6. \A e \in UnderWay("stats") : requests'[e] = requests[e]
  BY <1>1, <1>2, <1>3 DEF UnderWay, BagToSet
<1>7. CodeInv' /\ StatsInv'
  BY <1>1, <1>5, <1>6, CodeStays, StatsStay
  DEF FeedsOK, columns, CorrelationsAnswered, CorrelationsFailed
<1>8. Kept("count") /\ Kept("schema")
  BY <1>5 DEF Kept, StillAsked, CorrelationsAnswered, CorrelationsFailed, counted
<1>9. CountInv' /\ SchemaInv'
  BY <1>1, <1>8, CountStays, SchemaStays
  DEF FeedsOK, counted, CorrelationsAnswered, CorrelationsFailed
<1>10. again => Asking(source)'
  <2>1. asked.kind = "correlations" /\ asked.of.source = source
    BY DEF Request, Total
  <2>. QED  BY <1>1, <1>3, <2>1 DEF Asking, UnderWay, BagToSet, SameView
<1>11. CorrelationsInv'
  <2>1. CASE CorrelationsAnswered(r)
    <3>1. correlations' = r.of.source /\ fetching' = IF again THEN source ELSE None
      BY <2>1 DEF CorrelationsAnswered
    <3>2. source # None => r.of.source = source \/ again
      BY <2>1, FeedsAssumption DEF CorrelationsWanted, StoresOK
    <3>. QED  BY <1>1, <1>10, <3>1, <3>2 DEF CorrelationsInv, SameView
  <2>2. CASE CorrelationsFailed(r)
    <3>1. fetching' = None /\ UNCHANGED correlations
      BY <2>2 DEF CorrelationsFailed
    <3>2. "correlations" \in failed => "correlations" \in failed'
      BY <2>2 DEF CorrelationsFailed
    <3>3. r.of.source = source => "correlations" \in failed'
      BY <2>2 DEF CorrelationsFailed
    <3>4. r.of.source # source /\ Asking(source) => Asking(source)'
      BY <1>1, <1>2, <1>3 DEF Asking, UnderWay, BagToSet, SameView
    <3>. QED  BY <1>1, <3>1, <3>2, <3>3, <3>4 DEF FeedsOK, CorrelationsInv, SameView
  <2>. QED  BY <2>1, <2>2
<1>12. NoNewLink
  BY <1>2, <1>3 DEF NoNewLink, Request
<1>. QED  BY <1>4, <1>7, <1>9, <1>11, <1>12 DEF FeedsOK

(* The timer of the count.                                                 *)
LEMMA CountTimerKeeps ==
  ASSUME StoresOK, FeedsOK, CountTimer
  PROVE  StoresOK' /\ FeedsOK' /\ NoNewLink
<1>. DEFINE x == Request("count", view, source)
            B == SetToBag({x})
<1>1. x.kind = "count" /\ IsABag(B) /\ DOMAIN B = {x}
  BY SetBag DEF Request
<1>2. requests' = requests (+) B /\ SameView
  BY DEF CountTimer, SameView
<1>. HIDE DEF x, B
<1>3. \A e \in DOMAIN B : e.kind # "stats"
  BY <1>1
<1>4. /\ IsABag(requests (+) B) /\ DOMAIN (requests (+) B) = DOMAIN requests \cup DOMAIN B
      /\ \A e \in DOMAIN requests : e.kind = "stats" => (requests (+) B)[e] = requests[e]
  BY <1>1, <1>3, AddQuietly DEF StoresOK
<1>5. StoresOK' /\ NoNewLink
  BY <1>1, <1>2, <1>4 DEF StoresOK, SameView, NoNewLink
<1>6. ASSUME NEW kind, kind # "count" PROVE UnderWay(kind)' = UnderWay(kind)
  BY <1>1, <1>2, <1>4, <1>6 DEF UnderWay, BagToSet
<1>7. \A e \in UnderWay("stats") : requests'[e] = requests[e]
  BY <1>2, <1>4 DEF UnderWay, BagToSet
<1>8. CodeInv' /\ StatsInv'
  BY <1>2, <1>6, <1>7, CodeStays, StatsStay DEF FeedsOK, columns, CountTimer
<1>9. Kept("schema") /\ Kept("correlations")
  BY <1>6 DEF Kept, StillAsked, CountTimer, counted
<1>10. SchemaInv' /\ CorrelationsInv'
  BY <1>2, <1>9, SchemaStays, CorrelationsStay DEF FeedsOK, CountTimer, counted, explored
<1>11. CountInv'
  BY <1>1, <1>2, <1>4 DEF CountInv, Waiting, UnderWay, BagToSet
<1>. QED  BY <1>5, <1>8, <1>10, <1>11 DEF FeedsOK

(* The grid asks for the statistics of a column.                           *)
LEMMA LookAtKeeps ==
  ASSUME StoresOK, FeedsOK, NEW c \in Columns, LookAt(c)
  PROVE  StoresOK' /\ FeedsOK' /\ NoNewLink
<1>. DEFINE x == Request("stats", Key(source, c), source)
            B == SetToBag({x})
<1>1. /\ IsABag(B) /\ DOMAIN B = {x} /\ B[x] = 1
      /\ x.kind = "stats" /\ x.of = Key(source, c) /\ x = Request("stats", x.of, x.of.source)
  BY SetBag DEF Request, Key
<1>2. requests' = requests (+) B /\ SameView
  BY DEF LookAt, SameView
<1>3. x \notin DOMAIN requests
  BY <1>1 DEF LookAt, FetchStats, FeedsOK, StatsInv, OneStatsRequest, UnderWay, BagToSet
<1>. HIDE DEF x, B
<1>4. /\ IsABag(requests (+) B) /\ DOMAIN (requests (+) B) = DOMAIN requests \cup DOMAIN B
      /\ \A e \in DOMAIN requests \ DOMAIN B : (requests (+) B)[e] = requests[e]
      /\ \A e \in DOMAIN B \ DOMAIN requests : (requests (+) B)[e] = B[e]
  BY <1>1, AddBags DEF StoresOK
<1>5. StoresOK' /\ NoNewLink
  BY <1>1, <1>2, <1>4 DEF StoresOK, SameView, NoNewLink
<1>6. ASSUME NEW kind, kind # "stats" PROVE UnderWay(kind)' = UnderWay(kind)
  BY <1>1, <1>2, <1>4, <1>6 DEF UnderWay, BagToSet
<1>7. CodeInv'
  BY <1>2, <1>6, CodeStays DEF FeedsOK, LookAt
<1>8. Kept("count") /\ Kept("schema") /\ Kept("correlations")
  BY <1>6 DEF Kept, StillAsked, LookAt, counted
<1>9. CountInv' /\ SchemaInv' /\ CorrelationsInv'
  BY <1>2, <1>8, CountStays, SchemaStays, CorrelationsStay DEF FeedsOK, LookAt, counted, explored
<1>10. StatsInv'
  <2>1. UnderWay("stats")' = UnderWay("stats") \cup {x}
    BY <1>1, <1>2, <1>4 DEF UnderWay, BagToSet
  <2>2. \A e \in UnderWay("stats") \cup {x} : requests'[e] = 1
    BY <1>1, <1>2, <1>3, <1>4 DEF FeedsOK, StatsInv, OneStatsRequest, UnderWay, BagToSet
  <2>3. pending' = pending \cup {x.of}
    BY <1>1 DEF LookAt
  <2>. QED
    BY <1>1, <2>1, <2>2, <2>3 DEF FeedsOK, StatsInv, OneStatsRequest
<1>. QED  BY <1>5, <1>7, <1>9, <1>10 DEF FeedsOK

(***************************************************************************)
(* The steps of the session.                                               *)
(***************************************************************************)

(* Links stay views when the URL stays or is cleared.                      *)
LEMMA LinksStay ==
  ASSUME LinksOK, NoNewLink, registered' \subseteq Sources, snapshots' \subseteq View,
         hash' \in {hash, None}, path' \in {path, Root}
  PROVE  LinksOK'
BY DEF LinksOK, NoNewLink

(* A step that sends and takes nothing.                                    *)
LEMMA NothingSent == StoresOK /\ UNCHANGED requests => SameRequests /\ NoNewLink
BY DEF StoresOK, SameRequests, NoNewLink

(* A step that changes no store of the feeds.                              *)
LEMMA StaysKeeps ==
  ASSUME StoresOK, FeedsOK, SameRequests, Stays, "export" \in open' <=> "export" \in open
  PROVE  StoresOK' /\ FeedsOK'
<1>1. /\ SameView
      /\ UNCHANGED <<counted, code, correlations, fetching, stats, pending, timers, failed>>
  BY DEF Stays, SameView, explored, columns
<1>. QED  BY <1>1, FeedsStay

(* A panel is opened or closed, or a request is sent for one.              *)
LEMMA PanelSteps ==
  ASSUME Inv,
         \/ ToggleSources \/ OpenAdd \/ Submit \/ CancelAdd \/ OpenCatalog \/ CloseCatalog
         \/ HandleOpen \/ HandleShare \/ \E s \in Sources : HandleDelete(s)
  PROVE  Inv'
<1>. DEFINE Keeps == /\ Stays /\ UNCHANGED <<place, server>>
                     /\ ("export" \in open' <=> "export" \in open)
<1>1. ASSUME Keeps, UNCHANGED requests PROVE Inv'
  BY <1>1, NothingSent, StaysKeeps, LinksStay DEF Inv, LinksOK, place, server
<1>2. ASSUME Keeps, NEW x, Quiet(x), requests' = requests (+) SetToBag({x}),
             x.kind \notin {"hash", "share"}, x.kind = "snapshot" => x.of \in View
      PROVE  Inv'
  <2>1. SameRequests /\ \A e \in DOMAIN requests' : e \in DOMAIN requests \/ e = x
    BY <1>2, SendsQuietly DEF Inv
  <2>2. StoresOK' /\ FeedsOK'
    BY <1>2, <2>1, StaysKeeps DEF Inv
  <2>. QED  BY <1>2, <2>1, <2>2 DEF Inv, LinksOK, place, server
<1>. HIDE DEF Keeps
<1>3. ASSUME NEW kind \in {"list", "delete", "add", "connect", "snapshot"}, NEW of,
             requests' = requests (+) SetToBag({Request(kind, of, source)}), Keeps,
             kind = "snapshot" => of \in View
      PROVE  Inv'
  BY <1>2, <1>3 DEF Request, Quiet, FeedKinds
<1>4. CASE ToggleSources
  BY <1>1, <1>3, <1>4 DEF ToggleSources, Keeps
<1>5. CASE OpenAdd \/ CancelAdd \/ OpenCatalog \/ CloseCatalog
  BY <1>1, <1>5 DEF OpenAdd, CancelAdd, OpenCatalog, CloseCatalog, Keeps
<1>6. CASE Submit \/ HandleOpen \/ \E s \in Sources : HandleDelete(s)
  BY <1>3, <1>6 DEF Submit, HandleOpen, HandleDelete, SendOnly, Keeps
<1>7. CASE HandleShare
  <2>1. view \in View
    BY <1>7 DEF HandleShare, view, ViewOf, View, Inv, StoresOK
  <2>. QED  BY <1>3, <1>7, <2>1 DEF HandleShare, SendOnly, Keeps
<1>. QED  BY <1>4, <1>5, <1>6, <1>7

(* The URL is written.                                                     *)
LEMMA UrlTimerKeeps ==
  ASSUME Inv, UrlTimer
  PROVE  Inv'
<1>1. SameView /\ SameRequests /\ NoNewLink
  BY NothingSent DEF Inv, UrlTimer, SameView
<1>2. StoresOK' /\ FeedsOK'
  BY <1>1, FeedsStay DEF Inv, UrlTimer, explored, columns
<1>3. hash' \in View \cup {None}
  BY DEF UrlTimer, Inv, LinksOK, StoresOK, view, ViewOf, View
<1>. QED  BY <1>1, <1>2, <1>3 DEF Inv, LinksOK, NoNewLink, UrlTimer, server

(* An answer that no feed waits for.                                       *)
LEMMA OtherAnswers ==
  ASSUME Inv, NEW r,
         \/ Listed(r) \/ Refused(r) \/ Snapshotted(r) \/ RestoreFailed(r)
         \/ Deleted(r) /\ r.while # r.of.source
  PROVE  Inv'
<1>. DEFINE Keeps == Taken(r) /\ Quiet(r) /\ SameView
                     /\ UNCHANGED <<counted, code, explored, columns, open, timers>>
                     /\ failed \subseteq failed'
<1>1. ASSUME Keeps, registered' \subseteq Sources, snapshots' \subseteq View,
             hash' \in {hash, None}, path' \in {path, Root}
      PROVE  Inv'
  <2>1. SameRequests /\ NoNewLink
    BY <1>1, TakesQuietly DEF Inv, NoNewLink
  <2>2. StoresOK' /\ FeedsOK'
    BY <1>1, <2>1, FeedsStay DEF Inv, explored, columns
  <2>3. LinksOK'
    BY <1>1, <2>1, LinksStay DEF Inv
  <2>. QED  BY <2>2, <2>3 DEF Inv
<1>. HIDE DEF Keeps
<1>2. CASE Listed(r) \/ Refused(r)
  <2>1. Keeps /\ UNCHANGED <<place, server>>
    BY <1>2 DEF Listed, Refused, Stays, Keeps, Quiet, FeedKinds, SameView
  <2>. QED  BY <1>1, <2>1 DEF Inv, LinksOK, place, server
<1>3. CASE Snapshotted(r)
  <2>1. Keeps /\ UNCHANGED <<place, registered>>
    BY <1>3 DEF Snapshotted, Stays, Keeps, Quiet, FeedKinds, SameView
  <2>2. snapshots' \subseteq View
    BY <1>3 DEF Snapshotted, Taken, BagIn, BagToSet, Inv, LinksOK
  <2>. QED  BY <1>1, <2>1, <2>2 DEF Inv, LinksOK, place
<1>4. CASE RestoreFailed(r)
  <2>1. Keeps /\ UNCHANGED server
    BY <1>4 DEF RestoreFailed, Keeps, Quiet, FeedKinds, SameView
  <2>. QED  BY <1>1, <1>4, <2>1 DEF RestoreFailed, Inv, LinksOK, server
<1>5. CASE Deleted(r) /\ r.while # r.of.source
  <2>1. Keeps /\ UNCHANGED <<place, snapshots>>
    BY <1>5 DEF Deleted, Stays, Keeps, Quiet, FeedKinds, SameView
  <2>2. registered' \subseteq Sources
    BY <1>5 DEF Deleted, Inv, LinksOK
  <2>. QED  BY <1>1, <2>1, <2>2 DEF Inv, LinksOK, place
<1>. QED  BY <1>2, <1>3, <1>4, <1>5

(* A step that shows another source.                                       *)
LEMMA ShowingSteps ==
  ASSUME Inv, NEW rest, Leaves(rest), NEW s \in Sources \cup {None}, NEW object \in BOOLEAN,
         NEW id \in Sources \cup {None}, NEW o \in Ops, NEW panels, NEW resets,
         object \/ s = source \/ s = None, Become(rest, s, object, id, o, panels, resets),
         registered' \subseteq Sources, snapshots' \subseteq View, hash' \in {hash, None},
         path' \in {path, Root}
  PROVE  Inv'
<1>1. StoresOK' /\ FeedsOK' /\ NoNewLink
  BY BecomeKeeps DEF Inv
<1>2. LinksOK'
  BY <1>1, LinksStay DEF Inv
<1>. QED  BY <1>1, <1>2 DEF Inv

(* The answers that show another source.                                   *)
LEMMA AnswerShows ==
  ASSUME Inv, NEW r \in DOMAIN requests,
         \/ Deleted(r) /\ r.while = r.of.source
         \/ Restored(r)
         \/ \E s \in Sources : HandleAdded(r, s) \/ Connected(r, s)
  PROVE  Inv'
<1>1. CASE Deleted(r) /\ r.while = r.of.source
  <2>1. Leaves(Less(r))
    BY <1>1, LessLeaves DEF Deleted, Quiet, FeedKinds, Inv
  <2>2. /\ Become(Less(r), None, source # None, None, NoOps, open, {"count", "schema"})
        /\ registered' \subseteq Sources /\ snapshots' \subseteq View /\ UNCHANGED place
    BY <1>1 DEF Deleted, Show, Inv, LinksOK
  <2>. QED  BY <2>1, <2>2, ShowingSteps, FeedsAssumption DEF place
<1>2. CASE Restored(r)
  <2>. DEFINE v      == RestoredTo(r)
              resets == {"count", "schema"} \cup (IF r.kind = "share" THEN {"url"} ELSE {})
  <2>1. Leaves(Less(r))
    BY <1>2, LessLeaves DEF Restored, Quiet, FeedKinds, Inv
  <2>2. v.source \in Sources /\ v.ops \in Ops
    BY <1>2, FeedsAssumption DEF Restored, RestoredTo, Total, View, Inv, LinksOK
  <2>3. Become(Less(r), v.source, TRUE, v.source, v.ops, open, resets)
    BY <1>2 DEF Restored
  <2>4. /\ registered' \subseteq Sources /\ snapshots' \subseteq View
        /\ hash' \in {hash, None} /\ path' \in {path, Root}
    BY <1>2 DEF Restored, server, place, Inv, LinksOK
  <2>. HIDE DEF v, resets
  <2>. QED  BY <2>1, <2>2, <2>3, <2>4, ShowingSteps
<1>3. ASSUME NEW s \in Sources, HandleAdded(r, s) PROVE Inv'
  <2>1. Leaves(Less(r))
    BY <1>3, LessLeaves DEF HandleAdded, Quiet, FeedKinds, Inv
  <2>2. /\ Become(Less(r), s, TRUE, s, NoOps, open \ {"add"}, {"count", "schema"})
        /\ registered' \subseteq Sources /\ snapshots' \subseteq View /\ UNCHANGED place
    BY <1>3 DEF HandleAdded, New, Show, Inv, LinksOK
  <2>. QED  BY <2>1, <2>2, ShowingSteps, FeedsAssumption DEF place
<1>4. ASSUME NEW s \in Sources, Connected(r, s) PROVE Inv'
  <2>1. Leaves(Less(r))
    BY <1>4, LessLeaves DEF Connected, Quiet, FeedKinds, Inv
  <2>2. /\ Become(Less(r), s, TRUE, sourceId, ops, open \ {"catalog"}, {})
        /\ registered' \subseteq Sources /\ snapshots' \subseteq View /\ UNCHANGED place
    BY <1>4 DEF Connected, New, Inv, LinksOK
  <2>3. sourceId \in Sources \cup {None} /\ ops \in Ops
    BY DEF Inv, StoresOK
  <2>. QED  BY <2>1, <2>2, <2>3, ShowingSteps DEF place
<1>. QED  BY <1>1, <1>2, <1>3, <1>4

(* What the user does on the list and on the view.                         *)
LEMMA UserShows ==
  ASSUME Inv,
         \/ \E s \in Sources : HandleSelect(s)
         \/ OnTheView
  PROVE  Inv'
<1>1. Leaves(requests)
  BY AllLeaves DEF Inv
<1>2. source \in Sources \cup {None} /\ sourceId \in Sources \cup {None} /\ ops \in Ops
  BY DEF Inv, StoresOK
<1>3. ASSUME NEW s \in Sources, HandleSelect(s) PROVE Inv'
  <2>. DEFINE object == ~ (held /\ s = source)
  <2>1. /\ Become(requests, s, object, s, NoOps, open \ {"sources"}, {"count", "schema"})
        /\ registered' \subseteq Sources /\ snapshots' \subseteq View /\ UNCHANGED place
    BY <1>3 DEF HandleSelect, Show, server, Inv, LinksOK
  <2>2. object \in BOOLEAN /\ (object \/ s = source)
    OBVIOUS
  <2>. HIDE DEF object
  <2>. QED  BY <1>1, <2>1, <2>2, ShowingSteps, FeedsAssumption DEF place
<1>4. ASSUME NEW o \in Ops, NEW panels, NEW resets,
             Become(requests, source, FALSE, sourceId, o, panels, resets), OnTheView
      PROVE  Inv'
  <2>1. /\ registered' \subseteq Sources /\ snapshots' \subseteq View /\ UNCHANGED place
    BY <1>4 DEF OnTheView, server, Inv, LinksOK
  <2>. QED  BY <1>1, <1>2, <1>4, <2>1, ShowingSteps DEF place
<1>5. ASSUME NEW o \in Ops, SetOps(o), OnTheView PROVE Inv'
  BY <1>4, <1>5 DEF SetOps
<1>6. ASSUME NEW p \in Tools, OpenPanel(p) \/ ClosePanel(p), OnTheView PROVE Inv'
  BY <1>2, <1>4, <1>6 DEF OpenPanel, ClosePanel
<1>7. ASSUME NEW c \in Columns, LookAt(c), OnTheView PROVE Inv'
  <2>1. StoresOK' /\ FeedsOK' /\ NoNewLink
    BY <1>7, LookAtKeeps DEF Inv
  <2>2. LinksOK'
    BY <1>7, <2>1, LinksStay DEF OnTheView, server, place, Inv, LinksOK
  <2>. QED  BY <2>1, <2>2 DEF Inv
<1>. QED  BY <1>3, <1>5, <1>6, <1>7 DEF OnTheView

(* What arrives for the feeds.                                             *)
LEMMA FeedSteps ==
  ASSUME Inv, Feeds
  PROVE  Inv'
<1>1. ASSUME NEW r, Taken(r), StoresOK' /\ FeedsOK' PROVE Inv'
  <2>1. NoNewLink
    BY <1>1, Takes DEF Inv, NoNewLink
  <2>2. LinksOK'
    BY <2>1, LinksStay DEF Feeds, server, place, Inv, LinksOK
  <2>. QED  BY <1>1, <2>2 DEF Inv
<1>2. ASSUME StoresOK' /\ FeedsOK' /\ NoNewLink PROVE Inv'
  BY <1>2, LinksStay DEF Feeds, server, place, Inv, LinksOK
<1>3. CASE CountTimer
  BY <1>2, <1>3, CountTimerKeeps DEF Inv
<1>4. ASSUME NEW r,
             \/ CountAnswered(r) \/ CountFailed(r) \/ SchemaAnswered(r) \/ SchemaFailed(r)
             \/ CodeAnswered(r) \/ CodeFailed(r) \/ MatrixAnswered(r)
             \/ StatsAnswered(r) \/ StatsFailed(r)
      PROVE  Inv'
  <2>1. Taken(r)
    BY <1>4 DEF CountAnswered, CountFailed, SchemaAnswered, SchemaFailed, CodeAnswered, CodeFailed,
                MatrixAnswered, StatsAnswered, StatsFailed
  <2>2. StoresOK' /\ FeedsOK'
    BY <1>4, CountSteps, SchemaSteps, CodeSteps, StatsSteps DEF Inv
  <2>. QED  BY <1>1, <2>1, <2>2
<1>5. ASSUME NEW r, CorrelationsAnswered(r) \/ CorrelationsFailed(r) PROVE Inv'
  BY <1>2, <1>5, CorrelationsSteps DEF Inv
<1>. QED  BY <1>3, <1>4, <1>5 DEF Feeds, Answer

(* A page that starts has nothing but the requests for what it restores.   *)
LEMMA StartRequests ==
  ASSUME NEW p, NEW h \in View \cup {None},
         p = Root \/ p \in [kind : {"view", "share"}, of : View]
  PROVE  /\ IsABag(Asked(p, h))
         /\ \A e \in DOMAIN Asked(p, h) : e.kind \in {"view", "share", "hash"} /\ e.of \in View
<1>. DEFINE A == Sent(p.kind, p # Root, p.of, None)
            B == Sent("hash", p.kind # "view" /\ h # None, h, None)
<1>1. IsABag(A) /\ \A e \in DOMAIN A : p # Root /\ e = Request(p.kind, p.of, None)
  BY SetBag, NoBag DEF Sent
<1>2. IsABag(B) /\ \A e \in DOMAIN B : h # None /\ e = Request("hash", h, None)
  BY SetBag, NoBag DEF Sent
<1>. HIDE DEF A, B
<1>3. IsABag(A (+) B) /\ DOMAIN (A (+) B) = DOMAIN A \cup DOMAIN B
  BY <1>1, <1>2, AddBags
<1>4. \A e \in DOMAIN A \cup DOMAIN B : e.kind \in {"view", "share", "hash"} /\ e.of \in View
  BY <1>1, <1>2 DEF Request
<1>5. Asked(p, h) = A (+) B
  BY DEF Asked, A, B
<1>. QED  BY <1>3, <1>4, <1>5

(* A page that starts shows nothing yet.                                   *)
LEMMA StartInv ==
  ASSUME NEW p, NEW h \in View \cup {None},
         p = Root \/ p \in [kind : {"view", "share"}, of : View],
         Start(p, h), registered' \subseteq Sources, snapshots' \subseteq View
  PROVE  Inv'
<1>1. /\ IsABag(requests')
      /\ \A e \in DOMAIN requests' : e.kind \in {"view", "share", "hash"} /\ e.of \in View
  BY StartRequests DEF Start
<1>2. \A kind \in FeedKinds : UnderWay(kind)' = {}
  BY <1>1 DEF UnderWay, BagToSet, FeedKinds
<1>3. StoresOK'
  BY <1>1, FeedsAssumption DEF Start, StoresOK
<1>4. LinksOK'
  BY <1>1 DEF Start, LinksOK
<1>5. CodeInv' /\ CountInv' /\ SchemaInv' /\ CorrelationsInv'
  BY <1>2 DEF Start, CodeInv, CodeIsOfTheView, CountInv, SchemaInv, CorrelationsInv,
      Shown, FeedKinds
<1>6. StatsInv'
  BY <1>2 DEF Start, StatsInv, OneStatsRequest, FeedKinds
<1>. QED  BY <1>3, <1>4, <1>5, <1>6 DEF Inv, FeedsOK

(* Reloads and links.                                                      *)
LEMMA PageSteps ==
  ASSUME Inv,
         \/ Reload
         \/ \E v \in snapshots : Visit([kind |-> "share", of |-> v])
         \/ \E s \in Sources : Visit([kind |-> "view", of |-> Total(s)])
  PROVE  Inv'
<1>1. CASE Reload
  <2>1. registered' \subseteq Sources /\ snapshots' \subseteq View /\ Start(path, hash)
    BY <1>1 DEF Reload, Start, Inv, LinksOK
  <2>. QED  BY <2>1, StartInv DEF Inv, LinksOK
<1>2. ASSUME NEW p \in [kind : {"view", "share"}, of : View], Visit(p) PROVE Inv'
  <2>1. registered' \subseteq Sources /\ snapshots' \subseteq View /\ Start(p, None)
    BY <1>2 DEF Visit, Start, Inv, LinksOK
  <2>. QED  BY <1>2, <2>1, StartInv
<1>3. ASSUME NEW v \in snapshots
      PROVE  [kind |-> "share", of |-> v] \in [kind : {"view", "share"}, of : View]
  BY DEF Inv, LinksOK
<1>4. ASSUME NEW s \in Sources
      PROVE  [kind |-> "view", of |-> Total(s)] \in [kind : {"view", "share"}, of : View]
  BY FeedsAssumption DEF Total, View
<1>. QED  BY <1>1, <1>2, <1>3, <1>4

(***************************************************************************)
(* The theorems.                                                           *)
(***************************************************************************)

(* The invariant holds at first, and through every step.                   *)
LEMMA InitInv == Init => Inv
<1>. SUFFICES ASSUME Init PROVE Inv
  OBVIOUS
<1>1. /\ hash \in View \cup {None} /\ path = Root
      /\ snapshots \subseteq View /\ registered \subseteq Sources
  BY SessionAssumption DEF Init
<1>2. /\ IsABag(requests)
      /\ \A e \in DOMAIN requests : e.kind \in {"view", "share", "hash"} /\ e.of \in View
  BY <1>1, StartRequests DEF Init
<1>3. \A kind \in FeedKinds : UnderWay(kind) = {}
  BY <1>2 DEF UnderWay, BagToSet, FeedKinds
<1>4. StoresOK /\ LinksOK
  BY <1>1, <1>2, FeedsAssumption DEF Init, FeedsInit, StoresOK, LinksOK
<1>5. CodeInv /\ CountInv /\ SchemaInv /\ CorrelationsInv
  BY <1>3
  DEF Init, FeedsInit, CodeInv, CodeIsOfTheView, CountInv, SchemaInv, CorrelationsInv,
      Shown, FeedKinds
<1>6. StatsInv
  BY <1>3 DEF Init, FeedsInit, StatsInv, OneStatsRequest, FeedKinds
<1>. QED  BY <1>4, <1>5, <1>6 DEF Inv, FeedsOK

LEMMA NextInv == Inv /\ [Next]_vars => Inv'
<1>. SUFFICES ASSUME Inv, [Next]_vars PROVE Inv'
  OBVIOUS
<1>1. CASE UNCHANGED vars
  <2>1. SameView /\ SameRequests /\ NoNewLink
    BY <1>1, NothingSent DEF Inv, vars, feedVars, SameView
  <2>2. StoresOK' /\ FeedsOK'
    BY <1>1, <2>1, FeedsStay DEF Inv, vars, feedVars, explored, columns
  <2>3. LinksOK'
    BY <1>1, <2>1, LinksStay DEF Inv, LinksOK, vars, place, server
  <2>. QED  BY <2>2, <2>3 DEF Inv
<1>2. ASSUME NEW r \in BagToSet(requests),
             \/ Listed(r) \/ Deleted(r) \/ Refused(r) \/ Snapshotted(r) \/ Restored(r)
             \/ RestoreFailed(r) \/ \E s \in Sources : HandleAdded(r, s) \/ Connected(r, s)
      PROVE  Inv'
  BY <1>2, OtherAnswers, AnswerShows DEF BagToSet
<1>3. CASE \E s \in Sources : HandleSelect(s) \/ HandleDelete(s)
  BY <1>3, UserShows, PanelSteps
<1>. QED  BY <1>1, <1>2, <1>3, UserShows, FeedSteps, PanelSteps, UrlTimerKeeps, PageSteps DEF Next

LEMMA InvHolds == Spec => []Inv
BY InitInv, NextInv, PTL DEF Spec

(* The row count, the schema and the correlations that are shown are those *)
(* of the view or the source, or on their way, or their last answer came   *)
(* late or failed.                                                         *)
THEOREM FeedsFollowTheView == Spec => []FeedsAreOfTheView
<1>1. Inv => FeedsAreOfTheView
  BY DEF Inv, FeedsOK, CountInv, SchemaInv, CorrelationsInv, Shown, Asking, FeedsAreOfTheView
<1>. QED  BY <1>1, InvHolds, PTL

(* The code of the export panel is that of the view.                       *)
THEOREM CodeFollowsTheView == Spec => []CodeIsOfTheView
<1>1. Inv => CodeIsOfTheView
  BY DEF Inv, FeedsOK, CodeInv
<1>. QED  BY <1>1, InvHolds, PTL

(* The keys marked as asked for are those of the requests under way, one   *)
(* for each.                                                               *)
THEOREM StatsAreAskedOnce == Spec => []OneStatsRequest
<1>1. Inv => OneStatsRequest
  BY DEF Inv, FeedsOK, StatsInv
<1>. QED  BY <1>1, InvHolds, PTL

(***************************************************************************)
(* Reloads and links.                                                      *)
(***************************************************************************)

Restoring == {"hash", "view", "share"}

(* The hash is to be written, or could not be.                             *)
UrlMarked == "url" \in timers \cup failed

UrlIsWritten ==
  path = Root /\ ~ UrlMarked /\ view # None /\ ops \in Encodable => hash = view

(* The view a reload or a link is to show is shown, or is what the page    *)
(* asks for; and nothing under way opens another source.                   *)
OnItsWay ==
  wanted # None =>
    /\ wanted \in View
    /\ \A e \in DOMAIN requests : /\ e.kind \notin {"delete", "add", "connect"}
                                  /\ e.kind \in Restoring => RestoredTo(e) = wanted
    /\ \/ \E e \in DOMAIN requests : e.kind \in Restoring
       \/ source = wanted.source /\ view = wanted

(* A view that changes is to be written in the URL.                        *)
LEMMA BecomeMarks ==
  ASSUME NEW rest, NEW s, NEW object \in BOOLEAN, NEW id, NEW o, NEW panels, NEW resets,
         Become(rest, s, object, id, o, panels, resets)
  PROVE  UrlMarked \/ view' # view \/ "url" \in resets => UrlMarked'
<1>. DEFINE v     == ViewOf(id, o)
            fresh == (IF object \/ v # view THEN {"count", "schema"} ELSE {})
                       \cup (IF v # view THEN {"url"} ELSE {})
                       \cup (IF s # source THEN {"correlations"} ELSE {})
<1>1. view' = v
  BY DEF Become, view
<1>2. /\ v # view \/ "url" \in timers => "url" \in timers'
      /\ failed' = (failed \ fresh) \cup (resets \ fresh)
  BY DEF Become, UrlRuns
<1>3. v = view => "url" \notin fresh
  OBVIOUS
<1>. HIDE DEF v, fresh
<1>. QED  BY <1>1, <1>2, <1>3 DEF UrlMarked

LEMMA BecomeWritten ==
  ASSUME UrlIsWritten, NEW rest, NEW s, NEW object \in BOOLEAN, NEW id, NEW o, NEW panels, NEW resets,
         Become(rest, s, object, id, o, panels, resets),
         UNCHANGED place \/ "url" \in resets
  PROVE  UrlIsWritten'
<1>1. UrlMarked \/ view' # view \/ "url" \in resets => UrlMarked'
  BY BecomeMarks
<1>2. ASSUME view' = view, view # None PROVE ops' = ops
  BY <1>2, FeedsAssumption DEF view, ViewOf
<1>. QED  BY <1>1, <1>2 DEF UrlIsWritten, place

(* A step that leaves the view and the URL.                                *)
LEMMA StaysWritten ==
  ASSUME UrlIsWritten, SameView, UNCHANGED place, UrlMarked => UrlMarked'
  PROVE  UrlIsWritten'
<1>1. view' = view
  BY DEF SameView, view
<1>. QED  BY <1>1 DEF UrlIsWritten, SameView, place

(* The URL names the view unless it is to be written or could not be.      *)
LEMMA NextWritten ==
  ASSUME UrlIsWritten, [Next]_vars
  PROVE  UrlIsWritten'
<1>1. ASSUME Stays, UNCHANGED place PROVE UrlIsWritten'
  BY <1>1, StaysWritten DEF Stays, SameView, UrlMarked
<1>2. ASSUME NEW p, NEW h, Start(p, h) PROVE UrlIsWritten'
  <2>1. view' = None
    BY <1>2 DEF Start, view, ViewOf
  <2>. QED  BY <2>1 DEF UrlIsWritten
<1>3. CASE OnTheView
  <2>1. ASSUME NEW o \in Ops, SetOps(o) PROVE UrlIsWritten'
    BY <1>3, <2>1, BecomeWritten DEF OnTheView, SetOps
  <2>2. ASSUME NEW p \in Tools, OpenPanel(p) \/ ClosePanel(p) PROVE UrlIsWritten'
    BY <1>3, <2>2, BecomeWritten DEF OnTheView, OpenPanel, ClosePanel
  <2>3. ASSUME NEW c \in Columns, LookAt(c) PROVE UrlIsWritten'
    BY <1>3, <2>3, StaysWritten DEF OnTheView, LookAt, SameView, UrlMarked
  <2>. QED  BY <1>3, <2>1, <2>2, <2>3 DEF OnTheView
<1>4. CASE Feeds
  <2>1. SameView /\ UNCHANGED place /\ (UrlMarked => UrlMarked')
    <3>1. CASE CountTimer
      BY <1>4, <3>1 DEF Feeds, CountTimer, SameView, UrlMarked
    <3>2. ASSUME NEW r,
                 \/ CountAnswered(r) \/ CountFailed(r) \/ SchemaAnswered(r) \/ SchemaFailed(r)
                 \/ CodeAnswered(r) \/ CodeFailed(r) \/ CorrelationsAnswered(r)
                 \/ CorrelationsFailed(r) \/ MatrixAnswered(r) \/ StatsAnswered(r) \/ StatsFailed(r)
          PROVE  SameView /\ (UrlMarked => UrlMarked')
      BY <3>2 DEF CountAnswered, CountFailed, SchemaAnswered, SchemaFailed, CodeAnswered,
                  CodeFailed, CorrelationsAnswered, CorrelationsFailed, MatrixAnswered,
                  StatsAnswered, StatsFailed, SameView, UrlMarked
    <3>. QED  BY <1>4, <3>1, <3>2 DEF Feeds, Answer
  <2>. QED  BY <2>1, StaysWritten
<1>5. CASE ToggleSources \/ OpenAdd \/ Submit \/ CancelAdd \/ OpenCatalog \/ CloseCatalog
           \/ HandleOpen \/ HandleShare \/ \E s \in Sources : HandleDelete(s)
  BY <1>1, <1>5 DEF ToggleSources, OpenAdd, Submit, CancelAdd, OpenCatalog, CloseCatalog, HandleOpen,
                    HandleShare, HandleDelete, SendOnly
<1>6. ASSUME NEW s \in Sources, HandleSelect(s) PROVE UrlIsWritten'
  BY <1>6, BecomeWritten DEF HandleSelect, Show
<1>7. CASE UrlTimer
  <2>1. view' = view /\ UNCHANGED <<path, ops>>
    BY <1>7 DEF UrlTimer, view
  <2>2. CASE view # None /\ ops \in Encodable
    BY <1>7, <2>1, <2>2 DEF UrlTimer, UrlIsWritten
  <2>3. CASE ~ (view # None /\ ops \in Encodable)
    BY <2>1, <2>3 DEF UrlIsWritten
  <2>. QED  BY <2>2, <2>3
<1>8. CASE Reload \/ \E p : Visit(p)
  BY <1>2, <1>8 DEF Reload, Visit
<1>9. ASSUME NEW r, Listed(r) \/ Refused(r) \/ Snapshotted(r) PROVE UrlIsWritten'
  BY <1>1, <1>9 DEF Listed, Refused, Snapshotted, place
<1>10. ASSUME NEW r, Deleted(r) PROVE UrlIsWritten'
  <2>1. CASE r.while = r.of.source
    BY <1>10, <2>1, BecomeWritten DEF Deleted, Show
  <2>2. CASE r.while # r.of.source
    BY <1>1, <1>10, <2>2 DEF Deleted
  <2>. QED  BY <2>1, <2>2
<1>11. ASSUME NEW r, Restored(r) PROVE UrlIsWritten'
  <2>. DEFINE v      == RestoredTo(r)
              resets == {"count", "schema"} \cup (IF r.kind = "share" THEN {"url"} ELSE {})
  <2>1. Become(Less(r), v.source, TRUE, v.source, v.ops, open, resets)
    BY <1>11 DEF Restored
  <2>2. UNCHANGED place \/ "url" \in resets
    BY <1>11 DEF Restored
  <2>. HIDE DEF v, resets
  <2>. QED  BY <2>1, <2>2, BecomeWritten
<1>12. ASSUME NEW r, RestoreFailed(r) PROVE UrlIsWritten'
  BY <1>12 DEF RestoreFailed, UrlIsWritten, UrlMarked
<1>13. ASSUME NEW r, NEW s, HandleAdded(r, s) \/ Connected(r, s) PROVE UrlIsWritten'
  BY <1>13, BecomeWritten DEF HandleAdded, Connected, Show
<1>14. CASE UNCHANGED vars
  BY <1>14, StaysWritten DEF vars, feedVars, SameView, UrlMarked
<1>. QED
  BY <1>3, <1>4, <1>5, <1>6, <1>7, <1>8, <1>9, <1>10, <1>11, <1>12, <1>13, <1>14 DEF Next

(* Steps that leave the view, and what a reload or a link asked for.       *)
LEMMA StaysOnItsWay ==
  ASSUME OnItsWay, SameView, UNCHANGED wanted,
         \A e \in DOMAIN requests : e.kind \in Restoring => e \in DOMAIN requests',
         \A e \in DOMAIN requests' : e \in DOMAIN requests \/ e.kind \in {"count", "correlations"}
  PROVE  OnItsWay'
<1>1. view' = view
  BY DEF SameView, view
<1>2. ASSUME wanted # None PROVE wanted' \in View
  BY <1>2 DEF OnItsWay
<1>3. ASSUME wanted # None, NEW e \in DOMAIN requests'
      PROVE  /\ e.kind \notin {"delete", "add", "connect"}
             /\ e.kind \in Restoring => RestoredTo(e) = wanted'
  BY <1>3 DEF OnItsWay, Restoring
<1>4. ASSUME wanted # None
      PROVE  \/ \E e \in DOMAIN requests' : e.kind \in Restoring
             \/ source' = wanted'.source /\ view' = wanted'
  BY <1>1, <1>4 DEF OnItsWay, SameView
<1>. QED  BY <1>2, <1>3, <1>4 DEF OnItsWay

(* So does an answer to anything else.                                     *)
LEMMA TakesOther ==
  ASSUME StoresOK, OnItsWay, SameView, UNCHANGED wanted, NEW r, Taken(r), r.kind \notin Restoring
  PROVE  OnItsWay'
<1>1. \A e \in DOMAIN requests : e.kind \in Restoring => e \in DOMAIN requests'
  BY Takes
<1>2. \A e \in DOMAIN requests' : e \in DOMAIN requests
  BY Takes
<1>. QED  BY <1>1, <1>2, StaysOnItsWay

(* And what the feeds send.                                                *)
LEMMA FeedsOnItsWay ==
  ASSUME Inv, OnItsWay, Feeds
  PROVE  OnItsWay'
<1>1. StoresOK /\ UNCHANGED wanted
  BY DEF Inv, Feeds
<1>2. ASSUME NEW A, NEW x, IsABag(A), requests' = A (+) SetToBag({x}),
             DOMAIN A \subseteq DOMAIN requests, x.kind \in {"count", "correlations"},
             \A e \in DOMAIN requests : e.kind \in Restoring => e \in DOMAIN A, SameView
      PROVE  OnItsWay'
  <2>. DEFINE B == SetToBag({x})
  <2>1. IsABag(B) /\ DOMAIN B = {x}
    BY SetBag
  <2>. HIDE DEF B
  <2>2. DOMAIN (A (+) B) = DOMAIN A \cup DOMAIN B
    BY <1>2, <2>1, AddBags
  <2>3. DOMAIN requests' = DOMAIN A \cup {x}
    BY <1>2, <2>1, <2>2 DEF B
  <2>. QED  BY <1>1, <1>2, <2>3, StaysOnItsWay
<1>3. CASE CountTimer
  <2>1. requests' = requests (+) SetToBag({Request("count", view, source)}) /\ SameView
    BY <1>3 DEF CountTimer, SameView
  <2>2. Request("count", view, source).kind = "count"
    BY DEF Request
  <2>. QED  BY <1>1, <1>2, <2>1, <2>2 DEF StoresOK
<1>4. ASSUME NEW r,
             \/ CountAnswered(r) \/ CountFailed(r) \/ SchemaAnswered(r) \/ SchemaFailed(r)
             \/ CodeAnswered(r) \/ CodeFailed(r) \/ CorrelationsFailed(r) \/ MatrixAnswered(r)
             \/ StatsAnswered(r) \/ StatsFailed(r)
      PROVE  OnItsWay'
  <2>1. Taken(r) /\ SameView /\ r.kind \notin Restoring
    BY <1>4 DEF CountAnswered, CountFailed, SchemaAnswered, SchemaFailed, CodeAnswered,
                CodeFailed, CorrelationsFailed, MatrixAnswered, StatsAnswered, StatsFailed,
                SameView, Restoring
  <2>. QED  BY <1>1, <2>1, TakesOther
<1>5. ASSUME NEW r, CorrelationsAnswered(r) PROVE OnItsWay'
  <2>. DEFINE again == CorrelationsWanted(source, r.of.source, None)
              x     == Request("correlations", Total(source), source)
              left  == Less(r)
  <2>1. r.kind = "correlations" /\ r \in DOMAIN requests /\ SameView
    BY <1>5 DEF CorrelationsAnswered, BagIn, BagToSet, SameView
  <2>2. /\ IsABag(left) /\ DOMAIN left \subseteq DOMAIN requests
        /\ \A e \in DOMAIN requests \ {r} : e \in DOMAIN left
    BY <2>1, TakeFromBag DEF StoresOK, Less, Inv
  <2>3. x.kind = "correlations"
    BY DEF Request
  <2>4. requests' = left (+) Sent("correlations", again, Total(source), source)
    BY <1>5 DEF CorrelationsAnswered, Less
  <2>5. again => requests' = left (+) SetToBag({x})
    BY <2>4 DEF Sent
  <2>6. ~ again => requests' = left (+) EmptyBag
    BY <2>4 DEF Sent
  <2>. HIDE DEF left, x, again
  <2>7. \A e \in DOMAIN requests : e.kind \in Restoring => e \in DOMAIN left
    BY <2>1, <2>2 DEF Restoring
  <2>8. CASE again
    BY <1>2, <2>1, <2>2, <2>3, <2>5, <2>7, <2>8
  <2>9. CASE ~ again
    <3>. DEFINE B == EmptyBag
    <3>1. IsABag(B) /\ DOMAIN B = {} /\ requests' = left (+) B
      BY <2>6, <2>9, NoBag
    <3>. HIDE DEF B
    <3>2. DOMAIN (left (+) B) = DOMAIN left \cup DOMAIN B
      BY <2>2, <3>1, AddBags
    <3>3. DOMAIN requests' = DOMAIN left
      BY <3>1, <3>2
    <3>. QED  BY <1>1, <2>1, <2>2, <2>7, <3>3, StaysOnItsWay
  <2>. QED  BY <2>8, <2>9
<1>. QED  BY <1>3, <1>4, <1>5 DEF Feeds, Answer

(* An answer to a reload or a link shows what it was for.                  *)
LEMMA RestoredOnItsWay ==
  ASSUME Inv, OnItsWay, NEW r \in DOMAIN requests, Restored(r)
  PROVE  OnItsWay'
<1>. SUFFICES ASSUME wanted # None PROVE OnItsWay'
  BY DEF Restored, OnItsWay
<1>. DEFINE v      == RestoredTo(r)
            resets == {"count", "schema"} \cup (IF r.kind = "share" THEN {"url"} ELSE {})
            rest   == Less(r)
<1>1. v = wanted /\ wanted \in View /\ wanted' = wanted
  BY DEF Restored, OnItsWay, Restoring
<1>2. Become(rest, v.source, TRUE, v.source, v.ops, open, resets)
  BY DEF Restored
<1>3. IsABag(rest) /\ DOMAIN rest \subseteq DOMAIN requests
  BY TakeFromBag DEF Inv, StoresOK, Less
<1>. HIDE DEF v, resets, rest
<1>4. v.source # None /\ v = [source |-> v.source, ops |-> v.ops]
  BY <1>1, FeedsAssumption DEF View
<1>5. source' = wanted'.source /\ view' = wanted'
  BY <1>1, <1>2, <1>4 DEF Become, view, ViewOf
<1>6. \A e \in DOMAIN requests' :
        e \in DOMAIN requests \/ e.kind \in {"schema", "code", "correlations", "matrix", "stats"}
  <2>. DEFINE id == v.source
              n  == ViewOf(id, v.ops)
  <2>1. \A e : e \in DOMAIN requests' <=>
           \/ e \in DOMAIN rest /\ ~ (CodeRuns(id, v.ops, open) /\ e.kind = "code")
           \/ SchemaWanted(n, id, TRUE) /\ e = Request("schema", n, id)
           \/ CodeRuns(id, v.ops, open) /\ CodeWanted(n, open) /\ e = Request("code", n, id)
           \/ CorrAsks(id) /\ e = Request("correlations", Total(id), id)
           \/ MatrixWanted(id, open) /\ e = Request("matrix", Total(id), id)
           \/ e \in NewStats(id, open)
    BY <1>2, <1>3, BecomeRequests
  <2>2. \A e \in NewStats(id, open) : e.kind = "stats"
    BY DEF Request, NewStats
  <2>3. \A kind, of : Request(kind, of, id).kind = kind
    BY DEF Request
  <2>. HIDE DEF id, n
  <2>. QED  BY <1>3, <2>1, <2>2, <2>3
<1>7. \A e \in DOMAIN requests' : /\ e.kind \notin {"delete", "add", "connect"}
                                  /\ e.kind \in Restoring => RestoredTo(e) = wanted
  BY <1>6 DEF OnItsWay, Restoring
<1>. QED  BY <1>1, <1>5, <1>7 DEF OnItsWay

(* A page asks for the view its URL names.                                 *)
LEMMA AskedView ==
  ASSUME NEW p, NEW h, NEW w \in View,
         \/ p = Root /\ h = w
         \/ p.kind = "share" /\ p.of = w /\ h = None
         \/ p.kind = "view" /\ (\E s \in Sources : p.of = Total(s)) /\ p.of = w /\ h = None
  PROVE  /\ \A e \in DOMAIN Asked(p, h) : e.kind \in Restoring /\ RestoredTo(e) = w
         /\ \E e \in DOMAIN Asked(p, h) : e.kind \in Restoring
<1>. DEFINE A == Sent(p.kind, p # Root, p.of, None)
            B == Sent("hash", p.kind # "view" /\ h # None, h, None)
<1>1. w # None
  BY FeedsAssumption
<1>2. Asked(p, h) = A (+) B
  BY DEF Asked
<1>3. CASE p = Root /\ h = w
  <2>1. p.kind # "view" /\ h # None
    BY <1>1, <1>3 DEF Root
  <2>2. A = EmptyBag /\ B = SetToBag({Request("hash", w, None)})
    BY <1>3, <2>1 DEF Sent
  <2>3. IsABag(A) /\ IsABag(B) /\ DOMAIN A = {} /\ DOMAIN B = {Request("hash", w, None)}
    BY <2>2, SetBag, NoBag
  <2>. HIDE DEF A, B
  <2>4. DOMAIN (A (+) B) = DOMAIN A \cup DOMAIN B
    BY <2>3, AddBags
  <2>. QED  BY <1>2, <2>3, <2>4 DEF Request, Restoring, RestoredTo
<1>4. CASE p.kind \in {"share", "view"} /\ p.of = w /\ h = None
  <2>1. p # Root
    BY <1>4 DEF Root
  <2>2. A = SetToBag({Request(p.kind, w, None)}) /\ B = EmptyBag
    BY <1>4, <2>1 DEF Sent
  <2>3. IsABag(A) /\ IsABag(B) /\ DOMAIN A = {Request(p.kind, w, None)} /\ DOMAIN B = {}
    BY <2>2, SetBag, NoBag
  <2>. HIDE DEF A, B
  <2>4. DOMAIN (A (+) B) = DOMAIN A \cup DOMAIN B
    BY <2>3, AddBags
  <2>5. p.kind = "view" => Total(w.source) = w
    BY <1>1, <1>3, <1>4 DEF Total, Root
  <2>. QED  BY <1>2, <1>4, <2>3, <2>4, <2>5 DEF Request, Restoring, RestoredTo
<1>. QED  BY <1>3, <1>4

(* Reloads and links.                                                      *)
LEMMA PageOnItsWay ==
  ASSUME Inv, UrlIsWritten, NEW p, NEW h, NEW w,
         Start(p, h), wanted' = w,
         w # None => /\ w \in View
                     /\ \/ p = Root /\ h = w
                        \/ p.kind = "share" /\ p.of = w /\ h = None
                        \/ /\ p.kind = "view" /\ p.of = w /\ h = None
                           /\ \E s \in Sources : p.of = Total(s)
  PROVE  OnItsWay'
<1>. SUFFICES ASSUME w # None PROVE OnItsWay'
  BY DEF OnItsWay
<1>1. /\ \A e \in DOMAIN Asked(p, h) : e.kind \in Restoring /\ RestoredTo(e) = w
      /\ \E e \in DOMAIN Asked(p, h) : e.kind \in Restoring
  BY AskedView
<1>2. requests' = Asked(p, h)
  BY DEF Start
<1>. QED  BY <1>1, <1>2 DEF OnItsWay, Restoring

LEMMA NextOnItsWay ==
  ASSUME Inv, UrlIsWritten, OnItsWay, [Next]_vars
  PROVE  OnItsWay'
<1>. USE DEF Inv
<1>1. ASSUME wanted' = None PROVE OnItsWay'
  BY <1>1 DEF OnItsWay
<1>2. CASE \/ OnTheView \/ ToggleSources \/ OpenAdd \/ Submit \/ CancelAdd
           \/ OpenCatalog \/ CloseCatalog \/ HandleOpen \/ HandleShare
           \/ \E s \in Sources : HandleSelect(s) \/ HandleDelete(s)
  BY <1>1, <1>2 DEF OnTheView, ToggleSources, OpenAdd, Submit, CancelAdd, OpenCatalog, CloseCatalog,
                    HandleOpen, HandleShare, HandleSelect, HandleDelete, Acts
<1>3. CASE Feeds
  BY <1>3, FeedsOnItsWay
<1>4. CASE UrlTimer \/ UNCHANGED vars
  <2>1. SameView /\ UNCHANGED <<wanted, requests>>
    BY <1>4 DEF UrlTimer, vars, feedVars, SameView
  <2>. QED  BY <2>1, StaysOnItsWay
<1>5. CASE Reload
  <2>1. Start(path, hash)
    BY <1>5 DEF Reload
  <2>2. wanted' # None => wanted' = view /\ path = Root /\ ~ UrlMarked /\ view # None /\ ops \in Encodable
    BY <1>5 DEF Reload, UrlMarked
  <2>3. wanted' # None => wanted' \in View /\ path = Root /\ hash = wanted'
    BY <2>2 DEF UrlIsWritten, StoresOK, view, ViewOf, View
  <2>4. PICK w : w = wanted'
    OBVIOUS
  <2>. QED  BY <2>1, <2>3, <2>4, PageOnItsWay
<1>6. ASSUME NEW p, Visit(p), NEW w \in View, p.of = w,
             p.kind = "share" \/ (p.kind = "view" /\ \E s \in Sources : p.of = Total(s))
      PROVE  OnItsWay'
  <2>1. Start(p, None) /\ wanted' = w
    BY <1>6 DEF Visit
  <2>. QED  BY <1>6, <2>1, PageOnItsWay
<1>7. ASSUME NEW v \in snapshots, Visit([kind |-> "share", of |-> v]) PROVE OnItsWay'
  <2>1. v \in View
    BY DEF LinksOK
  <2>2. PICK p : p = [kind |-> "share", of |-> v]
    OBVIOUS
  <2>3. p.kind = "share" /\ p.of = v
    BY <2>2
  <2>4. Visit(p)
    BY <1>7, <2>2
  <2>. QED  BY <1>6, <2>1, <2>3, <2>4
<1>8. ASSUME NEW s \in Sources, Visit([kind |-> "view", of |-> Total(s)]) PROVE OnItsWay'
  <2>1. Total(s) \in View
    BY FeedsAssumption DEF Total, View
  <2>2. PICK p : p = [kind |-> "view", of |-> Total(s)]
    OBVIOUS
  <2>3. p.kind = "view" /\ p.of = Total(s)
    BY <2>2
  <2>4. Visit(p)
    BY <1>8, <2>2
  <2>. QED  BY <1>6, <2>1, <2>3, <2>4
<1>9. ASSUME NEW r, Listed(r) \/ Refused(r) \/ Snapshotted(r) PROVE OnItsWay'
  <2>1. Taken(r) /\ r.kind \notin Restoring /\ SameView /\ UNCHANGED wanted
    BY <1>9 DEF Listed, Refused, Snapshotted, Stays, SameView, Restoring
  <2>. QED  BY <2>1, TakesOther
<1>10. ASSUME NEW r \in DOMAIN requests, Deleted(r) \/ \E s \in Sources : HandleAdded(r, s) \/ Connected(r, s)
       PROVE  OnItsWay'
  <2>1. r.kind \in {"delete", "add", "connect"} /\ UNCHANGED wanted
    BY <1>10 DEF Deleted, HandleAdded, Connected
  <2>2. wanted = None
    BY <1>10, <2>1 DEF OnItsWay
  <2>. QED  BY <1>1, <2>1, <2>2
<1>11. ASSUME NEW r \in DOMAIN requests, Restored(r) PROVE OnItsWay'
  BY <1>11, RestoredOnItsWay
<1>12. ASSUME NEW r, RestoreFailed(r) PROVE OnItsWay'
  BY <1>1, <1>12 DEF RestoreFailed
<1>. QED
  BY <1>2, <1>3, <1>4, <1>5, <1>7, <1>8, <1>9, <1>10, <1>11, <1>12 DEF Next, BagToSet

(* A reload, once the URL was written, and a link leave the client at      *)
(* their view, whatever arrives before and after, until the user acts.     *)
THEOREM LinksShowTheirView == Spec => []ReloadKeepsTheView
<1>1. Init => UrlIsWritten /\ OnItsWay
  BY DEF Init, FeedsInit, UrlIsWritten, OnItsWay, view, ViewOf
<1>2. Inv /\ (UrlIsWritten /\ OnItsWay) /\ [Next]_vars => (UrlIsWritten /\ OnItsWay)'
  BY NextWritten, NextOnItsWay
<1>3. OnItsWay => ReloadKeepsTheView
  BY DEF OnItsWay, Restoring, ReloadKeepsTheView, BagToSet
<1>. QED  BY <1>1, <1>2, <1>3, InvHolds, PTL DEF Spec

==============================================================================
