--------------------------- MODULE SortViews_proofs ---------------------------
(* Theorems about SortViews for any requests, builds and evictions.         *)
EXTENDS SortViews, FiniteSetTheorems, TLAPS

(***************************************************************************)
(* Sequences.                                                              *)
(***************************************************************************)

LEMMA AppendFacts ==
  ASSUME NEW S, NEW s \in Seq(S), NEW e \in S
  PROVE  /\ Append(s, e) \in Seq(S) /\ Len(Append(s, e)) = Len(s) + 1
         /\ DOMAIN Append(s, e) = DOMAIN s \cup {Len(s) + 1}
         /\ \A n \in DOMAIN s : Append(s, e)[n] = s[n]
         /\ Append(s, e)[Len(s) + 1] = e
         /\ DOMAIN s = 1 .. Len(s) /\ Len(s) \in Nat /\ Len(s) + 1 \notin DOMAIN s
OBVIOUS

LEMMA UpdateFacts ==
  ASSUME NEW S, NEW s \in Seq(S), NEW n \in DOMAIN s, NEW e \in S
  PROVE  [s EXCEPT ![n] = e] \in Seq(S) /\ DOMAIN [s EXCEPT ![n] = e] = DOMAIN s
OBVIOUS

-----------------------------------------------------------------------------
(***************************************************************************)
(* Type correctness, in parts: of the directories, of the requests and of  *)
(* the tasks.                                                              *)
(***************************************************************************)

Files == [state : {"none", "partial", "whole"}, by : (SUBSET Requests) \X Nat]
TaskRecord == [pc : TaskPC, view : Nat]
Ids == {NoView} \cup DOMAIN views

DirsOK == dirs \in [Dirs -> Files]

RequestsOK ==
  /\ pc \in [Requests -> RequestPC] /\ held \in [Requests -> Ids]
  /\ \A r \in Requests : pc[r] \in Holding <=> held[r] # NoView

TaskOK(t) ==
  /\ t.pc # "replace" => t.view = NoView
  /\ t.pc = "replace" => t.view \in DOMAIN views /\ views[t.view].dir = FullDir

TasksOK == tasks \in Seq(TaskRecord) /\ \A n \in DOMAIN tasks : TaskOK(tasks[n])

CacheOK ==
  /\ kind \in Kinds /\ views \in Seq(View) /\ registered \subseteq DOMAIN views
  /\ cached \in Ids /\ builder \subseteq Requests /\ counted \in BOOLEAN
  /\ asked \in 0 .. MaxAsked /\ evictions \in 0 .. MaxEvictions

LEMMA TypeParts ==
  /\ TypeOK <=> DirsOK /\ RequestsOK /\ TasksOK /\ CacheOK
  /\ TypeOK' <=> DirsOK' /\ RequestsOK' /\ TasksOK' /\ CacheOK'
BY DEF TypeOK, DirsOK, RequestsOK, TasksOK, TaskOK, CacheOK, Files, TaskRecord, Ids

(* Directories are made, filled and removed.                               *)
LEMMA DirsType ==
  ASSUME DirsOK, NEW d \in Dirs, NEW w \in (SUBSET Requests) \X Nat, NEW D,
         StartRuns(d, w) \/ EndRuns(d, w) \/ dirs' = Without(D) \/ DropGuards \/ dirs' = dirs
  PROVE  DirsOK'
<1>1. Nobody \in (SUBSET Requests) \X Nat
  BY DEF Nobody
<1>2. CASE StartRuns(d, w)
  BY <1>2 DEF DirsOK, StartRuns, Files
<1>3. CASE EndRuns(d, w)
  <2>1. [dirs[d] EXCEPT !.state = "whole"] \in Files
    BY DEF DirsOK, Files
  <2>. QED  BY <1>3, <2>1 DEF DirsOK, EndRuns
<1>4. ASSUME NEW E, dirs' = Without(E) PROVE DirsOK'
  BY <1>1, <1>4 DEF DirsOK, Without, Files
<1>5. CASE dirs' = dirs
  BY <1>5 DEF DirsOK
<1>. QED  BY <1>2, <1>3, <1>4, <1>5 DEF DropGuards

(* The views there were are as they were when one more is built.           *)
LEMMA MoreViews ==
  ASSUME CacheOK, NEW v \in View, views' = Append(views, v)
  PROVE  /\ views' \in Seq(View) /\ DOMAIN views' = DOMAIN views \cup {Len(views')}
         /\ Len(views') \notin DOMAIN views /\ Len(views') # NoView /\ Len(views') \in Nat
         /\ views'[Len(views')] = v
         /\ \A n \in DOMAIN views : views'[n] = views[n]
<1>1. views \in Seq(View)
  BY DEF CacheOK
<1>2. Len(views') = Len(views) + 1 /\ Len(views) \in Nat
  BY <1>1, AppendFacts
<1>. QED  BY <1>1, <1>2, AppendFacts DEF NoView

(* What is said of a task, and of the ids there are, stays true.           *)
LEMMA SameViews ==
  ASSUME UNCHANGED views
  PROVE  Ids' = Ids /\ \A t : TaskOK(t)' <=> TaskOK(t)
BY DEF Ids, TaskOK, FullDir

LEMMA OneMoreView ==
  ASSUME CacheOK, NEW v \in View, views' = Append(views, v)
  PROVE  Ids \subseteq Ids' /\ Len(views') \in Ids' /\ \A t : TaskOK(t) => TaskOK(t)'
BY MoreViews DEF Ids, TaskOK, FullDir

(* A request goes on, and so does a task.                                  *)
LEMMA OneRequest ==
  ASSUME RequestsOK, Ids \subseteq Ids', NEW r \in Requests, NEW l \in RequestPC, NEW h \in Ids',
         l \in Holding <=> h # NoView,
         pc' = [pc EXCEPT ![r] = l], held' = [held EXCEPT ![r] = h] \/ (held' = held /\ h = held[r])
  PROVE  RequestsOK'
<1>1. held' = [held EXCEPT ![r] = h]
  BY DEF RequestsOK
<1>2. held' \in [Requests -> Ids'] /\ pc' \in [Requests -> RequestPC]
  BY <1>1 DEF RequestsOK
<1>3. ASSUME NEW u \in Requests PROVE pc'[u] \in Holding <=> held'[u] # NoView
  BY <1>1 DEF RequestsOK
<1>. QED  BY <1>2, <1>3 DEF RequestsOK

LEMMA SameTasks ==
  ASSUME TasksOK, UNCHANGED tasks, \A t : TaskOK(t) => TaskOK(t)'
  PROVE  TasksOK'
BY DEF TasksOK

LEMMA NewTask ==
  ASSUME TasksOK, UNCHANGED views, tasks' = Append(tasks, [pc |-> "create", view |-> NoView])
  PROVE  TasksOK' /\ \A n \in DOMAIN tasks : n \in DOMAIN tasks' /\ tasks'[n] = tasks[n]
<1>. DEFINE t == [pc |-> "create", view |-> NoView]
<1>1. t \in TaskRecord /\ TaskOK(t)'
  BY DEF TaskRecord, TaskPC, NoView, TaskOK
<1>. HIDE DEF t
<1>2. tasks' \in Seq(TaskRecord) /\ \A n \in DOMAIN tasks' : (n \in DOMAIN tasks /\ tasks'[n] = tasks[n]) \/ tasks'[n] = t
  BY <1>1, AppendFacts DEF TasksOK, t
<1>3. TasksOK'
  BY <1>1, <1>2, SameViews DEF TasksOK
<1>4. \A n \in DOMAIN tasks : n \in DOMAIN tasks' /\ tasks'[n] = tasks[n]
  BY <1>1, AppendFacts DEF TasksOK, t
<1>. QED  BY <1>3, <1>4

LEMMA OneTask ==
  ASSUME TasksOK, NEW n \in DOMAIN tasks, NEW t \in TaskRecord, TaskOK(t)',
         \A u : TaskOK(u) => TaskOK(u)', tasks' = [tasks EXCEPT ![n] = t]
  PROVE  TasksOK'
<1>1. tasks' \in Seq(TaskRecord) /\ DOMAIN tasks' = DOMAIN tasks
  BY UpdateFacts DEF TasksOK
<1>2. \A m \in DOMAIN tasks : tasks'[m] = IF m = n THEN t ELSE tasks[m]
  BY DEF TasksOK
<1>. QED  BY <1>1, <1>2 DEF TasksOK

(* A task changes its step.                                                *)
LEMMA Advance ==
  ASSUME NEW n \in DOMAIN tasks, TasksOK, NEW l
  PROVE  [tasks EXCEPT ![n].pc = l] = [tasks EXCEPT ![n] = [pc |-> l, view |-> tasks[n].view]]
<1>1. tasks[n] \in TaskRecord
  BY DEF TasksOK
<1>2. [tasks[n] EXCEPT !.pc = l] = [pc |-> l, view |-> tasks[n].view]
  BY <1>1 DEF TaskRecord
<1>. QED  BY <1>2

(* A step of a request keeps the types.                                    *)
LEMMA RequestType ==
  ASSUME TypeOK, NEW r \in Requests, Ask(r) \/ RequestStep(r), UNCHANGED kind
  PROVE  TypeOK'
<1>0. DirsOK /\ RequestsOK /\ TasksOK /\ CacheOK
  BY TypeParts
<1>1. SUFFICES DirsOK' /\ RequestsOK' /\ TasksOK' /\ CacheOK'
  BY TypeParts
<1>2. Request(r) \in (SUBSET Requests) \X Nat
  BY DEF Request
<1>3. held[r] \in Ids /\ (pc[r] \in Holding <=> held[r] # NoView) /\ NoView \in Ids
  BY <1>0 DEF RequestsOK, Ids
<1>4. ASSUME UNCHANGED views, UNCHANGED tasks PROVE TasksOK' /\ Ids \subseteq Ids' /\ Ids' = Ids
  BY <1>0, <1>4, SameTasks, SameViews
<1>5. ASSUME NEW l \in RequestPC, pc' = [pc EXCEPT ![r] = l], held' = held,
             pc[r] \in Holding <=> l \in Holding, UNCHANGED <<views, tasks>>
      PROVE  RequestsOK' /\ TasksOK'
  <2>1. Ids \subseteq Ids' /\ held[r] \in Ids' /\ TasksOK'
    BY <1>3, <1>4, <1>5
  <2>. QED  BY <1>0, <1>3, <1>5, <2>1, OneRequest
<1>6. ASSUME NEW l \in RequestPC, NEW v \in Ids, pc' = [pc EXCEPT ![r] = l],
             held' = [held EXCEPT ![r] = v], l \in Holding <=> v # NoView, UNCHANGED <<views, tasks>>
      PROVE  RequestsOK' /\ TasksOK'
  <2>1. Ids \subseteq Ids' /\ v \in Ids' /\ TasksOK'
    BY <1>4, <1>6
  <2>. QED  BY <1>0, <1>6, <2>1, OneRequest
<1>7. ASSUME UNCHANGED dirs PROVE DirsOK'
  BY <1>0, <1>7 DEF DirsOK
<1>8. CASE Ask(r)
  <2>1. asked' \in 0 .. MaxAsked
    BY <1>0, <1>8, SortAssumption DEF Ask, CacheOK
  <2>2. CacheOK'
    BY <1>0, <1>8, <2>1 DEF Ask, CacheOK, Ids
  <2>. QED  BY <1>5, <1>7, <1>8, <2>2 DEF Ask, Goto, RequestPC, Holding
<1>9. CASE CountAccess(r) \/ Miss(r) \/ Claim(r) \/ Register(r)
  <2>1. CacheOK'
    BY <1>0, <1>9 DEF CountAccess, Miss, Claim, Register, CacheOK, Ids
  <2>2. \E l \in RequestPC : pc' = [pc EXCEPT ![r] = l] /\ (pc[r] \in Holding <=> l \in Holding)
    BY <1>9 DEF CountAccess, Miss, Claim, Register, Goto, RequestPC, Holding
  <2>. QED  BY <1>5, <1>7, <1>9, <2>1, <2>2 DEF CountAccess, Miss, Claim, Register
<1>10. CASE Look(r)
  <2>1. CacheOK' /\ Ids' = Ids
    BY <1>0, <1>10 DEF Look, CacheOK, Ids
  <2>2. RequestsOK'
    BY <1>0, <1>3, <1>10, <2>1, OneRequest DEF Look, Goto, RequestPC, Holding
  <2>3. TasksOK'
    BY <1>0, <1>4, <1>10, NewTask DEF Look
  <2>. QED  BY <1>7, <1>10, <2>1, <2>2, <2>3 DEF Look
<1>11. CASE Get(r)
  <2>1. CacheOK' /\ cached \in Ids /\ cached # NoView
    BY <1>0, <1>11 DEF Get, CacheOK, Ids
  <2>. QED  BY <1>6, <1>7, <1>11, <2>1 DEF Get, Goto, RequestPC, Holding
<1>12. CASE Create(r)
  <2>1. CacheOK'
    BY <1>0, <1>12 DEF Create, CacheOK, Ids
  <2>2. DirsOK'
    BY <1>0, <1>2, <1>12, DirsType DEF Create, Dirs
  <2>. QED  BY <1>5, <1>12, <2>1, <2>2 DEF Create, Goto, RequestPC, Holding
<1>13. CASE Write(r)
  <2>. DEFINE v == [dir |-> "h", is_provisional |-> kind.large]
  <2>1. v \in View
    BY <1>0, SortAssumption DEF CacheOK, View, Dirs
  <2>2. views' = Append(views, v)
    BY <1>13 DEF Write
  <2>. HIDE DEF v
  <2>3. /\ Ids \subseteq Ids' /\ Len(views') \in Ids' /\ Len(views') # NoView
        /\ views' \in Seq(View) /\ DOMAIN views \subseteq DOMAIN views' /\ \A t : TaskOK(t) => TaskOK(t)'
    BY <1>0, <2>1, <2>2, OneMoreView, MoreViews
  <2>4. CacheOK'
    BY <1>0, <1>13, <2>3 DEF Write, CacheOK, Ids
  <2>5. DirsOK'
    BY <1>0, <1>2, <1>13, DirsType DEF Write, Dirs
  <2>6. TasksOK'
    BY <1>0, <1>13, <2>3, SameTasks DEF Write
  <2>7. RequestsOK'
    BY <1>0, <1>13, <2>3, OneRequest DEF Write, Goto, RequestPC, Holding
  <2>. QED  BY <2>4, <2>5, <2>6, <2>7
<1>14. CASE BuildFails(r)
  <2>1. CacheOK' /\ Ids' = Ids
    BY <1>0, <1>14 DEF BuildFails, CacheOK, Ids
  <2>2. RequestsOK'
    <3>1. pc' \in [Requests -> RequestPC] /\ held' \in [Requests -> Ids']
      BY <1>0, <1>14, <2>1 DEF BuildFails, RequestsOK, RequestPC
    <3>2. ASSUME NEW q \in Requests PROVE pc'[q] \in Holding <=> held'[q] # NoView
      BY <1>0, <1>14 DEF BuildFails, RequestsOK, Holding, BuilderAndWaiters
    <3>. QED  BY <3>1, <3>2 DEF RequestsOK
  <2>3. DirsOK'
    BY <1>0, <1>2, <1>14, DirsType DEF BuildFails, Dirs
  <2>. QED  BY <1>4, <1>14, <2>1, <2>2, <2>3 DEF BuildFails
<1>15. CASE Insert(r)
  <2>1. PICK kept \in Ids \ {NoView} :
          /\ cached' = kept /\ builder' = {} /\ UNCHANGED <<views, counted, registered, asked, tasks, evictions>>
          /\ held' = [q \in Requests |-> IF q \in BuilderAndWaiters(r) THEN kept ELSE held[q]]
          /\ pc' = [q \in Requests |-> IF q \in BuilderAndWaiters(r) THEN "register" ELSE pc[q]]
    BY <1>0, <1>3, <1>15 DEF Insert, CacheOK, Holding
  <2>2. CacheOK' /\ Ids' = Ids
    BY <1>0, <2>1 DEF CacheOK, Ids
  <2>3. RequestsOK'
    <3>1. pc' \in [Requests -> RequestPC] /\ held' \in [Requests -> Ids']
      BY <1>0, <2>1, <2>2 DEF RequestsOK, RequestPC, Holding
    <3>2. ASSUME NEW q \in Requests PROVE pc'[q] \in Holding <=> held'[q] # NoView
      BY <1>0, <2>1 DEF RequestsOK, Holding
    <3>. QED  BY <3>1, <3>2 DEF RequestsOK
  <2>4. DirsOK'
    BY <1>0, <1>2, <1>15, DirsType DEF Insert, Dirs
  <2>. QED  BY <1>4, <2>1, <2>2, <2>3, <2>4
<1>16. CASE Spawn(r)
  <2>1. CacheOK' /\ Ids' = Ids
    <3>1. held[r] \in DOMAIN views
      BY <1>3, <1>16 DEF Spawn, Holding, Ids
    <3>. QED  BY <1>0, <1>16, <3>1 DEF Spawn, CacheOK, Ids
  <2>2. RequestsOK'
    BY <1>0, <1>3, <1>16, <2>1, OneRequest DEF Spawn, Goto, RequestPC, Holding
  <2>3. TasksOK'
    BY <1>0, <1>16, NewTask DEF Spawn
  <2>. QED  BY <1>7, <1>16, <2>1, <2>2, <2>3 DEF Spawn
<1>17. CASE Serve(r)
  <2>1. CacheOK'
    BY <1>0, <1>17 DEF Serve, CacheOK, Ids
  <2>2. DirsOK'
    BY <1>0, <1>2, <1>17, DirsType DEF Serve, Dirs
  <2>3. \E l \in RequestPC \ Holding : pc' = [pc EXCEPT ![r] = l]
    <3>1. "served" \in RequestPC \ Holding /\ "error" \in RequestPC \ Holding
      BY DEF RequestPC, Holding
    <3>. QED  BY <1>17, <3>1, Zenon DEF Serve, Goto
  <2>. QED  BY <1>3, <1>6, <1>17, <2>1, <2>2, <2>3 DEF Serve
<1>. QED
  BY <1>8, <1>9, <1>10, <1>11, <1>12, <1>13, <1>14, <1>15, <1>16, <1>17 DEF RequestStep

(* So does a step of a task, and an eviction.                              *)
LEMMA TaskType ==
  ASSUME TypeOK, NEW n \in Tasks, TaskStep(n), UNCHANGED kind
  PROVE  TypeOK'
<1>0. DirsOK /\ RequestsOK /\ TasksOK /\ CacheOK
  BY TypeParts
<1>1. SUFFICES DirsOK' /\ RequestsOK' /\ TasksOK' /\ CacheOK'
  BY TypeParts
<1>2. n \in DOMAIN tasks /\ tasks[n] \in TaskRecord /\ TaskOK(tasks[n])
  BY <1>0 DEF TaskStep, TaskCreate, TaskWrite, TaskMerge, TaskFails, TaskReplace, TaskAt, TasksOK
<1>3. Task(n) \in (SUBSET Requests) \X Nat /\ FullDir \in Dirs
  BY SortAssumption DEF Task, Tasks, FullDir, Dirs
<1>4. ASSUME UNCHANGED views, UNCHANGED pc, UNCHANGED held PROVE RequestsOK'
  BY <1>0, <1>4 DEF RequestsOK, Ids
<1>5. ASSUME NEW l \in TaskPC \ {"replace"}, tasks[n].view = NoView \/ l = "complete", UNCHANGED views,
             \/ tasks' = [tasks EXCEPT ![n] = [pc |-> l, view |-> NoView]]
      PROVE  TasksOK'
  <2>. DEFINE t == [pc |-> l, view |-> NoView]
  <2>1. t \in TaskRecord /\ TaskOK(t)'
    BY DEF TaskRecord, TaskOK, NoView
  <2>2. \A u : TaskOK(u) => TaskOK(u)'
    BY <1>5, SameViews
  <2>. HIDE DEF t
  <2>. QED  BY <1>0, <1>2, <1>5, <2>1, <2>2, OneTask DEF t
<1>6. tasks[n].view \in Nat /\ tasks[n] = [pc |-> tasks[n].pc, view |-> tasks[n].view]
  BY <1>2 DEF TaskRecord
<1>7. CASE TaskCreate(n)
  <2>1. tasks' = [tasks EXCEPT ![n] = [pc |-> "write", view |-> NoView]]
    BY <1>0, <1>2, <1>7, Advance DEF TaskCreate, TaskAt, TaskOK
  <2>2. DirsOK'
    BY <1>0, <1>3, <1>7, DirsType DEF TaskCreate
  <2>3. CacheOK'
    BY <1>0, <1>7 DEF TaskCreate, CacheOK, Ids, reqVars
  <2>4. TasksOK'
    BY <1>2, <1>5, <1>7, <2>1 DEF TaskCreate, TaskAt, TaskOK, TaskPC
  <2>. QED  BY <1>4, <1>7, <2>2, <2>3, <2>4 DEF TaskCreate, reqVars
<1>8. CASE TaskWrite(n)
  <2>1. tasks' = [tasks EXCEPT ![n] = [pc |-> "merge", view |-> NoView]]
    BY <1>0, <1>2, <1>8, Advance DEF TaskWrite, TaskAt, TaskOK
  <2>2. DirsOK'
    BY <1>0, <1>3, <1>8, DirsType DEF TaskWrite
  <2>3. CacheOK'
    BY <1>0, <1>8 DEF TaskWrite, CacheOK, Ids, reqVars
  <2>4. TasksOK'
    BY <1>2, <1>5, <1>8, <2>1 DEF TaskWrite, TaskAt, TaskOK, TaskPC
  <2>. QED  BY <1>4, <1>8, <2>2, <2>3, <2>4 DEF TaskWrite, reqVars
<1>9. CASE TaskMerge(n)
  <2>. DEFINE v == [dir |-> FullDir, is_provisional |-> FALSE]
  <2>1. v \in View
    BY <1>3 DEF View
  <2>2. views' = Append(views, v)
    BY <1>9 DEF TaskMerge
  <2>3. v.dir = FullDir
    OBVIOUS
  <2>. HIDE DEF v
  <2>4. /\ Ids \subseteq Ids' /\ Len(views') \in DOMAIN views' /\ Len(views') \in Nat
        /\ views'[Len(views')] = v
        /\ views' \in Seq(View) /\ DOMAIN views \subseteq DOMAIN views' /\ \A u : TaskOK(u) => TaskOK(u)'
    BY <1>0, <2>1, <2>2, OneMoreView, MoreViews
  <2>. PICK m \in Nat : m = Len(views')
    BY <2>4
  <2>. DEFINE t == [pc |-> "replace", view |-> m]
  <2>5. tasks' = [tasks EXCEPT ![n] = t]
    BY <1>9 DEF TaskMerge
  <2>6. t \in TaskRecord /\ TaskOK(t)'
    BY <2>3, <2>4 DEF TaskRecord, TaskPC, TaskOK, FullDir
  <2>. HIDE DEF t
  <2>7. TasksOK'
    BY <1>0, <1>2, <2>4, <2>5, <2>6, OneTask
  <2>8. CacheOK'
    BY <1>0, <1>9, <2>4 DEF TaskMerge, CacheOK, Ids, reqVars
  <2>9. RequestsOK'
    BY <1>0, <1>9, <2>4 DEF TaskMerge, RequestsOK, reqVars
  <2>10. DirsOK'
    BY <1>0, <1>9 DEF TaskMerge, DirsOK
  <2>. QED  BY <2>7, <2>8, <2>9, <2>10
<1>10. CASE TaskFails(n)
  <2>1. tasks' = [tasks EXCEPT ![n] = [pc |-> "failed", view |-> NoView]]
    BY <1>0, <1>2, <1>10, Advance DEF TaskFails, TaskAt, TaskOK
  <2>2. DirsOK'
    BY <1>0, <1>3, <1>10, DirsType DEF TaskFails
  <2>3. CacheOK'
    BY <1>0, <1>10 DEF TaskFails, CacheOK, Ids, reqVars
  <2>4. TasksOK'
    BY <1>2, <1>5, <1>10, <2>1 DEF TaskFails, TaskAt, TaskOK, TaskPC
  <2>. QED  BY <1>4, <1>10, <2>2, <2>3, <2>4 DEF TaskFails, reqVars
<1>11. CASE TaskReplace(n)
  <2>1. tasks' = [tasks EXCEPT ![n] = [pc |-> "complete", view |-> NoView]]
    BY <1>11 DEF TaskReplace
  <2>2. DirsOK'
    BY <1>0, <1>3, <1>11, DirsType DEF TaskReplace
  <2>3. CacheOK'
    BY <1>0, <1>2, <1>11 DEF TaskReplace, CacheOK, Ids, TaskAt, TaskOK
  <2>4. TasksOK'
    BY <1>5, <1>11, <2>1 DEF TaskReplace, TaskPC
  <2>. QED  BY <1>4, <1>11, <2>2, <2>3, <2>4 DEF TaskReplace
<1>. QED  BY <1>7, <1>8, <1>9, <1>10, <1>11 DEF TaskStep

LEMMA NextType ==
  ASSUME TypeOK, [Next]_vars
  PROVE  TypeOK'
<1>1. CASE Evict /\ UNCHANGED kind
  <2>0. DirsOK /\ RequestsOK /\ TasksOK /\ CacheOK
    BY TypeParts
  <2>1. evictions' \in 0 .. MaxEvictions
    BY <1>1, <2>0, SortAssumption DEF Evict, CacheOK
  <2>2. CacheOK'
    BY <1>1, <2>0, <2>1 DEF Evict, CacheOK, Ids
  <2>3. DirsOK'
    <3>1. "h" \in Dirs /\ Nobody \in (SUBSET Requests) \X Nat
      BY DEF Dirs, Nobody
    <3>. QED  BY <1>1, <2>0, <3>1, DirsType DEF Evict
  <2>4. RequestsOK' /\ TasksOK'
    BY <1>1, <2>0 DEF Evict, RequestsOK, Ids, TasksOK, TaskOK, FullDir
  <2>. QED  BY <2>2, <2>3, <2>4, TypeParts
<1>2. CASE UNCHANGED vars
  <2>1. UNCHANGED <<kind, dirs, views, cached, builder, counted, registered, pc, held, asked, tasks, evictions>>
    BY <1>2 DEF vars, reqVars
  <2>2. DirsOK' <=> DirsOK
    BY <2>1 DEF DirsOK
  <2>3. (RequestsOK' <=> RequestsOK) /\ (CacheOK' <=> CacheOK)
    BY <2>1 DEF RequestsOK, CacheOK, Ids
  <2>4. TasksOK' <=> TasksOK
    BY <2>1 DEF TasksOK, TaskOK, FullDir
  <2>. QED  BY <2>2, <2>3, <2>4, TypeParts
<1>. QED  BY <1>1, <1>2, RequestType, TaskType DEF Next

LEMMA InitType == Init => TypeOK
<1>. SUFFICES ASSUME Init PROVE TypeOK
  OBVIOUS
<1>1. DirsOK
  BY DEF Init, DirsOK, Files, Nobody
<1>2. RequestsOK
  BY DEF Init, RequestsOK, RequestPC, Holding, Ids
<1>3. TasksOK
  BY DEF Init, TasksOK
<1>4. CacheOK
  <2>1. views \in Seq(View) /\ registered \subseteq DOMAIN views
    BY DEF Init
  <2>2. asked \in 0 .. MaxAsked /\ evictions \in 0 .. MaxEvictions
    BY SortAssumption DEF Init
  <2>. QED  BY <2>1, <2>2 DEF Init, CacheOK, Ids
<1>. QED  BY <1>1, <1>2, <1>3, <1>4, TypeParts

(* Every variable has its type: a request holds a view exactly while its    *)
(* step needs one, and what a task is about to put in the cache is a view   *)
(* in the directory of full builds.                                        *)
THEOREM SortViewsTypeOK == Spec => []TypeOK
<1>. QED  BY InitType, NextType, PTL DEF Spec

-----------------------------------------------------------------------------
(***************************************************************************)
(* No run is left behind.  A directory with runs is covered: by a view that *)
(* is held, by a build of a request, or by a task.                         *)
(***************************************************************************)

HeldViews == Holders(cached, held, tasks)

Covered(d) ==
  \/ \E v \in HeldViews \ {NoView} : views[v].dir = d
  \/ d = "h" /\ Building
  \/ \E n \in DOMAIN tasks : Busy(n) /\ d = FullDir

LEMMA OrphansAreUncovered ==
  /\ NoOrphanedRuns <=> \A d \in Dirs : dirs[d].state # "none" => Covered(d)
  /\ NoOrphanedRuns' <=> \A d \in Dirs : dirs'[d].state # "none" => Covered(d)'
BY DEF NoOrphanedRuns, Covered, HeldViews

LEMMA HeldIsBuilt ==
  ASSUME TypeOK
  PROVE  HeldViews \ {NoView} \subseteq DOMAIN views
<1>1. \A n \in DOMAIN tasks : tasks[n].view # NoView => tasks[n].view \in DOMAIN views
  BY DEF TypeOK
<1>. QED  BY <1>1 DEF TypeOK, HeldViews, Holders

(* A view that is let go of takes its directory with it, so that what is   *)
(* left is covered by the others.                                          *)
LEMMA DropCovers ==
  ASSUME NEW d \in Dirs, DropGuards, UNCHANGED views, dirs'[d].state # "none"
  PROVE  /\ dirs[d].state # "none"
         /\ \A v \in HeldViews \ {NoView} : views[v].dir = d => v \in HeldViews'
<1>1. d \notin {views[v].dir : v \in Unguarded}
  <2>. SUFFICES ASSUME d \in {views[v].dir : v \in Unguarded} PROVE FALSE
    OBVIOUS
  <2>. QED  BY DEF DropGuards, Without
<1>2. dirs'[d] = dirs[d]
  BY <1>1 DEF DropGuards, Without
<1>3. \A v \in HeldViews \ {NoView} : v \in Unguarded \/ v \in HeldViews'
  BY DEF Unguarded, HeldViews
<1>. QED  BY <1>1, <1>2, <1>3

(* A directory stays covered when what covers it goes on.                  *)
HoldersStay(d) ==
  \A v \in HeldViews \ {NoView} : views[v].dir = d => v \in HeldViews' /\ views'[v].dir = d

BuildingStays(d) == d = "h" /\ Building => Building'

BusyStay(d) == d = FullDir => \A n \in DOMAIN tasks : Busy(n) => n \in DOMAIN tasks' /\ Busy(n)'

LEMMA StillCovered ==
  ASSUME NEW d, Covered(d), HoldersStay(d), BuildingStays(d), BusyStay(d)
  PROVE  Covered(d)'
<1>1. CASE \E v \in HeldViews \ {NoView} : views[v].dir = d
  BY <1>1 DEF Covered, HoldersStay
<1>2. CASE d = "h" /\ Building
  BY <1>2 DEF Covered, BuildingStays
<1>3. CASE \E n \in DOMAIN tasks : Busy(n) /\ d = FullDir
  BY <1>3 DEF Covered, BusyStay, FullDir
<1>. QED  BY <1>1, <1>2, <1>3 DEF Covered

(* Requests that only look, ask or wait change nothing of this.            *)
BuildsGoOn == \A r \in Requests : pc[r] \in {"create", "write"} => pc'[r] \in {"create", "write"}

LEMMA BuildingGoesOn == ASSUME BuildsGoOn, NEW d PROVE BuildingStays(d)
BY DEF BuildsGoOn, Building, BuildingStays

LEMMA SameTasksBusy == ASSUME UNCHANGED tasks, NEW d PROVE BusyStay(d)
BY DEF BusyStay, Busy

LEMMA RequestLeavesNone ==
  ASSUME TypeOK, NoOrphanedRuns, NEW r \in Requests, Ask(r) \/ RequestStep(r), UNCHANGED kind
  PROVE  NoOrphanedRuns'
<1>. SUFFICES ASSUME NEW d \in Dirs, dirs'[d].state # "none" PROVE Covered(d)'
  BY OrphansAreUncovered
<1>0. /\ dirs \in [Dirs -> Files] /\ pc \in [Requests -> RequestPC]
      /\ held \in [Requests -> Ids] /\ (dirs[d].state # "none" => Covered(d))
  BY OrphansAreUncovered DEF TypeOK, Files, Ids
<1>2. ASSUME UNCHANGED <<dirs, views, cached, tasks>>, BuildsGoOn,
             \A u \in Requests : held[u] # NoView => held'[u] = held[u]
      PROVE  Covered(d)'
  <2>1. HeldViews \ {NoView} \subseteq HeldViews'
    BY <1>2 DEF HeldViews, Holders
  <2>2. HoldersStay(d) /\ BuildingStays(d) /\ BusyStay(d)
    BY <1>2, <2>1, BuildingGoesOn, SameTasksBusy DEF HoldersStay
  <2>. QED  BY <1>0, <1>2, <2>2, StillCovered
<1>3. CASE Ask(r) \/ CountAccess(r) \/ Get(r) \/ Miss(r) \/ Claim(r) \/ Register(r)
  <2>1. BuildsGoOn
    BY <1>0, <1>3 DEF Ask, CountAccess, Get, Miss, Claim, Register, Goto, BuildsGoOn
  <2>2. ASSUME NEW u \in Requests, held[u] # NoView PROVE held'[u] = held[u]
    BY <1>0, <1>3, <2>2 DEF Ask, CountAccess, Get, Miss, Claim, Register, TypeOK, Holding
  <2>. QED  BY <1>2, <1>3, <2>1, <2>2 DEF Ask, CountAccess, Get, Miss, Claim, Register
<1>4. CASE Look(r) \/ Spawn(r)
  <2>1. BuildsGoOn
    BY <1>0, <1>4 DEF Look, Spawn, Goto, BuildsGoOn
  <2>2. \A n \in DOMAIN tasks : n \in DOMAIN tasks' /\ tasks'[n] = tasks[n]
    BY <1>4, NewTask, TypeParts DEF Look, Spawn
  <2>3. HeldViews \subseteq HeldViews'
    BY <1>4, <2>2 DEF Look, Spawn, HeldViews, Holders
  <2>4. BusyStay(d)
    BY <2>2 DEF BusyStay, Busy
  <2>5. UNCHANGED <<dirs, views>>
    BY <1>4 DEF Look, Spawn
  <2>6. HoldersStay(d) /\ BuildingStays(d)
    BY <2>1, <2>3, <2>5, BuildingGoesOn DEF HoldersStay
  <2>. QED  BY <1>0, <2>4, <2>5, <2>6, StillCovered
<1>5. CASE Create(r)
  <2>1. CASE d = "h"
    <3>1. pc'[r] = "write"
      BY <1>0, <1>5 DEF Create, Goto
    <3>. QED  BY <2>1, <3>1 DEF Building, Covered
  <2>2. CASE d # "h"
    <3>1. dirs'[d] = dirs[d] /\ HeldViews' = HeldViews /\ UNCHANGED <<views, tasks>>
      BY <1>0, <1>5, <2>2 DEF Create, StartRuns, HeldViews
    <3>2. HoldersStay(d) /\ BuildingStays(d) /\ BusyStay(d)
      BY <2>2, <3>1, SameTasksBusy DEF HoldersStay, BuildingStays
    <3>. QED  BY <1>0, <3>1, <3>2, StillCovered
  <2>. QED  BY <2>1, <2>2
<1>6. CASE Write(r)
  <2>. DEFINE v == [dir |-> "h", is_provisional |-> kind.large]
  <2>1. v \in View /\ v.dir = "h"
    BY SortAssumption DEF TypeOK, View, Dirs
  <2>2. views' = Append(views, v)
    BY <1>6 DEF Write
  <2>. HIDE DEF v
  <2>3. /\ Len(views') # NoView /\ views'[Len(views')] = v
        /\ \A n \in DOMAIN views : views'[n] = views[n]
    BY <2>1, <2>2, MoreViews, TypeParts
  <2>4. held'[r] = Len(views') /\ held[r] = NoView
    BY <1>0, <1>6 DEF Write, TypeOK, Holding
  <2>5. CASE d = "h"
    <3>1. held'[r] \in HeldViews'
      BY DEF HeldViews, Holders
    <3>. QED  BY <2>1, <2>3, <2>4, <2>5, <3>1 DEF Covered
  <2>6. CASE d # "h"
    <3>1. dirs'[d] = dirs[d]
      BY <1>0, <1>6, <2>6 DEF Write, EndRuns
    <3>2. HeldViews \ {NoView} \subseteq HeldViews'
      BY <1>0, <1>6, <2>4 DEF Write, HeldViews, Holders
    <3>3. UNCHANGED tasks
      BY <1>6 DEF Write
    <3>4. HoldersStay(d) /\ BuildingStays(d) /\ BusyStay(d)
      BY <2>3, <2>6, <3>2, <3>3, HeldIsBuilt, SameTasksBusy DEF HoldersStay, BuildingStays
    <3>. QED  BY <1>0, <3>1, <3>4, StillCovered
  <2>. QED  BY <2>5, <2>6
<1>7. CASE BuildFails(r)
  <2>1. d # "h"
    BY <1>7 DEF BuildFails, Without, Dirs
  <2>2. dirs'[d] = dirs[d] /\ HeldViews' = HeldViews /\ UNCHANGED <<views, tasks>>
    BY <1>7, <2>1 DEF BuildFails, Without, HeldViews
  <2>3. HoldersStay(d) /\ BuildingStays(d) /\ BusyStay(d)
    BY <2>1, <2>2, SameTasksBusy DEF HoldersStay, BuildingStays
  <2>. QED  BY <1>0, <2>2, <2>3, StillCovered
<1>8. CASE Insert(r) \/ Serve(r)
  <2>1. DropGuards /\ UNCHANGED <<views, tasks>>
    BY <1>8 DEF Insert, Serve
  <2>2. BuildsGoOn
    BY <1>0, <1>8 DEF Insert, Serve, Goto, BuildsGoOn, BuilderAndWaiters
  <2>3. dirs[d].state # "none" /\ HoldersStay(d)
    BY <2>1, DropCovers DEF HoldersStay
  <2>4. BuildingStays(d) /\ BusyStay(d)
    BY <2>1, <2>2, BuildingGoesOn, SameTasksBusy
  <2>. QED  BY <1>0, <2>3, <2>4, StillCovered
<1>. QED  BY <1>3, <1>4, <1>5, <1>6, <1>7, <1>8 DEF RequestStep

LEMMA TaskLeavesNone ==
  ASSUME TypeOK, NoOrphanedRuns, NEW n \in Tasks, TaskStep(n)
  PROVE  NoOrphanedRuns'
<1>. SUFFICES ASSUME NEW d \in Dirs, dirs'[d].state # "none" PROVE Covered(d)'
  BY OrphansAreUncovered
<1>0. /\ dirs \in [Dirs -> Files] /\ (dirs[d].state # "none" => Covered(d))
      /\ n \in DOMAIN tasks /\ TasksOK
  BY OrphansAreUncovered, TypeParts
     DEF TypeOK, Files, TaskStep, TaskCreate, TaskWrite, TaskMerge, TaskFails, TaskReplace, TaskAt
<1>1. ASSUME UNCHANGED pc PROVE BuildingStays(d)
  BY <1>1 DEF Building, BuildingStays
<1>2. ASSUME NEW l, tasks' = [tasks EXCEPT ![n].pc = l]
      PROVE  /\ DOMAIN tasks' = DOMAIN tasks /\ tasks'[n].pc = l
             /\ \A m \in DOMAIN tasks : /\ tasks'[m].view = tasks[m].view
                                        /\ m # n => tasks'[m] = tasks[m]
  <2>1. tasks' = [tasks EXCEPT ![n] = [pc |-> l, view |-> tasks[n].view]]
    BY <1>0, <1>2, Advance
  <2>. QED  BY <1>0, <2>1 DEF TasksOK
<1>3. CASE TaskCreate(n) \/ TaskWrite(n)
  <2>1. PICK l \in {"write", "merge"} : tasks' = [tasks EXCEPT ![n].pc = l]
    BY <1>3 DEF TaskCreate, TaskWrite
  <2>2. Busy(n)' /\ n \in DOMAIN tasks'
    BY <1>0, <1>2, <2>1 DEF Busy
  <2>3. CASE d = FullDir
    BY <2>2, <2>3 DEF Covered, FullDir
  <2>4. CASE d # FullDir
    <3>0. UNCHANGED <<views, pc>> /\ (StartRuns(FullDir, Task(n)) \/ EndRuns(FullDir, Task(n)))
      BY <1>3 DEF TaskCreate, TaskWrite, reqVars
    <3>1. dirs'[d] = dirs[d]
      BY <1>0, <2>4, <3>0 DEF StartRuns, EndRuns
    <3>2. HeldViews \subseteq HeldViews'
      BY <1>2, <1>3, <2>1 DEF TaskCreate, TaskWrite, HeldViews, Holders, reqVars
    <3>3. HoldersStay(d) /\ BuildingStays(d) /\ BusyStay(d)
      BY <1>1, <2>4, <3>0, <3>2 DEF HoldersStay, BusyStay
    <3>. QED  BY <1>0, <3>1, <3>3, StillCovered
  <2>. QED  BY <2>3, <2>4
<1>4. CASE TaskMerge(n)
  <2>. DEFINE v == [dir |-> FullDir, is_provisional |-> FALSE]
  <2>1. v \in View
    BY DEF View, Dirs, FullDir
  <2>2. views' = Append(views, v)
    BY <1>4 DEF TaskMerge
  <2>. HIDE DEF v
  <2>3. \A m \in DOMAIN views : views'[m] = views[m]
    BY <2>1, <2>2, MoreViews, TypeParts
  <2>4. PICK m : m = Len(views')
    OBVIOUS
  <2>5. tasks' = [tasks EXCEPT ![n] = [pc |-> "replace", view |-> m]]
    BY <1>4, <2>4 DEF TaskMerge
  <2>6. /\ DOMAIN tasks' = DOMAIN tasks /\ tasks'[n].pc = "replace"
        /\ \A u \in DOMAIN tasks : u # n => tasks'[u] = tasks[u]
    BY <1>0, <2>5
  <2>7. BusyStay(d)
    BY <2>6 DEF Busy, BusyStay
  <2>8. HeldViews \ {NoView} \subseteq HeldViews'
    <3>1. tasks[n].view = NoView
      BY <1>0, <1>4 DEF TaskMerge, TaskAt, TasksOK, TaskOK
    <3>. QED  BY <1>4, <2>6, <3>1 DEF TaskMerge, HeldViews, Holders, reqVars
  <2>9. dirs' = dirs /\ UNCHANGED pc
    BY <1>4 DEF TaskMerge, reqVars
  <2>10. HoldersStay(d) /\ BuildingStays(d)
    BY <1>1, <2>3, <2>8, <2>9, HeldIsBuilt DEF HoldersStay
  <2>. QED  BY <1>0, <2>7, <2>9, <2>10, StillCovered
<1>5. CASE TaskFails(n)
  <2>1. d # FullDir
    BY <1>5 DEF TaskFails, Without
  <2>2. dirs'[d] = dirs[d] /\ UNCHANGED <<views, pc>>
    BY <1>5, <2>1 DEF TaskFails, Without, reqVars
  <2>3. tasks' = [tasks EXCEPT ![n].pc = "failed"]
    BY <1>5 DEF TaskFails
  <2>4. HeldViews \subseteq HeldViews'
    BY <1>2, <1>5, <2>3 DEF TaskFails, HeldViews, Holders, reqVars
  <2>5. HoldersStay(d) /\ BuildingStays(d) /\ BusyStay(d)
    BY <1>1, <2>1, <2>2, <2>4 DEF HoldersStay, BusyStay
  <2>. QED  BY <1>0, <2>2, <2>5, StillCovered
<1>6. CASE TaskReplace(n)
  <2>1. DropGuards /\ UNCHANGED <<views, pc>> /\ cached' = tasks[n].view
    BY <1>6 DEF TaskReplace
  <2>2. /\ tasks[n].view \in DOMAIN views /\ tasks[n].view # NoView
        /\ views[tasks[n].view].dir = FullDir
    <3>1. views \in Seq(View)
      BY DEF TypeOK
    <3>2. \A m \in DOMAIN views : m # NoView
      BY <3>1 DEF NoView
    <3>. QED  BY <1>0, <1>6, <3>2 DEF TaskReplace, TaskAt, TasksOK, TaskOK
  <2>3. d = FullDir => Covered(d)'
    BY <2>1, <2>2 DEF Covered, HeldViews, Holders, FullDir
  <2>4. CASE d # FullDir
    <3>1. dirs[d].state # "none" /\ HoldersStay(d)
      BY <2>1, DropCovers DEF HoldersStay
    <3>2. BuildingStays(d) /\ BusyStay(d)
      BY <1>1, <2>1, <2>4 DEF BusyStay
    <3>. QED  BY <1>0, <3>1, <3>2, StillCovered
  <2>. QED  BY <2>3, <2>4
<1>. QED  BY <1>3, <1>4, <1>5, <1>6 DEF TaskStep

LEMMA NextLeavesNone ==
  ASSUME TypeOK, NoOrphanedRuns, [Next]_vars
  PROVE  NoOrphanedRuns'
<1>1. CASE Evict
  <2>. SUFFICES ASSUME NEW d \in Dirs, dirs'[d].state # "none" PROVE Covered(d)'
    BY OrphansAreUncovered
  <2>1. DropGuards /\ UNCHANGED <<views, pc, tasks>>
    BY <1>1 DEF Evict
  <2>2. BuildingStays(d) /\ BusyStay(d)
    BY <2>1, SameTasksBusy DEF Building, BuildingStays
  <2>3. dirs[d].state # "none" /\ HoldersStay(d)
    BY <2>1, DropCovers DEF HoldersStay
  <2>. QED  BY <2>2, <2>3, OrphansAreUncovered, StillCovered
<1>2. CASE UNCHANGED vars
  BY <1>2 DEF vars, reqVars, NoOrphanedRuns, Holders, Building, Busy, FullDir
<1>. QED  BY <1>1, <1>2, RequestLeavesNone, TaskLeavesNone DEF Next

(* Runs on disk belong to a view someone holds or to a build under way, in  *)
(* whatever order requests, full builds, failures and evictions come.      *)
THEOREM NothingIsOrphaned == Spec => []NoOrphanedRuns
<1>1. Init => NoOrphanedRuns
  BY DEF Init, NoOrphanedRuns
<1>. QED  BY <1>1, InitType, NextType, NextLeavesNone, PTL DEF Spec

-----------------------------------------------------------------------------
(***************************************************************************)
(* One client, one full build, no eviction.  Once there are two clients or *)
(* builds, or there was an eviction, that remains so, and nothing is said  *)
(* of what follows.                                                        *)
(***************************************************************************)

Lone ==
  /\ \A q, r \in Requests : pc[q] # "idle" /\ pc[r] # "idle" => q = r
  /\ Len(tasks) <= 1 /\ evictions = 0

In(v, d) == v # NoView /\ views[v].dir = d

CachedWhole == cached # NoView => dirs[views[cached].dir].state = "whole"

(* Until the full build is done with nobody has a view of its directory.   *)
FullUnseen ==
  (\A n \in DOMAIN tasks : Busy(n)) =>
    ~ In(cached, "h_full") /\ \A r \in Requests : ~ In(held[r], "h_full")

FullReady == \A n \in DOMAIN tasks : tasks[n].pc = "replace" => dirs["h_full"].state = "whole"

(* From the miss to the insert no view is cached but the one of the full   *)
(* build, so that what the request truncates is nobody's; its own runs are *)
(* its own; and what it was served with is cached still or was replaced by *)
(* the view of the full build.                                             *)
LoneRequest(r) ==
  /\ pc[r] \in {"claim", "create", "write", "insert"} => ~ In(cached, "h")
  /\ pc[r] = "write" => dirs["h"] = [state |-> "partial", by |-> Request(r)]
  /\ pc[r] = "insert" => In(held[r], "h") /\ dirs["h"].state = "whole"
  /\ pc[r] \in {"register", "spawn", "serve"} =>
       /\ cached # NoView
       /\ held[r] = cached \/ (In(held[r], "h") /\ ~ In(cached, "h"))

Served == CachedWhole /\ FullUnseen /\ FullReady /\ \A r \in Requests : LoneRequest(r)

(* A request that goes on never was idle, or was the only one.             *)
LEMMA RequestIsLone ==
  ASSUME TypeOK, NEW r \in Requests, Ask(r) \/ RequestStep(r), UNCHANGED kind, Lone'
  PROVE  /\ Lone /\ pc'[r] # "idle"
         /\ \A q \in Requests : q # r => pc[q] = "idle" /\ pc'[q] = "idle" /\ held[q] = NoView
<1>0. pc \in [Requests -> RequestPC] /\ \A q \in Requests : pc[q] = "idle" => held[q] = NoView
  BY DEF TypeOK, Holding
<1>1. pc'[r] # "idle" /\ \A q \in Requests : pc'[q] = "idle" => pc[q] = "idle"
  <2>1. CASE BuildFails(r)
    BY <1>0, <2>1 DEF BuildFails, BuilderAndWaiters
  <2>2. CASE Insert(r)
    BY <1>0, <2>2 DEF Insert, BuilderAndWaiters
  <2>3. CASE ~ BuildFails(r) /\ ~ Insert(r)
    <3>1. \E l \in RequestPC \ {"idle"} : pc' = [pc EXCEPT ![r] = l]
      BY <2>3 DEF RequestStep, Ask, CountAccess, Look, Get, Miss, Claim, Create, Write,
                  Register, Spawn, Serve, Goto, RequestPC, Holding
    <3>. QED  BY <1>0, <3>1
  <2>. QED  BY <2>1, <2>2, <2>3
<1>2. \A q \in Requests : pc[q] # "idle" => pc'[q] # "idle"
  BY <1>1
<1>3. ASSUME NEW q \in Requests, q # r PROVE pc[q] = "idle" /\ pc'[q] = "idle" /\ held[q] = NoView
  <2>1. pc'[q] = "idle"
    BY <1>1, <1>3 DEF Lone
  <2>. QED  BY <1>0, <1>1, <2>1
<1>4. Len(tasks) <= 1
  <2>1. CASE UNCHANGED tasks
    BY <2>1 DEF Lone
  <2>2. CASE tasks' = Append(tasks, [pc |-> "create", view |-> NoView])
    <3>1. tasks \in Seq([pc : TaskPC, view : Nat])
      BY DEF TypeOK
    <3>. DEFINE t == [pc |-> "create", view |-> NoView]
    <3>2. t \in [pc : TaskPC, view : Nat]
      BY DEF TaskPC, NoView
    <3>. HIDE DEF t
    <3>3. Len(tasks') = Len(tasks) + 1 /\ Len(tasks) \in Nat
      BY <2>2, <3>1, <3>2 DEF t
    <3>. QED  BY <3>3 DEF Lone
  <2>. QED
    BY <2>1, <2>2 DEF RequestStep, Ask, CountAccess, Look, Get, Miss, Claim, Create, Write,
                      BuildFails, Insert, Register, Spawn, Serve
<1>5. evictions = 0
  BY DEF Lone, RequestStep, Ask, CountAccess, Look, Get, Miss, Claim, Create, Write, BuildFails,
         Insert, Register, Spawn, Serve
<1>. QED  BY <1>1, <1>2, <1>3, <1>4, <1>5 DEF Lone

(* A directory stays when none of its views is let go of.                  *)
LEMMA DropKeeps ==
  ASSUME DirsOK, NEW d \in Dirs, DropGuards, \A v \in Unguarded : views[v].dir # d
  PROVE  dirs'[d] = dirs[d]
BY DEF DropGuards, Without, DirsOK

(* Directories are but two.                                                *)
LEMMA ViewsAreIn ==
  ASSUME TypeOK, NEW v \in Ids
  PROVE  v # NoView => v \in DOMAIN views /\ (In(v, "h") \/ In(v, "h_full"))
<1>. SUFFICES ASSUME v # NoView PROVE v \in DOMAIN views /\ (In(v, "h") \/ In(v, "h_full"))
  OBVIOUS
<1>1. v \in DOMAIN views /\ views \in Seq(View)
  BY DEF Ids, TypeOK
<1>2. views[v] \in View
  BY <1>1
<1>3. views[v].dir \in Dirs
  BY <1>2 DEF View
<1>. QED  BY <1>1, <1>3 DEF In, Dirs

(* What a lone request keeps.                                              *)
LEMMA LoneRequestServed ==
  ASSUME TypeOK, TypeOK', NEW r \in Requests, Ask(r) \/ RequestStep(r), UNCHANGED kind,
         Lone', Lone => Served
  PROVE  Served'
<1>0. /\ Lone /\ Served /\ pc'[r] # "idle"
      /\ \A q \in Requests : q # r => pc[q] = "idle" /\ pc'[q] = "idle" /\ held[q] = NoView
  BY RequestIsLone
<1>1. /\ DirsOK /\ TasksOK /\ views \in Seq(View) /\ cached \in Ids
      /\ pc \in [Requests -> RequestPC] /\ held \in [Requests -> Ids] /\ held[r] \in Ids
      /\ (pc[r] \in Holding <=> held[r] # NoView)
  BY TypeParts DEF TypeOK, Ids
<1>2. CachedWhole /\ FullUnseen /\ FullReady /\ LoneRequest(r)
  BY <1>0 DEF Served
<1>3. ASSUME LoneRequest(r)' PROVE \A q \in Requests : LoneRequest(q)'
  <2>1. ASSUME NEW q \in Requests, q # r PROVE LoneRequest(q)'
    <3>1. pc'[q] = "idle"
      BY <1>0, <2>1
    <3>. QED  BY <3>1 DEF LoneRequest
  <2>. QED  BY <1>3, <2>1
<1>4. ASSUME UNCHANGED <<views, cached, tasks>>,
             \A q \in Requests : held'[q] \in {NoView, held[q], cached}
      PROVE  FullUnseen'
  <2>1. SUFFICES ASSUME \A n \in DOMAIN tasks : Busy(n)
                 PROVE  ~ In(cached, "h_full") /\ \A q \in Requests : ~ In(held'[q], "h_full")
    BY <1>4 DEF FullUnseen, Busy, In
  <2>2. ~ In(cached, "h_full") /\ \A q \in Requests : ~ In(held[q], "h_full")
    BY <1>2, <2>1 DEF FullUnseen
  <2>. QED  BY <1>4, <2>2 DEF In
<1>5. ASSUME UNCHANGED tasks, dirs'["h_full"] = dirs["h_full"] PROVE FullReady'
  BY <1>2, <1>5 DEF FullReady
<1>6. CASE Ask(r) \/ CountAccess(r) \/ Miss(r) \/ Claim(r) \/ Register(r) \/ Get(r)
  <2>1. UNCHANGED <<dirs, views, cached, tasks>>
    BY <1>6 DEF Ask, CountAccess, Miss, Claim, Register, Get
  <2>2. CachedWhole'
    BY <1>2, <2>1 DEF CachedWhole
  <2>3. \A q \in Requests : held'[q] \in {NoView, held[q], cached}
    BY <1>1, <1>6 DEF Ask, CountAccess, Miss, Claim, Register, Get
  <2>4. FullUnseen' /\ FullReady'
    BY <1>4, <1>5, <2>1, <2>3
  <2>5. LoneRequest(r)'
    <3>1. CASE Ask(r) \/ CountAccess(r)
      <4>1. pc'[r] \in {"count", "look", "get"}
        BY <1>1, <3>1 DEF Ask, CountAccess, Goto
      <4>. QED  BY <4>1 DEF LoneRequest
    <3>2. CASE Miss(r)
      <4>1. pc'[r] = "claim" /\ cached' = NoView
        BY <1>1, <3>2 DEF Miss, Goto
      <4>. QED  BY <4>1 DEF LoneRequest, In
    <3>3. CASE Claim(r)
      <4>1. pc[r] = "claim" /\ pc'[r] \in {"create", "wait"}
        BY <1>1, <3>3 DEF Claim, Goto
      <4>. QED  BY <1>2, <2>1, <4>1 DEF LoneRequest, In
    <3>4. CASE Register(r)
      <4>1. pc[r] = "register" /\ pc'[r] \in {"spawn", "serve"} /\ held' = held
        BY <1>1, <3>4 DEF Register, Goto
      <4>. QED  BY <1>2, <2>1, <4>1 DEF LoneRequest, In
    <3>5. CASE Get(r)
      <4>1. pc'[r] = "register" /\ held'[r] = cached /\ cached # NoView
        BY <1>1, <3>5 DEF Get, Goto
      <4>. QED  BY <2>1, <4>1 DEF LoneRequest
    <3>. QED  BY <1>6, <3>1, <3>2, <3>3, <3>4, <3>5
  <2>. QED  BY <1>3, <2>2, <2>4, <2>5 DEF Served
<1>7. CASE Look(r) \/ Spawn(r)
  <2>1. UNCHANGED <<dirs, views, cached, held>>
    BY <1>7 DEF Look, Spawn
  <2>2. CachedWhole'
    BY <1>2, <2>1 DEF CachedWhole
  <2>3. LoneRequest(r)'
    <3>1. CASE Look(r)
      <4>1. pc'[r] = "get"
        BY <1>1, <3>1 DEF Look, Goto
      <4>. QED  BY <4>1 DEF LoneRequest
    <3>2. CASE Spawn(r)
      <4>1. pc[r] = "spawn" /\ pc'[r] = "serve"
        BY <1>1, <3>2 DEF Spawn, Goto
      <4>. QED  BY <1>2, <2>1, <4>1 DEF LoneRequest, In
    <3>. QED  BY <1>7, <3>1, <3>2
  <2>4. FullUnseen' /\ FullReady'
    <3>1. CASE UNCHANGED tasks
      <4>1. \A q \in Requests : held'[q] \in {NoView, held[q], cached}
        BY <2>1
      <4>. QED  BY <1>4, <1>5, <2>1, <3>1, <4>1
    <3>2. CASE tasks' = Append(tasks, [pc |-> "create", view |-> NoView])
      <4>. DEFINE t == [pc |-> "create", view |-> NoView]
      <4>1. t \in [pc : TaskPC, view : Nat] /\ t.pc = "create"
        BY DEF TaskPC, NoView
      <4>. HIDE DEF t
      <4>2. tasks' = Append(tasks, t) /\ tasks \in Seq([pc : TaskPC, view : Nat])
        BY <3>2 DEF t, TypeOK
      <4>3. Len(tasks') = Len(tasks) + 1 /\ Len(tasks) \in Nat
        BY <4>1, <4>2
      <4>4. Len(tasks) = 0
        BY <4>3 DEF Lone
      <4>5. DOMAIN tasks = {}
        BY <4>2, <4>4
      <4>6. DOMAIN tasks' = {1} /\ tasks'[1] = t
        BY <4>1, <4>2, <4>4
      <4>7. ~ In(cached, "h_full") /\ \A q \in Requests : ~ In(held[q], "h_full")
        BY <1>2, <4>5 DEF FullUnseen
      <4>8. FullUnseen'
        BY <2>1, <4>7 DEF FullUnseen, In
      <4>9. FullReady'
        BY <4>1, <4>6 DEF FullReady
      <4>. QED  BY <4>8, <4>9
    <3>. QED  BY <1>7, <3>1, <3>2 DEF Look, Spawn
  <2>. QED  BY <1>3, <2>2, <2>3, <2>4 DEF Served
<1>8. CASE Create(r)
  <2>1. /\ pc[r] = "create" /\ pc'[r] = "write" /\ UNCHANGED <<views, cached, tasks, held>>
        /\ dirs' = [dirs EXCEPT !["h"] = [state |-> "partial", by |-> Request(r)]]
    BY <1>1, <1>8 DEF Create, StartRuns, Goto
  <2>2. /\ dirs'["h"] = [state |-> "partial", by |-> Request(r)]
        /\ dirs'["h_full"] = dirs["h_full"]
    BY <1>1, <2>1 DEF DirsOK, Dirs
  <2>3. ~ In(cached, "h")
    BY <1>2, <2>1 DEF LoneRequest
  <2>4. CachedWhole'
    <3>1. cached # NoView => In(cached, "h_full")
      BY <1>1, <2>3, ViewsAreIn
    <3>. QED  BY <1>2, <2>1, <2>2, <3>1 DEF CachedWhole, In
  <2>5. FullUnseen' /\ FullReady'
    BY <1>4, <1>5, <2>1, <2>2
  <2>6. LoneRequest(r)'
    BY <2>1, <2>2, <2>3 DEF LoneRequest, In
  <2>. QED  BY <1>3, <2>4, <2>5, <2>6 DEF Served
<1>9. CASE Write(r)
  <2>. DEFINE v == [dir |-> "h", is_provisional |-> kind.large]
  <2>1. v \in View /\ v.dir = "h"
    BY SortAssumption DEF TypeOK, View, Dirs
  <2>2. views' = Append(views, v)
    BY <1>9 DEF Write
  <2>. HIDE DEF v
  <2>3. /\ Len(views') # NoView /\ views'[Len(views')] = v
        /\ \A n \in DOMAIN views : views'[n] = views[n]
    BY <2>1, <2>2, MoreViews, TypeParts
  <2>4. PICK m : m = Len(views')
    OBVIOUS
  <2>5. /\ pc[r] = "write" /\ pc'[r] = "insert" /\ UNCHANGED <<cached, tasks>>
        /\ held' = [held EXCEPT ![r] = m]
    BY <1>1, <1>9, <2>4 DEF Write, Goto
  <2>6. /\ ~ In(cached, "h") /\ dirs["h"] = [state |-> "partial", by |-> Request(r)]
    BY <1>2, <2>5 DEF LoneRequest
  <2>7. dirs' = [dirs EXCEPT !["h"].state = "whole"]
    BY <1>9, <2>6 DEF Write, EndRuns
  <2>8. dirs'["h_full"] = dirs["h_full"] /\ dirs'["h"].state = "whole"
    BY <1>1, <2>7 DEF DirsOK, Dirs, Files
  <2>9. ASSUME NEW u \in Ids, NEW d PROVE In(u, d)' <=> In(u, d)
    BY <2>3 DEF In, Ids
  <2>10. In(m, "h")'
    BY <2>1, <2>3, <2>4 DEF In
  <2>11. CachedWhole'
    <3>1. cached # NoView => In(cached, "h_full")
      BY <1>1, <2>6, ViewsAreIn
    <3>2. In(cached, "h_full") => In(cached, "h_full")'
      BY <1>1, <2>5, <2>9
    <3>. QED  BY <1>2, <2>5, <2>8, <3>1, <3>2 DEF CachedWhole, In
  <2>12. FullUnseen'
    <3>1. SUFFICES ASSUME \A n \in DOMAIN tasks : Busy(n)
                   PROVE  ~ In(cached, "h_full")' /\ \A q \in Requests : ~ In(held[q], "h_full")'
      BY <2>5 DEF FullUnseen, Busy
    <3>2. ~ In(cached, "h_full") /\ \A q \in Requests : ~ In(held[q], "h_full")
      BY <1>2, <3>1 DEF FullUnseen
    <3>3. ~ In(cached, "h_full")'
      BY <1>1, <2>5, <2>9, <3>2 DEF In
    <3>4. ASSUME NEW q \in Requests PROVE ~ In(held[q], "h_full")'
      <4>1. CASE q = r
        BY <1>1, <2>5, <2>10, <4>1 DEF In
      <4>2. CASE q # r
        BY <1>0, <1>1, <2>5, <4>2 DEF In
      <4>. QED  BY <4>1, <4>2
    <3>. QED  BY <3>3, <3>4
  <2>13. FullReady'
    BY <1>5, <2>5, <2>8
  <2>14. LoneRequest(r)'
    <3>1. held'[r] = m
      BY <1>1, <2>5
    <3>2. ~ In(cached, "h")'
      BY <1>1, <2>5, <2>6, <2>9 DEF In
    <3>. QED  BY <2>5, <2>8, <2>10, <3>1, <3>2 DEF LoneRequest, In
  <2>. QED  BY <1>3, <2>11, <2>12, <2>13, <2>14 DEF Served
<1>10. CASE BuildFails(r)
  <2>1. /\ pc[r] = "write" /\ pc'[r] = "error" /\ UNCHANGED <<views, cached, held, tasks>>
        /\ dirs' = Without({"h"})
    BY <1>1, <1>10 DEF BuildFails, BuilderAndWaiters
  <2>2. dirs'["h_full"] = dirs["h_full"]
    BY <2>1 DEF Without, Dirs
  <2>3. CachedWhole'
    <3>1. ~ In(cached, "h")
      BY <1>2, <2>1 DEF LoneRequest
    <3>2. cached # NoView => In(cached, "h_full")
      BY <1>1, <3>1, ViewsAreIn
    <3>. QED  BY <1>2, <2>1, <2>2, <3>2 DEF CachedWhole, In
  <2>4. FullUnseen' /\ FullReady'
    BY <1>4, <1>5, <2>1, <2>2
  <2>5. LoneRequest(r)'
    BY <2>1 DEF LoneRequest
  <2>. QED  BY <1>3, <2>3, <2>4, <2>5 DEF Served
<1>11. CASE Insert(r)
  <2>. DEFINE kept == IF cached = NoView THEN held[r] ELSE cached
  <2>1. /\ pc[r] = "insert" /\ pc'[r] = "register" /\ UNCHANGED <<views, tasks>> /\ DropGuards
        /\ cached' = kept /\ held'[r] = kept
    BY <1>1, <1>11 DEF Insert, BuilderAndWaiters
  <2>2. \A q \in Requests : q # r => held'[q] = held[q]
    BY <1>0, <1>11 DEF Insert, BuilderAndWaiters
  <2>3. /\ ~ In(cached, "h") /\ In(held[r], "h") /\ dirs["h"].state = "whole"
    BY <1>2, <2>1 DEF LoneRequest
  <2>4. kept \in Ids /\ kept # NoView /\ held[r] # NoView
    BY <1>1, <2>3 DEF In
  <2>5. \A v \in Unguarded : v = held[r] /\ v # kept
    <3>1. Unguarded \subseteq {cached, held[r]} \ {kept, NoView}
      BY <1>0, <2>1, <2>2 DEF Unguarded, Holders
    <3>. QED  BY <3>1
  <2>6. dirs'["h_full"] = dirs["h_full"]
    BY <1>1, <2>1, <2>3, <2>5, DropKeeps DEF In, Dirs
  <2>7. CachedWhole'
    <3>1. CASE cached = NoView
      <4>1. Unguarded = {}
        BY <2>5, <3>1
      <4>2. dirs'["h"] = dirs["h"]
        BY <1>1, <2>1, <4>1, DropKeeps DEF Dirs
      <4>. QED  BY <2>1, <2>3, <3>1, <4>2 DEF CachedWhole, In
    <3>2. CASE cached # NoView
      <4>1. In(cached, "h_full")
        BY <1>1, <2>3, <3>2, ViewsAreIn
      <4>. QED  BY <1>2, <2>1, <2>6, <3>2, <4>1 DEF CachedWhole, In
    <3>. QED  BY <3>1, <3>2
  <2>8. FullUnseen'
    <3>1. SUFFICES ASSUME \A n \in DOMAIN tasks : Busy(n)
                   PROVE  ~ In(cached', "h_full") /\ \A q \in Requests : ~ In(held'[q], "h_full")
      BY <2>1 DEF FullUnseen, Busy, In
    <3>2. ~ In(cached, "h_full") /\ \A q \in Requests : ~ In(held[q], "h_full")
      BY <1>2, <3>1 DEF FullUnseen
    <3>3. ~ In(kept, "h_full")
      BY <3>2
    <3>. QED  BY <2>1, <2>2, <3>2, <3>3
  <2>9. FullReady'
    BY <1>5, <2>1, <2>6
  <2>10. LoneRequest(r)'
    BY <2>1, <2>4 DEF LoneRequest
  <2>. QED  BY <1>3, <2>7, <2>8, <2>9, <2>10 DEF Served
<1>12. CASE Serve(r)
  <2>1. /\ pc[r] = "serve" /\ pc'[r] \in {"served", "error"} /\ UNCHANGED <<views, cached, tasks>>
        /\ DropGuards /\ held' = [held EXCEPT ![r] = NoView]
    BY <1>1, <1>12 DEF Serve, Goto
  <2>2. cached # NoView /\ (held[r] = cached \/ (In(held[r], "h") /\ ~ In(cached, "h")))
    BY <1>2, <2>1 DEF LoneRequest
  <2>3. Unguarded \subseteq {held[r]} \ {cached}
    BY <1>0, <1>1, <2>1 DEF Unguarded, Holders
  <2>4. ASSUME held[r] = cached PROVE CachedWhole' /\ dirs'["h_full"] = dirs["h_full"]
    <3>1. Unguarded = {}
      BY <2>3, <2>4
    <3>2. \A d \in Dirs : dirs'[d] = dirs[d]
      BY <1>1, <2>1, <3>1, DropKeeps
    <3>3. dirs'["h_full"] = dirs["h_full"] /\ dirs'["h"] = dirs["h"]
      BY <3>2 DEF Dirs
    <3>4. CachedWhole'
      <4>1. In(cached, "h") \/ In(cached, "h_full")
        BY <1>1, <2>2, ViewsAreIn
      <4>. QED  BY <1>2, <2>1, <2>2, <3>3, <4>1 DEF CachedWhole, In
    <3>. QED  BY <3>3, <3>4
  <2>5. ASSUME In(held[r], "h"), ~ In(cached, "h")
        PROVE  CachedWhole' /\ dirs'["h_full"] = dirs["h_full"]
    <3>1. dirs'["h_full"] = dirs["h_full"]
      BY <1>1, <2>1, <2>3, <2>5, DropKeeps DEF In, Dirs
    <3>2. In(cached, "h_full")
      BY <1>1, <2>2, <2>5, ViewsAreIn
    <3>3. CachedWhole'
      BY <1>2, <2>1, <2>2, <3>1, <3>2 DEF CachedWhole, In
    <3>. QED  BY <3>1, <3>3
  <2>6. CachedWhole' /\ dirs'["h_full"] = dirs["h_full"]
    BY <2>2, <2>4, <2>5
  <2>7. \A q \in Requests : held'[q] \in {NoView, held[q], cached}
    BY <1>1, <2>1
  <2>8. FullUnseen' /\ FullReady'
    BY <1>4, <1>5, <2>1, <2>6, <2>7
  <2>9. LoneRequest(r)'
    BY <2>1 DEF LoneRequest
  <2>. QED  BY <1>3, <2>6, <2>8, <2>9 DEF Served
<1>. QED  BY <1>6, <1>7, <1>8, <1>9, <1>10, <1>11, <1>12 DEF RequestStep

(* What the full build keeps.                                              *)
LEMMA LoneTaskServed ==
  ASSUME TypeOK, NEW n \in Tasks, TaskStep(n), Lone', Lone => Served
  PROVE  Served'
<1>0. /\ DirsOK /\ TasksOK /\ views \in Seq(View) /\ cached \in Ids /\ n \in DOMAIN tasks
      /\ held \in [Requests -> Ids] /\ tasks[n] \in TaskRecord /\ TaskOK(tasks[n])
  BY TypeParts DEF TypeOK, Ids, TasksOK, TaskStep, TaskCreate, TaskWrite, TaskMerge, TaskFails,
                   TaskReplace, TaskAt
<1>1. UNCHANGED <<pc, held, evictions>>
  BY DEF TaskStep, TaskCreate, TaskWrite, TaskMerge, TaskFails, TaskReplace, reqVars
<1>2. PICK t : tasks' = [tasks EXCEPT ![n] = t]
  <2>1. CASE TaskCreate(n) \/ TaskWrite(n) \/ TaskFails(n)
    <3>1. \E l : tasks' = [tasks EXCEPT ![n].pc = l]
      BY <2>1 DEF TaskCreate, TaskWrite, TaskFails
    <3>. QED  BY <1>0, <3>1, Advance
  <2>2. CASE TaskMerge(n) \/ TaskReplace(n)
    BY <2>2 DEF TaskMerge, TaskReplace
  <2>. QED  BY <2>1, <2>2 DEF TaskStep
<1>3. DOMAIN tasks' = DOMAIN tasks /\ tasks'[n] = t /\ Len(tasks') = Len(tasks)
  BY <1>0, <1>2 DEF TasksOK
<1>4. Lone /\ Served
  BY <1>1, <1>3 DEF Lone
<1>5. DOMAIN tasks = {n}
  <2>1. tasks \in Seq(TaskRecord) /\ Len(tasks) <= 1
    BY <1>0, <1>4 DEF TasksOK, Lone
  <2>2. Len(tasks) \in Nat /\ DOMAIN tasks = 1 .. Len(tasks)
    BY <2>1
  <2>3. n \in 1 .. Len(tasks)
    BY <1>0, <2>2
  <2>4. Len(tasks) = 1 /\ n = 1
    BY <2>1, <2>2, <2>3
  <2>5. 1 .. 1 = {1}
    OBVIOUS
  <2>. QED  BY <2>2, <2>4, <2>5
<1>6. /\ CachedWhole /\ \A r \in Requests : LoneRequest(r)
      /\ FullUnseen /\ FullReady
  BY <1>4 DEF Served
<1>7. Busy(n) /\ ~ In(cached, "h_full") /\ \A r \in Requests : ~ In(held[r], "h_full")
  <2>1. Busy(n)
    BY DEF TaskStep, TaskCreate, TaskWrite, TaskMerge, TaskFails, TaskReplace, TaskAt, Busy
  <2>. QED  BY <1>5, <1>6, <2>1 DEF FullUnseen
<1>8. cached # NoView => In(cached, "h")
  BY <1>0, <1>7, ViewsAreIn
<1>9. ASSUME UNCHANGED <<views, cached>>, dirs'["h"] = dirs["h"], t.pc # "replace"
      PROVE  Served'
  <2>1. CachedWhole'
    BY <1>6, <1>8, <1>9 DEF CachedWhole, In
  <2>2. FullUnseen'
    BY <1>1, <1>7, <1>9 DEF FullUnseen, In
  <2>3. FullReady'
    BY <1>3, <1>5, <1>9 DEF FullReady
  <2>4. ASSUME NEW r \in Requests PROVE LoneRequest(r)'
    BY <1>1, <1>6, <1>9 DEF LoneRequest, In
  <2>. QED  BY <2>1, <2>2, <2>3, <2>4 DEF Served
<1>10. ASSUME NEW l \in TaskPC \ {"replace"}, tasks' = [tasks EXCEPT ![n].pc = l]
       PROVE  t.pc # "replace"
  <2>1. tasks' = [tasks EXCEPT ![n] = [pc |-> l, view |-> tasks[n].view]]
    BY <1>0, <1>10, Advance
  <2>2. tasks'[n] = [pc |-> l, view |-> tasks[n].view]
    BY <1>0, <2>1 DEF TasksOK
  <2>3. t = [pc |-> l, view |-> tasks[n].view]
    BY <1>3, <2>2
  <2>. QED  BY <1>10, <2>3
<1>11. CASE TaskCreate(n) \/ TaskWrite(n) \/ TaskFails(n)
  <2>1. UNCHANGED <<views, cached>> /\ dirs'["h"] = dirs["h"]
    BY <1>0, <1>11 DEF TaskCreate, TaskWrite, TaskFails, StartRuns, EndRuns, Without, FullDir,
                       DirsOK, Dirs
  <2>2. \E l \in TaskPC \ {"replace"} : tasks' = [tasks EXCEPT ![n].pc = l]
    BY <1>11 DEF TaskCreate, TaskWrite, TaskFails, TaskPC
  <2>. QED  BY <1>9, <1>10, <2>1, <2>2
<1>12. CASE TaskMerge(n)
  <2>. DEFINE v == [dir |-> FullDir, is_provisional |-> FALSE]
  <2>1. v \in View
    BY DEF View, Dirs, FullDir
  <2>2. views' = Append(views, v)
    BY <1>12 DEF TaskMerge
  <2>. HIDE DEF v
  <2>3. \A m \in DOMAIN views : views'[m] = views[m]
    BY <2>1, <2>2, MoreViews, TypeParts
  <2>4. ASSUME NEW u \in Ids, NEW d PROVE In(u, d)' <=> In(u, d)
    BY <2>3 DEF In, Ids
  <2>5. UNCHANGED <<dirs, cached>> /\ dirs["h_full"].state = "whole"
    BY <1>12 DEF TaskMerge, FullDir
  <2>6. CachedWhole'
    <3>1. cached # NoView => In(cached, "h")'
      BY <1>0, <1>8, <2>4, <2>5
    <3>. QED  BY <1>6, <1>8, <2>5, <3>1 DEF CachedWhole, In
  <2>7. FullUnseen'
    <3>1. ~ In(cached, "h_full")'
      BY <1>0, <1>7, <2>4, <2>5 DEF In
    <3>2. ASSUME NEW r \in Requests PROVE ~ In(held[r], "h_full")'
      <4>1. held[r] \in Ids /\ held'[r] = held[r]
        BY <1>0, <1>1
      <4>2. ~ (held[r] # NoView /\ views'[held[r]].dir = "h_full")
        BY <1>7, <2>4, <4>1 DEF In
      <4>. QED  BY <4>1, <4>2 DEF In
    <3>. QED  BY <3>1, <3>2 DEF FullUnseen
  <2>8. FullReady'
    BY <2>5 DEF FullReady
  <2>9. ASSUME NEW r \in Requests PROVE LoneRequest(r)'
    <3>1. \A d : (In(cached, d)' <=> In(cached, d)) /\ (In(held[r], d)' <=> In(held[r], d))
      BY <1>0, <1>1, <2>4, <2>5 DEF In
    <3>2. LoneRequest(r)
      BY <1>6
    <3>. QED  BY <1>1, <2>5, <3>1, <3>2 DEF LoneRequest
  <2>. QED  BY <2>6, <2>7, <2>8, <2>9 DEF Served
<1>13. CASE TaskReplace(n)
  <2>1. /\ UNCHANGED views /\ DropGuards /\ cached' = tasks[n].view /\ t.pc = "complete"
        /\ tasks[n].pc = "replace"
    <3>1. tasks'[n] = [pc |-> "complete", view |-> NoView]
      BY <1>0, <1>13 DEF TaskReplace, TasksOK
    <3>. QED  BY <1>3, <1>13, <3>1 DEF TaskReplace, TaskAt
  <2>2. cached' \in DOMAIN views /\ cached' # NoView /\ views[cached'].dir = "h_full"
    <3>1. \A m \in DOMAIN views : m # NoView
      BY <1>0 DEF NoView
    <3>. QED  BY <1>0, <2>1, <3>1 DEF TaskOK, FullDir
  <2>3. dirs["h_full"].state = "whole"
    BY <1>0, <1>6, <2>1 DEF FullReady
  <2>4. Unguarded \subseteq {cached} \ {NoView}
    <3>1. Unguarded \subseteq Holders(cached, held, tasks) \ {cached', NoView}
      BY DEF Unguarded, Holders
    <3>2. \A r \in Requests : held[r] \notin Unguarded
      BY <1>1 DEF Unguarded, Holders
    <3>3. \A m \in DOMAIN tasks : tasks[m].view = cached'
      BY <1>5, <2>1
    <3>. QED  BY <3>1, <3>2, <3>3 DEF Holders
  <2>5. dirs'["h_full"] = dirs["h_full"]
    <3>1. \A v \in Unguarded : views[v].dir # "h_full"
      BY <1>7, <2>4 DEF In
    <3>. QED  BY <1>0, <2>1, <3>1, DropKeeps DEF Dirs
  <2>6. CachedWhole'
    BY <2>1, <2>2, <2>3, <2>5 DEF CachedWhole
  <2>7. FullUnseen'
    BY <1>0, <1>3, <2>1 DEF FullUnseen, Busy
  <2>8. FullReady'
    BY <1>3, <1>5, <2>1 DEF FullReady
  <2>9. ASSUME NEW r \in Requests PROVE LoneRequest(r)'
    <3>1. LoneRequest(r) /\ ~ In(cached, "h")' /\ (In(held[r], "h")' <=> In(held[r], "h"))
      BY <1>1, <1>6, <2>1, <2>2 DEF In
    <3>2. CASE pc[r] \in {"write", "insert"}
      <4>1. cached = NoView
        BY <1>8, <3>1, <3>2 DEF LoneRequest
      <4>2. dirs'["h"] = dirs["h"]
        BY <1>0, <2>1, <2>4, <4>1, DropKeeps DEF Dirs
      <4>. QED  BY <1>1, <3>1, <3>2, <4>2 DEF LoneRequest
    <3>3. CASE pc[r] \in {"register", "spawn", "serve"}
      <4>1. In(held[r], "h")
        BY <1>8, <3>1, <3>3 DEF LoneRequest
      <4>. QED  BY <1>1, <2>2, <3>1, <3>3, <4>1 DEF LoneRequest
    <3>4. CASE pc[r] \notin {"write", "insert", "register", "spawn", "serve"}
      BY <1>1, <3>1, <3>4 DEF LoneRequest
    <3>. QED  BY <3>2, <3>3, <3>4
  <2>. QED  BY <2>6, <2>7, <2>8, <2>9 DEF Served
<1>. QED  BY <1>11, <1>12, <1>13 DEF TaskStep

LEMMA NextServed ==
  ASSUME TypeOK, TypeOK', [Next]_vars, Lone => Served
  PROVE  Lone' => Served'
<1>. SUFFICES ASSUME Lone' PROVE Served'
  OBVIOUS
<1>1. CASE Evict
  <2>1. evictions' = evictions + 1 /\ evictions \in Nat
    BY <1>1, SortAssumption DEF Evict, TypeOK
  <2>. QED  BY <2>1 DEF Lone
<1>2. CASE UNCHANGED vars
  <2>1. UNCHANGED <<dirs, views, cached, pc, held, tasks, evictions>>
    BY <1>2 DEF vars, reqVars
  <2>2. Served
    BY <2>1 DEF Lone
  <2>. QED
    BY <2>1, <2>2 DEF Served, CachedWhole, FullUnseen, FullReady, LoneRequest, Busy, In
<1>. QED  BY <1>1, <1>2, LoneRequestServed, LoneTaskServed DEF Next

(* Those who asked are finitely many, however many may ask.                *)
Askers == {r \in Requests : pc[r] # "idle"}

LEMMA AskersFinite ==
  ASSUME TypeOK, [Next]_vars, IsFiniteSet(Askers)
  PROVE  IsFiniteSet(Askers')
<1>0. pc \in [Requests -> RequestPC]
  BY DEF TypeOK
<1>1. ASSUME NEW r \in Requests, Ask(r) \/ RequestStep(r) PROVE IsFiniteSet(Askers')
  <2>1. \A q \in Requests : q # r /\ pc[q] = "idle" => pc'[q] = "idle"
    <3>1. CASE BuildFails(r)
      BY <1>0, <3>1 DEF BuildFails, BuilderAndWaiters
    <3>2. CASE Insert(r)
      BY <1>0, <3>2 DEF Insert, BuilderAndWaiters
    <3>3. CASE ~ BuildFails(r) /\ ~ Insert(r)
      <4>1. \E l : pc' = [pc EXCEPT ![r] = l]
        BY <1>1, <3>3 DEF RequestStep, Ask, CountAccess, Look, Get, Miss, Claim, Create, Write,
                          Register, Spawn, Serve, Goto
      <4>. QED  BY <1>0, <4>1
    <3>. QED  BY <3>1, <3>2, <3>3
  <2>2. Askers' \subseteq Askers \cup {r}
    BY <2>1 DEF Askers
  <2>3. IsFiniteSet(Askers \cup {r})
    BY FS_AddElement
  <2>. QED  BY <2>2, <2>3, FS_Subset
<1>2. CASE UNCHANGED pc
  <2>1. Askers' = Askers
    BY <1>2 DEF Askers
  <2>. QED  BY <2>1
<1>3. ASSUME NEW n \in Tasks, TaskStep(n) PROVE UNCHANGED pc
  BY <1>3 DEF TaskStep, TaskCreate, TaskWrite, TaskMerge, TaskFails, TaskReplace, reqVars
<1>4. Evict \/ UNCHANGED vars => UNCHANGED pc
  BY DEF Evict, vars, reqVars
<1>. QED  BY <1>1, <1>2, <1>3, <1>4 DEF Next

(* Whatever a lone client asks, in whatever order its builds, the full     *)
(* build and the guards act and fail, the view in the cache has its runs.  *)
THEOREM OneClientIsServed == Spec => []ServableForOneClient
<1>1. ASSUME IsFiniteSet(Askers), TypeOK, Lone => Served PROVE ServableForOneClient
  <2>. SUFFICES ASSUME Cardinality(Askers) <= 1, Len(tasks) <= 1, evictions = 0
                PROVE  cached # NoView => dirs[views[cached].dir].state = "whole"
    BY DEF ServableForOneClient, Askers
  <2>1. \A q, r \in Askers : q = r
    <3>1. Cardinality(Askers) \in Nat /\ (Cardinality(Askers) = 0 \/ Cardinality(Askers) = 1)
      BY <1>1, FS_CardinalityType
    <3>2. Askers = {} \/ \E r : Askers = {r}
      BY <1>1, <3>1, FS_EmptySet, FS_Singleton
    <3>. QED  BY <3>2
  <2>2. Lone
    BY <2>1 DEF Lone, Askers
  <2>. QED  BY <1>1, <2>2 DEF Served, CachedWhole
<1>2. Init => IsFiniteSet(Askers) /\ (Lone => Served)
  <2>1. SUFFICES ASSUME Init PROVE IsFiniteSet(Askers) /\ Served
    OBVIOUS
  <2>2. Askers = {}
    BY <2>1 DEF Init, Askers
  <2>3. IsFiniteSet(Askers)
    BY <2>2, FS_EmptySet
  <2>4. Served
    BY <2>1 DEF Init, Served, CachedWhole, FullUnseen, FullReady, LoneRequest, In
  <2>. QED  BY <2>3, <2>4
<1>3. TypeOK /\ TypeOK' /\ [Next]_vars /\ (Lone => Served) => (Lone => Served)'
  BY NextServed
<1>4. TypeOK /\ [Next]_vars /\ IsFiniteSet(Askers) => IsFiniteSet(Askers)'
  BY AskersFinite
<1>. QED  BY <1>1, <1>2, <1>3, <1>4, InitType, NextType, PTL DEF Spec

-----------------------------------------------------------------------------
(***************************************************************************)
(* Who waits for a build waits for a request that builds: what the fairness*)
(* of FairSpec turns into an answer for everyone.                          *)
(***************************************************************************)

BuildSteps == {"create", "write", "insert"}

(* The requests that build are those that claimed the key, one at most, and*)
(* nobody waits for nobody.                                                *)
WaitersHaveABuilder ==
  /\ \A r \in Requests : r \in builder <=> pc[r] \in BuildSteps
  /\ \A q, r \in builder : q = r
  /\ (\E r \in Requests : pc[r] = "wait") => builder # {}

(* A request with another step that is no build, or has been one.          *)
LEMMA OneStep ==
  ASSUME TypeOK, NEW r \in Requests, NEW l, pc' = [pc EXCEPT ![r] = l]
  PROVE  pc'[r] = l /\ \A q \in Requests : q # r => pc'[q] = pc[q]
BY DEF TypeOK

LEMMA RequestKeepsBuilder ==
  ASSUME TypeOK, WaitersHaveABuilder, NEW r \in Requests, Ask(r) \/ RequestStep(r)
  PROVE  WaitersHaveABuilder'
<1>0. builder \subseteq Requests
  BY DEF TypeOK
<1>1. CASE Claim(r)
  <2>1. /\ pc[r] = "claim"
        /\ \/ builder = {} /\ builder' = {r} /\ pc' = [pc EXCEPT ![r] = "create"]
           \/ builder # {} /\ builder' = builder /\ pc' = [pc EXCEPT ![r] = "wait"]
    BY <1>1 DEF Claim, Goto
  <2>2. CASE builder = {} /\ builder' = {r} /\ pc' = [pc EXCEPT ![r] = "create"]
    BY <2>1, <2>2, OneStep DEF WaitersHaveABuilder, BuildSteps
  <2>3. CASE builder # {} /\ builder' = builder /\ pc' = [pc EXCEPT ![r] = "wait"]
    BY <2>1, <2>3, OneStep DEF WaitersHaveABuilder, BuildSteps
  <2>. QED  BY <2>1, <2>2, <2>3
<1>2. CASE Create(r) \/ Write(r)
  <2>1. pc[r] \in BuildSteps /\ builder' = builder /\ \E l \in BuildSteps : pc' = [pc EXCEPT ![r] = l]
    BY <1>2 DEF Create, Write, Goto, BuildSteps
  <2>. QED  BY <2>1, OneStep DEF WaitersHaveABuilder, BuildSteps
<1>3. CASE BuildFails(r) \/ Insert(r)
  <2>1. pc[r] \in BuildSteps /\ builder' = {}
    BY <1>3 DEF BuildFails, Insert, BuildSteps
  <2>2. \A q \in Requests : pc[q] \in BuildSteps => q = r
    BY <2>1 DEF WaitersHaveABuilder
  <2>3. ASSUME NEW q \in Requests PROVE pc'[q] \notin BuildSteps /\ pc'[q] # "wait"
    <3>1. CASE q \in BuilderAndWaiters(r)
      BY <1>3, <3>1 DEF BuildFails, Insert, BuildSteps
    <3>2. CASE q \notin BuilderAndWaiters(r)
      BY <1>3, <2>2, <3>2 DEF BuildFails, Insert, BuilderAndWaiters
    <3>. QED  BY <3>1, <3>2
  <2>. QED  BY <2>1, <2>3 DEF WaitersHaveABuilder
<1>4. CASE ~ (Claim(r) \/ Create(r) \/ Write(r) \/ BuildFails(r) \/ Insert(r))
  <2>1. /\ builder' = builder /\ pc[r] \notin BuildSteps
        /\ \E l : l \notin BuildSteps /\ l # "wait" /\ pc' = [pc EXCEPT ![r] = l]
    BY <1>4 DEF RequestStep, Ask, CountAccess, Look, Get, Miss, Register, Spawn, Serve, Goto, BuildSteps
  <2>. QED  BY <2>1, OneStep DEF WaitersHaveABuilder
<1>. QED  BY <1>1, <1>2, <1>3, <1>4

(* A request that waits for a build waits for one that is under way: there *)
(* is one builder, its end or its failure wakes all who wait, and a claim  *)
(* is never left behind.                                                   *)
THEOREM NobodyWaitsForNobody == Spec => []WaitersHaveABuilder
<1>1. Init => WaitersHaveABuilder
  BY DEF Init, WaitersHaveABuilder, BuildSteps
<1>2. TypeOK /\ WaitersHaveABuilder /\ [Next]_vars => WaitersHaveABuilder'
  <2>1. ASSUME UNCHANGED <<pc, builder>>, WaitersHaveABuilder PROVE WaitersHaveABuilder'
    BY <2>1 DEF WaitersHaveABuilder
  <2>2. ASSUME NEW n \in Tasks, TaskStep(n) PROVE UNCHANGED <<pc, builder>>
    BY <2>2 DEF TaskStep, TaskCreate, TaskWrite, TaskMerge, TaskFails, TaskReplace, reqVars
  <2>3. Evict \/ UNCHANGED vars => UNCHANGED <<pc, builder>>
    BY DEF Evict, vars, reqVars
  <2>. QED  BY <2>1, <2>2, <2>3, RequestKeepsBuilder DEF Next
<1>. QED  BY <1>1, <1>2, SortViewsTypeOK, PTL DEF Spec

-----------------------------------------------------------------------------
(***************************************************************************)
(* A provisional view in the cache has its replacement on the way: what    *)
(* ProvisionalIsReplaced rests on.                                         *)
(***************************************************************************)

UnderWay(ts) == \E n \in DOMAIN ts : ts[n].pc \in {"create", "write", "merge", "replace", "failed"}

(* Either a request that holds the view is about to look for its job and   *)
(* start it, or the job was started and its build has not ended, or failed.*)
ReplacementComing ==
  cached # NoView /\ views[cached].is_provisional =>
    \/ cached \in registered /\ UnderWay(tasks)
    \/ \E r \in Requests : held[r] = cached /\ pc[r] \in {"register", "spawn"}

(* A view in the cache is one whose job is to be started, or was: never one*)
(* whose job came to its end.                                              *)
JobIsDue ==
  cached # NoView /\ views[cached].is_provisional =>
    /\ cached \in registered => UnderWay(tasks)
    /\ cached \notin registered =>
         \E r \in Requests : held[r] = cached /\ pc[r] \in {"register", "spawn"}

(* A view that is built and not yet inserted is nobody else's.             *)
FreshIsOwn ==
  \A r \in Requests : pc[r] = "insert" =>
    /\ held[r] \notin registered /\ held[r] # cached /\ views[held[r]].dir # FullDir
    /\ \A q \in Requests : q # r => held[q] # held[r]

FullIsFull == \A v \in DOMAIN views : views[v].dir = FullDir => ~ views[v].is_provisional

Replacing == JobIsDue /\ FreshIsOwn /\ FullIsFull

(* The steps of a request that build nothing and insert nothing.           *)
LEMMA PassingKeepsReplacing ==
  ASSUME TypeOK, TypeOK', Replacing, NEW r \in Requests, NEW l, NEW v \in Ids,
         pc' = [pc EXCEPT ![r] = l], l # "insert",
         held' = [held EXCEPT ![r] = v], v \in {NoView, cached, held[r]},
         pc[r] \notin {"insert", "register", "spawn"},
         UNCHANGED <<views, cached, registered>>, UnderWay(tasks) => UnderWay(tasks')
  PROVE  Replacing'
<1>0. /\ held \in [Requests -> Ids] /\ pc \in [Requests -> RequestPC]
      /\ \A q \in Requests : pc[q] \in Holding <=> held[q] # NoView
  BY TypeParts DEF RequestsOK
<1>1. \A q \in Requests : q # r => pc'[q] = pc[q] /\ held'[q] = held[q]
  BY <1>0
<1>2. pc'[r] = l /\ held'[r] = v
  BY <1>0
<1>3. JobIsDue'
  BY <1>1 DEF Replacing, JobIsDue
<1>4. FreshIsOwn'
  <2>1. SUFFICES ASSUME NEW q \in Requests, pc'[q] = "insert"
                 PROVE  /\ held[q] \notin registered /\ held[q] # cached /\ views[held[q]].dir # FullDir
                        /\ \A u \in Requests : u # q => held'[u] # held[q]
                        /\ q # r
    BY <1>1 DEF FreshIsOwn, FullDir
  <2>2. q # r /\ pc[q] = "insert"
    BY <1>1, <1>2, <2>1
  <2>3. held[q] # NoView
    BY <1>0, <2>2 DEF Holding
  <2>. QED  BY <1>1, <1>2, <2>2, <2>3 DEF Replacing, FreshIsOwn
<1>5. FullIsFull'
  BY DEF Replacing, FullIsFull, FullDir
<1>. QED  BY <1>3, <1>4, <1>5 DEF Replacing

(* Every step of a request.                                                *)
LEMMA RequestKeepsReplacing ==
  ASSUME TypeOK, TypeOK', Replacing, NEW r \in Requests, Ask(r) \/ RequestStep(r)
  PROVE  Replacing'
<1>0. /\ held \in [Requests -> Ids] /\ pc \in [Requests -> RequestPC]
      /\ \A q \in Requests : pc[q] \in Holding <=> held[q] # NoView
      /\ TasksOK /\ CacheOK /\ NoView \in Ids /\ cached \in Ids
      /\ registered \subseteq DOMAIN views
  BY TypeParts DEF RequestsOK, CacheOK, Ids
<1>1. JobIsDue /\ FreshIsOwn /\ FullIsFull
  BY DEF Replacing
<1>2. ASSUME UNCHANGED tasks PROVE UnderWay(tasks) => UnderWay(tasks')
  BY <1>2
<1>3. ASSUME tasks' = Append(tasks, [pc |-> "create", view |-> NoView])
      PROVE  UnderWay(tasks')
  <2>. DEFINE t == [pc |-> "create", view |-> NoView]
  <2>1. tasks \in Seq(TaskRecord) /\ t \in TaskRecord
    BY <1>0 DEF TasksOK, TaskRecord, TaskPC, NoView
  <2>2. t.pc = "create"
    OBVIOUS
  <2>. HIDE DEF t
  <2>3. Len(tasks) + 1 \in DOMAIN tasks' /\ tasks'[Len(tasks) + 1] = t
    BY <1>3, <2>1, AppendFacts DEF t
  <2>. QED  BY <2>2, <2>3 DEF UnderWay
<1>4. CASE \/ Ask(r) \/ CountAccess(r) \/ Look(r) \/ Miss(r) \/ Claim(r) \/ Create(r)
  <2>1. /\ \E l : l # "insert" /\ pc' = [pc EXCEPT ![r] = l]
        /\ pc[r] \notin {"insert", "register", "spawn"}
        /\ UNCHANGED <<views, cached, registered, held>>
    BY <1>4 DEF Ask, CountAccess, Look, Miss, Claim, Create, Goto
  <2>2. UnderWay(tasks) => UnderWay(tasks')
    BY <1>2, <1>3, <1>4 DEF Ask, CountAccess, Look, Miss, Claim, Create
  <2>3. held' = [held EXCEPT ![r] = held[r]] /\ held[r] \in Ids
    BY <1>0, <2>1
  <2>. QED  BY <2>1, <2>2, <2>3, PassingKeepsReplacing
<1>5. CASE Get(r)
  <2>1. /\ pc' = [pc EXCEPT ![r] = "register"] /\ pc[r] = "get"
        /\ held' = [held EXCEPT ![r] = cached]
        /\ UNCHANGED <<views, cached, registered, tasks>>
    BY <1>5 DEF Get, Goto
  <2>. QED  BY <1>0, <1>2, <2>1, PassingKeepsReplacing
<1>6. CASE Serve(r)
  <2>1. /\ \E l : l # "insert" /\ pc' = [pc EXCEPT ![r] = l]
        /\ pc[r] = "serve" /\ held' = [held EXCEPT ![r] = NoView]
        /\ UNCHANGED <<views, cached, registered, tasks>>
    BY <1>6 DEF Serve, Goto
  <2>. QED  BY <1>0, <1>2, <2>1, PassingKeepsReplacing
<1>7. CASE Write(r)
  <2>. DEFINE v == [dir |-> "h", is_provisional |-> kind.large]
  <2>1. v \in View /\ v.dir # FullDir
    BY <1>0, SortAssumption DEF CacheOK, View, Dirs, FullDir
  <2>2. views' = Append(views, v)
    BY <1>7 DEF Write
  <2>. HIDE DEF v
  <2>3. PICK i : i = Len(views')
    OBVIOUS
  <2>4. /\ i \notin DOMAIN views /\ i # NoView /\ views'[i] = v
        /\ DOMAIN views' = DOMAIN views \cup {i} /\ \A n \in DOMAIN views : views'[n] = views[n]
    BY <1>0, <2>1, <2>2, <2>3, MoreViews
  <2>5. /\ pc[r] = "write" /\ pc'[r] = "insert" /\ held'[r] = i
        /\ UNCHANGED <<cached, registered, tasks>>
        /\ \A q \in Requests : q # r => pc'[q] = pc[q] /\ held'[q] = held[q]
    BY <1>0, <1>7, <2>3 DEF Write, Goto
  <2>6. JobIsDue'
    <3>1. cached # NoView => views'[cached] = views[cached]
      BY <1>0, <2>4 DEF Ids
    <3>. QED  BY <1>1, <2>5, <3>1 DEF JobIsDue
  <2>7. FreshIsOwn'
    <3>1. i \notin Ids /\ i \notin registered /\ i # cached
      BY <1>0, <2>4 DEF Ids
    <3>2. ASSUME NEW q \in Requests, pc'[q] = "insert", q # r
          PROVE  /\ held'[q] \notin registered /\ held'[q] # cached /\ views'[held'[q]].dir # FullDir
                 /\ \A u \in Requests : u # q => held'[u] # held'[q]
      <4>1. pc[q] = "insert" /\ held'[q] = held[q] /\ held[q] \in Ids /\ held[q] # NoView
        BY <1>0, <2>5, <3>2 DEF Holding
      <4>2. views'[held[q]] = views[held[q]]
        BY <2>4, <4>1 DEF Ids
      <4>. QED  BY <1>1, <2>5, <3>1, <4>1, <4>2 DEF FreshIsOwn
    <3>3. /\ held'[r] \notin registered /\ held'[r] # cached /\ views'[held'[r]].dir # FullDir
          /\ \A u \in Requests : u # r => held'[u] # held'[r]
      BY <1>0, <2>1, <2>4, <2>5, <3>1
    <3>. QED  BY <2>5, <3>2, <3>3 DEF FreshIsOwn, FullDir
  <2>8. FullIsFull'
    BY <1>1, <2>1, <2>4 DEF FullIsFull, FullDir
  <2>. QED  BY <2>6, <2>7, <2>8 DEF Replacing
<1>8. CASE BuildFails(r)
  <2>1. /\ UNCHANGED <<views, cached, registered, held, tasks>> /\ pc[r] = "write"
        /\ \A q \in Requests : \/ pc'[q] = pc[q] 
                               \/ pc[q] \in {"write", "wait"} /\ pc'[q] = "error"
    BY <1>0, <1>8 DEF BuildFails, BuilderAndWaiters
  <2>2. JobIsDue'
    BY <1>1, <2>1 DEF JobIsDue
  <2>3. FreshIsOwn' /\ FullIsFull'
    BY <1>1, <2>1 DEF FreshIsOwn, FullIsFull, FullDir
  <2>. QED  BY <2>2, <2>3 DEF Replacing
<1>9. CASE Insert(r)
  <2>1. PICK kept : kept = IF cached = NoView THEN held[r] ELSE cached
    OBVIOUS
  <2>2. /\ pc[r] = "insert" /\ cached' = kept /\ UNCHANGED <<views, registered, tasks>>
        /\ pc'[r] = "register" /\ held'[r] = kept
        /\ \A q \in Requests : \/ pc'[q] = pc[q] /\ held'[q] = held[q] /\ q # r /\ pc[q] # "wait"
                               \/ pc[q] \in {"insert", "wait"} /\ pc'[q] = "register" /\ held'[q] = kept
    BY <1>0, <1>9, <2>1 DEF Insert, BuilderAndWaiters
  <2>3. JobIsDue'
    <3>1. CASE cached = NoView
      <4>1. kept \notin registered
        BY <1>1, <2>1, <2>2, <3>1 DEF FreshIsOwn
      <4>. QED  BY <2>2, <4>1 DEF JobIsDue
    <3>2. CASE cached # NoView
      <4>1. cached' = cached
        BY <2>1, <2>2, <3>2
      <4>2. ASSUME NEW q \in Requests, held[q] = cached, pc[q] \in {"register", "spawn"}
            PROVE  held'[q] = cached' /\ pc'[q] \in {"register", "spawn"}
        BY <2>2, <4>1, <4>2
      <4>. QED  BY <1>1, <2>2, <4>1, <4>2 DEF JobIsDue
    <3>. QED  BY <3>1, <3>2
  <2>4. FreshIsOwn'
    <3>1. SUFFICES ASSUME NEW q \in Requests, pc'[q] = "insert"
                   PROVE  /\ held'[q] \notin registered /\ held'[q] # kept /\ views[held'[q]].dir # FullDir
                          /\ \A u \in Requests : u # q => held'[u] # held'[q]
      BY <2>2 DEF FreshIsOwn, FullDir
    <3>2. pc[q] = "insert" /\ held'[q] = held[q] /\ q # r
      BY <2>2, <3>1
    <3>3. /\ held[q] \notin registered /\ held[q] # cached /\ views[held[q]].dir # FullDir
          /\ \A u \in Requests : u # q => held[u] # held[q]
      BY <1>1, <3>2 DEF FreshIsOwn
    <3>4. kept # held[q]
      BY <2>1, <3>2, <3>3
    <3>. QED  BY <2>2, <3>2, <3>3, <3>4
  <2>5. FullIsFull'
    BY <1>1, <2>2 DEF FullIsFull, FullDir
  <2>. QED  BY <2>3, <2>4, <2>5 DEF Replacing
<1>10. CASE Register(r)
  <2>1. /\ pc[r] = "register" /\ UNCHANGED <<views, cached, registered, held, tasks>>
        /\ \A q \in Requests : q # r => pc'[q] = pc[q]
        /\ pc'[r] = IF views[held[r]].is_provisional /\ held[r] \notin registered THEN "spawn" ELSE "serve"
    BY <1>0, <1>10 DEF Register, Goto
  <2>2. JobIsDue'
    BY <1>1, <2>1 DEF JobIsDue
  <2>3. FreshIsOwn' /\ FullIsFull'
    BY <1>1, <2>1 DEF FreshIsOwn, FullIsFull, FullDir
  <2>. QED  BY <2>2, <2>3 DEF Replacing
<1>11. CASE Spawn(r)
  <2>1. /\ pc[r] = "spawn" /\ UNCHANGED <<views, cached, held>> /\ registered' = registered \cup {held[r]}
        /\ \A q \in Requests : q # r => pc'[q] = pc[q]
        /\ pc'[r] = "serve" /\ UnderWay(tasks')
    BY <1>0, <1>3, <1>11 DEF Spawn, Goto
  <2>2. JobIsDue'
    BY <1>1, <2>1 DEF JobIsDue
  <2>3. FreshIsOwn' /\ FullIsFull'
    BY <1>1, <2>1 DEF FreshIsOwn, FullIsFull, FullDir
  <2>. QED  BY <2>2, <2>3 DEF Replacing
<1>. QED
  BY <1>4, <1>5, <1>6, <1>7, <1>8, <1>9, <1>10, <1>11 DEF RequestStep

(* Every step of a task: a build that ends well puts a full view in place. *)
LEMMA TaskKeepsReplacing ==
  ASSUME TypeOK, TypeOK', Replacing, NEW n \in Tasks, TaskStep(n)
  PROVE  Replacing'
<1>0. /\ TasksOK /\ CacheOK /\ n \in DOMAIN tasks /\ TaskOK(tasks[n]) /\ tasks[n] \in TaskRecord
      /\ held \in [Requests -> Ids] /\ cached \in Ids
      /\ \A q \in Requests : pc[q] \in Holding <=> held[q] # NoView
  <2>1. TasksOK /\ CacheOK /\ RequestsOK
    BY TypeParts
  <2>2. n \in DOMAIN tasks
    BY DEF TaskStep, TaskCreate, TaskWrite, TaskMerge, TaskFails, TaskReplace, TaskAt
  <2>3. TaskOK(tasks[n]) /\ tasks[n] \in TaskRecord
    BY <2>1, <2>2 DEF TasksOK
  <2>. QED  BY <2>1, <2>2, <2>3 DEF RequestsOK, CacheOK
<1>1. JobIsDue /\ FreshIsOwn /\ FullIsFull
  BY DEF Replacing
<1>2. UNCHANGED <<pc, held, registered>>
  BY DEF TaskStep, TaskCreate, TaskWrite, TaskMerge, TaskFails, TaskReplace, reqVars
<1>3. CASE TaskCreate(n) \/ TaskWrite(n) \/ TaskFails(n)
  <2>1. /\ UNCHANGED <<views, cached>>
        /\ \E l \in {"write", "merge", "failed"} : tasks' = [tasks EXCEPT ![n].pc = l]
    BY <1>3 DEF TaskCreate, TaskWrite, TaskFails
  <2>2. PICK l \in {"write", "merge", "failed"} : tasks' = [tasks EXCEPT ![n] = [pc |-> l, view |-> tasks[n].view]]
    BY <1>0, <2>1, Advance
  <2>3. UnderWay(tasks')
    <3>1. n \in DOMAIN tasks' /\ tasks'[n] = [pc |-> l, view |-> tasks[n].view]
      BY <1>0, <2>2 DEF TasksOK
    <3>. QED  BY <2>2, <3>1 DEF UnderWay
  <2>. QED  BY <1>1, <1>2, <2>1, <2>3 DEF Replacing, JobIsDue, FreshIsOwn, FullIsFull, FullDir
<1>4. CASE TaskMerge(n)
  <2>. DEFINE v == [dir |-> FullDir, is_provisional |-> FALSE]
  <2>1. v \in View /\ ~ v.is_provisional
    BY DEF View, Dirs, FullDir
  <2>2. views' = Append(views, v) /\ UNCHANGED cached
    BY <1>4 DEF TaskMerge
  <2>. HIDE DEF v
  <2>3. PICK i : i = Len(views')
    OBVIOUS
  <2>4. /\ views'[i] = v
        /\ DOMAIN views' = DOMAIN views \cup {i} /\ \A m \in DOMAIN views : views'[m] = views[m]
    BY <1>0, <2>1, <2>2, <2>3, MoreViews
  <2>5. UnderWay(tasks')
    <3>1. tasks' = [tasks EXCEPT ![n] = [pc |-> "replace", view |-> i]]
      BY <1>4, <2>3 DEF TaskMerge
    <3>2. n \in DOMAIN tasks' /\ tasks'[n] = [pc |-> "replace", view |-> i]
      BY <1>0, <3>1 DEF TasksOK
    <3>. QED  BY <3>2 DEF UnderWay
  <2>6. \A u \in Ids : u # NoView => views'[u] = views[u]
    BY <2>4 DEF Ids
  <2>7. JobIsDue'
    BY <1>0, <1>1, <1>2, <2>2, <2>5, <2>6 DEF JobIsDue
  <2>8. FreshIsOwn'
    <3>1. \A q \in Requests : pc[q] = "insert" => held[q] \in Ids /\ held[q] # NoView
      BY <1>0 DEF Holding
    <3>. QED  BY <1>1, <1>2, <2>2, <2>6, <3>1 DEF FreshIsOwn, FullDir
  <2>9. FullIsFull'
    BY <1>1, <2>1, <2>4 DEF FullIsFull, FullDir
  <2>. QED  BY <2>7, <2>8, <2>9 DEF Replacing
<1>5. CASE TaskReplace(n)
  <2>1. cached' = tasks[n].view /\ tasks[n].pc = "replace" /\ UNCHANGED views
    BY <1>5 DEF TaskReplace, TaskAt
  <2>2. cached' \in DOMAIN views /\ views[cached'].dir = FullDir
    BY <1>0, <2>1 DEF TaskOK
  <2>3. ~ views[cached'].is_provisional
    BY <1>1, <2>2 DEF FullIsFull
  <2>4. JobIsDue'
    BY <2>1, <2>3 DEF JobIsDue
  <2>5. FreshIsOwn'
    BY <1>1, <1>2, <2>1, <2>2 DEF FreshIsOwn, FullDir
  <2>6. FullIsFull'
    BY <1>1, <2>1 DEF FullIsFull, FullDir
  <2>. QED  BY <2>4, <2>5, <2>6 DEF Replacing
<1>. QED  BY <1>3, <1>4, <1>5 DEF TaskStep

(* A provisional view never sits in the cache with nothing to replace it:  *)
(* the request that cached it or found it starts its job before it serves, *)
(* a job that is in the registry is under way or failed, and no view comes *)
(* back to the cache when it was evicted.                                  *)
THEOREM ReplacementIsComing == Spec => []ReplacementComing
<1>1. Init => Replacing
  BY DEF Init, Replacing, JobIsDue, FreshIsOwn, FullIsFull
<1>2. TypeOK /\ TypeOK' /\ Replacing /\ [Next]_vars => Replacing'
  <2>1. ASSUME Evict, Replacing, TypeOK PROVE Replacing'
    <3>1. cached' = NoView /\ UNCHANGED <<pc, held, registered, views>>
      BY <2>1 DEF Evict
    <3>2. \A r \in Requests : pc[r] = "insert" => held[r] # NoView
      BY <2>1 DEF TypeOK, Holding
    <3>3. JobIsDue'
      BY <3>1 DEF JobIsDue
    <3>. QED  BY <2>1, <3>1, <3>2, <3>3 DEF Replacing, FreshIsOwn, FullIsFull, FullDir
  <2>2. ASSUME UNCHANGED vars, Replacing PROVE Replacing'
    BY <2>2 DEF vars, reqVars, Replacing, JobIsDue, FreshIsOwn, FullIsFull, FullDir, UnderWay
  <2>. QED  BY <2>1, <2>2, RequestKeepsReplacing, TaskKeepsReplacing DEF Next
<1>3. Replacing => ReplacementComing
  BY DEF Replacing, JobIsDue, ReplacementComing
<1>. QED  BY <1>1, <1>2, <1>3, InitType, NextType, PTL DEF Spec

=============================================================================
