------------------------------- MODULE SortViews -------------------------------
(***************************************************************************)
(* The life of one sorted view on disk: query_view_tile of tv-engine       *)
(* (tile_ops.rs) with the builds it spawns, the view cache as its caller   *)
(* sees it (ViewMaterializer has it in detail), and the directories of     *)
(* spilled runs with their guards (temp.rs, spill.rs, spill_pipeline.rs).  *)
(*                                                                         *)
(* A view's runs are in a directory named by the view, which a guard in the*)
(* view removes when the last holder lets go of it.  build writes in "h",  *)
(* build_full in "h_full"; both truncate what they find.  Runs of one view *)
(* have the same bytes whoever writes them, so a directory is as good as   *)
(* whole when the last to truncate it has written on to the end.           *)
(* Name_Slip is Name with a slip.                                          *)
(*                                                                         *)
(* A sort of more rows than the progressive threshold is answered with a   *)
(* provisional view, whose job builds the full one.  A source that is one  *)
(* local Parquet file also starts a full build at the first request.       *)
(***************************************************************************)
EXTENDS Integers, Sequences, FiniteSets

CONSTANTS
  Requests,
  Kinds,         \* the source is one local Parquet file or not, and has more
                 \* rows than the progressive threshold of sorts or not
  MaxAsked,      \* bound: requests made
  MaxBuilds,     \* bound: views built
  MaxEvictions   \* bound: evictions of the view from the cache

ASSUME SortAssumption ==
  /\ Kinds \subseteq [single_file : BOOLEAN, large : BOOLEAN]
  /\ MaxAsked \in Nat /\ MaxBuilds \in Nat /\ MaxEvictions \in Nat

NoView == 0

VARIABLES
  kind,       \* the kind of the source and the sort: it never changes
  dirs,       \* per directory its files: "none", "partial" or "whole", and by whom
  views,      \* the views built, in order; a view is its number
  cached,     \* the view in the cache
  builder,    \* the requests that claimed the key: at most one
  counted,    \* sort_access_counter has this sort
  registered, \* views whose job is in the registry
  pc, held,   \* per request its step and the view it holds
  tasks,      \* the builds spawned, in order: step, view held
  asked, evictions

reqVars == <<pc, held, asked>>
vars == <<kind, dirs, views, cached, builder, counted, registered, reqVars, tasks, evictions>>

Dirs == {"h", "h_full"}

(* Who writes in a directory: a request, a task, or nobody.                *)
Request(r) == <<{r}, 0>>
Task(n) == <<{}, n>>
Nobody == <<{}, 0>>

Goto(r, label) == pc' = [pc EXCEPT ![r] = label]

-----------------------------------------------------------------------------
(* Directories.                                                            *)

(* Who held a view and lets go of it.                                      *)
Holders(c, h, t) ==
  {c} \cup {h[r] : r \in Requests} \cup {t[n].view : n \in DOMAIN t}

(* The guards that drop in this step, and the one of a view that is built  *)
(* and not kept, remove their directories.                                 *)
Unguarded == Holders(cached, held, tasks) \ (Holders(cached', held', tasks') \cup {NoView})

Without(D) == [d \in Dirs |-> IF d \in D THEN [state |-> "none", by |-> Nobody] ELSE dirs[d]]

DropGuards == dirs' = Without({views[v].dir : v \in Unguarded})

(* create_dir_all, and the first File::create.                             *)
StartRuns(d, w) == dirs' = [dirs EXCEPT ![d] = [state |-> "partial", by |-> w]]

(* The last run is written, on the path if the directory is still there.   *)
EndRuns(d, w) ==
  dirs' = IF dirs[d] = [state |-> "partial", by |-> w]
            THEN [dirs EXCEPT ![d].state = "whole"] ELSE dirs

-----------------------------------------------------------------------------
(* Requests: query_view_tile.                                              *)

Ask(r) ==
  /\ pc[r] \in {"idle", "served", "error"} /\ asked < MaxAsked
  /\ asked' = asked + 1
  /\ Goto(r, IF kind.single_file THEN "count" ELSE "get")
  /\ UNCHANGED <<dirs, views, cached, builder, counted, registered, held, tasks, evictions>>

(* The first request of a sort looks whether its view is cached ...        *)
CountAccess(r) ==
  /\ pc[r] = "count"
  /\ counted' = TRUE
  /\ Goto(r, IF counted THEN "get" ELSE "look")
  /\ UNCHANGED <<dirs, views, cached, builder, registered, held, asked, tasks, evictions>>

(* ... and starts a full build if it is not.                               *)
Look(r) ==
  /\ pc[r] = "look"
  /\ tasks' = IF cached = NoView
                THEN Append(tasks, [pc |-> "create", view |-> NoView])
                ELSE tasks
  /\ Goto(r, "get")
  /\ UNCHANGED <<dirs, views, cached, builder, counted, registered, held, asked, evictions>>

Get(r) ==
  /\ pc[r] = "get" /\ cached # NoView
  /\ held' = [held EXCEPT ![r] = cached]
  /\ Goto(r, "register")
  /\ UNCHANGED <<dirs, views, cached, builder, counted, registered, asked, tasks, evictions>>

Miss(r) ==
  /\ pc[r] = "get" /\ cached = NoView
  /\ Goto(r, "claim")
  /\ UNCHANGED <<dirs, views, cached, builder, counted, registered, held, asked, tasks, evictions>>

Claim(r) ==
  /\ pc[r] = "claim"
  /\ IF builder = {} THEN builder' = {r} /\ Goto(r, "create")
                     ELSE UNCHANGED builder /\ Goto(r, "wait")
  /\ UNCHANGED <<dirs, views, cached, counted, registered, held, asked, tasks, evictions>>

Create(r) ==
  /\ pc[r] = "create"
  /\ StartRuns("h", Request(r))
  /\ Goto(r, "write")
  /\ UNCHANGED <<views, cached, builder, counted, registered, held, asked, tasks, evictions>>

Write(r) ==
  /\ pc[r] = "write" /\ Len(views) < MaxBuilds
  /\ EndRuns("h", Request(r))
  /\ views' = Append(views, [dir |-> "h", is_provisional |-> kind.large])
  /\ held' = [held EXCEPT ![r] = Len(views')]
  /\ Goto(r, "insert")
  /\ UNCHANGED <<cached, builder, counted, registered, asked, tasks, evictions>>

BuilderAndWaiters(r) == {q \in Requests : q = r \/ pc[q] = "wait"}

(* A build that fails drops its guard, and fails those who wait.           *)
BuildFails(r) ==
  /\ pc[r] = "write"
  /\ builder' = {}
  /\ pc' = [q \in Requests |-> IF q \in BuilderAndWaiters(r) THEN "error" ELSE pc[q]]
  /\ dirs' = Without({"h"})
  /\ UNCHANGED <<views, cached, counted, registered, held, asked, tasks, evictions>>

(* get_or_materialize keeps the view it finds, if there is one by now, and *)
(* hands it to those who wait.                                             *)
Insert(r) ==
  LET kept == IF cached = NoView THEN held[r] ELSE cached
  IN  /\ pc[r] = "insert"
      /\ cached' = kept
      /\ builder' = {}
      /\ held' = [q \in Requests |-> IF q \in BuilderAndWaiters(r) THEN kept ELSE held[q]]
      /\ pc' = [q \in Requests |-> IF q \in BuilderAndWaiters(r) THEN "register" ELSE pc[q]]
      /\ UNCHANGED <<views, counted, registered, asked, tasks, evictions>>
      /\ DropGuards

(* get_job finds the job of a provisional view, or register_with_id is next.*)
Register(r) ==
  /\ pc[r] = "register"
  /\ Goto(r, IF views[held[r]].is_provisional /\ held[r] \notin registered THEN "spawn"
                                                                           ELSE "serve")
  /\ UNCHANGED <<dirs, views, cached, builder, counted, registered, held, asked, tasks, evictions>>

Spawn(r) ==
  /\ pc[r] = "spawn"
  /\ registered' = registered \cup {held[r]}
  /\ tasks' = Append(tasks, [pc |-> "create", view |-> NoView])
  /\ Goto(r, "serve")
  /\ UNCHANGED <<dirs, views, cached, builder, counted, held, asked, evictions>>

(* The tile is merged from the runs of the view held: an error if they are *)
(* gone, or half written.                                                  *)
Serve(r) ==
  /\ pc[r] = "serve"
  /\ Goto(r, IF dirs[views[held[r]].dir].state = "whole" THEN "served" ELSE "error")
  /\ held' = [held EXCEPT ![r] = NoView]
  /\ UNCHANGED <<views, cached, builder, counted, registered, asked, tasks, evictions>>
  /\ DropGuards

-----------------------------------------------------------------------------
(* Tasks: build_full, then replace.                                        *)

TaskAt(n, label) == n \in DOMAIN tasks /\ tasks[n].pc = label

FullDir_Shared == "h"

(* The directory of build_full.                                            *)
FullDir == "h_full"

TaskCreate(n) ==
  /\ TaskAt(n, "create")
  /\ StartRuns(FullDir, Task(n))
  /\ tasks' = [tasks EXCEPT ![n].pc = "write"]
  /\ UNCHANGED <<views, cached, builder, counted, registered, reqVars, evictions>>

TaskWrite(n) ==
  /\ TaskAt(n, "write")
  /\ EndRuns(FullDir, Task(n))
  /\ tasks' = [tasks EXCEPT ![n].pc = "merge"]
  /\ UNCHANGED <<views, cached, builder, counted, registered, reqVars, evictions>>

(* The runs are merged into one.                                           *)
TaskMerge(n) ==
  /\ TaskAt(n, "merge") /\ dirs[FullDir].state = "whole" /\ Len(views) < MaxBuilds
  /\ views' = Append(views, [dir |-> FullDir, is_provisional |-> FALSE])
  /\ tasks' = [tasks EXCEPT ![n] = [pc |-> "replace", view |-> Len(views')]]
  /\ UNCHANGED <<dirs, cached, builder, counted, registered, reqVars, evictions>>

TaskFails_KeepsFiles(n) ==
  /\ TaskAt(n, "write") \/ TaskAt(n, "merge")
  /\ tasks' = [tasks EXCEPT ![n].pc = "failed"]
  /\ UNCHANGED <<dirs, views, cached, builder, counted, registered, reqVars, evictions>>

(* The source or the disk fails the build, or the runs are gone.           *)
TaskFails(n) ==
  /\ TaskAt(n, "write") \/ TaskAt(n, "merge")
  /\ tasks' = [tasks EXCEPT ![n].pc = "failed"]
  /\ dirs' = Without({FullDir})
  /\ UNCHANGED <<views, cached, builder, counted, registered, reqVars, evictions>>

TaskReplace_KeepsFirst(n) ==
  /\ TaskAt(n, "replace")
  /\ cached' = IF cached = NoView THEN tasks[n].view ELSE cached
  /\ tasks' = [tasks EXCEPT ![n] = [pc |-> "complete", view |-> NoView]]
  /\ UNCHANGED held
  /\ UNCHANGED <<views, builder, counted, registered, pc, asked, evictions>>
  /\ DropGuards

TaskReplace(n) ==
  /\ TaskAt(n, "replace")
  /\ cached' = tasks[n].view
  /\ tasks' = [tasks EXCEPT ![n] = [pc |-> "complete", view |-> NoView]]
  /\ UNCHANGED held
  /\ UNCHANGED <<views, builder, counted, registered, pc, asked, evictions>>
  /\ DropGuards

-----------------------------------------------------------------------------
(* The cache needs room for another view.                                  *)
Evict ==
  /\ cached # NoView /\ evictions < MaxEvictions
  /\ evictions' = evictions + 1
  /\ cached' = NoView
  /\ UNCHANGED <<held, tasks>>
  /\ UNCHANGED <<views, builder, counted, registered, pc, asked>>
  /\ DropGuards

Init ==
  /\ kind \in Kinds
  /\ dirs = [d \in Dirs |-> [state |-> "none", by |-> Nobody]]
  /\ views = << >> /\ cached = NoView /\ builder = {}
  /\ counted = FALSE /\ registered = {}
  /\ pc = [r \in Requests |-> "idle"] /\ held = [r \in Requests |-> NoView]
  /\ tasks = << >> /\ asked = 0 /\ evictions = 0

RequestStep(r) ==
  \/ CountAccess(r) \/ Look(r) \/ Get(r) \/ Miss(r) \/ Claim(r) \/ Create(r) \/ Write(r)
  \/ BuildFails(r) \/ Insert(r) \/ Register(r) \/ Spawn(r) \/ Serve(r)

TaskStep(n) ==
  TaskCreate(n) \/ TaskWrite(n) \/ TaskMerge(n) \/ TaskFails(n) \/ TaskReplace(n)

(* Every build was asked for by a request, and no request asks for more    *)
(* than two.                                                               *)
Tasks == 1 .. 2 * MaxAsked

Next ==
  /\ \/ \E r \in Requests : Ask(r) \/ RequestStep(r)
     \/ \E n \in Tasks : TaskStep(n)
     \/ Evict
  /\ UNCHANGED kind

Spec == Init /\ [][Next]_vars

(* Tasks and requests that can run do, and builds end.                     *)
FairSpec ==
  /\ Spec
  /\ \A r \in Requests : WF_vars(RequestStep(r) /\ UNCHANGED kind)
  /\ \A n \in Tasks : WF_vars(TaskStep(n) /\ UNCHANGED kind)

-----------------------------------------------------------------------------
Building == \E r \in Requests : pc[r] \in {"create", "write"}

Busy(n) == tasks[n].pc \in {"create", "write", "merge", "replace"}

View == [dir : Dirs, is_provisional : BOOLEAN]

Holding == {"insert", "register", "spawn", "serve"}
RequestPC ==
  {"idle", "count", "look", "get", "claim", "wait", "create", "write", "served", "error"} \cup Holding
TaskPC == {"create", "write", "merge", "replace", "complete", "failed"}

(* Every variable has its type; requests and tasks hold a view when their  *)
(* step needs one, and a full build's is in the directory it wrote in.     *)
TypeOK ==
  /\ kind \in Kinds
  /\ dirs \in [Dirs -> [state : {"none", "partial", "whole"}, by : (SUBSET Requests) \X Nat]]
  /\ views \in Seq(View) /\ registered \subseteq DOMAIN views
  /\ cached \in {NoView} \cup DOMAIN views
  /\ builder \subseteq Requests /\ counted \in BOOLEAN
  /\ pc \in [Requests -> RequestPC] /\ held \in [Requests -> {NoView} \cup DOMAIN views]
  /\ \A r \in Requests : pc[r] \in Holding <=> held[r] # NoView
  /\ tasks \in Seq([pc : TaskPC, view : Nat])
  /\ \A n \in DOMAIN tasks :
       /\ tasks[n].pc # "replace" => tasks[n].view = NoView
       /\ tasks[n].pc = "replace" => /\ tasks[n].view \in DOMAIN views
                                     /\ views[tasks[n].view].dir = FullDir
  /\ asked \in 0 .. MaxAsked /\ evictions \in 0 .. MaxEvictions

(* With one client, one full build and no eviction, the runs of the view   *)
(* in the cache are there, whole, for whoever asks next (CONTRIBUTING.md:  *)
(* 111): the full build never touches the runs that the client's own       *)
(* requests build, replace and read, in any order.  A second client breaks *)
(* it (it missed before the first cached the view, and builds it again),   *)
(* and so do a second full build and an eviction: all write in, and then   *)
(* remove, a directory in use.                                             *)
ServableForOneClient ==
  /\ Cardinality({r \in Requests : pc[r] # "idle"}) <= 1
  /\ Len(tasks) <= 1 /\ evictions = 0
  => (cached # NoView => dirs[views[cached].dir].state = "whole")

(* Runs on disk belong to a view someone holds or to a build under way:    *)
(* nothing is left behind, by builds that fail or views that are replaced. *)
NoOrphanedRuns ==
  \A d \in Dirs : dirs[d].state # "none" =>
    \/ \E v \in Holders(cached, held, tasks) \ {NoView} : views[v].dir = d
    \/ d = "h" /\ Building
    \/ \E n \in DOMAIN tasks : Busy(n) /\ d = FullDir

(* A provisional view in the cache is replaced, unless its full build      *)
(* fails.                                                                  *)
ProvisionalIsReplaced ==
  (cached # NoView /\ views[cached].is_provisional)
    ~> \/ cached # NoView /\ ~ views[cached].is_provisional
       \/ \E n \in DOMAIN tasks : tasks[n].pc = "failed"
=============================================================================
