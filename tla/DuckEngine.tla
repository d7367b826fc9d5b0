-------------------------------- MODULE DuckEngine --------------------------------
(***************************************************************************)
(* The engine of the browser version: the DuckDB database that             *)
(* api/duckdb/setup.ts starts in a worker, with one connection, and the    *)
(* sources that api/duckdb/adapter.ts registers with it, queries, and      *)
(* brings back when WebAssembly has crashed.                               *)
(*                                                                         *)
(* A promise of a database is the number of its attempt in dbs; so is one  *)
(* of a connection in conns.  A worker carries out what it is sent in that *)
(* order and answers in that order: what a request does is done, and its   *)
(* answer put into the queue, when it is sent; what follows from it is done*)
(* when it is answered.  Everything that waits for a promise goes on before*)
(* the next answer or the next call (Settled).                             *)
(* Left out: abort signals, what a query computes (BrowserViews).          *)
(* Name_Slip is Name with a slip.                                          *)
(***************************************************************************)
EXTENDS Integers, Sequences

CONSTANTS
  Callers,     \* each has one call under way
  Files,       \* the sources that may be loaded; a source is its file
  MaxCalls,    \* bound: calls made
  MaxCrashes,  \* bound: queries that crash a database
  MaxFailures  \* bound: databases that do not start

VARIABLES
  eng,       \* setup.ts: dbs, conns, and dbInstance, dbPromise, connInstance,
             \* connPromise, 0 for null
  registry,  \* the sources; the map's order is left open
  calls,     \* what each caller waits for
  used,      \* files that have been loaded, or are being loaded
  made, crashes, failures,
  raced,     \* files of sources that were deleted while a recovery ran
  abandoned  \* a start has failed when there were sources, or a recovery has
             \* given up another database than the one that crashed on it

engineVars == <<eng, registry, calls, used, made, crashes, failures, raced, abandoned>>

NoCall == [kind |-> "none", pc |-> "idle"]
NewDb == [state |-> "starting", files |-> {}, queue |-> << >>]

-----------------------------------------------------------------------------
(* setup.ts.                                                               *)

Max0(m, n) == IF m # 0 THEN m ELSE n
DbOf(e) == Max0(e.dbInstance, e.dbPromise)
ConnOf(e) == Max0(e.connInstance, e.connPromise)

(* getDuckDB: DbOf is its promise.                                         *)
WithDb(e) ==
  IF DbOf(e) # 0 THEN e
  ELSE [e EXCEPT !.dbs = Append(@, NewDb), !.dbPromise = Len(e.dbs) + 1]

(* getConnection: ConnOf is its promise.                                   *)
WithConn(e) ==
  LET f == WithDb(e)
  IN  IF ConnOf(e) # 0 THEN e
      ELSE [f EXCEPT !.conns = Append(@, [db |-> DbOf(f), state |-> "waiting"]),
                     !.connPromise = Len(f.conns) + 1]

resetDuckDB_KeepsConnection(e) == [e EXCEPT !.dbInstance = 0, !.dbPromise = 0]

resetDuckDB(e) ==
  [e EXCEPT !.dbInstance = 0, !.dbPromise = 0, !.connInstance = 0, !.connPromise = 0]

(* The request of a connection or of a caller is sent to database d, which,*)
(* once it has crashed, answers everything with an error.                  *)
Send(e, d, of, id, answer) ==
  [e EXCEPT !.dbs[d].queue =
     Append(@, [of |-> of, id |-> id,
                answer |-> IF e.dbs[d].state = "ready" THEN answer ELSE "crash"])]

Starting(d) == eng.dbs[d].state = "starting"
Pending(k) == eng.conns[k].state \in {"waiting", "connecting"}

(* Nothing that has been waited for is there.                              *)
Settled ==
  /\ \A k \in DOMAIN eng.conns :
       eng.conns[k].state = "waiting" => Starting(eng.conns[k].db)
  /\ \A c \in Callers :
       /\ calls[c].pc = "db" => Starting(calls[c].db)
       /\ calls[c].pc = "conn" => Pending(calls[c].conn)

-----------------------------------------------------------------------------
EngineInit ==
  /\ eng = [dbs |-> << >>, conns |-> << >>, dbInstance |-> 0, dbPromise |-> 0,
            connInstance |-> 0, connPromise |-> 0]
  /\ registry = {}
  /\ calls = [c \in Callers |-> NoCall]
  /\ used = {}
  /\ made = 0 /\ crashes = 0 /\ failures = 0
  /\ raced = {}
  /\ abandoned = FALSE

Ended == {"idle", "failed"}
Ends(c, pc) == calls' = [calls EXCEPT ![c] = IF pc = "idle" THEN NoCall ELSE [@ EXCEPT !.pc = pc]]
Goes(c, call) == calls' = [calls EXCEPT ![c] = call]

Begins(c) ==
  /\ Settled
  /\ calls[c].pc \in Ended
  /\ made < MaxCalls
  /\ made' = made + 1
  /\ UNCHANGED <<registry, crashes, failures, raced, abandoned>>

Call(kind, f, pc, e) ==
  [kind |-> kind, file |-> f, pc |-> pc, db |-> DbOf(e), conn |-> ConnOf(e), left |-> 1,
   retried |-> FALSE, seen |-> {}]

(* fetchViewTile, or n queries that are not tried again: a count, a schema,*)
(* a search, or a batch of tiles, the statistics of a column.              *)
AskTile(c, f) ==
  /\ Begins(c)
  /\ f \in registry
  /\ eng' = WithConn(eng)
  /\ Goes(c, Call("tile", f, "conn", WithConn(eng)))
  /\ UNCHANGED used

AskQueries(c, f, n) ==
  /\ Begins(c)
  /\ f \in registry
  /\ eng' = WithConn(eng)
  /\ Goes(c, [Call("query", f, "conn", WithConn(eng)) EXCEPT !.left = n])
  /\ UNCHANGED used

(* loadBuffer, of a file with a name of its own, and deleteSource.         *)
Load(c, f) ==
  /\ Begins(c)
  /\ f \notin used
  /\ used' = used \cup {f}
  /\ eng' = WithDb(eng)
  /\ Goes(c, [Call("load", f, "db", WithDb(eng)) EXCEPT !.left = 2])

Delete(c, f) ==
  /\ Begins(c)
  /\ f \in registry
  /\ eng' = WithDb(eng)
  /\ Goes(c, Call("delete", f, "db", WithDb(eng)))
  /\ UNCHANGED used

-----------------------------------------------------------------------------
(* initializeDb, whose database becomes dbInstance even when it has been   *)
(* given up.                                                               *)
Instantiate(d) ==
  /\ Settled
  /\ Starting(d)
  /\ eng' = [eng EXCEPT !.dbs[d].state = "ready", !.dbInstance = d]
  /\ UNCHANGED <<registry, calls, used, made, crashes, failures, raced, abandoned>>

FailToStart(d) ==
  /\ Settled
  /\ Starting(d)
  /\ failures < MaxFailures
  /\ failures' = failures + 1
  /\ eng' = [eng EXCEPT !.dbs[d].state = "failed", !.dbPromise = 0]
  /\ abandoned' = (abandoned \/ registry # {})
  /\ UNCHANGED <<registry, calls, used, made, crashes, raced>>

(* getConnection, when its database is there.                              *)
Connect(k) ==
  LET d == eng.conns[k].db
  IN  /\ eng.conns[k].state = "waiting"
      /\ ~ Starting(d)
      /\ eng' = IF eng.dbs[d].state = "failed"
                  THEN [eng EXCEPT !.conns[k].state = "failed", !.connPromise = 0]
                  ELSE Send([eng EXCEPT !.conns[k].state = "connecting"], d, "conn", k, "ok")
      /\ UNCHANGED <<registry, calls, used, made, crashes, failures, raced, abandoned>>

(* Caller c sends its query on its connection: it may crash the database,  *)
(* and a loaded file may turn out not to be a table.                       *)
SendQuery(e, c, call) ==
  LET d == e.conns[call.conn].db
      found == call.file \in e.dbs[d].files
  IN  /\ Goes(c, [call EXCEPT !.pc = "query"])
      /\ \/ /\ eng' = Send(e, d, "caller", c, IF found THEN "ok" ELSE "missing")
            /\ UNCHANGED crashes
         \/ /\ found /\ call.kind = "load"
            /\ eng' = Send(e, d, "caller", c, "bad")
            /\ UNCHANGED crashes
         \/ /\ found /\ e.dbs[d].state = "ready" /\ crashes < MaxCrashes
            /\ crashes' = crashes + 1
            /\ eng' = Send([e EXCEPT !.dbs[d].state = "crashed"], d, "caller", c, "crash")

(* A request about a file changes the files of a database that works.      *)
SendFile(e, c, d, files) ==
  Send(IF e.dbs[d].state = "ready" THEN [e EXCEPT !.dbs[d].files = files] ELSE e,
       d, "caller", c, "ok")

Dropped(e, d, f) == e.dbs[d].files \ {f}

(* The loop of recoverAfterCrash, over the map as it is now.               *)
Reregister_Nothing(e, c, call) ==
  /\ eng' = WithConn(e)
  /\ Goes(c, [call EXCEPT !.pc = "conn", !.conn = ConnOf(WithConn(e))])

Reregister(e, c, call) ==
  LET d == call.db
  IN  \/ \E f \in registry \ call.seen :
           /\ eng' = SendFile(e, c, d, e.dbs[d].files \cup {f})
           /\ Goes(c, [call EXCEPT !.pc = "again", !.seen = @ \cup {f}])
      \/ /\ registry \subseteq call.seen
         /\ eng' = WithConn(e)
         /\ Goes(c, [call EXCEPT !.pc = "conn", !.conn = ConnOf(WithConn(e))])

(* recoverAfterCrash.                                                      *)
Recover(e, c, call) ==
  LET f == WithDb(resetDuckDB(e))
  IN  /\ eng' = f
      /\ Goes(c, [call EXCEPT !.pc = "db", !.db = DbOf(f), !.retried = TRUE, !.seen = {}])
      /\ abandoned' = (abandoned \/ eng.conns[call.conn].db # DbOf(eng))

-----------------------------------------------------------------------------
(* A caller goes on when its database is there.                            *)
HasDb(c) ==
  LET call == calls[c]
      d == call.db
  IN  /\ call.pc = "db"
      /\ ~ Starting(d)
      /\ \/ /\ eng.dbs[d].state = "failed"
            /\ Ends(c, "failed")
            /\ UNCHANGED eng
         \/ /\ eng.dbs[d].state # "failed" /\ call.kind = "load"
            /\ eng' = SendFile(eng, c, d, eng.dbs[d].files \cup {call.file})
            /\ Goes(c, [call EXCEPT !.pc = "file"])
         \/ /\ eng.dbs[d].state # "failed" /\ call.kind = "delete"
            /\ eng' = SendFile(eng, c, d, Dropped(eng, d, call.file))
            /\ Goes(c, [call EXCEPT !.pc = "drop"])
         \/ /\ eng.dbs[d].state # "failed" /\ call.kind = "tile"
            /\ Reregister(eng, c, call)
      /\ UNCHANGED <<registry, used, made, crashes, failures, raced, abandoned>>

(* A caller goes on when its connection is there.                          *)
HasConn(c) ==
  LET call == calls[c]
      conn == eng.conns[call.conn]
  IN  /\ call.pc = "conn"
      /\ ~ Pending(call.conn)
      /\ \/ /\ conn.state = "open"
            /\ SendQuery(eng, c, call)
            /\ UNCHANGED abandoned
         \/ /\ conn.state = "failed"
            /\ IF call.kind = "tile" /\ ~ call.retried /\ eng.dbs[conn.db].state = "crashed"
                 THEN Recover(eng, c, call)
                 ELSE Ends(c, "failed") /\ UNCHANGED <<eng, abandoned>>
            /\ UNCHANGED crashes
      /\ UNCHANGED <<registry, used, made, failures, raced>>

-----------------------------------------------------------------------------
(* Database d answers the request it was sent first; e is without it.      *)

Popped(d) == [eng EXCEPT !.dbs[d].queue = Tail(@)]
Asker(d) == Head(eng.dbs[d].queue)
Answers(d) == Settled /\ eng.dbs[d].queue # << >>

Connected(d) ==
  LET k == Asker(d).id
  IN  /\ Answers(d)
      /\ Asker(d).of = "conn"
      /\ eng' = IF Asker(d).answer # "crash"
                  THEN [Popped(d) EXCEPT !.conns[k].state = "open", !.connInstance = k]
                  ELSE [Popped(d) EXCEPT !.conns[k].state = "failed", !.connPromise = 0]
      /\ UNCHANGED <<registry, calls, used, made, crashes, failures, raced, abandoned>>

AnswersCaller(d, pc) ==
  /\ Answers(d)
  /\ Asker(d).of = "caller"
  /\ calls[Asker(d).id].pc = pc

TileAnswered(d) ==
  LET c == Asker(d).id
      call == calls[c]
  IN  /\ AnswersCaller(d, "query")
      /\ call.kind = "tile"
      /\ \/ /\ Asker(d).answer = "crash" /\ ~ call.retried
            /\ Recover(Popped(d), c, call)
         \/ /\ Asker(d).answer # "crash" \/ call.retried
            /\ eng' = Popped(d)
            /\ Ends(c, IF Asker(d).answer = "ok" THEN "idle" ELSE "failed")
            /\ UNCHANGED abandoned
      /\ UNCHANGED <<registry, used, made, crashes, failures, raced>>

QueryAnswered(d) ==
  LET c == Asker(d).id
      call == calls[c]
  IN  /\ AnswersCaller(d, "query")
      /\ call.kind = "query"
      /\ \/ /\ Asker(d).answer = "ok" /\ call.left > 1
            /\ SendQuery(Popped(d), c, [call EXCEPT !.left = @ - 1])
         \/ /\ Asker(d).answer # "ok" \/ call.left = 1
            /\ eng' = Popped(d)
            /\ Ends(c, IF Asker(d).answer = "ok" THEN "idle" ELSE "failed")
            /\ UNCHANGED crashes
      /\ UNCHANGED <<registry, used, made, failures, raced, abandoned>>

(* The schema of a loaded file, and its count: then it is a source.  When  *)
(* one fails the file is dropped.                                          *)
LoadAnswered(d) ==
  LET c == Asker(d).id
      call == calls[c]
      e == Popped(d)
  IN  /\ AnswersCaller(d, "query")
      /\ call.kind = "load"
      /\ \/ /\ Asker(d).answer = "ok" /\ call.left = 2
            /\ SendQuery(e, c, [call EXCEPT !.left = 1])
            /\ UNCHANGED registry
         \/ /\ Asker(d).answer = "ok" /\ call.left = 1
            /\ eng' = e
            /\ registry' = registry \cup {call.file}
            /\ Ends(c, "idle")
            /\ UNCHANGED crashes
         \/ /\ Asker(d).answer # "ok"
            /\ eng' = SendFile(e, c, call.db, Dropped(e, call.db, call.file))
            /\ Goes(c, [call EXCEPT !.pc = "undo"])
            /\ UNCHANGED <<registry, crashes>>
      /\ UNCHANGED <<used, made, failures, raced, abandoned>>

FileRegistered(d) ==
  LET c == Asker(d).id
      e == Popped(d)
  IN  /\ AnswersCaller(d, "file")
      /\ IF Asker(d).answer # "crash"
           THEN /\ eng' = WithConn(e)
                /\ Goes(c, [calls[c] EXCEPT !.pc = "conn", !.conn = ConnOf(WithConn(e))])
           ELSE eng' = e /\ Ends(c, "failed")
      /\ UNCHANGED <<registry, used, made, crashes, failures, raced, abandoned>>

FileAgain(d) ==
  /\ AnswersCaller(d, "again")
  /\ Reregister(Popped(d), Asker(d).id, calls[Asker(d).id])
  /\ UNCHANGED <<registry, used, made, crashes, failures, raced, abandoned>>

Recovering == \E c \in Callers : calls[c].pc \in {"db", "again"} /\ calls[c].kind = "tile"

(* A deleted source is taken out of the map, whether its file was dropped. *)
FileDropped(d) ==
  LET c == Asker(d).id
  IN  /\ AnswersCaller(d, "drop") \/ AnswersCaller(d, "undo")
      /\ eng' = Popped(d)
      /\ registry' = IF calls[c].pc = "drop"
                       THEN registry \ {calls[c].file} ELSE registry
      /\ raced' = IF calls[c].db # DbOf(eng) \/ Recovering THEN raced \cup {calls[c].file} ELSE raced
      /\ Ends(c, IF calls[c].pc = "drop" THEN "idle" ELSE "failed")
      /\ UNCHANGED <<used, made, crashes, failures, abandoned>>

EngineNext ==
  \/ \E c \in Callers, f \in Files :
       \/ AskTile(c, f)
       \/ \E n \in 1 .. 2 : AskQueries(c, f, n)
       \/ Load(c, f)
       \/ Delete(c, f)
  \/ \E c \in Callers : HasDb(c) \/ HasConn(c)
  \/ \E k \in DOMAIN eng.conns : Connect(k)
  \/ \E d \in DOMAIN eng.dbs :
       \/ Instantiate(d)
       \/ FailToStart(d)
       \/ Connected(d)
       \/ TileAnswered(d)
       \/ QueryAnswered(d)
       \/ LoadAnswered(d)
       \/ FileRegistered(d)
       \/ FileAgain(d)
       \/ FileDropped(d)

EngineSpec == EngineInit /\ [][EngineNext]_engineVars

-----------------------------------------------------------------------------
Quiet ==
  /\ \A c \in Callers : calls[c].pc \in Ended
  /\ \A d \in DOMAIN eng.dbs : ~ Starting(d) /\ eng.dbs[d].queue = << >>
  /\ Settled

Works(d) == d # 0 /\ eng.dbs[d].state = "ready"

(* When nothing is under way a working database has the file of every      *)
(* source, however often an earlier one has crashed, and the connection is *)
(* one with it: what is loaded next can be read (recoverAfterCrash).  It   *)
(* has no other files: that of a load that failed has been dropped, and    *)
(* that of a source that was deleted, unless a recovery registered it once *)
(* more in between (loadBuffer, deleteSource).                             *)
FilesAreTheSources ==
  Quiet /\ ~ abandoned /\ Works(eng.dbInstance) =>
    /\ registry \subseteq eng.dbs[eng.dbInstance].files
    /\ eng.dbs[eng.dbInstance].files \subseteq registry \cup raced
    /\ eng.connInstance # 0 => eng.conns[eng.connInstance].db = eng.dbInstance

(* The tile that notices a crash survives it: it fails only when a second  *)
(* query crashes a database, or when its source is deleted.  Tiles that are*)
(* asked for before the files are registered again do fail                 *)
(* (fetchViewTile).                                                        *)
TilesSurviveACrash ==
  \A c \in Callers :
    calls[c].pc = "failed" /\ calls[c].kind = "tile" /\ calls[c].retried
    /\ calls[c].file \in registry /\ ~ abandoned
      => crashes > 1
=============================================================================
