----------------------------- MODULE ClientSession -----------------------------
(***************************************************************************)
(* A session of the web client: how a source is opened (from the list, by  *)
(* adding or uploading one, from a catalog, by a link, or by reloading the *)
(* page), how one is deleted, and how the view is kept in the URL and      *)
(* shared.  Everything that depends on the source and the view follows, as *)
(* in ClientFeeds.                                                         *)
(*                                                                         *)
(* A reload forgets the state of the page; the server keeps the sources    *)
(* and the snapshots.                                                      *)
(***************************************************************************)
EXTENDS ClientFeeds

CONSTANTS
  Registered,  \* the sources the server has at first
  Encodable,   \* the pipelines btoa can encode: those with Latin-1 text only
  MaxSteps,    \* bound: actions of the user
  MaxUnderWay  \* bound: requests under way when the user acts

ASSUME SessionAssumption ==
  /\ Registered \subseteq Sources /\ Encodable \subseteq Ops
  /\ MaxSteps \in Nat /\ MaxUnderWay \in Nat

VARIABLES
  listed,      \* SourceManager's list
  held,        \* the source object is one of the list
  path,        \* the path of the URL: "/", or [kind, of] for /view/ and /share/
  hash,        \* the view the URL's hash names, or None
  registered,  \* the server's sources
  used,        \* the ids the server has given
  snapshots,   \* the views the server keeps under a link
  wanted,      \* history: the view a reload or a link is to show, or None
  steps        \* the actions of the user so far

place  == <<path, hash>>
server == <<registered, used, snapshots>>
vars   == <<feedVars, listed, held, place, server, wanted, steps>>

Root == [kind |-> "root", of |-> None]

Acts ==
  /\ steps < MaxSteps /\ BagCardinality(requests) <= MaxUnderWay
  /\ steps' = steps + 1
  /\ wanted' = None

(* A step that only sends a request, or takes one and changes no store.    *)
Stays == UNCHANGED <<source, sourceId, ops, counted, code, explored, columns, timers, failed>>

Less(r) == requests (-) SetToBag({r})

SendOnly(kind, of) ==
  /\ requests' = requests (+) SetToBag({Request(kind, of, source)})
  /\ Stays /\ UNCHANGED open

-----------------------------------------------------------------------------
(* The list of sources.                                                    *)

(* setSource and setSourceId, in one event.                                *)
Show(rest, s, object, panels) ==
  Become(rest, s, object, s, NoOps, panels, {"count", "schema"})

(* The panel asks for the list each time it opens.                         *)
ToggleSources ==
  /\ Acts
  /\ IF "sources" \in open
       THEN open' = open \ {"sources"} /\ UNCHANGED requests
       ELSE /\ open' = open \cup {"sources"}
            /\ requests' = requests (+) SetToBag({Request("list", None, source)})
  /\ Stays /\ UNCHANGED <<listed, held, place, server>>

Listed(r) ==
  /\ r.kind = "list" /\ Taken(r)
  /\ listed' = registered /\ held' = FALSE
  /\ Stays /\ UNCHANGED <<open, place, server, wanted, steps>>

HandleSelect(s) ==
  /\ Acts
  /\ "sources" \in open /\ s \in listed
  /\ Show(requests, s, ~ (held /\ s = source), open \ {"sources"})
  /\ held' = TRUE
  /\ UNCHANGED <<listed, place, server>>

(* The handler keeps the source that was shown when it was clicked.        *)
HandleDelete(s) ==
  /\ Acts
  /\ "sources" \in open /\ s \in listed
  /\ SendOnly("delete", Total(s))
  /\ UNCHANGED <<listed, held, place, server>>

(* The entry goes, and the source that was shown is closed, whether or not *)
(* the server deleted it.                                                  *)
Deleted(r) ==
  /\ r.kind = "delete" /\ BagIn(r, requests)
  /\ registered' \in {registered \ {r.of.source}, registered}
  /\ listed' = listed \ {r.of.source}
  /\ IF r.while = r.of.source
       THEN held' = FALSE /\ Show(Less(r), None, source # None, open)
       ELSE Taken(r) /\ Stays /\ UNCHANGED <<open, held>>
  /\ UNCHANGED <<place, used, snapshots, wanted, steps>>

-----------------------------------------------------------------------------
(* Adding a source.  The server gives it a new id.                         *)

OpenAdd ==
  /\ Acts
  /\ "sources" \in open /\ "add" \notin open
  /\ open' = open \cup {"add"}
  /\ Stays /\ UNCHANGED <<requests, listed, held, place, server>>

(* The form, or a file: a submitted form waits for its answer, a dropped   *)
(* file does not.                                                          *)
Submit ==
  /\ Acts
  /\ "add" \in open
  /\ SendOnly("add", None)
  /\ UNCHANGED <<listed, held, place, server>>

(* Cancelling closes the dialog and leaves its request under way.          *)
CancelAdd ==
  /\ Acts
  /\ "add" \in open
  /\ open' = open \ {"add"}
  /\ Stays /\ UNCHANGED <<requests, listed, held, place, server>>

New(s) ==
  /\ s \in Sources \ used
  /\ used' = used \cup {s} /\ registered' = registered \cup {s}

HandleAdded(r, s) ==
  /\ r.kind = "add" /\ BagIn(r, requests)
  /\ New(s)
  /\ listed' = listed \cup {s} /\ held' = TRUE
  /\ Show(Less(r), s, TRUE, open \ {"add"})
  /\ UNCHANGED <<place, snapshots, wanted, steps>>

-----------------------------------------------------------------------------
(* The catalog browser opens a source in the table store alone.            *)

OpenCatalog ==
  /\ Acts
  /\ "sources" \in open
  /\ open' = (open \ {"sources"}) \cup {"catalog"}
  /\ Stays /\ UNCHANGED <<requests, listed, held, place, server>>

CloseCatalog ==
  /\ Acts
  /\ "catalog" \in open
  /\ open' = open \ {"catalog"}
  /\ Stays /\ UNCHANGED <<requests, listed, held, place, server>>

HandleOpen ==
  /\ Acts
  /\ "catalog" \in open
  /\ SendOnly("connect", None)
  /\ UNCHANGED <<listed, held, place, server>>

Connected(r, s) ==
  /\ r.kind = "connect" /\ BagIn(r, requests)
  /\ New(s)
  /\ held' = FALSE
  /\ Become(Less(r), s, TRUE, sourceId, ops, open \ {"catalog"}, {})
  /\ UNCHANGED <<listed, place, snapshots, wanted, steps>>

(* A request of the panels fails, and the panel says so.                   *)
Refused(r) ==
  /\ r.kind \in {"list", "add", "connect", "snapshot"} /\ Taken(r)
  /\ Stays /\ UNCHANGED <<open, listed, held, place, server, wanted, steps>>

-----------------------------------------------------------------------------
(* The URL, links and reloads.                                             *)

(* The timer writes the view in the hash; btoa throws for other text, and  *)
(* the hash keeps the view it had.                                         *)
UrlTimer ==
  /\ "url" \in timers
  /\ timers' = timers \ {"url"}
  /\ IF view # None /\ ops \in Encodable
       THEN hash' = view /\ failed' = failed \ {"url"}
       ELSE UNCHANGED <<hash, failed>>
  /\ UNCHANGED <<source, sourceId, ops, counted, code, explored, columns, open, requests,
                 listed, held, path, server, wanted, steps>>

HandleShare ==
  /\ Acts
  /\ view # None
  /\ SendOnly("snapshot", view)
  /\ UNCHANGED <<listed, held, place, server>>

Snapshotted(r) ==
  /\ r.kind = "snapshot" /\ Taken(r)
  /\ snapshots' = snapshots \cup {r.of}
  /\ Stays /\ UNCHANGED <<open, listed, held, place, registered, used, wanted, steps>>

(* What the page asks for at a path and a hash: the link to a source keeps *)
(* it from reading the hash, the one to a snapshot does not.               *)
Asked(p, h) ==
  Sent(p.kind, p # Root, p.of, None) (+) Sent("hash", p.kind # "view" /\ h # None, h, None)

(* The page starts anew.                                                   *)
Start(p, h) ==
  /\ path' = p /\ hash' = h
  /\ source' = None /\ sourceId' = None /\ ops' = NoOps
  /\ count' = None /\ schema' = None /\ code' = None
  /\ correlations' = None /\ fetching' = None /\ matrix' = None
  /\ stats' = {} /\ pending' = {} /\ open' = {} /\ timers' = {}
  /\ late' = {} /\ failed' = {} /\ listed' = {} /\ held' = FALSE
  /\ requests' = Asked(p, h)
  /\ UNCHANGED snapshots

(* Of the requests under way the server has handled some.  The view comes  *)
(* back if its URL was written and no late answer to an earlier link has   *)
(* cleared it since; if the link was to the view that is shown already,    *)
(* the URL is not written again.                                           *)
Reload ==
  /\ steps < MaxSteps /\ steps' = steps + 1
  /\ Start(path, hash)
  /\ wanted' = IF path = Root /\ "url" \notin timers \cup failed /\ view # None /\ ops \in Encodable
                 THEN view ELSE None
  /\ \E gone \in SUBSET {r.of.source : r \in UnderWay("delete")} : registered' = registered \ gone
  /\ UNCHANGED used

(* A link to a source, or to a snapshot, is opened.                        *)
Visit(p) ==
  /\ steps < MaxSteps /\ steps' = steps + 1
  /\ \/ p.kind = "share" /\ p.of \in snapshots
     \/ p.kind = "view" /\ p.of \in {Total(s) : s \in registered}
  /\ Start(p, None)
  /\ wanted' = p.of
  /\ UNCHANGED <<registered, used>>

(* A link to a source opens it with no operations; one to a snapshot is    *)
(* cleared from the URL, and the hash with it.                             *)
RestoredTo(r) == IF r.kind = "view" THEN Total(r.of.source) ELSE r.of

Restored(r) ==
  /\ r.kind \in {"hash", "view", "share"} /\ BagIn(r, requests)
  /\ r.of.source \in registered
  /\ LET v       == RestoredTo(r)
         cleared == IF r.kind = "share" THEN {"url"} ELSE {}
     IN  Become(Less(r), v.source, TRUE, v.source, v.ops, open, {"count", "schema"} \cup cleared)
  /\ held' = FALSE
  /\ IF r.kind = "share" THEN path' = Root /\ hash' = None ELSE UNCHANGED place
  /\ UNCHANGED <<listed, server, wanted, steps>>

(* The URL is cleared even if another source was opened meanwhile.         *)
RestoreFailed(r) ==
  /\ r.kind \in {"hash", "view", "share"} /\ Taken(r)
  /\ path' = (IF r.kind = "hash" THEN path ELSE Root) /\ hash' = None
  /\ wanted' = None
  /\ failed' = failed \cup {"url"}
  /\ UNCHANGED <<source, sourceId, ops, counted, code, explored, columns, open, timers,
                 listed, held, server, steps>>

-----------------------------------------------------------------------------
(* Of an earlier session there may be a hash or a snapshot.                *)
Init ==
  /\ FeedsInit
  /\ listed = {} /\ held = FALSE
  /\ LET past == {v \in View : v.source \in Registered}
     IN  \/ snapshots = {} /\ hash \in {None} \cup {v \in past : v.ops \in Encodable}
         \/ snapshots \in {{v} : v \in past} /\ hash = None
  /\ path = Root /\ requests = Asked(path, hash)
  /\ registered = Registered /\ used = Registered
  /\ wanted = None /\ steps = 0

OnTheView ==
  /\ Acts
  /\ \/ \E o \in Ops : SetOps(o)
     \/ \E p \in Tools : OpenPanel(p) \/ ClosePanel(p)
     \/ \E c \in Columns : LookAt(c)
  /\ UNCHANGED <<listed, held, place, server>>

Feeds == (Answer \/ CountTimer) /\ UNCHANGED <<listed, held, place, server, wanted, steps>>

Next ==
  \/ OnTheView \/ Feeds
  \/ ToggleSources \/ OpenAdd \/ Submit \/ CancelAdd
  \/ OpenCatalog \/ CloseCatalog \/ HandleOpen
  \/ \E s \in Sources : HandleSelect(s) \/ HandleDelete(s)
  \/ UrlTimer \/ HandleShare \/ Reload
  \/ \E v \in snapshots : Visit([kind |-> "share", of |-> v])
  \/ \E s \in Sources : Visit([kind |-> "view", of |-> Total(s)])
  \/ \E r \in BagToSet(requests) :
       \/ Listed(r) \/ Deleted(r) \/ Refused(r) \/ Snapshotted(r) \/ Restored(r) \/ RestoreFailed(r)
       \/ \E s \in Sources : HandleAdded(r, s) \/ Connected(r, s)

Spec == Init /\ [][Next]_vars

-----------------------------------------------------------------------------
(* A reload shows the view that was shown before it, once the URL had been *)
(* written, and a link the view it was made for: whatever else arrives,    *)
(* the answer leaves the client at that source with those operations, as   *)
(* long as the user does nothing else (useUrlState.ts, useSnapshotRestore  *)
(* .ts).  Sessions that began with a link to a source are not concerned:   *)
(* their path outlives the hash.                                           *)
ReloadKeepsTheView ==
  (wanted # None /\ ~ (\E r \in BagToSet(requests) : r.kind \in {"hash", "view", "share"})) =>
    source = wanted.source /\ view = wanted

=============================================================================
