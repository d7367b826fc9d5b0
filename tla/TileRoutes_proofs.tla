--------------------------- MODULE TileRoutes_proofs ---------------------------
(* Theorems about TileRoutes for any requests, sources, views and tiles.    *)
EXTENDS TileRoutes, TLAPS

(***************************************************************************)
(* Type correctness.                                                       *)
(***************************************************************************)

LEMMA WindowType == \A q \in Question, p \in BOOLEAN : Window(q, p) \in Tile
<1>. SUFFICES ASSUME NEW q \in Question, NEW p \in BOOLEAN PROVE Window(q, p) \in Tile
  OBVIOUS
<1>1. q.row \in Nat /\ q.rows \in Nat /\ NRows \in Nat
  BY RoutesAssumption DEF Question
<1>2. Lesser(q.row, NRows) \in 0 .. NRows /\ Lesser(q.row + q.rows, NRows) \in 0 .. NRows
  BY <1>1 DEF Lesser
<1>3. q.source \in Sources /\ q.view \in Views
  BY DEF Question
<1>4. (IF q.route = "tile" THEN q.mode ELSE "raw") \in Modes \cup {"raw"}
  BY DEF Question
<1>. QED  BY <1>2, <1>3, <1>4 DEF Window, Tile

LEMMA InitType == Init => TypeOK
<1>. SUFFICES ASSUME Init PROVE TypeOK
  OBVIOUS
<1>1. Question # {}
  <2>1. PICK s \in Sources, v \in Views, o \in Offsets, h \in Heights, m \in Modes : TRUE
    BY RoutesAssumption
  <2>2. [route |-> "tile", source |-> s, view |-> v, row |-> o, rows |-> h, mode |-> m] \in Question
    BY DEF Question
  <2>. QED  BY <2>2
<1>2. (CHOOSE q \in Question : TRUE) \in Question
  BY <1>1
<1>3. \A t \in {Window(q, FALSE) : q \in Question} : t \in Tile
  BY WindowType
<1>4. {Window(q, FALSE) : q \in Question} # {}
  BY <1>1
<1>5. (CHOOSE t \in {Window(q, FALSE) : q \in Question} : TRUE) \in Tile
  BY <1>3, <1>4
<1>6. question \in [Requests -> Question]
  BY <1>2 DEF Init
<1>7. tile \in [Requests -> Tile]
  BY <1>5 DEF Init
<1>8. pc \in [Requests -> {"idle"}] /\ asked = 0 /\ DOMAIN cache = {} /\ modified = {} /\ removed = {}
  BY DEF Init
<1>. QED  BY <1>6, <1>7, <1>8, RoutesAssumption DEF TypeOK

LEMMA NextType ==
  ASSUME TypeOK, [Next]_vars
  PROVE  TypeOK'
<1>. USE DEF TypeOK
<1>1. ASSUME NEW r \in Requests, NEW q \in Question, Ask(r, q) PROVE TypeOK'
  <2>1. asked' \in 0 .. MaxAsked
    BY <1>1, RoutesAssumption DEF Ask
  <2>. QED  BY <1>1, <2>1 DEF Ask, Goto, Outcomes
<1>2. ASSUME NEW r \in Requests, Hit(r) PROVE TypeOK'
  BY <1>2 DEF Hit, Goto, Outcomes
<1>3. ASSUME NEW r \in Requests, Miss(r) PROVE TypeOK'
  BY <1>3 DEF Miss, Goto
<1>4. ASSUME NEW r \in Requests, Refuse(r) \/ EngineError(r) PROVE TypeOK'
  BY <1>4 DEF Refuse, EngineError, Goto, Failed, Outcomes
<1>5. ASSUME NEW r \in Requests, Accept(r) PROVE TypeOK'
  BY <1>5 DEF Accept, Goto
<1>6. ASSUME NEW r \in Requests, NEW p \in BOOLEAN, Read(r, p) PROVE TypeOK'
  <2>1. Window(question[r], p) \in Tile
    BY WindowType
  <2>. QED  BY <1>6, <2>1 DEF Read, Goto
<1>7. ASSUME NEW r \in Requests, Store(r) PROVE TypeOK'
  <2>1. \A k \in DOMAIN cache' : cache'[k] \in Tile
    BY <1>7 DEF Store
  <2>. QED  BY <1>7, <2>1 DEF Store, Goto, Outcomes
<1>8. ASSUME NEW r \in Requests, Timeout(r) PROVE TypeOK'
  BY <1>8 DEF Timeout, Goto, Outcomes
<1>9. ASSUME NEW k, Forget(k) PROVE TypeOK'
  BY <1>9 DEF Forget
<1>10. ASSUME NEW s \in Sources, Modify(s) \/ DeleteSource(s) PROVE TypeOK'
  BY <1>10 DEF Modify, DeleteSource
<1>11. CASE UNCHANGED vars
  BY <1>11 DEF vars
<1>. QED
  BY <1>1, <1>2, <1>3, <1>4, <1>5, <1>6, <1>7, <1>8, <1>9, <1>10, <1>11 DEF Next, Handle, Engine

(* Every variable has its type: no tile, whatever window was asked for,    *)
(* reaches beyond the rows there are.                                      *)
THEOREM RoutesTypeOK == Spec => []TypeOK
<1>. QED  BY InitType, NextType, PTL DEF Spec

-----------------------------------------------------------------------------
(***************************************************************************)
(* Full answers only are kept.                                             *)
(***************************************************************************)

(* Whoever stores, the tile it stores is not provisional.                  *)
LEMMA NextExact ==
  ASSUME HitsAreExact, [Next]_vars
  PROVE  HitsAreExact'
<1>. USE DEF HitsAreExact
<1>1. ASSUME NEW r \in Requests, Store(r) PROVE HitsAreExact'
  BY <1>1 DEF Store
<1>2. ASSUME NEW k, Forget(k) PROVE HitsAreExact'
  BY <1>2 DEF Forget
<1>3. CASE UNCHANGED cache
  BY <1>3
<1>. QED
  BY <1>1, <1>2, <1>3 DEF Next, Handle, Engine, vars, Ask, Hit, Miss, Refuse, Accept, EngineError, Read,
     Timeout, Modify, DeleteSource

(* A hit is never provisional, whichever route stored the tile.            *)
THEOREM HitsAreFull == Spec => []HitsAreExact
<1>1. Init => HitsAreExact
  BY DEF Init, HitsAreExact
<1>. QED  BY <1>1, NextExact, PTL DEF Spec

-----------------------------------------------------------------------------
(***************************************************************************)
(* The answer is to the question, as long as all clients ask for tiles of   *)
(* one height, at its multiples, without a mode.  The key then tells apart  *)
(* any two windows, and what is cached under it is the window of every      *)
(* question with that key, asked already or not.                           *)
(***************************************************************************)

OneGrid ==
  /\ Modes = {"raw"}
  /\ \E h \in Nat \ {0} : Heights = {h} /\ \A o \in Offsets : o % h = 0

(* Two multiples with the same quotient are the same.                      *)
LEMMA SameTileSameRow ==
  ASSUME NEW h \in Nat \ {0}, NEW a \in Nat, NEW b \in Nat,
         a % h = 0, b % h = 0, a \div h = b \div h
  PROVE  a = b
<1>1. a = h * (a \div h) + (a % h)
  OBVIOUS
<1>2. b = h * (b \div h) + (b % h)
  OBVIOUS
<1>. QED  BY <1>1, <1>2

(* So two questions with one key are answered with the same window.        *)
LEMMA SameKeySameWindow ==
  ASSUME OneGrid, NEW p \in Question, NEW q \in Question, Key(p) = Key(q)
  PROVE  Window(p, FALSE) = Window(q, FALSE)
<1>1. PICK h \in Nat \ {0} : Heights = {h} /\ \A o \in Offsets : o % h = 0
  BY DEF OneGrid
<1>2. /\ p.rows = h /\ q.rows = h /\ p.mode = "raw" /\ q.mode = "raw"
      /\ p.row \in Nat /\ q.row \in Nat /\ p.row % h = 0 /\ q.row % h = 0
  BY <1>1, RoutesAssumption DEF Question, OneGrid
<1>3. Height(p) = h /\ Height(q) = h
  BY <1>2 DEF Height
<1>4. p.source = q.source /\ p.view = q.view /\ p.row \div h = q.row \div h
  BY <1>3 DEF Key
<1>5. p.row = q.row
  BY <1>2, <1>4, SameTileSameRow
<1>. QED  BY <1>2, <1>4, <1>5 DEF Window

CacheFits ==
  \A k \in DOMAIN cache : \A q \in Question : Key(q) = k => cache[k] = Window(q, FALSE)

TileFits(r) == tile[r] \in {Window(question[r], TRUE), Window(question[r], FALSE)}

AnswersInv ==
  /\ TypeOK /\ CacheFits
  /\ \A r \in Requests : pc[r] \in {"store", "answered"} => TileFits(r)

(* What a request stores under its key fits the key.                       *)
LEMMA StoreFits ==
  ASSUME OneGrid, AnswersInv, NEW r \in Requests, Store(r)
  PROVE  CacheFits'
<1>. DEFINE k == Key(question[r])
<1>0. question[r] \in Question /\ CacheFits
  BY DEF AnswersInv, TypeOK
<1>1. CASE tile[r].provisional
  BY <1>0, <1>1 DEF Store, CacheFits
<1>2. CASE ~ tile[r].provisional
  <2>1. tile[r] = Window(question[r], FALSE)
    <3>1. tile[r] \in {Window(question[r], TRUE), Window(question[r], FALSE)}
      BY DEF AnswersInv, TileFits, Store
    <3>2. Window(question[r], TRUE).provisional
      BY DEF Window
    <3>. QED  BY <1>2, <3>1, <3>2
  <2>2. cache' = [j \in DOMAIN cache \cup {k} |-> IF j = k THEN tile[r] ELSE cache[j]]
    BY <1>2 DEF Store
  <2>3. \A q \in Question : Key(q) = k => tile[r] = Window(q, FALSE)
    BY <1>0, <2>1, SameKeySameWindow
  <2>. HIDE DEF k
  <2>. QED  BY <1>0, <2>2, <2>3 DEF CacheFits
<1>. QED  BY <1>1, <1>2

LEMMA NextAnswers ==
  ASSUME OneGrid, AnswersInv, [Next]_vars
  PROVE  AnswersInv'
<1>0. TypeOK' /\ pc \in [Requests -> {"idle", "lookup", "engine", "read", "store"} \cup Outcomes]
  BY NextType DEF AnswersInv, TypeOK
<1>. DEFINE Fit(r) == pc[r] \in {"store", "answered"} => TileFits(r)
            Others(r) == \A u \in Requests \ {r} : /\ pc'[u] = pc[u] /\ tile'[u] = tile[u]
                                                   /\ question'[u] = question[u]
<1>1. ASSUME NEW r \in Requests, Others(r), Fit(r)' PROVE \A u \in Requests : Fit(u)'
  <2>1. ASSUME NEW u \in Requests \ {r} PROVE Fit(u)'
    BY <1>1, <2>1 DEF AnswersInv, TileFits
  <2>. QED  BY <1>1, <2>1
<1>2. ASSUME UNCHANGED cache PROVE CacheFits'
  BY <1>2 DEF AnswersInv, CacheFits
<1>3. ASSUME NEW r \in Requests, NEW q \in Question, Ask(r, q) PROVE AnswersInv'
  <2>1. Others(r) /\ Fit(r)' /\ UNCHANGED cache
    BY <1>0, <1>3 DEF Ask, Goto, AnswersInv, TypeOK, Outcomes
  <2>. QED  BY <1>0, <1>1, <1>2, <2>1 DEF AnswersInv
<1>4. ASSUME NEW r \in Requests, Hit(r) PROVE AnswersInv'
  <2>1. cache[Key(question[r])] = Window(question[r], FALSE)
    BY <1>4 DEF Hit, AnswersInv, CacheFits, TypeOK
  <2>2. Others(r) /\ tile'[r] = Window(question[r], FALSE) /\ question' = question /\ UNCHANGED cache
    BY <1>0, <1>4, <2>1 DEF Hit, Goto, AnswersInv, TypeOK
  <2>3. TileFits(r)'
    BY <2>2 DEF TileFits
  <2>. QED  BY <1>0, <1>1, <1>2, <2>2, <2>3 DEF AnswersInv
<1>5. ASSUME NEW r \in Requests, Miss(r) \/ Refuse(r) \/ Accept(r) \/ EngineError(r) \/ Timeout(r)
      PROVE  AnswersInv'
  <2>1. Others(r) /\ pc'[r] \notin {"store", "answered"} /\ UNCHANGED cache
    BY <1>0, <1>5 DEF Miss, Refuse, Accept, EngineError, Timeout, Goto, Failed
  <2>. QED  BY <1>0, <1>1, <1>2, <2>1 DEF AnswersInv
<1>6. ASSUME NEW r \in Requests, NEW p \in BOOLEAN, Read(r, p) PROVE AnswersInv'
  <2>1. Others(r) /\ tile'[r] = Window(question[r], p) /\ question' = question /\ UNCHANGED cache
    BY <1>0, <1>6 DEF Read, Goto, AnswersInv, TypeOK
  <2>2. TileFits(r)'
    BY <2>1 DEF TileFits
  <2>. QED  BY <1>0, <1>1, <1>2, <2>1, <2>2 DEF AnswersInv
<1>7. ASSUME NEW r \in Requests, Store(r) PROVE AnswersInv'
  <2>1. CacheFits'
    BY <1>7, StoreFits
  <2>2. Others(r) /\ TileFits(r) /\ tile' = tile /\ question' = question
    BY <1>0, <1>7 DEF Store, Goto, AnswersInv
  <2>3. TileFits(r)'
    BY <2>2 DEF TileFits
  <2>. QED  BY <1>0, <1>1, <2>1, <2>2, <2>3 DEF AnswersInv
<1>8. ASSUME UNCHANGED <<pc, tile, question>>, CacheFits' PROVE AnswersInv'
  BY <1>0, <1>8 DEF AnswersInv, TileFits
<1>9. ASSUME NEW k, Forget(k) PROVE AnswersInv'
  <2>1. CacheFits'
    BY <1>9 DEF Forget, AnswersInv, CacheFits
  <2>. QED  BY <1>8, <1>9, <2>1 DEF Forget
<1>10. ASSUME NEW s \in Sources, Modify(s) \/ DeleteSource(s) PROVE AnswersInv'
  BY <1>2, <1>8, <1>10 DEF Modify, DeleteSource
<1>11. CASE UNCHANGED vars
  BY <1>2, <1>8, <1>11 DEF vars
<1>. QED
  BY <1>3, <1>4, <1>5, <1>6, <1>7, <1>9, <1>10, <1>11 DEF Next, Handle, Engine

(* A request answered with a tile is answered with the rows it asked for,  *)
(* for any number of rows, height and requests, as long as all ask on one   *)
(* grid of tiles.                                                          *)
THEOREM AnswersOnOneGrid == OneGrid /\ Spec => []AnswersTheQuestion
<1>. SUFFICES ASSUME OneGrid PROVE Spec => []AnswersTheQuestion
  OBVIOUS
<1>1. Init => AnswersInv
  BY InitType DEF Init, AnswersInv, CacheFits
<1>2. AnswersInv /\ [Next]_vars => AnswersInv'
  BY NextAnswers
<1>3. AnswersInv => AnswersTheQuestion
  BY DEF AnswersInv, AnswersTheQuestion, TileFits, Answered
<1>. QED  BY <1>1, <1>2, <1>3, PTL DEF Spec
=============================================================================
