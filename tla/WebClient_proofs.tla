--------------------------- MODULE WebClient_proofs ---------------------------
(***************************************************************************)
(* Theorems about two parts of the web client, each with its specification:*)
(* Navigation, for every window, zoom, table and history, and DuckEngine,  *)
(* for any callers and files, however many calls, crashes and failures.    *)
(***************************************************************************)
EXTENDS Navigation, DuckEngine, TLAPS

(***************************************************************************)
(* Geometry: positions that are brought within bounds are natural numbers, *)
(* whatever the bounds were computed from.                                 *)
(***************************************************************************)

(* What the commands compute from is well typed.                           *)
LEMMA LengthsType ==
  ASSUME TypeOK
  PROVE  /\ zoom \in Nat \ {0} /\ HEADER_H[zoom] \in Nat
         /\ size.w \in Nat /\ size.h \in Nat
         /\ nRows \in Nat /\ EffectiveRowCount \in Nat
         /\ pos.x \in Int /\ pos.y \in Int
BY ZoomsAssumption, LengthsAssumption DEF TypeOK, EffectiveRowCount

(* A cell is as wide and as high as a natural number of pixels.            *)
LEMMA CellType ==
  ASSUME NEW z \in Nat \ {0}
  PROVE  CellW(z) \in Nat /\ CellH(z) \in Nat
<1>1. \A a, b \in Nat : a * b \in Nat
  OBVIOUS
<1>. QED  BY <1>1, LengthsAssumption DEF CellW, CellH

(* And it takes at least one.                                              *)
LEMMA CellPositive ==
  ASSUME NEW z \in Nat \ {0}
  PROVE  CellW(z) \in Nat \ {0} /\ CellH(z) \in Nat \ {0}
<1>1. \A a, b \in Nat \ {0} : a * b \in Nat \ {0}
  OBVIOUS
<1>. QED  BY <1>1, LengthsAssumption DEF CellW, CellH

(* A bound is a position.                                                  *)
LEMMA BoundsType ==
  ASSUME NEW n \in Nat, NEW z \in Nat \ {0}, NEW vw \in Nat, NEW vh \in Nat
  PROVE  scrollBounds(n, z, vw, vh) \in Positions
<1>1. NCols * CellW(z) \in Int /\ n * CellH(z) \in Int
  BY CellType, LengthsAssumption
<1>. QED  BY <1>1 DEF scrollBounds, Positions, MaxOf

(* So are the bounds of the grid in any window.                            *)
LEMMA GridBoundsType ==
  ASSUME TypeOK, NEW s \in Sizes
  PROVE  GridBounds(s) \in Positions
<1>1. s.w \in Nat /\ s.h \in Nat
  BY LengthsAssumption
<1>2. /\ ROW_HEADER_W \in Nat /\ SCROLLBAR_SIZE \in Nat
      /\ (IF minimapVisible THEN MINIMAP_W ELSE COLLAPSED_W) \in Nat
  BY LengthsAssumption
<1>3. GridW(s) \in Nat
  BY <1>1, <1>2 DEF GridW, MaxOf
<1>4. GridH(s) \in Nat
  BY <1>1, <1>2, LengthsType DEF GridH, MaxOf
<1>. QED  BY <1>3, <1>4, LengthsType, BoundsType DEF GridBounds

(* And those of the window.                                                *)
LEMMA WindowBoundsType ==
  ASSUME TypeOK, NEW n \in Nat, NEW z \in Nat \ {0}
  PROVE  WindowBounds(n, z) \in Positions
BY LengthsType, BoundsType DEF WindowBounds

(* Clamping any place gives a position.                                    *)
LEMMA ClampType ==
  ASSUME NEW p, p.x \in Int, p.y \in Int, NEW b \in Positions
  PROVE  Clamp(p, b) \in Positions
BY DEF Clamp, Positions, MaxOf, MinOf

(***************************************************************************)
(* The history.                                                            *)
(***************************************************************************)

(* The last n of a sequence are at most n, and at least one if it has one. *)
LEMMA LastOfType ==
  ASSUME NEW S, NEW s \in Seq(S), NEW n \in Nat \ {0}
  PROVE  /\ LastOf(s, n) \in Seq(S) /\ Len(LastOf(s, n)) <= n
         /\ Len(s) > 0 => Len(LastOf(s, n)) > 0
<1>1. Len(s) \in Nat /\ MaxOf(1, Len(s) - n + 1) \in Nat \ {0}
  BY DEF MaxOf
<1>2. CASE Len(s) - n + 1 <= 1
  <2>1. MaxOf(1, Len(s) - n + 1) = 1
    BY <1>1, <1>2 DEF MaxOf
  <2>2. SubSeq(s, 1, Len(s)) = s
    OBVIOUS
  <2>. QED  BY <1>1, <1>2, <2>1, <2>2 DEF LastOf
<1>3. CASE Len(s) - n + 1 > 1
  <2>. DEFINE m == Len(s) - n + 1
  <2>1. MaxOf(1, m) = m /\ m \in 1 .. Len(s)
    BY <1>1, <1>3 DEF MaxOf
  <2>2. SubSeq(s, m, Len(s)) \in Seq(S) /\ Len(SubSeq(s, m, Len(s))) = n
    BY <1>1, <2>1
  <2>. QED  BY <2>1, <2>2 DEF LastOf
<1>. QED  BY <1>1, <1>2, <1>3

History == navHistory \in Seq(Positions) /\ HistoryInRange

(* Remembering the place keeps the history and the place in it.            *)
LEMMA PushType ==
  ASSUME History, pos \in Positions, pushNavHistory(pos)
  PROVE  History'
<1>. DEFINE h == Append(SubSeq(navHistory, 1, navHistoryIdx + 1), pos)
<1>1. SubSeq(navHistory, 1, navHistoryIdx + 1) \in Seq(Positions)
  BY DEF History, HistoryInRange
<1>2. h \in Seq(Positions) /\ Len(h) > 0
  BY <1>1
<1>3. NAV_HISTORY_MAX \in Nat \ {0}
  BY LengthsAssumption
<1>4. navHistory' = LastOf(h, NAV_HISTORY_MAX) /\ navHistoryIdx' = Len(navHistory') - 1
  BY DEF pushNavHistory
<1>. HIDE DEF h
<1>5. navHistory' \in Seq(Positions) /\ Len(navHistory') <= NAV_HISTORY_MAX /\ Len(navHistory') > 0
  BY <1>2, <1>3, <1>4, LastOfType
<1>. QED  BY <1>4, <1>5 DEF History, HistoryInRange

(***************************************************************************)
(* Moving.                                                                 *)
(***************************************************************************)

Inv == TypeOK /\ PlacesInRange

AnimOK == anim \in [Jumpers -> [from : Positions, to : Positions] \cup {NoJump}]

(* navigateTo ends within the bounds and keeps the history.                *)
LEMMA NavigateType ==
  ASSUME Inv, NEW p, p.x \in Int, p.y \in Int, NEW push, navigateTo(p, push)
  PROVE  pos' \in Positions /\ History'
<1>1. GridBounds(size) \in Positions
  BY GridBoundsType DEF Inv, TypeOK
<1>2. pos' \in Positions
  BY <1>1, ClampType DEF navigateTo
<1>3. History /\ pos \in Positions
  BY DEF Inv, TypeOK, PlacesInRange, History, NeverBeforeTheFirstCell
<1>4. CASE pushNavHistory(pos)
  BY <1>2, <1>3, <1>4, PushType
<1>5. CASE UNCHANGED historyVars
  BY <1>2, <1>3, <1>5 DEF History, HistoryInRange, historyVars
<1>. QED  BY <1>2, <1>4, <1>5 DEF navigateTo

(* A move to any place keeps the invariant.                                *)
LEMMA MoveInv ==
  ASSUME Inv, NEW p, p.x \in Int, p.y \in Int, NEW push, Move(p, push)
  PROVE  Inv'
<1>1. pos' \in Positions /\ History'
  BY NavigateType DEF Move
<1>2. UNCHANGED <<nRows, count, size, minimapVisible, bookmarks, dragging, zoom, anim>>
  BY DEF Move, tableVars, panelVars
<1>. QED
  BY <1>1, <1>2 DEF Inv, TypeOK, PlacesInRange, History, HistoryInRange,
                    NeverBeforeTheFirstCell, Positions

(* A jump to a position keeps it, whether it is animated or not.           *)
LEMMA TeleportType ==
  ASSUME Inv, NEW c \in Jumpers, NEW p \in Positions, teleportTo(c, p)
  PROVE  pos' \in Positions /\ History' /\ AnimOK'
<1>1. pos \in Positions /\ AnimOK
  BY DEF Inv, TypeOK, PlacesInRange, NeverBeforeTheFirstCell, AnimOK
<1>2. CASE navigateTo(p, TRUE) /\ anim' = [anim EXCEPT ![c] = NoJump]
  <2>1. pos' \in Positions /\ History'
    BY <1>2, NavigateType DEF navigateTo, Positions
  <2>. QED  BY <1>1, <1>2, <2>1 DEF AnimOK
<1>3. CASE navigateTo(pos, TRUE) /\ anim' = [anim EXCEPT ![c] = [from |-> pos, to |-> p]]
  <2>1. pos' \in Positions /\ History'
    BY <1>1, <1>3, NavigateType DEF navigateTo, Positions
  <2>. QED  BY <1>1, <1>3, <2>1 DEF AnimOK
<1>. QED  BY <1>2, <1>3 DEF teleportTo

(* What is left of the invariant when only the place, the history, the     *)
(* jumps, the bookmarks and the minimap may have changed.                  *)
LEMMA Rest ==
  ASSUME Inv, UNCHANGED <<nRows, count, size, zoom>>, pos' \in Positions, History', AnimOK',
         minimapVisible' \in BOOLEAN, dragging' \in BOOLEAN, bookmarks' \in Seq(Positions)
  PROVE  Inv'
BY DEF Inv, TypeOK, PlacesInRange, History, HistoryInRange, NeverBeforeTheFirstCell, AnimOK,
       Positions

(* The parts of the invariant, for the steps that leave them alone.        *)
LEMMA Parts ==
  ASSUME Inv
  PROVE  /\ TypeOK /\ pos \in Positions /\ pos.x \in Nat /\ pos.y \in Nat
         /\ History /\ AnimOK /\ bookmarks \in Seq(Positions)
         /\ minimapVisible \in BOOLEAN /\ dragging \in BOOLEAN /\ size \in Sizes
BY DEF Inv, TypeOK, PlacesInRange, History, NeverBeforeTheFirstCell, AnimOK, Positions

(* A place on the way between two positions is a position.                 *)
LEMMA OnTheWayType ==
  ASSUME NEW jump \in [from : Positions, to : Positions], NEW quarters \in {0, 3}
  PROVE  OnTheWay(jump, quarters) \in Positions
<1>1. \A a, b \in Nat : a + ((b - a) * quarters) \div 4 \in Nat
  <2>1. CASE quarters = 0
    BY <2>1
  <2>2. CASE quarters = 3
    BY <2>2
  <2>. QED  BY <2>1, <2>2
<1>. QED  BY <1>1 DEF OnTheWay, Positions

(* A point of the minimap is a scroll offset.                              *)
LEMMA ToScrollYType ==
  ASSUME TypeOK, NEW tenths \in {0, 5, 10}
  PROVE  toScrollY(tenths) \in Nat
<1>. DEFINE m == WindowBounds(EffectiveRowCount, zoom).y
<1>1. m \in Nat
  BY LengthsType, WindowBoundsType DEF Positions
<1>2. (tenths * m) \div 10 \in Int
  <2>1. CASE tenths = 0
    BY <1>1, <2>1
  <2>2. CASE tenths = 5
    BY <1>1, <2>2
  <2>3. CASE tenths = 10
    BY <1>1, <2>3
  <2>. QED  BY <2>1, <2>2, <2>3
<1>. HIDE DEF m
<1>3. MaxOf(0, MinOf(m, (tenths * m) \div 10)) \in Nat
  BY <1>1, <1>2 DEF MaxOf, MinOf
<1>. QED  BY <1>3 DEF toScrollY, m

(***************************************************************************)
(* Every command and every frame keeps the invariant.                      *)
(***************************************************************************)

(* The commands of the keyboard.                                           *)
LEMMA KeysInv ==
  ASSUME Inv, Keys
  PROVE  Inv'
<1>. USE Parts
<1>0. /\ KeyBounds.x \in Nat /\ KeyBounds.y \in Nat
      /\ CellW(zoom) \in Nat /\ CellH(zoom) \in Nat /\ size.h \in Nat
  BY LengthsType, CellType, WindowBoundsType DEF KeyBounds, Positions
<1>1. ASSUME NEW cells \in {1, 10}, KeyRight(cells) PROVE Inv'
  <2>1. MinOf(KeyBounds.x, pos.x + cells * CellW(zoom)) \in Int
    BY <1>0 DEF MinOf
  <2>. QED  BY <1>1, <2>1, MoveInv DEF KeyRight, Move, navigateTo
<1>2. ASSUME NEW cells \in {1, 10}, KeyLeft(cells) PROVE Inv'
  <2>1. MaxOf(0, pos.x - cells * CellW(zoom)) \in Int
    BY <1>0 DEF MaxOf
  <2>. QED  BY <1>2, <2>1, MoveInv DEF KeyLeft, Move, navigateTo
<1>3. CASE KeyDown
  <2>1. MinOf(KeyBounds.y, pos.y + CellH(zoom)) \in Int
    BY <1>0 DEF MinOf
  <2>. QED  BY <1>3, <2>1, MoveInv DEF KeyDown, Move, navigateTo
<1>4. CASE KeyUp
  <2>1. MaxOf(0, pos.y - CellH(zoom)) \in Int
    BY <1>0 DEF MaxOf
  <2>. QED  BY <1>4, <2>1, MoveInv DEF KeyUp, Move, navigateTo
<1>5. CASE KeyLandmark
  <2>1. PICK i \in DOMAIN Landmarks : Move([x |-> pos.x, y |-> Landmarks[i] * CellH(zoom)], TRUE)
    BY <1>5 DEF KeyLandmark
  <2>2. Landmarks[i] * CellH(zoom) \in Int
    BY <1>0, LengthsAssumption
  <2>. QED  BY <2>1, <2>2, MoveInv DEF Move, navigateTo
<1>6. CASE KeyHome
  <2>1. CASE Move([x |-> 0, y |-> 0], TRUE)
    BY <2>1, MoveInv DEF Move, navigateTo
  <2>2. CASE Move([x |-> 0, y |-> pos.y], FALSE)
    BY <2>2, MoveInv DEF Move, navigateTo
  <2>. QED  BY <1>6, <2>1, <2>2 DEF KeyHome
<1>7. CASE KeyEnd
  <2>1. CASE Move(KeyBounds, TRUE)
    BY <1>0, <2>1, MoveInv DEF Move, navigateTo
  <2>2. CASE Move([x |-> KeyBounds.x, y |-> pos.y], FALSE)
    BY <1>0, <2>2, MoveInv DEF Move, navigateTo
  <2>. QED  BY <1>7, <2>1, <2>2 DEF KeyEnd
<1>8. CASE KeyPage
  <2>1. PICK pages \in {1, 10} :
          \/ Move([x |-> pos.x, y |-> MinOf(KeyBounds.y, pos.y + pages * size.h)], pages = 10)
          \/ Move([x |-> pos.x, y |-> MaxOf(0, pos.y - pages * size.h)], pages = 10)
    BY <1>8 DEF KeyPage
  <2>2. /\ MinOf(KeyBounds.y, pos.y + pages * size.h) \in Int
        /\ MaxOf(0, pos.y - pages * size.h) \in Int
    BY <1>0 DEF MinOf, MaxOf
  <2>. QED  BY <2>1, <2>2, MoveInv DEF Move, navigateTo
<1>9. ASSUME NEW idx \in Int, idx + 1 \in DOMAIN navHistory, HistoryStep(idx) PROVE Inv'
  <2>1. pos' = Clamp(navHistory[idx + 1], GridBounds(size)) /\ navHistoryIdx' = idx
    BY <1>9 DEF HistoryStep, History
  <2>2. navHistory[idx + 1] \in Positions
    BY <1>9 DEF History
  <2>3. pos' \in Positions
    BY <2>1, <2>2, GridBoundsType, ClampType DEF Positions
  <2>4. History'
    BY <1>9, <2>1 DEF History, HistoryInRange, HistoryStep
  <2>. QED
    BY <1>9, <2>3, <2>4, Rest DEF HistoryStep, tableVars, panelVars, AnimOK
<1>10. CASE navHistoryBack
  <2>1. navHistoryIdx - 1 \in Int /\ (navHistoryIdx - 1) + 1 \in DOMAIN navHistory
    BY <1>10 DEF navHistoryBack, History, HistoryInRange
  <2>. QED  BY <1>9, <1>10, <2>1 DEF navHistoryBack, HistoryStep
<1>11. CASE navHistoryForward
  <2>1. navHistoryIdx + 1 \in Int /\ (navHistoryIdx + 1) + 1 \in DOMAIN navHistory
    BY <1>11 DEF navHistoryForward, History, HistoryInRange
  <2>. QED  BY <1>9, <1>11, <2>1 DEF navHistoryForward, HistoryStep
<1>12. CASE KeyAddBookmark
  BY <1>12, Rest DEF KeyAddBookmark, tableVars, historyVars, History, HistoryInRange, AnimOK
<1>13. CASE KeyBookmark
  <2>1. PICK i \in DOMAIN bookmarks : Move(bookmarks[i], TRUE)
    BY <1>13 DEF KeyBookmark
  <2>2. bookmarks[i] \in Positions
    OBVIOUS
  <2>. QED  BY <2>1, <2>2, MoveInv DEF Move, navigateTo, Positions
<1>. QED
  BY <1>1, <1>2, <1>3, <1>4, <1>5, <1>6, <1>7, <1>8, <1>10, <1>11, <1>12, <1>13 DEF Keys

(* The pointer: the wheel, the scroll bar and the minimap.                 *)
LEMMA PointerInv ==
  ASSUME Inv, Pointer
  PROVE  Inv'
<1>a. /\ pos.x \in Int /\ pos.y \in Int
      /\ \A d \in Deltas : d \in Int
  BY Parts, LengthsAssumption
<1>. USE Parts
<1>0. CellW(zoom) \in Nat /\ EffectiveRowCount \in Nat
  BY LengthsType, CellType
<1>1. ASSUME NEW dx \in Deltas, NEW dy \in Deltas, WheelGrid(dx, dy) PROVE Inv'
  <2>. DEFINE to == Clamp([x |-> pos.x + dx, y |-> pos.y + dy], GridBounds(size))
  <2>1. pos.x + dx \in Int /\ pos.y + dy \in Int
    BY <1>a
  <2>2. to \in Positions
    BY <2>1, GridBoundsType, ClampType
  <2>3. Move(to, FALSE)
    BY <1>1 DEF WheelGrid
  <2>. HIDE DEF to
  <2>4. to.x \in Int /\ to.y \in Int
    BY <2>2 DEF Positions
  <2>. QED  BY <2>3, <2>4, MoveInv DEF Move, navigateTo
<1>2. ASSUME NEW dx \in Deltas, NEW dy \in Deltas, WheelMinimap(dx, dy) PROVE Inv'
  <2>1. MaxOf(0, pos.x + dx) \in Int /\ MaxOf(0, pos.y + dy) \in Int
    BY <1>a DEF MaxOf
  <2>. QED  BY <1>2, <2>1, MoveInv DEF WheelMinimap, Move, navigateTo
<1>3. CASE ScrollBar
  <2>1. ASSUME NEW c \in Int, Move([x |-> c * CellW(zoom), y |-> pos.y], FALSE) PROVE Inv'
    <3>1. c * CellW(zoom) \in Int
      BY <1>0
    <3>. QED  BY <2>1, <3>1, MoveInv DEF Move, navigateTo
  <2>. DEFINE col == pos.x \div CellW(zoom)
              last == NCols - ViewportCols
  <2>2. col \in Int /\ last \in Int
    <3>1. CellW(zoom) \in Nat \ {0}
      BY CellPositive, LengthsType
    <3>2. GridW(size) \in Int
      BY LengthsType, LengthsAssumption DEF GridW, MaxOf
    <3>3. (GridW(size) + CellW(zoom) - 1) \div CellW(zoom) \in Int
      BY <3>1, <3>2
    <3>4. pos.x \div CellW(zoom) \in Int
      BY <3>1
    <3>5. ViewportCols \in Int
      BY <3>3 DEF ViewportCols, Ceil
    <3>. QED  BY <3>4, <3>5, LengthsAssumption
  <2>. HIDE DEF col, last
  <2>3. /\ MaxOf(0, col - 3) \in Int /\ MinOf(last, col + 3) \in Int
        /\ \A c \in 0 .. NCols : MaxOf(0, MinOf(last, c)) \in Int
    BY <2>2, LengthsAssumption DEF MaxOf, MinOf
  <2>4. \/ Move([x |-> MaxOf(0, col - 3) * CellW(zoom), y |-> pos.y], FALSE)
        \/ Move([x |-> MinOf(last, col + 3) * CellW(zoom), y |-> pos.y], FALSE)
        \/ \E c \in 0 .. NCols :
              Move([x |-> MaxOf(0, MinOf(last, c)) * CellW(zoom), y |-> pos.y], FALSE)
    BY <1>3 DEF ScrollBar, col, last
  <2>. QED  BY <2>1, <2>3, <2>4 DEF Move, navigateTo
<1>4. ASSUME NEW tenths \in {0, 5, 10}, MinimapDown(tenths) PROVE Inv'
  <2>. DEFINE to == [x |-> pos.x, y |-> toScrollY(tenths)]
  <2>1. to \in Positions
    BY ToScrollYType DEF Positions
  <2>2. pos' \in Positions /\ History' /\ AnimOK'
    BY <1>4, <2>1, TeleportType DEF MinimapDown, teleportTo, navigateTo, Jumpers
  <2>. QED  BY <1>4, <2>2, Rest DEF MinimapDown, tableVars
<1>5. ASSUME NEW tenths \in {0, 5, 10}, MinimapBookmark(tenths) PROVE Inv'
  <2>1. [x |-> pos.x, y |-> toScrollY(tenths)] \in Positions
    BY ToScrollYType DEF Positions
  <2>2. bookmarks' \in Seq(Positions)
    BY <1>5, <2>1 DEF MinimapBookmark
  <2>. QED
    BY <1>5, <2>2, Rest DEF MinimapBookmark, tableVars, historyVars, History, HistoryInRange, AnimOK
<1>6. ASSUME NEW tenths \in {0, 5, 10}, MinimapDrag(tenths) PROVE Inv'
  <2>1. toScrollY(tenths) \in Int
    BY ToScrollYType
  <2>. QED  BY <1>6, <2>1, MoveInv DEF MinimapDrag, Move, navigateTo
<1>7. CASE MinimapUp
  BY <1>7, Rest DEF MinimapUp, tableVars, historyVars, History, HistoryInRange, AnimOK
<1>. QED  BY <1>1, <1>2, <1>3, <1>4, <1>5, <1>6, <1>7 DEF Pointer

(* The panels and the dialog for a row.                                    *)
LEMMA PanelsInv ==
  ASSUME Inv, Panels
  PROVE  Inv'
<1>. USE Parts
<1>0. CellW(zoom) \in Nat /\ CellH(zoom) \in Nat /\ nRows \in Nat
  BY LengthsType, CellType
<1>. DEFINE Product == \A a, b \in Nat : a * b \in Nat
<1>1. Product
  OBVIOUS
<1>. HIDE DEF Product
<1>2. CASE ShowMinimap \/ HideMinimap
  BY <1>2, Rest DEF ShowMinimap, HideMinimap, tableVars, historyVars, History, HistoryInRange, AnimOK
<1>3. CASE PanelLandmark
  <2>1. PICK i \in DOMAIN Landmarks : teleportTo("landmarks", [x |-> 0, y |-> Landmarks[i] * CellH(zoom)])
    BY <1>3 DEF PanelLandmark
  <2>2. Landmarks[i] * CellH(zoom) \in Nat
    BY <1>0, <1>1, LengthsAssumption DEF Product
  <2>. DEFINE to == [x |-> 0, y |-> Landmarks[i] * CellH(zoom)]
  <2>3. to \in Positions
    BY <2>2 DEF Positions
  <2>4. teleportTo("landmarks", to)
    BY <2>1
  <2>. HIDE DEF to
  <2>5. pos' \in Positions /\ History' /\ AnimOK'
    BY <2>3, <2>4, TeleportType DEF teleportTo, navigateTo, Jumpers
  <2>. QED  BY <1>3, <2>5, Rest DEF PanelLandmark, tableVars, panelVars
<1>4. CASE PanelBookmark
  <2>1. PICK i \in DOMAIN bookmarks : teleportTo("bookmarks", bookmarks[i])
    BY <1>4 DEF PanelBookmark
  <2>2. bookmarks[i] \in Positions
    OBVIOUS
  <2>3. pos' \in Positions /\ History' /\ AnimOK'
    BY <2>1, <2>2, TeleportType DEF teleportTo, navigateTo, Jumpers
  <2>. QED  BY <1>4, <2>3, Rest DEF PanelBookmark, tableVars, panelVars
<1>5. CASE RemoveBookmark
  <2>1. PICK i \in DOMAIN bookmarks :
          bookmarks' = SubSeq(bookmarks, 1, i - 1) \o SubSeq(bookmarks, i + 1, Len(bookmarks))
    BY <1>5 DEF RemoveBookmark
  <2>2. SubSeq(bookmarks, 1, i - 1) \in Seq(Positions)
    OBVIOUS
  <2>3. SubSeq(bookmarks, i + 1, Len(bookmarks)) \in Seq(Positions)
    OBVIOUS
  <2>4. bookmarks' \in Seq(Positions)
    BY <2>1, <2>2, <2>3
  <2>. QED  BY <1>5, <2>4, Rest DEF RemoveBookmark, tableVars, historyVars, History, HistoryInRange, AnimOK
<1>6. ASSUME NEW row \in 1 .. nRows, JumpToRow(row) PROVE Inv'
  <2>1. row - 1 \in Nat /\ DEFAULT_CELL_H \in Nat
    BY <1>0, LengthsAssumption
  <2>2. (row - 1) * DEFAULT_CELL_H \in Nat
    BY <1>1, <2>1 DEF Product
  <2>3. pos' \in Positions
    BY <1>6, <2>2 DEF JumpToRow, Positions
  <2>. QED
    BY <1>6, <2>3, Rest DEF JumpToRow, tableVars, panelVars, historyVars, History, HistoryInRange, AnimOK
<1>7. ASSUME NEW col \in 0 .. NCols - 1, JumpToColumn(col) PROVE Inv'
  <2>1. col \in Nat
    BY LengthsAssumption
  <2>2. col * CellW(zoom) \in Nat
    BY <1>0, <1>1, <2>1 DEF Product
  <2>3. pos' \in Positions
    BY <1>7, <2>2 DEF JumpToColumn, Positions
  <2>. QED
    BY <1>7, <2>3, Rest DEF JumpToColumn, tableVars, panelVars, historyVars, History, HistoryInRange, AnimOK
<1>. QED  BY <1>2, <1>3, <1>4, <1>5, <1>6, <1>7 DEF Panels

(* Zooming, resizing, another table or another row count.                  *)
LEMMA ChangesInv ==
  ASSUME Inv, Changes
  PROVE  Inv'
<1>. USE Parts
<1>1. ASSUME NEW z \in Zooms, NEW cursor, cursor.x \in Int, cursor.y \in Int, applyZoom(z, cursor)
      PROVE  Inv'
  <2>. DEFINE to == [x |-> ((cursor.x + pos.x) * z) \div zoom - cursor.x,
                     y |-> ((cursor.y + pos.y) * z) \div zoom - cursor.y]
  <2>1. z \in Nat \ {0} /\ zoom \in Nat \ {0} /\ EffectiveRowCount \in Nat
    BY LengthsType, ZoomsAssumption
  <2>2. (cursor.x + pos.x) * z \in Int /\ (cursor.y + pos.y) * z \in Int
    BY <1>1, <2>1
  <2>3. /\ ((cursor.x + pos.x) * z) \div zoom \in Int
        /\ ((cursor.y + pos.y) * z) \div zoom \in Int
    <3>1. \A a \in Int : a \div zoom \in Int
      BY <2>1
    <3>. DEFINE a == (cursor.x + pos.x) * z
                b == (cursor.y + pos.y) * z
    <3>2. a \in Int /\ b \in Int
      BY <2>2
    <3>. HIDE DEF a, b
    <3>3. a \div zoom \in Int /\ b \div zoom \in Int
      BY <3>1, <3>2
    <3>. QED  BY <3>3 DEF a, b
  <2>4. /\ ((cursor.x + pos.x) * z) \div zoom - cursor.x \in Int
        /\ ((cursor.y + pos.y) * z) \div zoom - cursor.y \in Int
    BY <1>1, <2>3
  <2>5. to.x \in Int /\ to.y \in Int
    BY <2>4
  <2>6. pos' = Clamp(to, WindowBounds(EffectiveRowCount, z))
    BY <1>1 DEF applyZoom
  <2>. HIDE DEF to
  <2>7. pos' \in Positions
    BY <2>1, <2>5, <2>6, WindowBoundsType, ClampType
  <2>. QED
    BY <1>1, <2>7 DEF applyZoom, tableVars, panelVars, historyVars, Inv, TypeOK, PlacesInRange,
                      HistoryInRange, NeverBeforeTheFirstCell, Positions
<1>2. CASE ZoomIn \/ ZoomOut \/ ResetZoom
  <2>1. Corner.x \in Int /\ Corner.y \in Int
    BY DEF Corner
  <2>2. \E z \in Zooms : applyZoom(z, Corner)
    BY <1>2, ZoomsAssumption DEF ZoomIn, ZoomOut, ResetZoom
  <2>. QED  BY <1>1, <2>1, <2>2 DEF applyZoom
<1>3. CASE WheelZoom
  BY <1>1, <1>3, LengthsAssumption DEF WheelZoom, applyZoom
<1>4. ASSUME NEW s \in Sizes, Resize(s) PROVE Inv'
  <2>1. GridBounds(s) \in Positions
    BY GridBoundsType
  <2>2. pos' \in Positions
    BY <1>4, <2>1 DEF Resize, Positions, MinOf
  <2>. QED
    BY <1>4, <2>2 DEF Resize, tableVars, historyVars, Inv, TypeOK, PlacesInRange,
                      HistoryInRange, NeverBeforeTheFirstCell, Positions
<1>5. ASSUME NEW n \in RowCounts, SetSource(n) \/ SetCount(n) PROVE Inv'
  BY <1>5 DEF SetSource, SetCount, panelVars, historyVars, Inv, TypeOK, PlacesInRange,
              HistoryInRange, NeverBeforeTheFirstCell
<1>. QED  BY <1>2, <1>3, <1>4, <1>5 DEF Changes

(* The frames of a jump.                                                   *)
LEMMA FramesInv ==
  ASSUME Inv, NEW c \in Jumpers, FrameOnTheWay(c) \/ LastFrame(c)
  PROVE  Inv'
<1>. USE Parts
<1>1. anim[c] \in [from : Positions, to : Positions]
  BY DEF FrameOnTheWay, LastFrame, AnimOK
<1>2. CASE FrameOnTheWay(c)
  <2>1. pos' \in Positions
    BY <1>1, <1>2, OnTheWayType DEF FrameOnTheWay
  <2>. QED
    BY <1>2, <2>1, Rest DEF FrameOnTheWay, tableVars, panelVars, historyVars, History,
                            HistoryInRange, AnimOK
<1>3. CASE LastFrame(c)
  <2>1. pos' \in Positions /\ AnimOK'
    BY <1>1, <1>3 DEF LastFrame, AnimOK
  <2>. QED
    BY <1>3, <2>1, Rest DEF LastFrame, tableVars, panelVars, historyVars, History, HistoryInRange
<1>. QED  BY <1>2, <1>3

(* The invariant holds at first, and every step keeps it.                  *)
LEMMA InvHolds == Spec => []Inv
<1>1. Init => Inv
  <2>. SUFFICES ASSUME Init PROVE Inv
    OBVIOUS
  <2>1. TypeOK
    <3>1. navHistory \in Seq(Positions) /\ bookmarks \in Seq(Positions) /\ navHistoryIdx \in Int
      BY DEF Init
    <3>2. anim \in [Jumpers -> [from : Positions, to : Positions] \cup {NoJump}]
      BY DEF Init
    <3>3. pos \in [x : Int, y : Int] /\ zoom \in Zooms
      BY ZoomsAssumption DEF Init
    <3>. QED  BY <3>1, <3>2, <3>3 DEF Init, TypeOK
  <2>2. HistoryInRange
    <3>1. Len(navHistory) = 0 /\ navHistoryIdx = -1 /\ NAV_HISTORY_MAX \in Nat
      BY LengthsAssumption DEF Init
    <3>. QED  BY <3>1 DEF Init, HistoryInRange
  <2>3. NeverBeforeTheFirstCell
    BY DEF Init, NeverBeforeTheFirstCell, Positions
  <2>. QED  BY <2>1, <2>2, <2>3 DEF Inv, PlacesInRange
<1>2. Inv /\ [Next]_vars => Inv'
  <2>. SUFFICES ASSUME Inv, [Next]_vars PROVE Inv'
    OBVIOUS
  <2>1. CASE UNCHANGED vars
    BY <2>1 DEF vars, Inv, TypeOK, PlacesInRange, HistoryInRange, NeverBeforeTheFirstCell
  <2>. QED
    BY <2>1, KeysInv, PointerInv, PanelsInv, ChangesInv, FramesInv DEF Next
<1>. QED  BY <1>1, <1>2, PTL DEF Spec

(* The places that the history, the bookmarks and the jumps keep are never *)
(* before the first cell.                                                  *)
THEOREM NavigationTypeOK == Spec => []TypeOK
<1>1. Inv => TypeOK
  BY DEF Inv
<1>. QED  BY <1>1, InvHolds, PTL

(* The grid is never scrolled to before its first cell, and the place that *)
(* Back and Forward start from is one of those kept: for every window,     *)
(* table, zoom, length of the history and number of jumps under way        *)
(* (stores/viewport.ts, lib/viewport-math.ts, hooks/useTeleport.ts).       *)
THEOREM PlacesStayInRange == Spec => []PlacesInRange
<1>1. Inv => PlacesInRange
  BY DEF Inv
<1>. QED  BY <1>1, InvHolds, PTL

(***************************************************************************)
(* Division, which the painted cells and the tiles asked for depend on.    *)
(***************************************************************************)

(* The quotient of a division and what is left of it.                      *)
LEMMA DivDef ==
  ASSUME NEW a \in Int, NEW b \in Nat \ {0}
  PROVE  /\ a \div b \in Int
         /\ b * (a \div b) <= a /\ a < b * (a \div b) + b
OBVIOUS

(* No other number is the quotient.                                        *)
LEMMA DivUnique ==
  ASSUME NEW a \in Int, NEW b \in Nat \ {0}, NEW q \in Int, b * q <= a, a < b * q + b
  PROVE  a \div b = q
<1>. DEFINE d == a \div b
<1>1. d \in Int /\ b * d <= a /\ a < b * d + b
  BY DivDef
<1>. HIDE DEF d
<1>2. CASE d < q
  <2>1. d + 1 <= q
    BY <1>1, <1>2
  <2>2. b * (d + 1) <= b * q
    BY <1>1, <2>1
  <2>3. b * (d + 1) = b * d + b
    BY <1>1
  <2>. QED  BY <1>1, <2>2, <2>3
<1>3. CASE q < d
  <2>1. q + 1 <= d
    BY <1>1, <1>3
  <2>2. b * (q + 1) <= b * d
    BY <1>1, <2>1
  <2>3. b * (q + 1) = b * q + b
    BY <1>1
  <2>. QED  BY <1>1, <2>2, <2>3
<1>4. CASE d = q
  BY <1>4 DEF d
<1>. QED  BY <1>1, <1>2, <1>3, <1>4

(* A quotient grows with what is divided.                                  *)
LEMMA DivMono ==
  ASSUME NEW a \in Int, NEW c \in Int, NEW b \in Nat \ {0}, a <= c
  PROVE  a \div b <= c \div b
<1>. DEFINE d == a \div b
            e == c \div b
<1>1. d \in Int /\ b * d <= a /\ e \in Int /\ c < b * e + b
  BY DivDef
<1>. HIDE DEF d, e
<1>. SUFFICES ASSUME e < d PROVE FALSE
  BY <1>1 DEF d, e
<1>2. e + 1 <= d
  BY <1>1
<1>3. b * (e + 1) <= b * d
  BY <1>1, <1>2
<1>4. b * (e + 1) = b * e + b
  BY <1>1
<1>. QED  BY <1>1, <1>3, <1>4

(* Dividing and rounding up is one more than dividing the number before.   *)
LEMMA CeilType ==
  ASSUME NEW a \in Int, NEW b \in Nat \ {0}
  PROVE  Ceil(a, b) \in Int /\ (a - 1) \div b = Ceil(a, b) - 1
<1>. DEFINE d == (a - 1) \div b
<1>1. d \in Int /\ b * d <= a - 1 /\ a - 1 < b * d + b
  BY DivDef
<1>. HIDE DEF d
<1>2. b * (d + 1) = b * d + b
  BY <1>1
<1>3. b * (d + 1) <= a + b - 1 /\ a + b - 1 < b * (d + 1) + b
  BY <1>1, <1>2
<1>4. (a + b - 1) \div b = d + 1
  BY <1>1, <1>3, DivUnique
<1>. QED  BY <1>1, <1>4 DEF d, Ceil

(* Dividing twice is dividing by the product.                              *)
LEMMA DivDiv ==
  ASSUME NEW a \in Int, NEW b \in Nat \ {0}, NEW c \in Nat \ {0}
  PROVE  /\ b * c \in Nat \ {0}
         /\ (a \div b) \div c = a \div (b * c)
<1>. DEFINE d == a \div b
            e == d \div c
<1>1. d \in Int /\ b * d <= a /\ a < b * d + b
  BY DivDef
<1>. HIDE DEF d
<1>2. e \in Int /\ c * e <= d /\ d < c * e + c
  BY <1>1, DivDef
<1>. HIDE DEF e
<1>0. b * c \in Nat \ {0}
  OBVIOUS
<1>3. b * (c * e) <= b * d
  BY <1>1, <1>2
<1>4. d + 1 <= c * e + c
  BY <1>1, <1>2
<1>5. b * (d + 1) <= b * (c * e + c)
  BY <1>1, <1>2, <1>4
<1>6. /\ b * (d + 1) = b * d + b
      /\ b * (c * e + c) = b * (c * e) + b * c
      /\ b * (c * e) = (b * c) * e
  BY <1>1, <1>2
<1>7. (b * c) * e <= a /\ a < (b * c) * e + b * c
  BY <1>0, <1>1, <1>2, <1>3, <1>5, <1>6
<1>8. a \div (b * c) = e
  BY <1>0, <1>2, <1>7, DivUnique
<1>. QED  BY <1>0, <1>8 DEF d, e

(* Along one axis: a pixel of the g that the grid fills, scrolled by y,    *)
(* shows a cell between the first and the last that are painted, in a tile *)
(* between the first and the last that are asked for.                      *)
LEMMA AlongOneAxis ==
  ASSUME NEW y \in Nat, NEW g \in Nat, NEW h \in Nat, g <= h, NEW p \in 0 .. g - 1,
         NEW cell \in Nat \ {0}, NEW tile \in Nat \ {0}
  PROVE  LET at == (p + y) \div cell
         IN  /\ at \in Nat
             /\ y \div cell <= at /\ at <= Ceil(y + g, cell)
             /\ at \div tile \in Nat /\ y \div (cell * tile) \in Nat
             /\ y \div (cell * tile) <= at \div tile
             /\ at \div tile <= Ceil(y + h, cell * tile) - 1
             /\ Ceil(y + h, cell * tile) \in Int
<1>. DEFINE at == (p + y) \div cell
            side == cell * tile
<1>0. p + y \in Int /\ y + g \in Int /\ y + h \in Int
  OBVIOUS
<1>1. side \in Nat \ {0} /\ at \div tile = (p + y) \div side
  <2>. DEFINE a == p + y
  <2>1. a \in Int
    BY <1>0
  <2>. HIDE DEF a
  <2>2. side \in Nat \ {0} /\ (a \div cell) \div tile = a \div side
    BY <2>1, DivDiv
  <2>. QED  BY <2>2 DEF a
<1>. HIDE DEF side
<1>2. y <= p + y /\ p + y <= y + g - 1 /\ y + g - 1 <= y + h - 1
  OBVIOUS
<1>3. y \div cell <= at /\ at <= (y + g - 1) \div cell
  BY <1>2, DivMono
<1>4. y \div cell \in Nat /\ (p + y) \div cell \in Int
  BY DivDef
<1>5. (y + g - 1) \div cell = Ceil(y + g, cell) - 1
  BY <1>0, CeilType
<1>6. Ceil(y + g, cell) \in Int
  BY <1>0, CeilType
<1>7. y \div side \in Nat /\ (p + y) \div side \in Int /\ Ceil(y + h, side) \in Int
  BY <1>0, <1>1, DivDef, CeilType
<1>8. y \div side <= (p + y) \div side /\ (p + y) \div side <= (y + h - 1) \div side
  BY <1>1, <1>2, DivMono
<1>9. (y + h - 1) \div side = Ceil(y + h, side) - 1
  BY <1>0, <1>1, CeilType
<1>. HIDE DEF at
<1>10. at \in Int
  BY <1>4 DEF at
<1>11. /\ at \in Nat /\ at <= Ceil(y + g, cell)
       /\ at \div tile \in Nat /\ y \div side <= at \div tile /\ at \div tile <= Ceil(y + h, side) - 1
  BY <1>1, <1>3, <1>4, <1>5, <1>6, <1>7, <1>8, <1>9, <1>10
<1>. QED  BY <1>3, <1>7, <1>11 DEF at, side

(* Every pixel of the grid that shows a cell is painted, and the tile it   *)
(* is painted from is asked for, in every window, at every place and zoom  *)
(* (lib/viewport-math.ts, GridCanvas.tsx).                                 *)
THEOREM PixelsAreCovered == Spec => []TilesCoverTheGrid
<1>1. Inv => TilesCoverTheGrid
  <2>. SUFFICES ASSUME Inv, NEW p \in PixelsOf(size),
                       cellAtPixel(p[1], p[2]).row < EffectiveRowCount,
                       cellAtPixel(p[1], p[2]).col < NCols
                PROVE  /\ cellAtPixel(p[1], p[2]) \in DrawnCells
                       /\ TileOf(cellAtPixel(p[1], p[2])) \in visibleTiles(0)
    BY DEF TilesCoverTheGrid
  <2>. DEFINE row == (p[2] + pos.y) \div CellH(zoom)
              col == (p[1] + pos.x) \div CellW(zoom)
              gw == GridW(size)
              gh == GridH(size)
              rows == TILE_ROWS[zoom]
              cols == TILE_COLS[zoom]
  <2>1. /\ pos.x \in Nat /\ pos.y \in Nat /\ size.w \in Nat /\ size.h \in Nat
        /\ CellW(zoom) \in Nat \ {0} /\ CellH(zoom) \in Nat \ {0}
        /\ rows \in Nat \ {0} /\ cols \in Nat \ {0}
        /\ EffectiveRowCount \in Nat /\ NCols \in Nat
    BY Parts, LengthsType, CellPositive, ZoomsAssumption, LengthsAssumption DEF TypeOK
  <2>2. gw \in Nat /\ gh \in Nat /\ gw <= size.w /\ gh <= size.h
    <3>1. /\ ROW_HEADER_W \in Nat /\ SCROLLBAR_SIZE \in Nat /\ HEADER_H[zoom] \in Nat
          /\ (IF minimapVisible THEN MINIMAP_W ELSE COLLAPSED_W) \in Nat
      BY LengthsAssumption, LengthsType, Parts
    <3>2. gw \in Nat /\ gw <= size.w
      BY <2>1, <3>1 DEF GridW, MaxOf
    <3>3. gh \in Nat /\ gh <= size.h
      BY <2>1, <3>1 DEF GridH, MaxOf
    <3>. QED  BY <3>2, <3>3
  <2>3. p[1] \in 0 .. gw - 1 /\ p[2] \in 0 .. gh - 1
    BY DEF PixelsOf
  <2>. HIDE DEF gw, gh, rows, cols
  <2>4. /\ row \in Nat
        /\ pos.y \div CellH(zoom) <= row /\ row <= Ceil(pos.y + gh, CellH(zoom))
        /\ row \div rows \in Nat /\ pos.y \div (CellH(zoom) * rows) \in Nat
        /\ pos.y \div (CellH(zoom) * rows) <= row \div rows
        /\ row \div rows <= Ceil(pos.y + size.h, CellH(zoom) * rows) - 1
        /\ Ceil(pos.y + size.h, CellH(zoom) * rows) \in Int
    BY <2>1, <2>2, <2>3, AlongOneAxis
  <2>5. /\ col \in Nat
        /\ pos.x \div CellW(zoom) <= col /\ col <= Ceil(pos.x + gw, CellW(zoom))
        /\ col \div cols \in Nat /\ pos.x \div (CellW(zoom) * cols) \in Nat
        /\ pos.x \div (CellW(zoom) * cols) <= col \div cols
        /\ col \div cols <= Ceil(pos.x + size.w, CellW(zoom) * cols) - 1
        /\ Ceil(pos.x + size.w, CellW(zoom) * cols) \in Int
    BY <2>1, <2>2, <2>3, AlongOneAxis
  <2>. HIDE DEF row, col
  <2>6. cellAtPixel(p[1], p[2]) = [row |-> row, col |-> col]
    BY <2>4, <2>5 DEF cellAtPixel, MaxOf, row, col
  <2>7. row < EffectiveRowCount /\ col < NCols
    BY <2>6
  <2>8. /\ pos.y \div CellH(zoom) \in Int /\ Ceil(pos.y + gh, CellH(zoom)) \in Int
        /\ pos.x \div CellW(zoom) \in Int /\ Ceil(pos.x + gw, CellW(zoom)) \in Int
    <3>1. pos.y + gh \in Int /\ pos.x + gw \in Int
      BY <2>1, <2>2
    <3>2. Ceil(pos.y + gh, CellH(zoom)) \in Int /\ Ceil(pos.x + gw, CellW(zoom)) \in Int
      BY <2>1, <3>1, CeilType
    <3>3. pos.y \div CellH(zoom) \in Int /\ pos.x \div CellW(zoom) \in Int
      BY <2>1, DivDef
    <3>. QED  BY <3>2, <3>3
  <2>9. row \in pos.y \div CellH(zoom) ..
                MinOf(EffectiveRowCount, Ceil(pos.y + gh, CellH(zoom)) + 1) - 1
    BY <2>1, <2>4, <2>7, <2>8 DEF MinOf
  <2>10. col \in pos.x \div CellW(zoom) ..
                 MinOf(NCols, Ceil(pos.x + gw, CellW(zoom)) + 1) - 1
    BY <2>1, <2>5, <2>7, <2>8 DEF MinOf
  <2>11. cellAtPixel(p[1], p[2]) \in DrawnCells
    BY <2>6, <2>9, <2>10 DEF DrawnCells, gw, gh
  <2>12. TileOf([row |-> row, col |-> col]) = <<row \div rows, col \div cols>>
    BY DEF TileOf, rows, cols
  <2>13. row \div rows \in MaxOf(0, pos.y \div (CellH(zoom) * rows) - 0) ..
                           Ceil(pos.y + size.h, CellH(zoom) * rows) + 0 - 1
    BY <2>4 DEF MaxOf
  <2>14. col \div cols \in MaxOf(0, pos.x \div (CellW(zoom) * cols) - 0) ..
                           Ceil(pos.x + size.w, CellW(zoom) * cols) + 0 - 1
    BY <2>5 DEF MaxOf
  <2>15. TileOf(cellAtPixel(p[1], p[2])) \in visibleTiles(0)
    BY <2>6, <2>12, <2>13, <2>14 DEF visibleTiles, rows, cols
  <2>. QED  BY <2>11, <2>15
<1>. QED  BY <1>1, InvHolds, PTL

-----------------------------------------------------------------------------
(***************************************************************************)
(* DuckEngine.  What the engine keeps, in words of its own, and the parts  *)
(* of the invariant, each of an engine e and calls cs.                     *)
(***************************************************************************)

StateOf(e, d) == e.dbs[d].state
FilesOf(e, d) == e.dbs[d].files
Queue(e, d) == e.dbs[d].queue
Request(e, d, n) == e.dbs[d].queue[n]
DbOfConn(e, k) == e.conns[k].db
ConnState(e, k) == e.conns[k].state
Dbs(e) == DOMAIN e.dbs
Conns(e) == DOMAIN e.conns
Places(e, d) == DOMAIN e.dbs[d].queue

Answer == {"ok", "missing", "bad", "crash"}
RequestT == [of : {"conn", "caller"}, id : Nat \cup Callers, answer : Answer]
DbT == [state : {"starting", "ready", "failed", "crashed"},
        files : SUBSET Files, queue : Seq(RequestT)]
ConnT == [db : Nat, state : {"waiting", "connecting", "open", "failed"}]
EngineT == [dbs : Seq(DbT), conns : Seq(ConnT), dbInstance : Nat, dbPromise : Nat,
            connInstance : Nat, connPromise : Nat]
CallT == [kind : {"tile", "query", "load", "delete"}, file : Files,
          pc : {"failed", "db", "conn", "query", "file", "drop", "undo", "again"},
          db : Nat, conn : Nat, left : Nat, retried : BOOLEAN, seen : SUBSET Files]

(* What setup.ts holds exists, and so does the database of a connection.   *)
Promises(e) ==
  /\ e.dbInstance \in Dbs(e) \cup {0}
  /\ e.dbPromise \in Dbs(e) \cup {0}
  /\ e.connInstance \in Conns(e) \cup {0}
  /\ e.connPromise \in Conns(e) \cup {0}
  /\ \A k \in Conns(e) : DbOfConn(e, k) \in Dbs(e)

(* setup.ts holds one database, and it alone works or starts.              *)
OneDatabase(e) ==
  /\ e.dbInstance # 0 => /\ e.dbInstance = e.dbPromise
                         /\ StateOf(e, e.dbInstance) \in {"ready", "crashed"}
  /\ e.dbInstance = 0 /\ e.dbPromise # 0 => StateOf(e, e.dbPromise) = "starting"
  /\ \A d \in Dbs(e) : StateOf(e, d) \in {"starting", "ready"} => d = DbOf(e)

(* A connection goes with the state of its database; the one that setup.ts *)
(* holds is one with its database, or waits for one that did not start.    *)
Connections(e) ==
  /\ \A k \in Conns(e) :
       /\ ConnState(e, k) \in {"connecting", "open"} => StateOf(e, DbOfConn(e, k)) \in {"ready", "crashed"}
       /\ ConnState(e, k) = "failed" => StateOf(e, DbOfConn(e, k)) \in {"failed", "crashed"}
  /\ ConnOf(e) # 0 => \/ DbOfConn(e, ConnOf(e)) = DbOf(e)
                      \/ /\ ConnState(e, ConnOf(e)) = "waiting"
                         /\ StateOf(e, DbOfConn(e, ConnOf(e))) = "failed"
  /\ e.connInstance # 0 => /\ DbOfConn(e, e.connInstance) = DbOf(e)
                           /\ ConnState(e, e.connInstance) # "waiting"

(* Only a database that has started is asked; from its crash on it answers *)
(* everything with an error, and no other than the current one answers     *)
(* without.                                                                *)
Queues(e) ==
  /\ \A d \in Dbs(e) : \A n \in Places(e, d) :
       /\ StateOf(e, d) \in {"ready", "crashed"}
       /\ Request(e, d, n).of = "conn" =>
            /\ Request(e, d, n).id \in Conns(e)
            /\ DbOfConn(e, Request(e, d, n).id) = d
            /\ ConnState(e, Request(e, d, n).id) # "waiting"
       /\ Request(e, d, n).answer = "crash" =>
            /\ StateOf(e, d) = "crashed"
            /\ \A m \in Places(e, d) : n < m => Request(e, d, m).answer = "crash"
       /\ Request(e, d, n).answer # "crash" => d = DbOf(e)
  /\ \A k \in Conns(e) :
       ConnState(e, k) = "failed" /\ StateOf(e, DbOfConn(e, k)) = "crashed" =>
         \A n \in Places(e, DbOfConn(e, k)) : Request(e, DbOfConn(e, k), n).answer = "crash"

(* What setup.ts and the databases promise whatever the callers do.        *)
EngineOK(e) ==
  e \in EngineT /\ Promises(e) /\ OneDatabase(e) /\ Connections(e) /\ Queues(e)

(* Caller c waits for an answer of database d.                             *)
Asks(cs, c, d, e) ==
  /\ cs[c].pc \in {"query", "file", "drop", "undo", "again"}
  /\ cs[c].pc = "query" => DbOfConn(e, cs[c].conn) = d
  /\ cs[c].pc # "query" => cs[c].db = d

(* A call has the database and the connection its stage needs, and the     *)
(* stage is one of its kind.                                               *)
CallOK(e, call) ==
  \/ call = NoCall
  \/ /\ call \in CallT
     /\ call.kind \in {"load", "delete"} \/ call.retried => call.db \in Dbs(e)
     /\ call.pc \in {"conn", "query"} => call.conn \in Conns(e) /\ call.kind # "delete"
     /\ call.pc \in {"file", "undo"} => call.kind = "load"
     /\ call.pc = "drop" => call.kind = "delete"
     /\ call.pc = "again" => call.kind = "tile"
     /\ call.pc \in {"db", "again"} => call.kind # "query"
     /\ call.pc \in {"db", "again"} /\ call.kind = "tile" => call.retried
     /\ call.retried => call.kind = "tile"
     /\ call.kind = "load" /\ call.pc \in {"file", "conn", "query"} =>
          StateOf(e, call.db) \in {"ready", "crashed"}

(* Who has sent request n of d waits for it, and for no other.             *)
CallerOK(e, cs, d, n) ==
  Request(e, d, n).of = "caller" =>
    /\ Request(e, d, n).id \in Callers
    /\ Asks(cs, Request(e, d, n).id, d, e)
    /\ Request(e, d, n).answer = "bad" => cs[Request(e, d, n).id].kind = "load"
    /\ \A m \in Places(e, d) :
         Request(e, d, m).of = "caller" /\ Request(e, d, m).id = Request(e, d, n).id => m = n

(* The callers and the queues agree.                                       *)
CallsOK(e, cs) ==
  /\ cs = [c \in Callers |-> cs[c]]
  /\ \A c \in Callers : CallOK(e, cs[c])
  /\ \A d \in Dbs(e) : \A n \in Places(e, d) : CallerOK(e, cs, d, n)

Active(call) == call.pc \notin Ended

(* A file is loaded by one call, and becomes a source when that call ends. *)
FilesOnce(cs, reg, us) ==
  /\ reg \subseteq us
  /\ us \subseteq Files
  /\ \A c \in Callers : cs[c].kind # "none" => cs[c].file \in us
  /\ \A c \in Callers :
       cs[c].kind = "load" /\ Active(cs[c]) =>
         /\ cs[c].file \notin reg
         /\ \A b \in Callers : cs[b].kind # "none" /\ b # c => cs[b].file # cs[c].file

(* Request n of d is that of deleteSource to drop file f.                  *)
DropAt(e, cs, f, d, n) ==
  /\ Request(e, d, n).of = "caller"
  /\ cs[Request(e, d, n).id].pc = "drop"
  /\ cs[Request(e, d, n).id].file = f

DropSent(e, cs, f, d) == \E n \in Places(e, d) : DropAt(e, cs, f, d, n)

(* A recovery has not come to file f yet.                                  *)
WillRegister(cs, f, d) ==
  \E c \in Callers : /\ cs[c].kind = "tile" /\ cs[c].pc \in {"db", "again"}
                     /\ cs[c].db = d /\ f \notin cs[c].seen

(* Database d has file f, or will be given it, or is losing it.            *)
HasFile(e, cs, f, d) ==
  f \in FilesOf(e, d) \/ WillRegister(cs, f, d) \/ DropSent(e, cs, f, d)

(* A query of loadBuffer that found the file was put to a database that    *)
(* has it.                                                                 *)
LoadedFile(e, cs, d, n) ==
  /\ Request(e, d, n).of = "caller" /\ Request(e, d, n).answer = "ok"
  /\ cs[Request(e, d, n).id].kind = "load" /\ cs[Request(e, d, n).id].pc = "query"
  /\ StateOf(e, d) = "ready"
  => cs[Request(e, d, n).id].file \in FilesOf(e, d)

(* A database that starts or works has the file of every source, gets it   *)
(* from a recovery that goes on, or drops it for a deletion.               *)
Registered(e, cs, reg) ==
  /\ DbOf(e) = 0 => reg = {}
  /\ \A k \in Conns(e) :
       ConnState(e, k) = "waiting" /\ StateOf(e, DbOfConn(e, k)) = "failed" => reg = {}
  /\ \A d \in Dbs(e) :
       StateOf(e, d) \in {"starting", "ready"} => \A f \in reg : HasFile(e, cs, f, d)
  /\ \A d \in Dbs(e) : \A n \in Places(e, d) : LoadedFile(e, cs, d, n)

(* Caller c has put file f into database d and has not made it a source.   *)
LoadsFile(cs, c, f, d) ==
  /\ cs[c].kind = "load" /\ cs[c].pc \in {"file", "conn", "query"}
  /\ cs[c].db = d /\ cs[c].file = f

(* A file that is there after deleteSource dropped it was registered       *)
(* again, and that answer is still to come: the deletion will find a       *)
(* recovery.                                                               *)
RegisteredAfter(e, cs, f, d, n) ==
  DropAt(e, cs, f, d, n) =>
    \E m \in Places(e, d) : /\ n < m /\ Request(e, d, m).of = "caller"
                            /\ cs[Request(e, d, m).id].pc = "again"

(* A load in the current database reads there.                             *)
LoadsWhereItIs(e, cs, c) ==
  cs[c].kind = "load" /\ cs[c].pc \in {"conn", "query"} /\ cs[c].db = DbOf(e) =>
    DbOfConn(e, cs[c].conn) = cs[c].db

(* A file in a database that works belongs to a source, or to a load that  *)
(* goes on, or to a source deleted during a recovery.                      *)
NothingElse(e, cs, reg, rs) ==
  /\ \A d \in Dbs(e) : StateOf(e, d) = "ready" =>
       \A f \in FilesOf(e, d) :
         /\ f \in reg \cup rs \/ \E c \in Callers : LoadsFile(cs, c, f, d)
         /\ \A n \in Places(e, d) : RegisteredAfter(e, cs, f, d, n)
  /\ \A d \in Dbs(e) : StateOf(e, d) = "starting" => FilesOf(e, d) = {}
  /\ \A c \in Callers : LoadsWhereItIs(e, cs, c)

(* Every crash has been counted.                                           *)
Crashes(e, n) ==
  /\ n \in Nat
  /\ \A d \in Dbs(e) : StateOf(e, d) = "crashed" => n > 0
  /\ \A d, b \in Dbs(e) : d # b /\ StateOf(e, d) = "crashed" /\ StateOf(e, b) = "crashed" => n > 1

Retried(cs, c) == cs[c].kind = "tile" /\ cs[c].retried

(* The retried tile of c succeeds unless something else happens: its call  *)
(* is on the current database, and its file there once it has been         *)
(* registered.                                                             *)
OnItsWay(e, cs, c) ==
  /\ cs[c].pc # "failed"
  /\ cs[c].db = DbOf(e)
  /\ cs[c].pc \in {"conn", "query"} =>
       DbOfConn(e, cs[c].conn) = cs[c].db /\ cs[c].file \in cs[c].seen
  /\ cs[c].file \in cs[c].seen /\ StateOf(e, cs[c].db) \in {"starting", "ready"} =>
       cs[c].file \in FilesOf(e, cs[c].db) \/ DropSent(e, cs, cs[c].file, cs[c].db)

DropBefore(e, cs, f, d, n) == \E i \in Places(e, d) : i < n /\ DropAt(e, cs, f, d, i)

(* A retried tile misses its file only behind the deletion of its source.  *)
MissingFile(e, cs, reg, d, n) ==
  LET c == Request(e, d, n).id
  IN  /\ Request(e, d, n).of = "caller" /\ Request(e, d, n).answer = "missing"
      /\ Retried(cs, c) /\ cs[c].pc = "query" /\ cs[c].file \in reg
      => DropBefore(e, cs, cs[c].file, d, n)

(* The call of c has changed databases because one crashed.                *)
CrashedBefore(e, cs, c) == \E d \in Dbs(e) : d # cs[c].db /\ StateOf(e, d) = "crashed"

(* As long as one database has crashed, retried tiles are on their way.    *)
Survives(e, cs, reg, n) ==
  /\ Crashes(e, n)
  /\ \A c \in Callers : Retried(cs, c) => CrashedBefore(e, cs, c)
  /\ n \leq 1 =>
       /\ \A c \in Callers : Retried(cs, c) /\ cs[c].file \in reg => OnItsWay(e, cs, c)
       /\ \A d \in Dbs(e) : \A m \in Places(e, d) : MissingFile(e, cs, reg, d, m)

(* The parts together, of an engine e, calls cs, sources reg, files us,    *)
(* deleted files rs and n crashes: what a step does to them in several     *)
(* moves is proved one move at a time.                                     *)
AllKept(e, cs, reg, us, rs, n) ==
  /\ EngineOK(e)
  /\ CallsOK(e, cs)
  /\ FilesOnce(cs, reg, us)
  /\ Registered(e, cs, reg)
  /\ NothingElse(e, cs, reg, rs)
  /\ Survives(e, cs, reg, n)

(* The inductive invariant.  What has been abandoned stays so.             *)
EngineInv == abandoned \/ AllKept(eng, calls, registry, used, raced, crashes)

-----------------------------------------------------------------------------
(* How a step changes the engine from e to g.                              *)

(* Database x is what it was.                                              *)
SameDb(e, g, x) ==
  /\ StateOf(g, x) = StateOf(e, x)
  /\ FilesOf(g, x) = FilesOf(e, x)
  /\ Places(g, x) = Places(e, x)
  /\ \A n \in Places(e, x) : Request(g, x, n) = Request(e, x, n)

(* The connections are what they were.                                     *)
SameConns(e, g) ==
  /\ Conns(g) = Conns(e)
  /\ \A k \in Conns(e) : DbOfConn(g, k) = DbOfConn(e, k) /\ ConnState(g, k) = ConnState(e, k)

(* setup.ts holds what it held.                                            *)
SamePromises(e, g) ==
  /\ g.dbInstance = e.dbInstance /\ g.dbPromise = e.dbPromise
  /\ g.connInstance = e.connInstance /\ g.connPromise = e.connPromise
  /\ DbOf(g) = DbOf(e) /\ ConnOf(g) = ConnOf(e)

(* Request r goes to database d, whose files become X if it works.         *)
Sent(e, g, d, r, X) ==
  /\ g \in EngineT
  /\ Dbs(g) = Dbs(e) /\ SameConns(e, g) /\ SamePromises(e, g)
  /\ \A x \in Dbs(e) \ {d} : SameDb(e, g, x)
  /\ StateOf(g, d) = StateOf(e, d)
  /\ StateOf(e, d) = "ready" => FilesOf(g, d) = X
  /\ StateOf(e, d) # "ready" => FilesOf(g, d) = FilesOf(e, d)
  /\ \E N \in Nat :
       /\ Places(g, d) = Places(e, d) \cup {N}
       /\ \A n \in Places(e, d) : n \in Nat /\ n < N /\ Request(g, d, n) = Request(e, d, n)
       /\ Request(g, d, N) = r

(* The first request of d has been answered.                               *)
Shorter(e, g, d) ==
  /\ g \in EngineT
  /\ Dbs(g) = Dbs(e) /\ SameConns(e, g) /\ SamePromises(e, g)
  /\ \A x \in Dbs(e) \ {d} : SameDb(e, g, x)
  /\ StateOf(g, d) = StateOf(e, d) /\ FilesOf(g, d) = FilesOf(e, d)
  /\ 1 \in Places(e, d)
  /\ \A n \in Places(e, d) : n \in Nat /\ n >= 1 /\ (n # 1 => n - 1 \in Places(g, d))
  /\ \A n \in Places(g, d) : n \in Nat /\ n >= 1 /\ n + 1 \in Places(e, d)
                             /\ Request(g, d, n) = Request(e, d, n + 1)

(* Database N is new, and the one that getDuckDB returns.                  *)
NewDatabase(e, g, N) ==
  /\ g \in EngineT
  /\ Dbs(g) = Dbs(e) \cup {N} /\ N \notin Dbs(e) /\ N \in Nat \ {0}
  /\ \A x \in Dbs(e) : SameDb(e, g, x)
  /\ StateOf(g, N) = "starting" /\ FilesOf(g, N) = {} /\ Places(g, N) = {}
  /\ SameConns(e, g)
  /\ g.dbInstance = 0 /\ g.dbPromise = N /\ DbOf(g) = N
  /\ \/ g.connInstance = e.connInstance /\ g.connPromise = e.connPromise /\ ConnOf(g) = ConnOf(e)
     \/ g.connInstance = 0 /\ g.connPromise = 0 /\ ConnOf(g) = 0

(* Connection K is new, waits for that database, and is the one that       *)
(* getConnection returns.                                                  *)
NewConnection(e, g, K) ==
  /\ g \in EngineT
  /\ Dbs(g) = Dbs(e) /\ \A x \in Dbs(e) : SameDb(e, g, x)
  /\ Conns(g) = Conns(e) \cup {K} /\ K \notin Conns(e) /\ K \in Nat \ {0}
  /\ \A k \in Conns(e) : DbOfConn(g, k) = DbOfConn(e, k) /\ ConnState(g, k) = ConnState(e, k)
  /\ DbOfConn(g, K) = DbOf(e) /\ ConnState(g, K) = "waiting"
  /\ g.dbInstance = e.dbInstance /\ g.dbPromise = e.dbPromise /\ DbOf(g) = DbOf(e)
  /\ g.connInstance = 0 /\ g.connPromise = K /\ ConnOf(g) = K

(* The state of database d is s now.                                       *)
DbBecomes(e, g, d, s) ==
  /\ g \in EngineT
  /\ Dbs(g) = Dbs(e) /\ SameConns(e, g)
  /\ \A x \in Dbs(e) \ {d} : SameDb(e, g, x)
  /\ StateOf(g, d) = s /\ FilesOf(g, d) = FilesOf(e, d)
  /\ Places(g, d) = Places(e, d)
  /\ \A n \in Places(e, d) : Request(g, d, n) = Request(e, d, n)
  /\ g.connInstance = e.connInstance /\ g.connPromise = e.connPromise /\ ConnOf(g) = ConnOf(e)

(* The state of connection k is s now.                                     *)
ConnBecomes(e, g, k, s) ==
  /\ g \in EngineT
  /\ Dbs(g) = Dbs(e) /\ \A x \in Dbs(e) : SameDb(e, g, x)
  /\ Conns(g) = Conns(e)
  /\ \A i \in Conns(e) : DbOfConn(g, i) = DbOfConn(e, i)
  /\ \A i \in Conns(e) \ {k} : ConnState(g, i) = ConnState(e, i)
  /\ ConnState(g, k) = s
  /\ g.dbInstance = e.dbInstance /\ g.dbPromise = e.dbPromise /\ DbOf(g) = DbOf(e)

(* The fields of the engine.                                               *)
LEMMA EngineParts ==
  ASSUME NEW e \in EngineT
  PROVE  /\ e = [dbs |-> e.dbs, conns |-> e.conns, dbInstance |-> e.dbInstance,
                 dbPromise |-> e.dbPromise, connInstance |-> e.connInstance,
                 connPromise |-> e.connPromise]
         /\ e.dbs \in Seq(DbT) /\ e.conns \in Seq(ConnT)
         /\ e.dbInstance \in Nat /\ e.dbPromise \in Nat
         /\ e.connInstance \in Nat /\ e.connPromise \in Nat
BY DEF EngineT

(* The fields of a database.                                               *)
LEMMA DbParts ==
  ASSUME NEW e \in EngineT, NEW d \in Dbs(e)
  PROVE  /\ e.dbs[d] \in DbT
         /\ e.dbs[d] = [state |-> e.dbs[d].state, files |-> e.dbs[d].files, queue |-> e.dbs[d].queue]
         /\ e.dbs[d].files \in SUBSET Files /\ e.dbs[d].queue \in Seq(RequestT)
         /\ e.dbs[d].state \in {"starting", "ready", "failed", "crashed"}
<1>1. e.dbs \in Seq(DbT)
  BY EngineParts
<1>2. e.dbs[d] \in DbT
  BY <1>1 DEF Dbs
<1> QED
  BY <1>2 DEF DbT

(* What Send does to the engine.                                           *)
LEMMA SendFacts ==
  ASSUME NEW e \in EngineT, NEW d \in Dbs(e), NEW of, NEW id, NEW a \in Answer,
         (of = "conn" /\ id \in Nat) \/ (of = "caller" /\ id \in Callers)
  PROVE  \E r : /\ Sent(e, Send(e, d, of, id, a), d, r, FilesOf(e, d))
                /\ r.of = of /\ r.id = id
                /\ StateOf(e, d) = "ready" => r.answer = a
                /\ StateOf(e, d) # "ready" => r.answer = "crash"
<1>1. PICK b : b = IF e.dbs[d].state = "ready" THEN a ELSE "crash"
  OBVIOUS
<1>2. b \in Answer
  BY <1>1 DEF Answer
<1>3. PICK r : r = [of |-> of, id |-> id, answer |-> b]
  OBVIOUS
<1>4. r \in RequestT /\ r.of = of /\ r.id = id /\ r.answer = b
  BY <1>2, <1>3 DEF RequestT
<1>16. PICK p : p = e.dbs[d].queue
  OBVIOUS
<1>17. p \in Seq(RequestT)
  BY <1>16, DbParts
<1>5. PICK q : q = Append(p, r)
  OBVIOUS
<1>18. /\ q \in Seq(RequestT) /\ Len(q) = Len(p) + 1 /\ Len(p) \in Nat
       /\ DOMAIN p = 1 .. Len(p) /\ DOMAIN q = 1 .. Len(q)
  BY <1>4, <1>5, <1>17
<1>19. (\A n \in 1 .. Len(p) : q[n] = p[n]) /\ q[Len(p) + 1] = r
  BY <1>4, <1>5, <1>17
<1>6. /\ q \in Seq(RequestT) /\ Len(q) = Len(e.dbs[d].queue) + 1
      /\ DOMAIN e.dbs[d].queue = 1 .. Len(e.dbs[d].queue) /\ Len(e.dbs[d].queue) \in Nat
      /\ \A n \in 1 .. Len(e.dbs[d].queue) : q[n] = e.dbs[d].queue[n]
      /\ q[Len(e.dbs[d].queue) + 1] = r /\ DOMAIN q = 1 .. Len(q)
  BY <1>16, <1>18, <1>19
<1>7. PICK y : y = [e.dbs[d] EXCEPT !.queue = q]
  OBVIOUS
<1>8. y \in DbT /\ y.state = e.dbs[d].state /\ y.files = e.dbs[d].files /\ y.queue = q
  BY <1>6, <1>7, DbParts DEF DbT
<1>9. PICK h : h = [e.dbs EXCEPT ![d] = y]
  OBVIOUS
<1>10. /\ h \in Seq(DbT) /\ DOMAIN h = DOMAIN e.dbs /\ h[d] = y
       /\ \A x \in DOMAIN e.dbs \ {d} : h[x] = e.dbs[x]
  BY <1>8, <1>9, EngineParts DEF Dbs
<1>11. PICK g : g = [e EXCEPT !.dbs = h]
  OBVIOUS
<1>12. /\ g \in EngineT /\ g.dbs = h /\ g.conns = e.conns
       /\ g.dbInstance = e.dbInstance /\ g.dbPromise = e.dbPromise
       /\ g.connInstance = e.connInstance /\ g.connPromise = e.connPromise
  BY <1>10, <1>11, EngineParts DEF EngineT
<1>13. Send(e, d, of, id, a) = g
  BY <1>1, <1>3, <1>5, <1>16, <1>7, <1>9, <1>11, EngineParts, DbParts DEF Send, Dbs
<1>14. Sent(e, g, d, r, FilesOf(e, d))
  <2>1. Dbs(g) = Dbs(e) /\ SameConns(e, g) /\ SamePromises(e, g)
    BY <1>10, <1>12 DEF Dbs, SameConns, SamePromises, Conns, DbOfConn, ConnState, DbOf, ConnOf
  <2>2. \A x \in Dbs(e) \ {d} : SameDb(e, g, x)
    BY <1>10, <1>12 DEF Dbs, SameDb, StateOf, FilesOf, Places, Request
  <2>3. StateOf(g, d) = StateOf(e, d) /\ FilesOf(g, d) = FilesOf(e, d)
    BY <1>8, <1>10, <1>12 DEF StateOf, FilesOf
  <2>4. g.dbs[d].queue = q
    BY <1>8, <1>10, <1>12
  <2>5. PICK N : N = Len(p) + 1
    OBVIOUS
  <2>7. N \in Nat /\ Places(g, d) = DOMAIN q /\ Places(e, d) = DOMAIN p
    BY <1>16, <1>18, <2>4, <2>5 DEF Places
  <2>8. \A n : Request(g, d, n) = q[n] /\ Request(e, d, n) = p[n]
    BY <1>16, <2>4 DEF Request
  <2>9. DOMAIN q = DOMAIN p \cup {N}
    BY <1>18, <2>5
  <2>6. /\ N \in Nat /\ Places(g, d) = Places(e, d) \cup {N}
        /\ \A n \in Places(e, d) : n \in Nat /\ n < N /\ Request(g, d, n) = Request(e, d, n)
        /\ Request(g, d, N) = r
    BY <1>18, <1>19, <2>5, <2>7, <2>8, <2>9
  <2> QED
    BY <1>12, <2>1, <2>2, <2>3, <2>6 DEF Sent
<1>15. (StateOf(e, d) = "ready" => r.answer = a) /\ (StateOf(e, d) # "ready" => r.answer = "crash")
  BY <1>1, <1>4 DEF StateOf
<1> QED
  BY <1>4, <1>13, <1>14, <1>15

(* One database is replaced.                                               *)
LEMMA DbPut ==
  ASSUME NEW e \in EngineT, NEW d \in Dbs(e), NEW y \in DbT
  PROVE  \E g : /\ g \in EngineT /\ g = [e EXCEPT !.dbs = [e.dbs EXCEPT ![d] = y]]
                /\ g.dbs[d] = y /\ g.conns = e.conns
                /\ g.dbInstance = e.dbInstance /\ g.dbPromise = e.dbPromise
                /\ g.connInstance = e.connInstance /\ g.connPromise = e.connPromise
                /\ Dbs(g) = Dbs(e) /\ SameConns(e, g) /\ SamePromises(e, g)
                /\ \A x \in Dbs(e) \ {d} : SameDb(e, g, x)
<1>9. PICK h : h = [e.dbs EXCEPT ![d] = y]
  OBVIOUS
<1>10. /\ h \in Seq(DbT) /\ DOMAIN h = DOMAIN e.dbs /\ h[d] = y
       /\ \A x \in DOMAIN e.dbs \ {d} : h[x] = e.dbs[x]
  BY <1>9, EngineParts DEF Dbs
<1>11. PICK g : g = [e EXCEPT !.dbs = h]
  OBVIOUS
<1>12. /\ g \in EngineT /\ g.dbs = h /\ g.conns = e.conns
       /\ g.dbInstance = e.dbInstance /\ g.dbPromise = e.dbPromise
       /\ g.connInstance = e.connInstance /\ g.connPromise = e.connPromise
  BY <1>10, <1>11, EngineParts DEF EngineT
<1>13. Dbs(g) = Dbs(e) /\ SameConns(e, g) /\ SamePromises(e, g)
  BY <1>10, <1>12 DEF Dbs, SameConns, SamePromises, Conns, DbOfConn, ConnState, DbOf, ConnOf
<1>14. \A x \in Dbs(e) \ {d} : SameDb(e, g, x)
  BY <1>10, <1>12 DEF Dbs, SameDb, StateOf, FilesOf, Places, Request
<1> QED
  BY <1>9, <1>10, <1>11, <1>12, <1>13, <1>14

(* What SendFile does to the engine.                                       *)
LEMMA SendFileFacts ==
  ASSUME NEW e \in EngineT, NEW d \in Dbs(e), NEW c \in Callers, NEW X \in SUBSET Files
  PROVE  \E r : /\ Sent(e, SendFile(e, c, d, X), d, r, X)
                /\ r.of = "caller" /\ r.id = c
                /\ StateOf(e, d) = "ready" => r.answer = "ok"
                /\ StateOf(e, d) # "ready" => r.answer = "crash"
<1>1. "ok" \in Answer
  BY DEF Answer
<1>2. CASE StateOf(e, d) # "ready"
  <2>1. SendFile(e, c, d, X) = Send(e, d, "caller", c, "ok")
    BY <1>2 DEF SendFile, StateOf
  <2>2. PICK r : /\ Sent(e, Send(e, d, "caller", c, "ok"), d, r, FilesOf(e, d))
                 /\ r.of = "caller" /\ r.id = c
                 /\ StateOf(e, d) # "ready" => r.answer = "crash"
    BY <1>1, SendFacts
  <2> QED
    BY <1>2, <2>1, <2>2 DEF Sent
<1>3. CASE StateOf(e, d) = "ready"
  <2>1. PICK y : y = [e.dbs[d] EXCEPT !.files = X]
    OBVIOUS
  <2>2. y \in DbT /\ y.state = e.dbs[d].state /\ y.queue = e.dbs[d].queue /\ y.files = X
    BY <2>1, DbParts DEF DbT
  <2>3. PICK h : /\ h \in EngineT /\ h = [e EXCEPT !.dbs = [e.dbs EXCEPT ![d] = y]]
                 /\ h.dbs[d] = y /\ h.conns = e.conns
                 /\ Dbs(h) = Dbs(e) /\ SameConns(e, h) /\ SamePromises(e, h)
                 /\ \A x \in Dbs(e) \ {d} : SameDb(e, h, x)
    BY <2>2, DbPut
  <2>4. SendFile(e, c, d, X) = Send(h, d, "caller", c, "ok")
    BY <1>3, <2>1, <2>3, EngineParts, DbParts DEF SendFile, StateOf, Dbs
  <2>5. PICK g : g = Send(h, d, "caller", c, "ok")
    OBVIOUS
  <2>6. d \in Dbs(h)
    BY <2>3
  <2>7. PICK r : /\ Sent(h, Send(h, d, "caller", c, "ok"), d, r, FilesOf(h, d))
                 /\ r.of = "caller" /\ r.id = c
                 /\ StateOf(h, d) = "ready" => r.answer = "ok"
                 /\ StateOf(h, d) # "ready" => r.answer = "crash"
    BY <1>1, <2>3, <2>6, SendFacts
  <2>8. Sent(h, g, d, r, FilesOf(h, d))
    BY <2>5, <2>7
  <2>9. /\ StateOf(h, d) = StateOf(e, d) /\ FilesOf(h, d) = X /\ Places(h, d) = Places(e, d)
        /\ \A n \in Places(e, d) : Request(h, d, n) = Request(e, d, n)
    BY <2>2, <2>3 DEF StateOf, FilesOf, Places, Request
  <2>10. Dbs(g) = Dbs(e) /\ SameConns(e, g) /\ SamePromises(e, g) /\ g \in EngineT
    BY <2>3, <2>8 DEF Sent, SameConns, SamePromises
  <2>11. \A x \in Dbs(e) \ {d} : SameDb(e, g, x)
    BY <2>3, <2>8 DEF Sent, SameDb
  <2>12. Sent(e, g, d, r, X)
    <3>1. StateOf(g, d) = StateOf(e, d) /\ FilesOf(g, d) = X
      BY <1>3, <2>8, <2>9 DEF Sent
    <3>2. \E N \in Nat :
       /\ Places(g, d) = Places(e, d) \cup {N}
       /\ \A n \in Places(e, d) : n \in Nat /\ n < N /\ Request(g, d, n) = Request(e, d, n)
       /\ Request(g, d, N) = r
      BY <2>8, <2>9 DEF Sent
    <3> QED
      BY <1>3, <2>10, <2>11, <3>1, <3>2 DEF Sent
  <2> QED
    BY <1>3, <2>4, <2>5, <2>7, <2>9, <2>12
<1> QED
  BY <1>2, <1>3

(* What an answer takes out of a queue.                                    *)
LEMMA PopFacts ==
  ASSUME NEW e \in EngineT, NEW d \in Dbs(e), e.dbs[d].queue # << >>
  PROVE  /\ Shorter(e, [e EXCEPT !.dbs[d].queue = Tail(@)], d)
         /\ Head(e.dbs[d].queue) = Request(e, d, 1)
<1>1. PICK p : p = e.dbs[d].queue
  OBVIOUS
<1>2. p \in Seq(RequestT) /\ p # << >>
  BY <1>1, DbParts
<1>3. PICK q : q = Tail(p)
  OBVIOUS
<1>4. Len(p) \in Nat /\ Len(p) > 0 /\ DOMAIN p = 1 .. Len(p) /\ Head(p) = p[1]
  BY <1>2
<1>5. q \in Seq(RequestT) /\ Len(q) = Len(p) - 1 /\ DOMAIN q = 1 .. Len(q)
  BY <1>2, <1>3
<1>6. \A n \in 1 .. Len(q) : q[n] = p[n + 1]
  BY <1>2, <1>3, <1>5
<1>7. PICK y : y = [e.dbs[d] EXCEPT !.queue = q]
  OBVIOUS
<1>8. y \in DbT /\ y.state = e.dbs[d].state /\ y.files = e.dbs[d].files /\ y.queue = q
  BY <1>5, <1>7, DbParts DEF DbT
<1>9. PICK g : /\ g \in EngineT /\ g = [e EXCEPT !.dbs = [e.dbs EXCEPT ![d] = y]]
               /\ g.dbs[d] = y
               /\ Dbs(g) = Dbs(e) /\ SameConns(e, g) /\ SamePromises(e, g)
               /\ \A x \in Dbs(e) \ {d} : SameDb(e, g, x)
  BY <1>8, DbPut
<1>10. [e EXCEPT !.dbs[d].queue = Tail(@)] = g
  BY <1>1, <1>3, <1>7, <1>9, EngineParts, DbParts DEF Dbs
<1>11. StateOf(g, d) = StateOf(e, d) /\ FilesOf(g, d) = FilesOf(e, d)
  BY <1>8, <1>9 DEF StateOf, FilesOf
<1>12. g.dbs[d].queue = q
  BY <1>8, <1>9
<1>13. /\ 1 \in Places(e, d)
       /\ \A n \in Places(e, d) : n \in Nat /\ n >= 1 /\ (n # 1 => n - 1 \in Places(g, d))
  BY <1>1, <1>4, <1>5, <1>12 DEF Places
<1>14. \A n \in Places(g, d) : n \in Nat /\ n >= 1 /\ n + 1 \in Places(e, d)
                             /\ Request(g, d, n) = Request(e, d, n + 1)
  BY <1>1, <1>4, <1>5, <1>6, <1>12 DEF Places, Request
<1>15. Shorter(e, g, d)
  BY <1>9, <1>11, <1>13, <1>14 DEF Shorter
<1> QED
  BY <1>1, <1>4, <1>10, <1>15 DEF Request

(* What it does to the engine that a database starts, fails to, or         *)
(* crashes.                                                                *)
LEMMA DbBecomesFacts ==
  ASSUME NEW e \in EngineT, NEW d \in Dbs(e), NEW s \in {"ready", "failed", "crashed"}
  PROVE  \E g : /\ g = [e EXCEPT !.dbs[d].state = s]
                /\ DbBecomes(e, g, d, s) /\ SamePromises(e, g)
<1>1. PICK y : y = [e.dbs[d] EXCEPT !.state = s]
  OBVIOUS
<1>2. y \in DbT /\ y.state = s /\ y.files = e.dbs[d].files /\ y.queue = e.dbs[d].queue
  BY <1>1, DbParts DEF DbT
<1>3. PICK g : /\ g \in EngineT /\ g = [e EXCEPT !.dbs = [e.dbs EXCEPT ![d] = y]]
               /\ g.dbs[d] = y
               /\ Dbs(g) = Dbs(e) /\ SameConns(e, g) /\ SamePromises(e, g)
               /\ \A x \in Dbs(e) \ {d} : SameDb(e, g, x)
  BY <1>2, DbPut
<1>4. [e EXCEPT !.dbs[d].state = s] = g
  BY <1>1, <1>3, EngineParts, DbParts DEF Dbs
<1>5. /\ StateOf(g, d) = s /\ FilesOf(g, d) = FilesOf(e, d)
      /\ Places(g, d) = Places(e, d)
      /\ \A n \in Places(e, d) : Request(g, d, n) = Request(e, d, n)
  BY <1>2, <1>3 DEF StateOf, FilesOf, Places, Request
<1>6. DbBecomes(e, g, d, s)
  BY <1>3, <1>5 DEF DbBecomes, SamePromises
<1> QED
  BY <1>3, <1>4, <1>6

(* getDuckDB makes a database when there is none.                          *)
LEMMA WithDbFacts ==
  ASSUME NEW e \in EngineT, DbOf(e) = 0, e.dbInstance = 0
  PROVE  \E N : NewDatabase(e, WithDb(e), N) /\ ConnOf(WithDb(e)) = ConnOf(e)
                /\ WithDb(e).connInstance = e.connInstance
                /\ WithDb(e).connPromise = e.connPromise
<1>1. PICK y : y = NewDb
  OBVIOUS
<1>2. y \in DbT /\ y.state = "starting" /\ y.files = {} /\ y.queue = << >>
  BY <1>1 DEF NewDb, DbT
<1>3. PICK p : p = e.dbs
  OBVIOUS
<1>4. p \in Seq(DbT)
  BY <1>3, EngineParts
<1>5. PICK h : h = Append(p, y)
  OBVIOUS
<1>6. /\ h \in Seq(DbT) /\ Len(h) = Len(p) + 1 /\ Len(p) \in Nat
      /\ DOMAIN p = 1 .. Len(p) /\ DOMAIN h = 1 .. Len(h)
  BY <1>2, <1>4, <1>5
<1>7. (\A n \in 1 .. Len(p) : h[n] = p[n]) /\ h[Len(p) + 1] = y
  BY <1>2, <1>4, <1>5
<1>8. PICK N : N = Len(p) + 1
  OBVIOUS
<1>9. PICK g : g = [e EXCEPT !.dbs = h, !.dbPromise = N]
  OBVIOUS
<1>10. N \in Nat \ {0}
  BY <1>6, <1>8
<1>11. /\ g \in EngineT /\ g.dbs = h /\ g.conns = e.conns
       /\ g.dbInstance = e.dbInstance /\ g.dbPromise = N
       /\ g.connInstance = e.connInstance /\ g.connPromise = e.connPromise
  BY <1>6, <1>9, <1>10, EngineParts DEF EngineT
<1>12. WithDb(e) = g
  BY <1>1, <1>3, <1>5, <1>8, <1>9 DEF WithDb
<1>13. Dbs(g) = Dbs(e) \cup {N} /\ N \notin Dbs(e)
  BY <1>3, <1>6, <1>8, <1>11 DEF Dbs
<1>14. \A x \in Dbs(e) : SameDb(e, g, x)
  BY <1>3, <1>6, <1>7, <1>11 DEF Dbs, SameDb, StateOf, FilesOf, Places, Request
<1>15. StateOf(g, N) = "starting" /\ FilesOf(g, N) = {} /\ Places(g, N) = {}
  BY <1>2, <1>7, <1>8, <1>11 DEF StateOf, FilesOf, Places
<1>16. SameConns(e, g) /\ ConnOf(g) = ConnOf(e)
  BY <1>11 DEF SameConns, Conns, DbOfConn, ConnState, ConnOf
<1>17. DbOf(g) = N
  BY <1>11 DEF DbOf, Max0
<1>18. NewDatabase(e, g, N)
  BY <1>10, <1>11, <1>13, <1>14, <1>15, <1>16, <1>17 DEF NewDatabase
<1> QED
  BY <1>11, <1>12, <1>16, <1>18

(* recoverAfterCrash begins with another database and no connection.       *)
LEMMA RestartFacts ==
  ASSUME NEW e \in EngineT
  PROVE  \E N : NewDatabase(e, WithDb(resetDuckDB(e)), N) /\ ConnOf(WithDb(resetDuckDB(e))) = 0
                /\ WithDb(resetDuckDB(e)).connInstance = 0
                /\ WithDb(resetDuckDB(e)).connPromise = 0
<1>1. PICK h : h = resetDuckDB(e)
  OBVIOUS
<1>2. PICK z : z = 0
  OBVIOUS
<1>3. h = [e EXCEPT !.dbInstance = z, !.dbPromise = z, !.connInstance = z, !.connPromise = z]
  BY <1>1, <1>2 DEF resetDuckDB
<1>4. /\ h \in EngineT /\ h.dbs = e.dbs /\ h.conns = e.conns /\ h.dbInstance = 0 /\ h.dbPromise = 0
      /\ h.connInstance = 0 /\ h.connPromise = 0
  BY <1>2, <1>3, EngineParts DEF EngineT
<1>5. DbOf(h) = 0 /\ ConnOf(h) = 0
  BY <1>4 DEF DbOf, ConnOf, Max0
<1>6. PICK N : NewDatabase(h, WithDb(h), N) /\ ConnOf(WithDb(h)) = ConnOf(h)
                /\ WithDb(h).connInstance = h.connInstance
                /\ WithDb(h).connPromise = h.connPromise
  BY <1>4, <1>5, WithDbFacts
<1>7. PICK g : g = WithDb(h)
  OBVIOUS
<1>8. NewDatabase(h, g, N) /\ ConnOf(g) = 0 /\ g.connInstance = 0 /\ g.connPromise = 0
  BY <1>4, <1>5, <1>6, <1>7
<1>9. Dbs(g) = Dbs(e) \cup {N} /\ N \notin Dbs(e) /\ \A x \in Dbs(e) : SameDb(e, g, x)
  BY <1>4, <1>8 DEF NewDatabase, Dbs, SameDb, StateOf, FilesOf, Places, Request
<1>10. SameConns(e, g)
  BY <1>4, <1>8 DEF NewDatabase, SameConns, Conns, DbOfConn, ConnState
<1>11. NewDatabase(e, g, N)
  BY <1>8, <1>9, <1>10 DEF NewDatabase
<1> QED
  BY <1>1, <1>7, <1>8, <1>11

(* getConnection makes a connection when there is none.                    *)
LEMMA WithConnFacts ==
  ASSUME NEW e \in EngineT, ConnOf(e) = 0, DbOf(e) \in Nat, DbOf(e) # 0, e.connInstance = 0
  PROVE  \E K : NewConnection(e, WithConn(e), K)
<1>1. PICK y : y = [db |-> DbOf(e), state |-> "waiting"]
  OBVIOUS
<1>2. y \in ConnT /\ y.state = "waiting" /\ y.db = DbOf(e)
  BY <1>1 DEF ConnT
<1>3. PICK p : p = e.conns
  OBVIOUS
<1>4. p \in Seq(ConnT)
  BY <1>3, EngineParts
<1>5. PICK h : h = Append(p, y)
  OBVIOUS
<1>6. /\ h \in Seq(ConnT) /\ Len(h) = Len(p) + 1 /\ Len(p) \in Nat
      /\ DOMAIN p = 1 .. Len(p) /\ DOMAIN h = 1 .. Len(h)
  BY <1>2, <1>4, <1>5
<1>7. (\A n \in 1 .. Len(p) : h[n] = p[n]) /\ h[Len(p) + 1] = y
  BY <1>2, <1>4, <1>5
<1>8. PICK K : K = Len(p) + 1
  OBVIOUS
<1>9. PICK g : g = [e EXCEPT !.conns = h, !.connPromise = K]
  OBVIOUS
<1>10. K \in Nat \ {0}
  BY <1>6, <1>8
<1>11. /\ g \in EngineT /\ g.dbs = e.dbs /\ g.conns = h
       /\ g.dbInstance = e.dbInstance /\ g.dbPromise = e.dbPromise
       /\ g.connInstance = e.connInstance /\ g.connPromise = K
  BY <1>6, <1>9, <1>10, EngineParts DEF EngineT
<1>12. WithConn(e) = g
  BY <1>1, <1>3, <1>5, <1>8, <1>9 DEF WithConn, WithDb
<1>13. /\ Conns(g) = Conns(e) \cup {K} /\ K \notin Conns(e)
  BY <1>3, <1>6, <1>8, <1>11 DEF Conns
<1>14. \A k \in Conns(e) : DbOfConn(g, k) = DbOfConn(e, k) /\ ConnState(g, k) = ConnState(e, k)
  BY <1>3, <1>6, <1>7, <1>11 DEF Conns, DbOfConn, ConnState
<1>15. DbOfConn(g, K) = DbOf(e) /\ ConnState(g, K) = "waiting"
  BY <1>2, <1>7, <1>8, <1>11 DEF DbOfConn, ConnState
<1>16. Dbs(g) = Dbs(e) /\ \A x \in Dbs(e) : SameDb(e, g, x)
  BY <1>11 DEF Dbs, SameDb, StateOf, FilesOf, Places, Request
<1>17. DbOf(g) = DbOf(e) /\ ConnOf(g) = K
  BY <1>11 DEF DbOf, ConnOf, Max0
<1>18. NewConnection(e, g, K)
  BY <1>10, <1>11, <1>13, <1>14, <1>15, <1>16, <1>17 DEF NewConnection
<1> QED
  BY <1>12, <1>18

(* What it does to the engine that a connection changes.                   *)
LEMMA ConnBecomesFacts ==
  ASSUME NEW e \in EngineT, NEW k \in Conns(e), NEW s \in {"connecting", "open", "failed"}
  PROVE  \E g : /\ g = [e EXCEPT !.conns[k].state = s]
                /\ ConnBecomes(e, g, k, s) /\ ConnOf(g) = ConnOf(e)
                /\ g.connInstance = e.connInstance /\ g.connPromise = e.connPromise
<1>1. e.conns \in Seq(ConnT)
  BY EngineParts
<1>2. e.conns[k] \in ConnT
  BY <1>1 DEF Conns
<1>3. PICK y : y = [e.conns[k] EXCEPT !.state = s]
  OBVIOUS
<1>4. y \in ConnT /\ y.state = s /\ y.db = e.conns[k].db
  BY <1>2, <1>3 DEF ConnT
<1>9. PICK h : h = [e.conns EXCEPT ![k] = y]
  OBVIOUS
<1>10. /\ h \in Seq(ConnT) /\ DOMAIN h = DOMAIN e.conns /\ h[k] = y
       /\ \A x \in DOMAIN e.conns \ {k} : h[x] = e.conns[x]
  BY <1>1, <1>4, <1>9 DEF Conns
<1>11. PICK g : g = [e EXCEPT !.conns = h]
  OBVIOUS
<1>12. /\ g \in EngineT /\ g.dbs = e.dbs /\ g.conns = h
       /\ g.dbInstance = e.dbInstance /\ g.dbPromise = e.dbPromise
       /\ g.connInstance = e.connInstance /\ g.connPromise = e.connPromise
  BY <1>10, <1>11, EngineParts DEF EngineT
<1>13. g = [e EXCEPT !.conns[k].state = s]
  BY <1>3, <1>9, <1>11, EngineParts
<1>14. Dbs(g) = Dbs(e) /\ \A x \in Dbs(e) : SameDb(e, g, x)
  BY <1>12 DEF Dbs, SameDb, StateOf, FilesOf, Places, Request
<1>15. /\ Conns(g) = Conns(e)
       /\ \A i \in Conns(e) : DbOfConn(g, i) = DbOfConn(e, i)
       /\ \A i \in Conns(e) \ {k} : ConnState(g, i) = ConnState(e, i)
       /\ ConnState(g, k) = s
  BY <1>4, <1>10, <1>12 DEF Conns, DbOfConn, ConnState
<1>16. DbOf(g) = DbOf(e) /\ ConnOf(g) = ConnOf(e)
  BY <1>12 DEF DbOf, ConnOf
<1>17. ConnBecomes(e, g, k, s)
  BY <1>12, <1>14, <1>15, <1>16 DEF ConnBecomes
<1> QED
  BY <1>12, <1>13, <1>16, <1>17

(* The promises of setup.ts change, and nothing else.                      *)
LEMMA PromiseFacts ==
  ASSUME NEW e \in EngineT, NEW g, NEW v \in Nat,
         \/ g = [e EXCEPT !.dbInstance = v] \/ g = [e EXCEPT !.dbPromise = v]
         \/ g = [e EXCEPT !.connInstance = v] \/ g = [e EXCEPT !.connPromise = v]
  PROVE  /\ g \in EngineT
         /\ Dbs(g) = Dbs(e) /\ SameConns(e, g) /\ \A x \in Dbs(e) : SameDb(e, g, x)
<1>1. g.dbs = e.dbs /\ g.conns = e.conns
  BY EngineParts
<1>2. g \in EngineT
  BY EngineParts DEF EngineT
<1> QED
  BY <1>1, <1>2 DEF Dbs, Conns, SameConns, SameDb, StateOf, FilesOf, Places, Request, DbOfConn, ConnState

(* What setup.ts holds still exists when nothing goes away.                *)
LEMMA PromisesKept ==
  ASSUME NEW e, NEW g, Promises(e), SameConns(e, g), Dbs(g) = Dbs(e),
         g.dbInstance \in Dbs(e) \cup {0}, g.dbPromise \in Dbs(e) \cup {0},
         g.connInstance \in Conns(e) \cup {0}, g.connPromise \in Conns(e) \cup {0}
  PROVE  Promises(g)
BY DEF Promises, SameConns

(* What getDuckDB and getConnection return exists.                         *)
LEMMA DbOfIsADb ==
  ASSUME NEW e, EngineOK(e)
  PROVE  /\ DbOf(e) \in Dbs(e) \cup {0} /\ ConnOf(e) \in Conns(e) \cup {0}
         /\ 0 \notin Dbs(e) /\ 0 \notin Conns(e) /\ Dbs(e) \subseteq Nat /\ Conns(e) \subseteq Nat
         /\ \A k \in Conns(e) : DbOfConn(e, k) \in Dbs(e)
<1>1. e \in EngineT /\ Promises(e)
  BY DEF EngineOK
<1>2. e.dbs \in Seq(DbT) /\ e.conns \in Seq(ConnT)
  BY <1>1, EngineParts
<1>3. Dbs(e) = 1 .. Len(e.dbs) /\ Len(e.dbs) \in Nat /\ Conns(e) = 1 .. Len(e.conns) /\ Len(e.conns) \in Nat
  BY <1>2 DEF Dbs, Conns
<1> QED
  BY <1>1, <1>3 DEF Promises, DbOf, ConnOf, Max0

(* A request keeps the engine in order.                                    *)
LEMMA EngineSent ==
  ASSUME NEW e, NEW g, NEW d \in Dbs(e), NEW r, NEW X, EngineOK(e), Sent(e, g, d, r, X),
         StateOf(e, d) \in {"ready", "crashed"},
         r.of = "conn" => /\ r.id \in Conns(e) /\ DbOfConn(e, r.id) = d
                          /\ ConnState(e, r.id) # "waiting",
         r.answer = "crash" <=> StateOf(e, d) = "crashed"
  PROVE  EngineOK(g)
<1>1. g \in EngineT
  BY DEF Sent
<1>2. Promises(g)
  BY DEF Promises, EngineOK, Sent, SameConns, SamePromises
<1>3. OneDatabase(g)
  BY DEF Promises, EngineOK, OneDatabase, Sent, SamePromises, SameDb
<1>4. Connections(g)
  <2>1. \A x \in Dbs(e) : StateOf(g, x) = StateOf(e, x)
    BY DEF Sent, SameDb
  <2> QED
    BY <2>1, DbOfIsADb DEF Promises, EngineOK, Connections, Sent, SamePromises, SameConns
<1>5. Queues(g)
  <2>1. \A x \in Dbs(e) : StateOf(g, x) = StateOf(e, x)
    BY DEF Sent, SameDb
  <2>2. PICK N \in Nat :
       /\ Places(g, d) = Places(e, d) \cup {N}
       /\ \A n \in Places(e, d) : n \in Nat /\ n < N /\ Request(g, d, n) = Request(e, d, n)
       /\ Request(g, d, N) = r
    BY DEF Sent
  <2>3. StateOf(e, d) = "ready" => d = DbOf(e)
    BY DEF EngineOK, OneDatabase
  <2>6. Conns(g) = Conns(e) /\ DbOf(g) = DbOf(e) /\ Dbs(g) = Dbs(e)
        /\ \A k \in Conns(e) : /\ DbOfConn(g, k) = DbOfConn(e, k) /\ ConnState(g, k) = ConnState(e, k)
                               /\ DbOfConn(e, k) \in Dbs(e)
    BY DEF Sent, SameConns, SamePromises, EngineOK, Promises
  <2>7. \A x \in Dbs(e) \ {d} : Places(g, x) = Places(e, x) /\ \A n \in Places(e, x) : Request(g, x, n) = Request(e, x, n)
    BY DEF Sent, SameDb
  <2>8. Queues(e)
    BY DEF EngineOK
  <2>4. \A x \in Dbs(g) : \A n \in Places(g, x) :
       /\ StateOf(g, x) \in {"ready", "crashed"}
       /\ Request(g, x, n).of = "conn" =>
            /\ Request(g, x, n).id \in Conns(g)
            /\ DbOfConn(g, Request(g, x, n).id) = x
            /\ ConnState(g, Request(g, x, n).id) # "waiting"
       /\ Request(g, x, n).answer = "crash" =>
            /\ StateOf(g, x) = "crashed"
            /\ \A m \in Places(g, x) : n < m => Request(g, x, m).answer = "crash"
       /\ Request(g, x, n).answer # "crash" => x = DbOf(g)
    BY <2>1, <2>2, <2>3, <2>6, <2>7, <2>8 DEF Queues
  <2>5. \A k \in Conns(g) :
       ConnState(g, k) = "failed" /\ StateOf(g, DbOfConn(g, k)) = "crashed" =>
         \A n \in Places(g, DbOfConn(g, k)) : Request(g, DbOfConn(g, k), n).answer = "crash"
    BY <2>1, <2>2, <2>6, <2>7, <2>8 DEF Queues
  <2> QED
    BY <2>4, <2>5 DEF Queues
<1> QED
  BY <1>1, <1>2, <1>3, <1>4, <1>5 DEF EngineOK

(* So does an answer,                                                      *)
LEMMA EngineShorter ==
  ASSUME NEW e, NEW g, NEW d \in Dbs(e), EngineOK(e), Shorter(e, g, d)
  PROVE  EngineOK(g)
<1>1. g \in EngineT
  BY DEF Shorter
<1>2. Promises(g)
  BY DEF Promises, EngineOK, Shorter, SameConns, SamePromises
<1>3. OneDatabase(g)
  BY DEF Promises, EngineOK, OneDatabase, Shorter, SamePromises, SameDb
<1>4. Connections(g)
  <2>1. \A x \in Dbs(e) : StateOf(g, x) = StateOf(e, x)
    BY DEF Shorter, SameDb
  <2> QED
    BY <2>1, DbOfIsADb DEF Promises, EngineOK, Connections, Shorter, SamePromises, SameConns
<1>5. Queues(g)
  <2>1. \A x \in Dbs(e) : StateOf(g, x) = StateOf(e, x)
    BY DEF Shorter, SameDb
  <2>6. Conns(g) = Conns(e) /\ DbOf(g) = DbOf(e) /\ Dbs(g) = Dbs(e)
        /\ \A k \in Conns(e) : /\ DbOfConn(g, k) = DbOfConn(e, k) /\ ConnState(g, k) = ConnState(e, k)
                               /\ DbOfConn(e, k) \in Dbs(e)
    BY DEF Shorter, SameConns, SamePromises, EngineOK, Promises
  <2>7. \A x \in Dbs(e) \ {d} : Places(g, x) = Places(e, x) /\ \A n \in Places(e, x) : Request(g, x, n) = Request(e, x, n)
    BY DEF Shorter, SameDb
  <2>2. \A n \in Places(g, d) : n \in Nat /\ n + 1 \in Places(e, d) /\ Request(g, d, n) = Request(e, d, n + 1)
    BY DEF Shorter
  <2>8. Queues(e)
    BY DEF EngineOK
  <2>4. \A x \in Dbs(g) : \A n \in Places(g, x) :
       /\ StateOf(g, x) \in {"ready", "crashed"}
       /\ Request(g, x, n).of = "conn" =>
            /\ Request(g, x, n).id \in Conns(g)
            /\ DbOfConn(g, Request(g, x, n).id) = x
            /\ ConnState(g, Request(g, x, n).id) # "waiting"
       /\ Request(g, x, n).answer = "crash" =>
            /\ StateOf(g, x) = "crashed"
            /\ \A m \in Places(g, x) : n < m => Request(g, x, m).answer = "crash"
       /\ Request(g, x, n).answer # "crash" => x = DbOf(g)
    BY <2>1, <2>2, <2>6, <2>7, <2>8 DEF Queues
  <2>5. \A k \in Conns(g) :
       ConnState(g, k) = "failed" /\ StateOf(g, DbOfConn(g, k)) = "crashed" =>
         \A n \in Places(g, DbOfConn(g, k)) : Request(g, DbOfConn(g, k), n).answer = "crash"
    BY <2>1, <2>2, <2>6, <2>7, <2>8 DEF Queues
  <2> QED
    BY <2>4, <2>5 DEF Queues
<1> QED
  BY <1>1, <1>2, <1>3, <1>4, <1>5 DEF EngineOK

(* a database that replaces none, or one that crashed and has only errors  *)
(* to answer,                                                              *)
LEMMA EngineNewDatabase ==
  ASSUME NEW e, NEW g, NEW N, EngineOK(e), NewDatabase(e, g, N),
         DbOf(e) # 0 => /\ StateOf(e, DbOf(e)) = "crashed"
                        /\ \A n \in Places(e, DbOf(e)) : Request(e, DbOf(e), n).answer = "crash"
                        /\ g.connInstance = 0 /\ ConnOf(g) = 0
  PROVE  EngineOK(g)
<1>1. g \in EngineT
  BY DEF NewDatabase
<1>2. Promises(g)
  BY DEF Promises, EngineOK, NewDatabase, SameConns
<1>6. /\ Dbs(g) = Dbs(e) \cup {N} /\ N \notin Dbs(e) /\ StateOf(g, N) = "starting" /\ Places(g, N) = {}
      /\ \A x \in Dbs(e) : StateOf(g, x) = StateOf(e, x) /\ Places(g, x) = Places(e, x)
      /\ \A x \in Dbs(e) : \A n \in Places(e, x) : Request(g, x, n) = Request(e, x, n)
      /\ g.dbInstance = 0 /\ g.dbPromise = N /\ DbOf(g) = N
      /\ Conns(g) = Conns(e)
      /\ \A k \in Conns(e) : /\ DbOfConn(g, k) = DbOfConn(e, k) /\ ConnState(g, k) = ConnState(e, k)
                             /\ DbOfConn(e, k) \in Dbs(e)
  BY DEF NewDatabase, SameDb, SameConns, EngineOK, Promises
<1>7. /\ DbOf(e) \in Dbs(e) \cup {0} /\ ConnOf(e) \in Conns(e) \cup {0}
      /\ 0 \notin Dbs(e) /\ 0 \notin Conns(e)
  BY DbOfIsADb
<1>8. OneDatabase(e) /\ Connections(e) /\ Queues(e)
  BY DEF EngineOK
<1>3. OneDatabase(g)
  BY <1>6, <1>7, <1>8 DEF OneDatabase
<1>9. \A x \in Dbs(e) : \A n \in Places(e, x) : Request(e, x, n).answer = "crash"
  BY <1>7, <1>8 DEF Queues
<1>4. Connections(g)
  <2>1. \/ g.connInstance = e.connInstance /\ ConnOf(g) = ConnOf(e)
        \/ g.connInstance = 0 /\ ConnOf(g) = 0
    BY DEF NewDatabase
  <2>2. e.connInstance \in Conns(e) \cup {0}
    BY DEF EngineOK, Promises
  <2> QED
    BY <1>6, <1>7, <1>8, <2>1, <2>2 DEF Connections
<1>5. Queues(g)
  BY <1>6, <1>8, <1>9 DEF Queues
<1> QED
  BY <1>1, <1>2, <1>3, <1>4, <1>5 DEF EngineOK

(* a connection to the current database,                                   *)
LEMMA EngineNewConnection ==
  ASSUME NEW e, NEW g, NEW K, EngineOK(e), NewConnection(e, g, K), DbOf(e) # 0
  PROVE  EngineOK(g)
<1>1. g \in EngineT
  BY DEF NewConnection
<1>6. /\ Dbs(g) = Dbs(e)
      /\ \A x \in Dbs(e) : StateOf(g, x) = StateOf(e, x) /\ Places(g, x) = Places(e, x)
      /\ \A x \in Dbs(e) : \A n \in Places(e, x) : Request(g, x, n) = Request(e, x, n)
      /\ g.dbInstance = e.dbInstance /\ g.dbPromise = e.dbPromise /\ DbOf(g) = DbOf(e)
      /\ Conns(g) = Conns(e) \cup {K} /\ K \notin Conns(e)
      /\ \A k \in Conns(e) : /\ DbOfConn(g, k) = DbOfConn(e, k) /\ ConnState(g, k) = ConnState(e, k)
                             /\ DbOfConn(e, k) \in Dbs(e)
      /\ DbOfConn(g, K) = DbOf(e) /\ ConnState(g, K) = "waiting"
      /\ g.connInstance = 0 /\ g.connPromise = K /\ ConnOf(g) = K
  BY DEF NewConnection, SameDb, EngineOK, Promises
<1>7. /\ DbOf(e) \in Dbs(e) \cup {0}
  BY DbOfIsADb
<1>8. OneDatabase(e) /\ Connections(e) /\ Queues(e) /\ Promises(e)
  BY DEF EngineOK
<1>2. Promises(g)
  BY <1>6, <1>7, <1>8 DEF Promises
<1>3. OneDatabase(g)
  BY <1>6, <1>7, <1>8 DEF OneDatabase, Promises
<1>4. Connections(g)
  BY <1>6, <1>7, <1>8 DEF Connections
<1>5. Queues(g)
  BY <1>6, <1>8 DEF Queues
<1> QED
  BY <1>1, <1>2, <1>3, <1>4, <1>5 DEF EngineOK

(* a crash,                                                                *)
LEMMA EngineCrashes ==
  ASSUME NEW e, NEW g, NEW d \in Dbs(e), EngineOK(e), DbBecomes(e, g, d, "crashed"),
         SamePromises(e, g), StateOf(e, d) = "ready"
  PROVE  EngineOK(g)
<1>1. g \in EngineT
  BY DEF DbBecomes
<1>6. /\ Dbs(g) = Dbs(e) /\ StateOf(g, d) = "crashed"
      /\ \A x \in Dbs(e) \ {d} : StateOf(g, x) = StateOf(e, x)
      /\ \A x \in Dbs(e) : Places(g, x) = Places(e, x)
      /\ \A x \in Dbs(e) : \A n \in Places(e, x) : Request(g, x, n) = Request(e, x, n)
      /\ g.dbInstance = e.dbInstance /\ g.dbPromise = e.dbPromise /\ DbOf(g) = DbOf(e)
      /\ g.connInstance = e.connInstance /\ g.connPromise = e.connPromise /\ ConnOf(g) = ConnOf(e)
      /\ Conns(g) = Conns(e)
      /\ \A k \in Conns(e) : /\ DbOfConn(g, k) = DbOfConn(e, k) /\ ConnState(g, k) = ConnState(e, k)
                             /\ DbOfConn(e, k) \in Dbs(e)
  BY DEF DbBecomes, SameDb, SameConns, SamePromises, EngineOK, Promises
<1>7. /\ DbOf(e) \in Dbs(e) \cup {0} /\ ConnOf(e) \in Conns(e) \cup {0}
  BY DbOfIsADb
<1>8. OneDatabase(e) /\ Connections(e) /\ Queues(e) /\ Promises(e)
  BY DEF EngineOK
<1>2. Promises(g)
  BY <1>6, <1>8 DEF Promises
<1>3. OneDatabase(g)
  BY <1>6, <1>7, <1>8 DEF OneDatabase, Promises
<1>4. Connections(g)
  BY <1>6, <1>7, <1>8 DEF Connections, Promises
<1>5. Queues(g)
  BY <1>6, <1>8 DEF Queues, Connections
<1> QED
  BY <1>1, <1>2, <1>3, <1>4, <1>5 DEF EngineOK

(* a start, which can only be that of the current database,                *)
LEMMA EngineStarts ==
  ASSUME NEW e, NEW g, NEW d \in Dbs(e), EngineOK(e), DbBecomes(e, g, d, "ready"),
         StateOf(e, d) = "starting",
         g.dbInstance = d, g.dbPromise = e.dbPromise
  PROVE  EngineOK(g) /\ DbOf(g) = DbOf(e) /\ DbOf(e) = d
<1>1. g \in EngineT
  BY DEF DbBecomes
<1>8. OneDatabase(e) /\ Connections(e) /\ Queues(e) /\ Promises(e)
  BY DEF EngineOK
<1>7. /\ DbOf(e) \in Dbs(e) \cup {0} /\ ConnOf(e) \in Conns(e) \cup {0} /\ 0 \notin Dbs(e)
  BY DbOfIsADb
<1>9. d = DbOf(e) /\ e.dbInstance = 0 /\ e.dbPromise = d /\ DbOf(g) = d
  BY <1>7, <1>8 DEF OneDatabase, DbOf, Max0
<1>6. /\ Dbs(g) = Dbs(e) /\ StateOf(g, d) = "ready"
      /\ \A x \in Dbs(e) \ {d} : StateOf(g, x) = StateOf(e, x)
      /\ \A x \in Dbs(e) : Places(g, x) = Places(e, x)
      /\ \A x \in Dbs(e) : \A n \in Places(e, x) : Request(g, x, n) = Request(e, x, n)
      /\ g.connInstance = e.connInstance /\ g.connPromise = e.connPromise /\ ConnOf(g) = ConnOf(e)
      /\ Conns(g) = Conns(e)
      /\ \A k \in Conns(e) : /\ DbOfConn(g, k) = DbOfConn(e, k) /\ ConnState(g, k) = ConnState(e, k)
                             /\ DbOfConn(e, k) \in Dbs(e)
  BY DEF DbBecomes, SameDb, SameConns, EngineOK, Promises
<1>2. Promises(g)
  BY <1>6, <1>8 DEF Promises
<1>3. OneDatabase(g)
  BY <1>6, <1>8, <1>9 DEF OneDatabase
<1>4. Connections(g)
  BY <1>6, <1>7, <1>8, <1>9 DEF Connections, Promises
<1>5. Queues(g)
  BY <1>6, <1>8, <1>9 DEF Queues
<1> QED
  BY <1>1, <1>2, <1>3, <1>4, <1>5, <1>9 DEF EngineOK

(* and a start that fails, which leaves none.                              *)
LEMMA EngineDoesNotStart ==
  ASSUME NEW e, NEW g, NEW d \in Dbs(e), EngineOK(e), DbBecomes(e, g, d, "failed"),
         StateOf(e, d) = "starting",
         g.dbInstance = e.dbInstance, g.dbPromise = 0
  PROVE  EngineOK(g) /\ DbOf(g) = 0 /\ DbOf(e) = d
<1>1. g \in EngineT
  BY DEF DbBecomes
<1>8. OneDatabase(e) /\ Connections(e) /\ Queues(e) /\ Promises(e)
  BY DEF EngineOK
<1>7. /\ DbOf(e) \in Dbs(e) \cup {0} /\ ConnOf(e) \in Conns(e) \cup {0} /\ 0 \notin Dbs(e)
  BY DbOfIsADb
<1>9. d = DbOf(e) /\ e.dbInstance = 0 /\ e.dbPromise = d /\ DbOf(g) = 0
  BY <1>7, <1>8 DEF OneDatabase, DbOf, Max0
<1>6. /\ Dbs(g) = Dbs(e) /\ StateOf(g, d) = "failed"
      /\ \A x \in Dbs(e) \ {d} : StateOf(g, x) = StateOf(e, x)
      /\ \A x \in Dbs(e) : Places(g, x) = Places(e, x)
      /\ \A x \in Dbs(e) : \A n \in Places(e, x) : Request(g, x, n) = Request(e, x, n)
      /\ g.connInstance = e.connInstance /\ g.connPromise = e.connPromise /\ ConnOf(g) = ConnOf(e)
      /\ Conns(g) = Conns(e)
      /\ \A k \in Conns(e) : /\ DbOfConn(g, k) = DbOfConn(e, k) /\ ConnState(g, k) = ConnState(e, k)
                             /\ DbOfConn(e, k) \in Dbs(e)
      /\ \A k \in Conns(e) : ConnState(e, k) \in {"waiting", "connecting", "open", "failed"}
  <2>1. \A k \in Conns(e) : ConnState(e, k) \in {"waiting", "connecting", "open", "failed"}
    <3>1. e.conns \in Seq(ConnT)
      BY EngineParts DEF EngineOK
    <3>2. \A k \in DOMAIN e.conns : e.conns[k] \in ConnT
      BY <3>1
    <3> QED
      BY <3>2 DEF Conns, ConnState, ConnT
  <2> QED
    BY <2>1 DEF DbBecomes, SameDb, SameConns, EngineOK, Promises
<1>2. Promises(g)
  BY <1>6, <1>8, <1>9 DEF Promises
<1>3. OneDatabase(g)
  BY <1>6, <1>8, <1>9 DEF OneDatabase
<1>10. e.connInstance = 0
  BY <1>6, <1>8, <1>9 DEF Connections, Promises
<1>4. Connections(g)
  BY <1>6, <1>7, <1>8, <1>9, <1>10 DEF Connections
<1>5. Queues(g)
  BY <1>6, <1>8, <1>9 DEF Queues
<1> QED
  BY <1>1, <1>2, <1>3, <1>4, <1>5, <1>9 DEF EngineOK

ConnFacts(e, g, k) ==
  /\ Dbs(g) = Dbs(e)
  /\ \A x \in Dbs(e) : StateOf(g, x) = StateOf(e, x) /\ Places(g, x) = Places(e, x)
  /\ \A x \in Dbs(e) : \A n \in Places(e, x) : Request(g, x, n) = Request(e, x, n)
  /\ g.dbInstance = e.dbInstance /\ g.dbPromise = e.dbPromise /\ DbOf(g) = DbOf(e)
  /\ Conns(g) = Conns(e)
  /\ \A i \in Conns(e) : DbOfConn(g, i) = DbOfConn(e, i) /\ DbOfConn(e, i) \in Dbs(e)
  /\ \A i \in Conns(e) \ {k} : ConnState(g, i) = ConnState(e, i)

(* A connection turns from waiting to connecting.                          *)
LEMMA EngineConnecting ==
  ASSUME NEW e, NEW g, NEW k \in Conns(e), EngineOK(e), ConnBecomes(e, g, k, "connecting"),
         ConnOf(g) = ConnOf(e), g.connInstance = e.connInstance, g.connPromise = e.connPromise,
         StateOf(e, DbOfConn(e, k)) \in {"ready", "crashed"}, ConnState(e, k) = "waiting"
  PROVE  EngineOK(g)
<1>1. g \in EngineT
  BY DEF ConnBecomes
<1>8. OneDatabase(e) /\ Connections(e) /\ Queues(e) /\ Promises(e)
  BY DEF EngineOK
<1>7. ConnOf(e) \in Conns(e) \cup {0} /\ 0 \notin Conns(e)
  BY DbOfIsADb
<1>6. ConnFacts(e, g, k) /\ ConnState(g, k) = "connecting"
  BY DEF ConnBecomes, SameDb, EngineOK, Promises, ConnFacts
<1>2. Promises(g)
  BY <1>6, <1>8 DEF Promises, ConnFacts
<1>3. OneDatabase(g)
  BY <1>6, <1>8 DEF OneDatabase, ConnFacts, Promises
<1>4. Connections(g)
  BY <1>6, <1>7, <1>8 DEF Connections, ConnFacts, Promises
<1>5. Queues(g)
  BY <1>6, <1>8 DEF Queues, ConnFacts
<1> QED
  BY <1>1, <1>2, <1>3, <1>4, <1>5 DEF EngineOK

(* A connection opens, to the current database only.                       *)
LEMMA EngineConnected ==
  ASSUME NEW e, NEW g, NEW k \in Conns(e), EngineOK(e), ConnBecomes(e, g, k, "open"),
         g.connInstance = k, g.connPromise = e.connPromise,
         StateOf(e, DbOfConn(e, k)) \in {"ready", "crashed"}, DbOfConn(e, k) = DbOf(e)
  PROVE  EngineOK(g)
<1>1. g \in EngineT
  BY DEF ConnBecomes
<1>8. OneDatabase(e) /\ Connections(e) /\ Queues(e) /\ Promises(e)
  BY DEF EngineOK
<1>7. ConnOf(e) \in Conns(e) \cup {0} /\ 0 \notin Conns(e) /\ ConnOf(g) = k
  BY DbOfIsADb DEF ConnOf, Max0
<1>6. ConnFacts(e, g, k) /\ ConnState(g, k) = "open"
  BY DEF ConnBecomes, SameDb, EngineOK, Promises, ConnFacts
<1>2. Promises(g)
  BY <1>6, <1>8 DEF Promises, ConnFacts
<1>3. OneDatabase(g)
  BY <1>6, <1>8 DEF OneDatabase, ConnFacts, Promises
<1>4. Connections(g)
  BY <1>6, <1>7, <1>8 DEF Connections, ConnFacts, Promises
<1>5. Queues(g)
  BY <1>6, <1>8 DEF Queues, ConnFacts
<1> QED
  BY <1>1, <1>2, <1>3, <1>4, <1>5 DEF EngineOK

(* A connection fails, because its database did or crashed.                *)
LEMMA EngineDoesNotConnect ==
  ASSUME NEW e, NEW g, NEW k \in Conns(e), EngineOK(e), ConnBecomes(e, g, k, "failed"),
         g.connInstance = e.connInstance, g.connPromise = 0,
         StateOf(e, DbOfConn(e, k)) \in {"failed", "crashed"},
         StateOf(e, DbOfConn(e, k)) = "crashed" =>
           \A n \in Places(e, DbOfConn(e, k)) : Request(e, DbOfConn(e, k), n).answer = "crash"
  PROVE  EngineOK(g)
<1>1. g \in EngineT
  BY DEF ConnBecomes
<1>8. OneDatabase(e) /\ Connections(e) /\ Queues(e) /\ Promises(e)
  BY DEF EngineOK
<1>7. ConnOf(g) = e.connInstance
  BY DEF ConnOf, Max0
<1>6. ConnFacts(e, g, k) /\ ConnState(g, k) = "failed"
  BY DEF ConnBecomes, SameDb, EngineOK, Promises, ConnFacts
<1>2. Promises(g)
  BY <1>6, <1>8 DEF Promises, ConnFacts
<1>3. OneDatabase(g)
  BY <1>6, <1>8 DEF OneDatabase, ConnFacts, Promises
<1>4. Connections(g)
  BY <1>6, <1>7, <1>8 DEF Connections, ConnFacts, Promises
<1>5. Queues(g)
  BY <1>6, <1>8 DEF Queues, ConnFacts
<1> QED
  BY <1>1, <1>2, <1>3, <1>4, <1>5 DEF EngineOK
(* No request of c is on its way.                                          *)
Free(e, c) ==
  \A d \in Dbs(e) : \A n \in Places(e, d) :
    ~ (Request(e, d, n).of = "caller" /\ Request(e, d, n).id = c)

(* What c has asked for, if anything, is another registration.             *)
Settles(e, cs, ds, c) == 
  Free(e, c) \/ (cs[c].pc = "again" /\ ds[c].pc = "again" /\ ds[c].db = cs[c].db)

(* The call of c, and no other, changes from cs to ds.                     *)
Moved(cs, ds, c) ==
  /\ ds = [b \in Callers |-> ds[b]]
  /\ \A b \in Callers \ {c} : ds[b] = cs[b]

StayUp(e, g) ==
  \A x \in Dbs(e) : StateOf(e, x) \in {"ready", "crashed"} => StateOf(g, x) \in {"ready", "crashed"}

(* The databases and connections of e are in g what they were for a caller.*)
Grown(e, g) ==
  /\ Dbs(e) \subseteq Dbs(g) /\ Conns(e) \subseteq Conns(g) /\ StayUp(e, g)
  /\ \A k \in Conns(e) : DbOfConn(g, k) = DbOfConn(e, k)
  /\ \A x \in Dbs(e) : Places(g, x) = Places(e, x)
  /\ \A x \in Dbs(e) : \A n \in Places(e, x) : Request(g, x, n) = Request(e, x, n)
  /\ \A x \in Dbs(g) \ Dbs(e) : Places(g, x) = {}

(* An update of one call moves no other.                                   *)
LEMMA MovedFacts ==
  ASSUME NEW cs, NEW c \in Callers, NEW new, cs = [b \in Callers |-> cs[b]]
  PROVE  Moved(cs, [cs EXCEPT ![c] = new], c) /\ [cs EXCEPT ![c] = new][c] = new
BY DEF Moved

(* A caller that waits for no answer has no request on its way.            *)
LEMMA FreeIfNotAsking ==
  ASSUME NEW e, NEW cs, NEW c, CallsOK(e, cs),
         cs[c].pc \notin {"query", "file", "drop", "undo", "again"}
  PROVE  Free(e, c)
<1> SUFFICES ASSUME NEW d \in Dbs(e), NEW n \in Places(e, d),
                    Request(e, d, n).of = "caller", Request(e, d, n).id = c
             PROVE  FALSE
  BY DEF Free
<1>1. CallerOK(e, cs, d, n)
  BY DEF CallsOK
<1> QED
  BY <1>1 DEF CallerOK, Asks

(* A call stays well formed when nothing goes away.                        *)
LEMMA CallKept ==
  ASSUME NEW e, NEW g, NEW call, CallOK(e, call), Dbs(e) \subseteq Dbs(g), Conns(e) \subseteq Conns(g),
         StayUp(e, g)
  PROVE  CallOK(g, call)
BY DEF CallOK, StayUp, NoCall

(* So do the calls together.                                               *)
LEMMA CallsGrown ==
  ASSUME NEW e, NEW g, NEW cs, CallsOK(e, cs), Grown(e, g)
  PROVE  CallsOK(g, cs)
<1>1. \A c \in Callers : CallOK(g, cs[c])
  <2> SUFFICES ASSUME NEW c \in Callers PROVE CallOK(g, cs[c])
    OBVIOUS
  <2>1. CallOK(e, cs[c]) /\ Dbs(e) \subseteq Dbs(g) /\ Conns(e) \subseteq Conns(g) /\ StayUp(e, g)
    BY DEF CallsOK, StayUp, SameDb, Grown
  <2> QED
    BY <2>1, CallKept
<1>2. \A d \in Dbs(g) : \A n \in Places(g, d) : CallerOK(g, cs, d, n)
  <2> SUFFICES ASSUME NEW d \in Dbs(g), NEW n \in Places(g, d), Request(g, d, n).of = "caller"
               PROVE  /\ Request(g, d, n).id \in Callers
                      /\ Asks(cs, Request(g, d, n).id, d, g)
                      /\ Request(g, d, n).answer = "bad" => cs[Request(g, d, n).id].kind = "load"
                      /\ \A m \in Places(g, d) :
                            Request(g, d, m).of = "caller" /\ Request(g, d, m).id = Request(g, d, n).id => m = n
    BY DEF CallerOK
  <2>1. d \in Dbs(e) /\ n \in Places(e, d) /\ Places(g, d) = Places(e, d)
    BY DEF Grown
  <2>2. \A m \in Places(e, d) : Request(g, d, m) = Request(e, d, m)
    BY <2>1 DEF Grown
  <2>3. PICK c : c = Request(g, d, n).id
    OBVIOUS
  <2>4. /\ c \in Callers /\ Asks(cs, c, d, e)
        /\ Request(g, d, n).answer = "bad" => cs[c].kind = "load"
        /\ \A m \in Places(e, d) : Request(e, d, m).of = "caller" /\ Request(e, d, m).id = c => m = n
    <3>1. CallerOK(e, cs, d, n)
      BY <2>1 DEF CallsOK
    <3> QED
      BY <2>1, <2>2, <2>3, <3>1 DEF CallerOK
  <2>5. Asks(cs, c, d, g)
    <3>1. CallOK(e, cs[c]) /\ cs[c].pc # "idle"
      BY <2>4 DEF CallsOK, Asks
    <3>2. cs[c].pc = "query" => cs[c].conn \in Conns(e)
      BY <3>1 DEF CallOK, NoCall
    <3> QED
      BY <2>4, <3>2 DEF Asks, Grown
  <2> QED
    BY <2>1, <2>2, <2>3, <2>4, <2>5
<1> QED
  BY <1>1, <1>2 DEF CallsOK

(* The calls and the queues agree after c has moved,                       *)
LEMMA CallsMoved ==
  ASSUME NEW e, NEW cs, NEW ds, NEW c \in Callers, CallsOK(e, cs), Moved(cs, ds, c),
         Settles(e, cs, ds, c), CallOK(e, ds[c])
  PROVE  CallsOK(e, ds)
<1>1. \A b \in Callers : CallOK(e, ds[b])
  BY DEF CallsOK, Moved
<1>2. \A d \in Dbs(e) : \A n \in Places(e, d) : CallerOK(e, ds, d, n)
  <2> SUFFICES ASSUME NEW d \in Dbs(e), NEW n \in Places(e, d) PROVE CallerOK(e, ds, d, n)
    OBVIOUS
  <2>1. CallerOK(e, cs, d, n)
    BY DEF CallsOK
  <2>3. Request(e, d, n).of = "caller" /\ Request(e, d, n).id = c =>
          cs[c].pc = "again" /\ ds[c].pc = "again" /\ ds[c].db = cs[c].db
    BY DEF Settles, Free
  <2>4. cs[c].pc = "again" => cs[c].kind = "tile"
    <3>1. CallOK(e, cs[c])
      BY DEF CallsOK
    <3> QED
      BY <3>1 DEF CallOK, NoCall
  <2>5. Request(e, d, n).of = "caller" /\ Request(e, d, n).id = c => Request(e, d, n).answer # "bad"
    BY <2>1, <2>3, <2>4 DEF CallerOK
  <2>2. \A b \in Callers \ {c} : ds[b] = cs[b]
    BY DEF Moved
  <2> QED
    BY <2>1, <2>2, <2>3, <2>5 DEF CallerOK, Asks
<1> QED
  BY <1>1, <1>2 DEF CallsOK, Moved

(* after a request of a caller that has no other on its way,               *)
LEMMA CallsSent ==
  ASSUME NEW e, NEW g, NEW d \in Dbs(e), NEW r, NEW X, NEW cs, CallsOK(e, cs), Sent(e, g, d, r, X),
         r.of = "caller" => /\ r.id \in Callers /\ Free(e, r.id) /\ Asks(cs, r.id, d, e)
                            /\ r.answer = "bad" => cs[r.id].kind = "load"
  PROVE  CallsOK(g, cs)
<1>1. \A c \in Callers : CallOK(g, cs[c])
  <2> SUFFICES ASSUME NEW c \in Callers PROVE CallOK(g, cs[c])
    OBVIOUS
  <2>1. CallOK(e, cs[c]) /\ Dbs(e) \subseteq Dbs(g) /\ Conns(e) \subseteq Conns(g) /\ StayUp(e, g)
    BY DEF CallsOK, StayUp, SameDb, Sent, SameConns
  <2> QED
    BY <2>1, CallKept
<1>3. \A c \in Callers, x \in Dbs(e) : Asks(cs, c, x, e) => Asks(cs, c, x, g)
  <2> SUFFICES ASSUME NEW c \in Callers, NEW x \in Dbs(e), Asks(cs, c, x, e) PROVE Asks(cs, c, x, g)
    OBVIOUS
  <2>1. CallOK(e, cs[c]) /\ cs[c].pc # "idle"
    BY DEF CallsOK, Asks
  <2>2. cs[c].pc = "query" => cs[c].conn \in Conns(e)
    BY <2>1 DEF CallOK, NoCall
  <2> QED
    BY <2>2 DEF Asks, Sent, SameConns
<1>4. PICK N \in Nat :
       /\ Places(g, d) = Places(e, d) \cup {N}
       /\ \A n \in Places(e, d) : n \in Nat /\ n < N /\ Request(g, d, n) = Request(e, d, n)
       /\ Request(g, d, N) = r
  BY DEF Sent
<1>5. Dbs(g) = Dbs(e)
  BY DEF Sent
<1>6. \A x \in Dbs(e) \ {d} : Places(g, x) = Places(e, x) /\ \A n \in Places(e, x) : Request(g, x, n) = Request(e, x, n)
  BY DEF Sent, SameDb
<1>2. \A x \in Dbs(g) : \A n \in Places(g, x) : CallerOK(g, cs, x, n)
  <2> SUFFICES ASSUME NEW x \in Dbs(e), NEW n \in Places(g, x), Request(g, x, n).of = "caller"
               PROVE  /\ Request(g, x, n).id \in Callers
                      /\ Asks(cs, Request(g, x, n).id, x, g)
                      /\ Request(g, x, n).answer = "bad" => cs[Request(g, x, n).id].kind = "load"
                      /\ \A m \in Places(g, x) :
                            Request(g, x, m).of = "caller" /\ Request(g, x, m).id = Request(g, x, n).id => m = n
    BY <1>5 DEF CallerOK
  <2>0. x # d => CallerOK(e, cs, x, n)
    BY <1>6 DEF CallsOK
  <2>1. CASE x # d
    BY <2>0, <2>1, <1>3, <1>6 DEF CallerOK
  <2>2. CASE x = d /\ n = N
    BY <2>2, <1>3, <1>4 DEF Free
  <2>3. CASE x = d /\ n # N
    <3>1. CallerOK(e, cs, d, n)
      BY <2>3, <1>4 DEF CallsOK
    <3> QED
      BY <2>3, <1>3, <1>4, <3>1 DEF CallerOK, Free
  <2> QED
    BY <2>1, <2>2, <2>3
<1> QED
  BY <1>1, <1>2 DEF CallsOK

(* and after an answer, which leaves its caller with none.                 *)
LEMMA CallsShorter ==
  ASSUME NEW e, NEW g, NEW d \in Dbs(e), NEW cs, CallsOK(e, cs), Shorter(e, g, d)
  PROVE  /\ CallsOK(g, cs)
         /\ Request(e, d, 1).of = "caller" => Free(g, Request(e, d, 1).id)
<1>1. \A c \in Callers : CallOK(g, cs[c])
  <2> SUFFICES ASSUME NEW c \in Callers PROVE CallOK(g, cs[c])
    OBVIOUS
  <2>1. CallOK(e, cs[c]) /\ Dbs(e) \subseteq Dbs(g) /\ Conns(e) \subseteq Conns(g) /\ StayUp(e, g)
    BY DEF CallsOK, StayUp, SameDb, Shorter, SameConns
  <2> QED
    BY <2>1, CallKept
<1>3. \A c \in Callers, x \in Dbs(e) : Asks(cs, c, x, e) => Asks(cs, c, x, g)
  <2> SUFFICES ASSUME NEW c \in Callers, NEW x \in Dbs(e), Asks(cs, c, x, e) PROVE Asks(cs, c, x, g)
    OBVIOUS
  <2>1. CallOK(e, cs[c]) /\ cs[c].pc # "idle"
    BY DEF CallsOK, Asks
  <2>2. cs[c].pc = "query" => cs[c].conn \in Conns(e)
    BY <2>1 DEF CallOK, NoCall
  <2> QED
    BY <2>2 DEF Asks, Shorter, SameConns
<1>4. /\ 1 \in Places(e, d)
      /\ \A n \in Places(g, d) : n \in Nat /\ n >= 1 /\ n + 1 \in Places(e, d)
                             /\ Request(g, d, n) = Request(e, d, n + 1)
  BY DEF Shorter
<1>5. Dbs(g) = Dbs(e)
  BY DEF Shorter
<1>6. \A x \in Dbs(e) \ {d} : Places(g, x) = Places(e, x) /\ \A n \in Places(e, x) : Request(g, x, n) = Request(e, x, n)
  BY DEF Shorter, SameDb
<1>2. \A x \in Dbs(g) : \A n \in Places(g, x) : CallerOK(g, cs, x, n)
  <2> SUFFICES ASSUME NEW x \in Dbs(e), NEW n \in Places(g, x), Request(g, x, n).of = "caller"
               PROVE  /\ Request(g, x, n).id \in Callers
                      /\ Asks(cs, Request(g, x, n).id, x, g)
                      /\ Request(g, x, n).answer = "bad" => cs[Request(g, x, n).id].kind = "load"
                      /\ \A m \in Places(g, x) :
                            Request(g, x, m).of = "caller" /\ Request(g, x, m).id = Request(g, x, n).id => m = n
    BY <1>5 DEF CallerOK
  <2>0. x # d => CallerOK(e, cs, x, n)
    BY <1>6 DEF CallsOK
  <2>1. CASE x # d
    BY <2>0, <2>1, <1>3, <1>6 DEF CallerOK
  <2>2. CASE x = d
    <3>0. CallerOK(e, cs, d, n + 1) /\ Request(g, x, n) = Request(e, d, n + 1)
      BY <2>2, <1>4 DEF CallsOK
    <3>1. /\ Request(g, x, n).id \in Callers /\ Asks(cs, Request(g, x, n).id, x, g)
          /\ Request(g, x, n).answer = "bad" => cs[Request(g, x, n).id].kind = "load"
      BY <2>2, <1>3, <3>0 DEF CallerOK
    <3>2. ASSUME NEW m \in Places(g, x), Request(g, x, m).of = "caller", Request(g, x, m).id = Request(g, x, n).id
          PROVE  m = n
      <4>1. m + 1 = n + 1
        BY <2>2, <3>2, <1>4, <3>0 DEF CallerOK
      <4> QED
        BY <2>2, <4>1, <1>4
    <3> QED
      BY <3>1, <3>2
  <2> QED
    BY <2>1, <2>2
<1>7. ASSUME Request(e, d, 1).of = "caller" PROVE Free(g, Request(e, d, 1).id)
  <2>1. PICK c : c = Request(e, d, 1).id
    OBVIOUS
  <2> SUFFICES ASSUME NEW x \in Dbs(e), NEW n \in Places(g, x), Request(g, x, n).of = "caller", Request(g, x, n).id = c
               PROVE  FALSE
    BY <2>1, <1>5 DEF Free
  <2>2. Asks(cs, c, d, e)
    BY <1>4, <1>7, <2>1 DEF CallsOK, CallerOK
  <2>3. CASE x = d
    <3>1. n + 1 = 1
      BY <2>1, <2>3, <1>4, <1>7 DEF CallsOK, CallerOK
    <3> QED
      BY <3>1, <2>3, <1>4
  <2>4. CASE x # d
    <3>1. Asks(cs, c, x, e)
      BY <1>6, <2>4 DEF CallsOK, CallerOK
    <3> QED
      BY <2>2, <2>4, <3>1 DEF Asks
  <2> QED
    BY <2>3, <2>4
<1> QED
  BY <1>1, <1>2, <1>7 DEF CallsOK

(* A call that goes on, or ends, loads no other file.                      *)
LEMMA FilesOnceMoved ==
  ASSUME NEW cs, NEW ds, NEW reg, NEW us, NEW c \in Callers, FilesOnce(cs, reg, us), Moved(cs, ds, c),
         ds[c].kind # "none" => ds[c].kind = cs[c].kind /\ ds[c].file = cs[c].file,
         ds[c].kind # "none" /\ Active(ds[c]) => Active(cs[c])
  PROVE  FilesOnce(ds, reg, us)
BY DEF FilesOnce, Moved

(* A deletion that has been sent is still sent after another request.      *)
LEMMA DropStaysSent ==
  ASSUME NEW e, NEW g, NEW d \in Dbs(e), NEW r, NEW X, NEW cs, NEW f, NEW x \in Dbs(e),
         Sent(e, g, d, r, X), DropSent(e, cs, f, x)
  PROVE  DropSent(g, cs, f, x)
<1>1. PICK n \in Places(e, x) : DropAt(e, cs, f, x, n)
  BY DEF DropSent
<1>2. n \in Places(g, x) /\ Request(g, x, n) = Request(e, x, n)
  BY DEF Sent, SameDb
<1> QED
  BY <1>1, <1>2 DEF DropAt, DropSent

(* Sources keep their files when a request is sent: it takes the file of a *)
(* source away only for its deletion, and a query that finds its file is   *)
(* put to a database that has it.                                          *)
LEMMA RegisteredSent ==
  ASSUME NEW e, NEW g, NEW d \in Dbs(e), NEW r, NEW X, NEW cs, NEW reg,
         EngineOK(e), CallsOK(e, cs), Registered(e, cs, reg), Sent(e, g, d, r, X),
         StateOf(e, d) = "ready" =>
           /\ \A f \in FilesOf(e, d) \ X :
                /\ f \in reg => r.of = "caller" /\ cs[r.id].pc = "drop" /\ cs[r.id].file = f
                /\ \A c \in Callers : cs[c].kind = "load" /\ cs[c].pc = "query" => cs[c].file # f
           /\ r.of = "caller" /\ r.answer = "ok" /\ cs[r.id].kind = "load" /\ cs[r.id].pc = "query"
                => cs[r.id].file \in X
  PROVE  Registered(g, cs, reg)
<1>1. Dbs(g) = Dbs(e) /\ DbOf(g) = DbOf(e) /\ \A x \in Dbs(e) : StateOf(g, x) = StateOf(e, x)
  BY DEF Sent, SamePromises, SameDb
<1>2. \A k \in Conns(g) : ConnState(g, k) = "waiting" /\ StateOf(g, DbOfConn(g, k)) = "failed" => reg = {}
  <2> SUFFICES ASSUME NEW k \in Conns(g), ConnState(g, k) = "waiting", StateOf(g, DbOfConn(g, k)) = "failed"
               PROVE  reg = {}
    OBVIOUS
  <2>1. k \in Conns(e) /\ ConnState(e, k) = "waiting" /\ DbOfConn(g, k) = DbOfConn(e, k)
    BY DEF Sent, SameConns
  <2>2. DbOfConn(e, k) \in Dbs(e)
    BY <2>1 DEF EngineOK, Promises
  <2> QED
    BY <1>1, <2>1, <2>2 DEF Registered
<1>3. PICK N \in Nat :
       /\ Places(g, d) = Places(e, d) \cup {N}
       /\ \A n \in Places(e, d) : n \in Nat /\ n < N /\ Request(g, d, n) = Request(e, d, n)
       /\ Request(g, d, N) = r
  BY DEF Sent
<1>4. \A x \in Dbs(e) \ {d} : FilesOf(g, x) = FilesOf(e, x) /\ Places(g, x) = Places(e, x)
                              /\ \A n \in Places(e, x) : Request(g, x, n) = Request(e, x, n)
  BY DEF Sent, SameDb
<1>5. ASSUME NEW x \in Dbs(e), StateOf(g, x) \in {"starting", "ready"}, NEW f \in reg
      PROVE  HasFile(g, cs, f, x)
  <2>1. HasFile(e, cs, f, x)
    BY <1>1, <1>5 DEF Registered
  <2>2. CASE DropSent(e, cs, f, x)
    BY <2>2, DropStaysSent DEF HasFile
  <2>3. CASE WillRegister(cs, f, x)
    BY <2>3 DEF HasFile
  <2>4. CASE f \in FilesOf(e, x) /\ f \in FilesOf(g, x)
    BY <2>4 DEF HasFile
  <2>5. CASE f \in FilesOf(e, x) /\ f \notin FilesOf(g, x)
    <3>1. x = d /\ StateOf(e, d) = "ready" /\ f \notin X
      BY <2>5, <1>4 DEF Sent
    <3>2. r.of = "caller" /\ cs[r.id].pc = "drop" /\ cs[r.id].file = f
      BY <3>1, <2>5
    <3>3. DropAt(g, cs, f, d, N) /\ N \in Places(g, d)
      BY <3>2, <1>3 DEF DropAt
    <3> QED
      BY <3>1, <3>3 DEF HasFile, DropSent
  <2> QED
    BY <2>1, <2>2, <2>3, <2>4, <2>5 DEF HasFile
<1>6. ASSUME NEW x \in Dbs(e), NEW n \in Places(g, x) PROVE LoadedFile(g, cs, x, n)
  <2>1. CASE x # d
    <3>1. LoadedFile(e, cs, x, n)
      BY <2>1, <1>4 DEF Registered
    <3> QED
      BY <3>1, <2>1, <1>1, <1>4 DEF LoadedFile
  <2>2. CASE x = d /\ n = N
    BY <2>2, <1>1, <1>3 DEF LoadedFile, Sent
  <2>3. CASE x = d /\ n # N
    <3>1. n \in Places(e, d) /\ Request(g, d, n) = Request(e, d, n)
      BY <2>3, <1>3
    <3>2. LoadedFile(e, cs, d, n) /\ CallerOK(e, cs, d, n)
      BY <3>1 DEF Registered, CallsOK
    <3>3. StateOf(e, d) = "ready" => FilesOf(g, d) = X
      BY DEF Sent
    <3> QED
      BY <2>3, <3>1, <3>2, <3>3, <1>1 DEF LoadedFile, CallerOK
  <2> QED
    BY <2>1, <2>2, <2>3
<1> QED
  BY <1>1, <1>2, <1>5, <1>6 DEF Registered

(* They do when the answered deletion is of what is no source any more.    *)
LEMMA RegisteredShorter ==
  ASSUME NEW e, NEW g, NEW d \in Dbs(e), NEW cs, NEW reg,
         EngineOK(e), Registered(e, cs, reg), Shorter(e, g, d),
         Request(e, d, 1).of = "caller" /\ cs[Request(e, d, 1).id].pc = "drop"
           => cs[Request(e, d, 1).id].file \notin reg
  PROVE  Registered(g, cs, reg)
<1>1. /\ Dbs(g) = Dbs(e) /\ DbOf(g) = DbOf(e)
      /\ \A x \in Dbs(e) : StateOf(g, x) = StateOf(e, x) /\ FilesOf(g, x) = FilesOf(e, x)
  BY DEF Shorter, SamePromises, SameDb
<1>2. \A k \in Conns(g) : ConnState(g, k) = "waiting" /\ StateOf(g, DbOfConn(g, k)) = "failed" => reg = {}
  <2> SUFFICES ASSUME NEW k \in Conns(g), ConnState(g, k) = "waiting", StateOf(g, DbOfConn(g, k)) = "failed"
               PROVE  reg = {}
    OBVIOUS
  <2>1. k \in Conns(e) /\ ConnState(e, k) = "waiting" /\ DbOfConn(g, k) = DbOfConn(e, k)
    BY DEF Shorter, SameConns
  <2>2. DbOfConn(e, k) \in Dbs(e)
    BY <2>1 DEF EngineOK, Promises
  <2> QED
    BY <1>1, <2>1, <2>2 DEF Registered
<1>3. /\ \A n \in Places(g, d) : n \in Nat /\ n >= 1 /\ n + 1 \in Places(e, d)
                             /\ Request(g, d, n) = Request(e, d, n + 1)
      /\ \A n \in Places(e, d) : n \in Nat /\ n >= 1 /\ (n # 1 => n - 1 \in Places(g, d))
  BY DEF Shorter
<1>4. \A x \in Dbs(e) \ {d} : Places(g, x) = Places(e, x)
                              /\ \A n \in Places(e, x) : Request(g, x, n) = Request(e, x, n)
  BY DEF Shorter, SameDb
<1>5. ASSUME NEW x \in Dbs(e), StateOf(g, x) \in {"starting", "ready"}, NEW f \in reg
      PROVE  HasFile(g, cs, f, x)
  <2>1. HasFile(e, cs, f, x)
    BY <1>1, <1>5 DEF Registered
  <2>2. CASE DropSent(e, cs, f, x)
    <3>1. PICK n \in Places(e, x) : DropAt(e, cs, f, x, n)
      BY <2>2 DEF DropSent
    <3>2. CASE x # d
      BY <3>1, <3>2, <1>4 DEF DropAt, DropSent, HasFile
    <3>3. CASE x = d
      <4>1. n # 1 /\ n \in Nat /\ n - 1 \in Places(g, d)
        BY <3>1, <3>3, <1>3 DEF DropAt
      <4>2. Request(g, d, n - 1) = Request(e, d, n)
        <5>1. Request(g, d, n - 1) = Request(e, d, (n - 1) + 1) /\ (n - 1) + 1 = n
          BY <4>1, <1>3
        <5> QED
          BY <5>1
      <4> QED
        BY <3>1, <3>3, <4>1, <4>2 DEF DropAt, DropSent, HasFile
    <3> QED
      BY <3>2, <3>3
  <2> QED
    BY <2>1, <2>2, <1>1 DEF HasFile
<1>6. ASSUME NEW x \in Dbs(e), NEW n \in Places(g, x) PROVE LoadedFile(g, cs, x, n)
  <2>1. CASE x # d
    <3>1. LoadedFile(e, cs, x, n)
      BY <2>1, <1>4 DEF Registered
    <3> QED
      BY <3>1, <2>1, <1>1, <1>4 DEF LoadedFile
  <2>3. CASE x = d
    <3>2. LoadedFile(e, cs, d, n + 1) /\ Request(g, d, n) = Request(e, d, n + 1)
      BY <2>3, <1>3 DEF Registered
    <3> QED
      BY <2>3, <3>2, <1>1 DEF LoadedFile
  <2> QED
    BY <2>1, <2>3
<1> QED
  BY <1>1, <1>2, <1>5, <1>6 DEF Registered

(* Nothing is registered, so a new database lacks nothing.                 *)
LEMMA RegisteredNewDatabase ==
  ASSUME NEW e, NEW g, NEW N, NEW cs, NEW reg,
         EngineOK(e), Registered(e, cs, reg), NewDatabase(e, g, N),
         \A f \in reg : WillRegister(cs, f, N)
  PROVE  Registered(g, cs, reg)
<1>1. /\ Dbs(g) = Dbs(e) \cup {N} /\ N \notin Dbs(e) /\ DbOf(g) = N /\ N # 0
      /\ Places(g, N) = {} /\ StateOf(g, N) = "starting"
      /\ \A x \in Dbs(e) : SameDb(e, g, x)
  BY DEF NewDatabase
<1>2. \A k \in Conns(g) : ConnState(g, k) = "waiting" /\ StateOf(g, DbOfConn(g, k)) = "failed" => reg = {}
  <2> SUFFICES ASSUME NEW k \in Conns(g), ConnState(g, k) = "waiting", StateOf(g, DbOfConn(g, k)) = "failed"
               PROVE  reg = {}
    OBVIOUS
  <2>1. k \in Conns(e) /\ ConnState(e, k) = "waiting" /\ DbOfConn(g, k) = DbOfConn(e, k)
    BY DEF NewDatabase, SameConns
  <2>2. DbOfConn(e, k) \in Dbs(e)
    BY <2>1 DEF EngineOK, Promises
  <2> QED
    BY <1>1, <2>1, <2>2 DEF Registered, SameDb
<1>5. ASSUME NEW x \in Dbs(g), StateOf(g, x) \in {"starting", "ready"}, NEW f \in reg
      PROVE  HasFile(g, cs, f, x)
  <2>1. CASE x = N
    BY <2>1 DEF HasFile
  <2>2. CASE x \in Dbs(e)
    <3>1. SameDb(e, g, x)
      BY <1>1, <2>2
    <3>2. HasFile(e, cs, f, x)
      BY <2>2, <3>1, <1>5 DEF Registered, SameDb
    <3> QED
      BY <3>1, <3>2 DEF HasFile, DropSent, DropAt, SameDb
  <2> QED
    BY <1>1, <2>1, <2>2
<1>6. ASSUME NEW x \in Dbs(g), NEW n \in Places(g, x) PROVE LoadedFile(g, cs, x, n)
  <2>1. x \in Dbs(e) /\ SameDb(e, g, x)
    BY <1>1, <1>6
  <2>2. LoadedFile(e, cs, x, n)
    BY <2>1 DEF Registered, SameDb
  <2> QED
    BY <2>1, <2>2 DEF LoadedFile, SameDb
<1> QED
  BY <1>1, <1>2, <1>5, <1>6 DEF Registered

(* The databases stay what they are, but for one that crashes, starts or   *)
(* does not start.                                                         *)
LEMMA RegisteredSame ==
  ASSUME NEW e, NEW g, NEW cs, NEW reg,
         EngineOK(e), Registered(e, cs, reg), Dbs(g) = Dbs(e),
         \A x \in Dbs(e) : /\ FilesOf(g, x) = FilesOf(e, x) /\ Places(g, x) = Places(e, x)
                           /\ \A n \in Places(e, x) : Request(g, x, n) = Request(e, x, n),
         \A x \in Dbs(e) : \/ StateOf(g, x) = StateOf(e, x)
                           \/ StateOf(g, x) = "crashed"
                           \/ StateOf(e, x) = "starting" /\ StateOf(g, x) \in {"ready", "failed"},
         DbOf(g) = 0 => reg = {},
         \A k \in Conns(g) : ConnState(g, k) = "waiting" /\ StateOf(g, DbOfConn(g, k)) = "failed" => reg = {}
  PROVE  Registered(g, cs, reg)
<1>5. ASSUME NEW x \in Dbs(g), StateOf(g, x) \in {"starting", "ready"}, NEW f \in reg
      PROVE  HasFile(g, cs, f, x)
  <2>1. StateOf(e, x) \in {"starting", "ready"}
    BY <1>5
  <2>2. HasFile(e, cs, f, x)
    BY <2>1 DEF Registered
  <2> QED
    BY <2>2 DEF HasFile, DropSent, DropAt
<1>6. ASSUME NEW x \in Dbs(g), NEW n \in Places(g, x) PROVE LoadedFile(g, cs, x, n)
  <2>1. n \in Places(e, x) /\ StateOf(e, x) \in {"ready", "crashed"} /\ Request(g, x, n) = Request(e, x, n)
    BY DEF EngineOK, Queues
  <2>2. LoadedFile(e, cs, x, n)
    BY <2>1 DEF Registered
  <2> QED
    BY <2>1, <2>2 DEF LoadedFile
<1> QED
  BY <1>5, <1>6 DEF Registered

(* They do when the call of c moves, if what it would have registered is   *)
(* there.                                                                  *)
LEMMA RegisteredMoved ==
  ASSUME NEW e, NEW cs, NEW ds, NEW c \in Callers, NEW reg,
         CallsOK(e, cs), Registered(e, cs, reg), Moved(cs, ds, c), Settles(e, cs, ds, c),
         \A d \in Dbs(e), f \in reg :
           /\ StateOf(e, d) \in {"starting", "ready"}
           /\ cs[c].kind = "tile" /\ cs[c].pc \in {"db", "again"} /\ cs[c].db = d /\ f \notin cs[c].seen
           => \/ f \in FilesOf(e, d)
              \/ ds[c].kind = "tile" /\ ds[c].pc \in {"db", "again"} /\ ds[c].db = d /\ f \notin ds[c].seen
  PROVE  Registered(e, ds, reg)
<1>1. \A b \in Callers \ {c} : ds[b] = cs[b]
  BY DEF Moved
<1>2. ASSUME NEW d \in Dbs(e), NEW n \in Places(e, d), Request(e, d, n).of = "caller"
      PROVE  \/ ds[Request(e, d, n).id] = cs[Request(e, d, n).id]
             \/ ds[Request(e, d, n).id].pc = "again" /\ cs[Request(e, d, n).id].pc = "again"
  BY <1>1, <1>2 DEF CallsOK, CallerOK, Free, Settles
<1>3. ASSUME NEW d \in Dbs(e), StateOf(e, d) \in {"starting", "ready"}, NEW f \in reg
      PROVE  HasFile(e, ds, f, d)
  <2>1. HasFile(e, cs, f, d)
    BY <1>3 DEF Registered
  <2>2. CASE DropSent(e, cs, f, d)
    BY <2>2, <1>2 DEF HasFile, DropSent, DropAt
  <2>3. CASE WillRegister(cs, f, d)
    <3>1. PICK b \in Callers : cs[b].kind = "tile" /\ cs[b].pc \in {"db", "again"}
                     /\ cs[b].db = d /\ f \notin cs[b].seen
      BY <2>3 DEF WillRegister
    <3>2. CASE b = c
      BY <1>3, <3>1, <3>2 DEF HasFile, WillRegister
    <3>3. CASE b # c
      BY <1>1, <3>1, <3>3 DEF HasFile, WillRegister
    <3> QED
      BY <3>2, <3>3
  <2> QED
    BY <2>1, <2>2, <2>3 DEF HasFile
<1>4. ASSUME NEW d \in Dbs(e), NEW n \in Places(e, d) PROVE LoadedFile(e, ds, d, n)
  <2>1. LoadedFile(e, cs, d, n)
    BY DEF Registered
  <2> QED
    BY <2>1, <1>2 DEF LoadedFile
<1> QED
  BY <1>3, <1>4 DEF Registered

(* They do when there are fewer of them.                                   *)
LEMMA RegisteredLess ==
  ASSUME NEW e, NEW cs, NEW reg, NEW less, Registered(e, cs, reg), less \subseteq reg
  PROVE  Registered(e, cs, less)
BY DEF Registered

(* They do when there is one more whose file is there.                     *)
LEMMA RegisteredMore ==
  ASSUME NEW e, NEW cs, NEW reg, NEW f, EngineOK(e), Registered(e, cs, reg), DbOf(e) # 0,
         \A k \in Conns(e) : ConnState(e, k) = "waiting" => StateOf(e, DbOfConn(e, k)) # "failed",
         \A d \in Dbs(e) : StateOf(e, d) \in {"starting", "ready"} => f \in FilesOf(e, d)
  PROVE  Registered(e, cs, reg \cup {f})
<1>1. \A d \in Dbs(e) : StateOf(e, d) \in {"starting", "ready"} => \A h \in reg \cup {f} : HasFile(e, cs, h, d)
  BY DEF Registered, HasFile
<1> QED
  BY <1>1 DEF Registered

(* No file is left over when a request is sent: it adds files of sources   *)
(* or of a load, and one it adds behind its deletion is registered again.  *)
LEMMA NothingElseSent ==
  ASSUME NEW e, NEW g, NEW d \in Dbs(e), NEW r, NEW X, NEW cs, NEW reg, NEW rs,
         EngineOK(e), CallsOK(e, cs), NothingElse(e, cs, reg, rs), Sent(e, g, d, r, X),
         StateOf(e, d) \in {"ready", "crashed"},
         StateOf(e, d) = "ready" =>
           /\ \A f \in X :
                \/ f \in FilesOf(e, d)
                \/ f \in reg \cup rs /\ r.of = "caller" /\ cs[r.id].pc = "again"
                \/ /\ \E c \in Callers : LoadsFile(cs, c, f, d)
                   /\ \A b \in Callers : cs[b].pc = "drop" => cs[b].file # f
           /\ r.of = "caller" /\ cs[r.id].pc = "drop" => cs[r.id].file \notin X
  PROVE  NothingElse(g, cs, reg, rs)
<1>1. Dbs(g) = Dbs(e) /\ DbOf(g) = DbOf(e) /\ \A x \in Dbs(e) : StateOf(g, x) = StateOf(e, x)
  BY DEF Sent, SamePromises, SameDb
<1>3. PICK N \in Nat :
       /\ Places(g, d) = Places(e, d) \cup {N}
       /\ \A n \in Places(e, d) : n \in Nat /\ n < N /\ Request(g, d, n) = Request(e, d, n)
       /\ Request(g, d, N) = r
  BY DEF Sent
<1>4. \A x \in Dbs(e) \ {d} : FilesOf(g, x) = FilesOf(e, x) /\ Places(g, x) = Places(e, x)
                              /\ \A n \in Places(e, x) : Request(g, x, n) = Request(e, x, n)
  BY DEF Sent, SameDb
<1>5. ASSUME NEW x \in Dbs(e), StateOf(g, x) = "ready", NEW f \in FilesOf(g, x)
      PROVE  /\ f \in reg \cup rs \/ \E c \in Callers : LoadsFile(cs, c, f, x)
             /\ \A n \in Places(g, x) : RegisteredAfter(g, cs, f, x, n)
  <2>1. CASE x # d
    <3>1. /\ f \in reg \cup rs \/ \E c \in Callers : LoadsFile(cs, c, f, x)
          /\ \A n \in Places(e, x) : RegisteredAfter(e, cs, f, x, n)
      BY <1>1, <1>4, <1>5, <2>1 DEF NothingElse
    <3> QED
      BY <3>1, <2>1, <1>4 DEF RegisteredAfter, DropAt
  <2>2. CASE x = d
    <3>1. f \in X /\ StateOf(e, d) = "ready"
      BY <1>1, <1>5, <2>2 DEF Sent
    <3>2. f \in FilesOf(e, d) => /\ f \in reg \cup rs \/ \E c \in Callers : LoadsFile(cs, c, f, d)
                                 /\ \A n \in Places(e, d) : RegisteredAfter(e, cs, f, d, n)
      BY <3>1 DEF NothingElse
    <3>3. f \in reg \cup rs \/ \E c \in Callers : LoadsFile(cs, c, f, x)
      BY <3>1, <3>2, <2>2
    <3>4. ASSUME NEW n \in Places(g, d), DropAt(g, cs, f, d, n)
          PROVE  \E m \in Places(g, d) : /\ n < m /\ Request(g, d, m).of = "caller"
                                         /\ cs[Request(g, d, m).id].pc = "again"
      <4>1. n # N
        BY <3>1, <3>4, <1>3 DEF DropAt
      <4>2. n \in Places(e, d) /\ DropAt(e, cs, f, d, n) /\ n < N
        BY <4>1, <3>4, <1>3 DEF DropAt
      <4>3. CASE f \in FilesOf(e, d)
        <5>1. PICK m \in Places(e, d) : n < m /\ Request(e, d, m).of = "caller"
                                        /\ cs[Request(e, d, m).id].pc = "again"
          BY <3>2, <4>2, <4>3 DEF RegisteredAfter
        <5> QED
          BY <5>1, <1>3
      <4>4. CASE r.of = "caller" /\ cs[r.id].pc = "again"
        BY <4>2, <4>4, <1>3
      <4>5. Request(e, d, n).id \in Callers
        BY <4>2 DEF CallsOK, CallerOK, DropAt
      <4> QED
        BY <3>1, <4>2, <4>3, <4>4, <4>5 DEF DropAt
    <3> QED
      BY <2>2, <3>3, <3>4 DEF RegisteredAfter
  <2> QED
    BY <2>1, <2>2
<1>6. ASSUME NEW c \in Callers PROVE LoadsWhereItIs(g, cs, c)
  <2>1. LoadsWhereItIs(e, cs, c) /\ CallOK(e, cs[c])
    BY DEF NothingElse, CallsOK
  <2>2. cs[c].kind = "load" /\ cs[c].pc \in {"conn", "query"} => cs[c].conn \in Conns(e)
    BY <2>1 DEF CallOK, NoCall
  <2> QED
    BY <1>1, <2>1, <2>2 DEF LoadsWhereItIs, Sent, SameConns
<1>7. \A x \in Dbs(g) : StateOf(g, x) = "starting" => FilesOf(g, x) = {}
  BY <1>1, <1>4 DEF NothingElse
<1> QED
  BY <1>1, <1>5, <1>6, <1>7 DEF NothingElse

(* None is when a request is answered.                                     *)
LEMMA NothingElseShorter ==
  ASSUME NEW e, NEW g, NEW d \in Dbs(e), NEW cs, NEW reg, NEW rs,
         EngineOK(e), CallsOK(e, cs), NothingElse(e, cs, reg, rs), Shorter(e, g, d)
  PROVE  NothingElse(g, cs, reg, rs)
<1>1. /\ Dbs(g) = Dbs(e) /\ DbOf(g) = DbOf(e)
      /\ \A x \in Dbs(e) : StateOf(g, x) = StateOf(e, x) /\ FilesOf(g, x) = FilesOf(e, x)
  BY DEF Shorter, SamePromises, SameDb
<1>3. /\ \A n \in Places(g, d) : n \in Nat /\ n >= 1 /\ n + 1 \in Places(e, d)
                             /\ Request(g, d, n) = Request(e, d, n + 1)
      /\ \A n \in Places(e, d) : n \in Nat /\ n >= 1 /\ (n # 1 => n - 1 \in Places(g, d))
  BY DEF Shorter
<1>4. \A x \in Dbs(e) \ {d} : Places(g, x) = Places(e, x)
                              /\ \A n \in Places(e, x) : Request(g, x, n) = Request(e, x, n)
  BY DEF Shorter, SameDb
<1>5. ASSUME NEW x \in Dbs(e), StateOf(g, x) = "ready", NEW f \in FilesOf(g, x)
      PROVE  /\ f \in reg \cup rs \/ \E c \in Callers : LoadsFile(cs, c, f, x)
             /\ \A n \in Places(g, x) : RegisteredAfter(g, cs, f, x, n)
  <2>3. /\ f \in reg \cup rs \/ \E c \in Callers : LoadsFile(cs, c, f, x)
        /\ \A n \in Places(e, x) : RegisteredAfter(e, cs, f, x, n)
    BY <1>1, <1>5 DEF NothingElse
  <2>1. CASE x # d
    BY <2>1, <2>3, <1>4 DEF RegisteredAfter, DropAt
  <2>2. CASE x = d
    <3>4. ASSUME NEW n \in Places(g, d), DropAt(g, cs, f, d, n)
          PROVE  \E m \in Places(g, d) : /\ n < m /\ Request(g, d, m).of = "caller"
                                         /\ cs[Request(g, d, m).id].pc = "again"
      <4>1. n + 1 \in Places(e, d) /\ DropAt(e, cs, f, d, n + 1)
        BY <3>4, <1>3 DEF DropAt
      <4>2. PICK m \in Places(e, d) : n + 1 < m /\ Request(e, d, m).of = "caller"
                                        /\ cs[Request(e, d, m).id].pc = "again"
        BY <2>2, <2>3, <4>1 DEF RegisteredAfter
      <4>3. m - 1 \in Places(g, d) /\ n < m - 1 /\ (m - 1) + 1 = m
        BY <1>3, <4>2
      <4>4. Request(g, d, m - 1) = Request(e, d, m)
        <5>1. Request(g, d, m - 1) = Request(e, d, (m - 1) + 1)
          BY <1>3, <4>3
        <5> QED
          BY <5>1, <4>3
      <4> QED
        BY <4>2, <4>3, <4>4
    <3> QED
      BY <2>2, <2>3, <3>4 DEF RegisteredAfter
  <2> QED
    BY <2>1, <2>2
<1>6. ASSUME NEW c \in Callers PROVE LoadsWhereItIs(g, cs, c)
  <2>1. LoadsWhereItIs(e, cs, c) /\ CallOK(e, cs[c])
    BY DEF NothingElse, CallsOK
  <2>2. cs[c].kind = "load" /\ cs[c].pc \in {"conn", "query"} => cs[c].conn \in Conns(e)
    BY <2>1 DEF CallOK, NoCall
  <2> QED
    BY <1>1, <2>1, <2>2 DEF LoadsWhereItIs, Shorter, SameConns
<1> QED
  BY <1>1, <1>5, <1>6 DEF NothingElse

(* None is when no file changes.                                           *)
LEMMA NothingElseSame ==
  ASSUME NEW e, NEW g, NEW cs, NEW reg, NEW rs,
         EngineOK(e), CallsOK(e, cs), NothingElse(e, cs, reg, rs), Grown(e, g),
         DbOf(g) \in {DbOf(e), 0} \/ DbOf(g) \notin Dbs(e),
         \A x \in Dbs(e) : FilesOf(g, x) = FilesOf(e, x),
         \A x \in Dbs(e) : \/ StateOf(g, x) = StateOf(e, x)
                           \/ StateOf(g, x) = "crashed"
                           \/ StateOf(e, x) = "starting" /\ StateOf(g, x) \in {"ready", "failed"},
         \A x \in Dbs(g) \ Dbs(e) : FilesOf(g, x) = {}
  PROVE  NothingElse(g, cs, reg, rs)
<1>1. ASSUME NEW x \in Dbs(g), StateOf(g, x) = "ready", NEW f \in FilesOf(g, x)
      PROVE  /\ f \in reg \cup rs \/ \E c \in Callers : LoadsFile(cs, c, f, x)
             /\ \A n \in Places(g, x) : RegisteredAfter(g, cs, f, x, n)
  <2>1. x \in Dbs(e) /\ f \in FilesOf(e, x)
    BY <1>1
  <2>2. StateOf(e, x) = "ready"
    BY <1>1, <2>1 DEF NothingElse
  <2>3. /\ f \in reg \cup rs \/ \E c \in Callers : LoadsFile(cs, c, f, x)
        /\ \A n \in Places(e, x) : RegisteredAfter(e, cs, f, x, n)
    BY <2>1, <2>2 DEF NothingElse
  <2>4. Places(g, x) = Places(e, x) /\ \A n \in Places(e, x) : Request(g, x, n) = Request(e, x, n)
    BY <2>1 DEF Grown
  <2> QED
    BY <2>3, <2>4 DEF RegisteredAfter, DropAt
<1>2. \A x \in Dbs(g) : StateOf(g, x) = "starting" => FilesOf(g, x) = {}
  BY DEF NothingElse
<1>3. ASSUME NEW c \in Callers PROVE LoadsWhereItIs(g, cs, c)
  <2>1. LoadsWhereItIs(e, cs, c) /\ CallOK(e, cs[c])
    BY DEF NothingElse, CallsOK
  <2>2. cs[c].kind = "load" /\ cs[c].pc \in {"conn", "query"} => cs[c].conn \in Conns(e) /\ cs[c].db \in Dbs(e)
    BY <2>1 DEF CallOK, NoCall
  <2>3. 0 \notin Dbs(e)
    BY DbOfIsADb
  <2> QED
    BY <2>1, <2>2, <2>3 DEF LoadsWhereItIs, Grown
<1> QED
  BY <1>1, <1>2, <1>3 DEF NothingElse

(* None is when the call of c moves, unless it gives up a load.            *)
LEMMA NothingElseMoved ==
  ASSUME NEW e, NEW cs, NEW ds, NEW c \in Callers, NEW reg, NEW rs,
         CallsOK(e, cs), NothingElse(e, cs, reg, rs), Moved(cs, ds, c), Settles(e, cs, ds, c),
         \A d \in Dbs(e) : \A f \in FilesOf(e, d) :
           StateOf(e, d) = "ready" /\ LoadsFile(cs, c, f, d) => f \in reg \cup rs \/ LoadsFile(ds, c, f, d),
         LoadsWhereItIs(e, ds, c)
  PROVE  NothingElse(e, ds, reg, rs)
<1>1. \A b \in Callers \ {c} : ds[b] = cs[b]
  BY DEF Moved
<1>2. ASSUME NEW d \in Dbs(e), NEW n \in Places(e, d), Request(e, d, n).of = "caller"
      PROVE  \/ ds[Request(e, d, n).id] = cs[Request(e, d, n).id]
             \/ ds[Request(e, d, n).id].pc = "again" /\ cs[Request(e, d, n).id].pc = "again"
  BY <1>1, <1>2 DEF CallsOK, CallerOK, Free, Settles
<1>3. ASSUME NEW x \in Dbs(e), StateOf(e, x) = "ready", NEW f \in FilesOf(e, x)
      PROVE  /\ f \in reg \cup rs \/ \E b \in Callers : LoadsFile(ds, b, f, x)
             /\ \A n \in Places(e, x) : RegisteredAfter(e, ds, f, x, n)
  <2>1. f \in reg \cup rs \/ \E b \in Callers : LoadsFile(cs, b, f, x)
    BY <1>3 DEF NothingElse
  <2>2. ASSUME NEW b \in Callers, LoadsFile(cs, b, f, x) PROVE f \in reg \cup rs \/ \E a \in Callers : LoadsFile(ds, a, f, x)
    <3>1. CASE b = c
      BY <1>3, <2>2, <3>1
    <3>2. CASE b # c
      BY <1>1, <2>2, <3>2 DEF LoadsFile
    <3> QED
      BY <3>1, <3>2
  <2>3. ASSUME NEW n \in Places(e, x) PROVE RegisteredAfter(e, ds, f, x, n)
    <3>1. RegisteredAfter(e, cs, f, x, n)
      BY <1>3 DEF NothingElse
    <3> QED
      BY <3>1, <1>2 DEF RegisteredAfter, DropAt
  <2> QED
    BY <2>1, <2>2, <2>3
<1>4. ASSUME NEW b \in Callers PROVE LoadsWhereItIs(e, ds, b)
  <2>1. LoadsWhereItIs(e, cs, b)
    BY DEF NothingElse
  <2> QED
    BY <1>1, <2>1 DEF LoadsWhereItIs
<1> QED
  BY <1>3, <1>4 DEF NothingElse

(* None is when sources change, if each file there still counts.           *)
LEMMA NothingElseCounts ==
  ASSUME NEW e, NEW cs, NEW reg, NEW rs, NEW sreg, NEW srs, NothingElse(e, cs, reg, rs),
         \A d \in Dbs(e) : StateOf(e, d) = "ready" =>
           \A f \in FilesOf(e, d) : f \in reg \cup rs => f \in sreg \cup srs
  PROVE  NothingElse(e, cs, sreg, srs)
BY DEF NothingElse

(* Retried tiles stay on their way when a request is sent,                 *)
LEMMA SurvivesSent ==
  ASSUME NEW e, NEW g, NEW d \in Dbs(e), NEW r, NEW X, NEW cs, NEW reg, NEW n,
         EngineOK(e), CallsOK(e, cs), Survives(e, cs, reg, n), Sent(e, g, d, r, X),
         StateOf(e, d) = "ready" =>
           \A f \in FilesOf(e, d) \ X :
             f \in reg => r.of = "caller" /\ cs[r.id].pc = "drop" /\ cs[r.id].file = f,
         n \leq 1 /\ r.of = "caller" /\ r.answer = "missing" /\ Retried(cs, r.id) /\ cs[r.id].pc = "query"
           /\ cs[r.id].file \in reg => DropSent(e, cs, cs[r.id].file, d)
  PROVE  Survives(g, cs, reg, n)
<1>1. /\ Dbs(g) = Dbs(e) /\ DbOf(g) = DbOf(e) /\ \A x \in Dbs(e) : StateOf(g, x) = StateOf(e, x)
      /\ \A k \in Conns(e) : DbOfConn(g, k) = DbOfConn(e, k)
  BY DEF Sent, SamePromises, SameDb, SameConns
<1>3. PICK N \in Nat :
       /\ Places(g, d) = Places(e, d) \cup {N}
       /\ \A m \in Places(e, d) : m \in Nat /\ m < N /\ Request(g, d, m) = Request(e, d, m)
       /\ Request(g, d, N) = r
  BY DEF Sent
<1>4. \A x \in Dbs(e) \ {d} : FilesOf(g, x) = FilesOf(e, x) /\ Places(g, x) = Places(e, x)
                              /\ \A m \in Places(e, x) : Request(g, x, m) = Request(e, x, m)
  BY DEF Sent, SameDb
<1>5. Crashes(g, n)
  BY <1>1 DEF Survives, Crashes
<1>6. \A c \in Callers : Retried(cs, c) => CrashedBefore(g, cs, c)
  BY <1>1 DEF Survives, CrashedBefore
<1>7. ASSUME n \leq 1, NEW c \in Callers, Retried(cs, c), cs[c].file \in reg PROVE OnItsWay(g, cs, c)
  <2>1. OnItsWay(e, cs, c) /\ CallOK(e, cs[c])
    BY <1>7 DEF Survives, CallsOK
  <2>2. /\ cs[c].db \in Dbs(e)
        /\ cs[c].pc \in {"conn", "query"} => cs[c].conn \in Conns(e)
    BY <1>7, <2>1 DEF CallOK, NoCall, Retried
  <2>3. PICK f : f = cs[c].file
    OBVIOUS
  <2>4. PICK x : x = cs[c].db
    OBVIOUS
  <2>5. ASSUME f \in cs[c].seen, StateOf(g, x) \in {"starting", "ready"}
        PROVE  f \in FilesOf(g, x) \/ DropSent(g, cs, f, x)
    <3>1. f \in FilesOf(e, x) \/ DropSent(e, cs, f, x)
      BY <1>1, <2>1, <2>2, <2>3, <2>4, <2>5 DEF OnItsWay
    <3>2. CASE DropSent(e, cs, f, x)
      BY <2>2, <2>4, <3>2, DropStaysSent
    <3>3. CASE f \in FilesOf(e, x) /\ f \notin FilesOf(g, x)
      <4>1. x = d /\ StateOf(e, d) = "ready" /\ f \notin X
        BY <3>3, <1>4, <2>2, <2>4 DEF Sent
      <4>2. r.of = "caller" /\ cs[r.id].pc = "drop" /\ cs[r.id].file = f
        BY <4>1, <3>3, <1>7, <2>3
      <4>3. DropAt(g, cs, f, d, N) /\ N \in Places(g, d)
        BY <4>2, <1>3 DEF DropAt
      <4> QED
        BY <4>1, <4>3 DEF DropSent
    <3> QED
      BY <3>1, <3>2, <3>3
  <2> QED
    BY <1>1, <2>1, <2>2, <2>3, <2>4, <2>5 DEF OnItsWay
<1>8. ASSUME n \leq 1, NEW x \in Dbs(e), NEW m \in Places(g, x) PROVE MissingFile(g, cs, reg, x, m)
  <2>1. CASE x # d
    <3>1. MissingFile(e, cs, reg, x, m)
      BY <2>1, <1>4, <1>8 DEF Survives
    <3> QED
      BY <3>1, <2>1, <1>4 DEF MissingFile, DropBefore, DropAt
  <2>2. CASE x = d /\ m = N
    <3> SUFFICES ASSUME r.of = "caller", r.answer = "missing", Retried(cs, r.id), cs[r.id].pc = "query",
                        cs[r.id].file \in reg
                 PROVE  DropBefore(g, cs, cs[r.id].file, d, N)
      BY <2>2, <1>3 DEF MissingFile
    <3>1. PICK i \in Places(e, d) : DropAt(e, cs, cs[r.id].file, d, i)
      BY <1>8 DEF DropSent
    <3> QED
      BY <3>1, <1>3 DEF DropBefore, DropAt
  <2>3. CASE x = d /\ m # N
    <3>1. m \in Places(e, d)
      BY <2>3, <1>3
    <3>2. MissingFile(e, cs, reg, d, m)
      BY <3>1, <1>8 DEF Survives
    <3> QED
      BY <2>3, <3>1, <3>2, <1>3 DEF MissingFile, DropBefore, DropAt
  <2> QED
    BY <2>1, <2>2, <2>3
<1> QED
  BY <1>1, <1>5, <1>6, <1>7, <1>8 DEF Survives

(* when one is answered,                                                   *)
LEMMA SurvivesShorter ==
  ASSUME NEW e, NEW g, NEW d \in Dbs(e), NEW cs, NEW reg, NEW n,
         EngineOK(e), CallsOK(e, cs), Survives(e, cs, reg, n), Shorter(e, g, d),
         Request(e, d, 1).of = "caller" /\ cs[Request(e, d, 1).id].pc = "drop"
           => cs[Request(e, d, 1).id].file \notin reg
  PROVE  Survives(g, cs, reg, n)
<1>1. /\ Dbs(g) = Dbs(e) /\ DbOf(g) = DbOf(e)
      /\ \A x \in Dbs(e) : StateOf(g, x) = StateOf(e, x) /\ FilesOf(g, x) = FilesOf(e, x)
      /\ \A k \in Conns(e) : DbOfConn(g, k) = DbOfConn(e, k)
  BY DEF Shorter, SamePromises, SameDb, SameConns
<1>3. /\ \A m \in Places(g, d) : m \in Nat /\ m >= 1 /\ m + 1 \in Places(e, d)
                             /\ Request(g, d, m) = Request(e, d, m + 1)
      /\ \A m \in Places(e, d) : m \in Nat /\ m >= 1 /\ (m # 1 => m - 1 \in Places(g, d))
  BY DEF Shorter
<1>4. \A x \in Dbs(e) \ {d} : Places(g, x) = Places(e, x)
                              /\ \A m \in Places(e, x) : Request(g, x, m) = Request(e, x, m)
  BY DEF Shorter, SameDb
<1>5. Crashes(g, n)
  BY <1>1 DEF Survives, Crashes
<1>6. \A c \in Callers : Retried(cs, c) => CrashedBefore(g, cs, c)
  BY <1>1 DEF Survives, CrashedBefore
<1>2. ASSUME NEW f \in reg, NEW i \in Places(e, d), DropAt(e, cs, f, d, i)
      PROVE  i - 1 \in Places(g, d) /\ DropAt(g, cs, f, d, i - 1)
  <2>1. i # 1
    BY <1>2 DEF DropAt
  <2>2. i - 1 \in Places(g, d) /\ (i - 1) + 1 = i
    BY <1>3, <2>1
  <2>3. Request(g, d, i - 1) = Request(e, d, (i - 1) + 1)
    BY <1>3, <2>2
  <2> QED
    BY <1>2, <2>2, <2>3 DEF DropAt
<1>7. ASSUME n \leq 1, NEW c \in Callers, Retried(cs, c), cs[c].file \in reg PROVE OnItsWay(g, cs, c)
  <2>1. OnItsWay(e, cs, c) /\ CallOK(e, cs[c])
    BY <1>7 DEF Survives, CallsOK
  <2>2. /\ cs[c].db \in Dbs(e)
        /\ cs[c].pc \in {"conn", "query"} => cs[c].conn \in Conns(e)
    BY <1>7, <2>1 DEF CallOK, NoCall, Retried
  <2>3. PICK f : f = cs[c].file
    OBVIOUS
  <2>4. PICK x : x = cs[c].db
    OBVIOUS
  <2>5. ASSUME DropSent(e, cs, f, x)
        PROVE  DropSent(g, cs, f, x)
    <3>1. PICK i \in Places(e, x) : DropAt(e, cs, f, x, i)
      BY <2>5 DEF DropSent
    <3>2. CASE x = d
      BY <1>2, <1>7, <2>3, <3>1, <3>2 DEF DropSent
    <3>3. CASE x # d
      BY <1>4, <2>2, <2>4, <3>1, <3>3 DEF DropSent, DropAt
    <3> QED
      BY <3>2, <3>3
  <2> QED
    BY <1>1, <2>1, <2>2, <2>3, <2>4, <2>5 DEF OnItsWay
<1>8. ASSUME n \leq 1, NEW x \in Dbs(e), NEW m \in Places(g, x) PROVE MissingFile(g, cs, reg, x, m)
  <2>1. CASE x # d
    <3>1. MissingFile(e, cs, reg, x, m)
      BY <2>1, <1>4, <1>8 DEF Survives
    <3> QED
      BY <3>1, <2>1, <1>4 DEF MissingFile, DropBefore, DropAt
  <2>3. CASE x = d
    <3>1. m + 1 \in Places(e, d) /\ Request(g, d, m) = Request(e, d, m + 1) /\ m \in Nat
      BY <2>3, <1>3
    <3>2. MissingFile(e, cs, reg, d, m + 1)
      BY <3>1, <1>8 DEF Survives
    <3>3. PICK c : c = Request(g, d, m).id
      OBVIOUS
    <3> SUFFICES ASSUME Request(g, d, m).of = "caller", Request(g, d, m).answer = "missing",
                        Retried(cs, c), cs[c].pc = "query", cs[c].file \in reg
                 PROVE  DropBefore(g, cs, cs[c].file, d, m)
      BY <2>3, <3>3 DEF MissingFile
    <3>4. DropBefore(e, cs, cs[c].file, d, m + 1)
      BY <3>1, <3>2, <3>3 DEF MissingFile
    <3>5. PICK i \in Places(e, d) : i < m + 1 /\ DropAt(e, cs, cs[c].file, d, i)
      BY <3>4 DEF DropBefore
    <3>6. i - 1 \in Places(g, d) /\ DropAt(g, cs, cs[c].file, d, i - 1)
      BY <3>5, <1>2
    <3>7. i - 1 < m
      BY <3>1, <3>5, <1>3
    <3> QED
      BY <3>6, <3>7 DEF DropBefore
  <2> QED
    BY <2>1, <2>3
<1> QED
  BY <1>1, <1>5, <1>6, <1>7, <1>8 DEF Survives

(* The databases stay what they are, but for one that starts or does not   *)
(* start.                                                                  *)
LEMMA SurvivesSame ==
  ASSUME NEW e, NEW g, NEW cs, NEW reg, NEW n,
         EngineOK(e), CallsOK(e, cs), Survives(e, cs, reg, n), Grown(e, g),
         \/ DbOf(g) = DbOf(e) \/ reg = {}
         \/ (StateOf(e, DbOf(e)) = "crashed" /\ DbOf(e) \in Dbs(e)),
         \A x \in Dbs(e) : FilesOf(g, x) = FilesOf(e, x),
         \A x \in Dbs(e) : \/ StateOf(g, x) = StateOf(e, x)
                           \/ StateOf(e, x) = "starting" /\ StateOf(g, x) \in {"ready", "failed"},
         \A x \in Dbs(g) \ Dbs(e) : StateOf(g, x) # "crashed"
  PROVE  Survives(g, cs, reg, n)
<1>4. \A x \in Dbs(e) : Places(g, x) = Places(e, x)
                        /\ \A m \in Places(e, x) : Request(g, x, m) = Request(e, x, m)
  BY DEF Grown
<1>9. Dbs(e) \subseteq Dbs(g) /\ \A x \in Dbs(g) : StateOf(g, x) = "crashed" <=> x \in Dbs(e) /\ StateOf(e, x) = "crashed"
  BY DEF Grown
<1>5. Crashes(g, n)
  BY <1>9 DEF Survives, Crashes
<1>6. \A c \in Callers : Retried(cs, c) => CrashedBefore(g, cs, c)
  BY <1>9 DEF Survives, CrashedBefore
<1>7. ASSUME n \leq 1, NEW c \in Callers, Retried(cs, c), cs[c].file \in reg PROVE OnItsWay(g, cs, c)
  <2>1. OnItsWay(e, cs, c) /\ CallOK(e, cs[c]) /\ CrashedBefore(e, cs, c) /\ Crashes(e, n)
    BY <1>7 DEF Survives, CallsOK
  <2>2. /\ cs[c].db \in Dbs(e)
        /\ cs[c].pc \in {"conn", "query"} => cs[c].conn \in Conns(e)
    BY <1>7, <2>1 DEF CallOK, NoCall, Retried
  <2>3. DbOf(g) = DbOf(e)
    <3>1. ASSUME StateOf(e, cs[c].db) = "crashed" PROVE FALSE
      BY <1>7, <2>1, <2>2, <3>1 DEF Crashes, CrashedBefore
    <3> QED
      BY <1>7, <2>1, <3>1 DEF OnItsWay
  <2>4. /\ cs[c].pc \in {"conn", "query"} => DbOfConn(g, cs[c].conn) = DbOfConn(e, cs[c].conn)
        /\ StateOf(g, cs[c].db) \in {"starting", "ready"} => StateOf(e, cs[c].db) \in {"starting", "ready"}
        /\ FilesOf(g, cs[c].db) = FilesOf(e, cs[c].db)
    BY <2>2 DEF Grown
  <2>5. DropSent(e, cs, cs[c].file, cs[c].db) => DropSent(g, cs, cs[c].file, cs[c].db)
    BY <2>2, <1>4 DEF DropSent, DropAt
  <2> QED
    BY <2>1, <2>3, <2>4, <2>5 DEF OnItsWay
<1>8. ASSUME n \leq 1, NEW x \in Dbs(g), NEW m \in Places(g, x) PROVE MissingFile(g, cs, reg, x, m)
  <2>1. x \in Dbs(e)
    BY <1>8 DEF Grown
  <2>2. MissingFile(e, cs, reg, x, m)
    BY <1>4, <1>8, <2>1 DEF Survives
  <2> QED
    BY <2>1, <2>2, <1>4 DEF MissingFile, DropBefore, DropAt
<1> QED
  BY <1>5, <1>6, <1>7, <1>8 DEF Survives

(* when a database crashes, which counts as one more,                      *)
LEMMA SurvivesCrash ==
  ASSUME NEW e, NEW g, NEW d \in Dbs(e), NEW cs, NEW reg, NEW n,
         EngineOK(e), CallsOK(e, cs), Survives(e, cs, reg, n), DbBecomes(e, g, d, "crashed"),
         StateOf(e, d) = "ready"
  PROVE  Survives(g, cs, reg, n + 1)
<1>9. /\ Dbs(e) = Dbs(g) /\ StateOf(g, d) = "crashed"
      /\ \A x \in Dbs(e) \ {d} : StateOf(g, x) = StateOf(e, x)
      /\ \A x \in Dbs(e) : Places(g, x) = Places(e, x)
      /\ \A x \in Dbs(e) : \A m \in Places(e, x) : Request(g, x, m) = Request(e, x, m)
  BY DEF DbBecomes, SameDb
<1>4. n \in Nat /\ Crashes(e, n)
  BY DEF Survives, Crashes
<1>5. Crashes(g, n + 1)
  BY <1>4, <1>9 DEF Crashes
<1>6. \A c \in Callers : Retried(cs, c) => CrashedBefore(g, cs, c)
  BY <1>9 DEF Survives, CrashedBefore
<1>7. ASSUME n + 1 \leq 1, NEW c \in Callers PROVE ~ Retried(cs, c)
  <2>1. n = 0
    BY <1>4, <1>7
  <2> QED
    BY <1>4, <2>1 DEF Survives, Crashes, CrashedBefore
<1>8. ASSUME n + 1 \leq 1, NEW x \in Dbs(g), NEW m \in Places(g, x) PROVE MissingFile(g, cs, reg, x, m)
  <2>1. m \in Places(e, x) /\ Request(g, x, m) = Request(e, x, m) /\ CallerOK(e, cs, x, m)
    BY <1>9 DEF CallsOK
  <2> QED
    BY <1>7, <1>8, <2>1 DEF MissingFile, CallerOK
<1> QED
  BY <1>5, <1>6, <1>7, <1>8 DEF Survives

(* when the call of c moves and stays on its way,                          *)
LEMMA SurvivesMoved ==
  ASSUME NEW e, NEW cs, NEW ds, NEW c \in Callers, NEW reg, NEW n,
         CallsOK(e, cs), Survives(e, cs, reg, n), Moved(cs, ds, c), Settles(e, cs, ds, c),
         Retried(ds, c) => CrashedBefore(e, ds, c),
         n \leq 1 /\ Retried(ds, c) /\ ds[c].file \in reg => OnItsWay(e, ds, c)
  PROVE  Survives(e, ds, reg, n)
<1>1. \A b \in Callers \ {c} : ds[b] = cs[b]
  BY DEF Moved
<1>2. ASSUME NEW d \in Dbs(e), NEW m \in Places(e, d), Request(e, d, m).of = "caller"
      PROVE  \/ ds[Request(e, d, m).id] = cs[Request(e, d, m).id]
             \/ ds[Request(e, d, m).id].pc = "again" /\ cs[Request(e, d, m).id].pc = "again"
  BY <1>1, <1>2 DEF CallsOK, CallerOK, Free, Settles
<1>3. \A f, d, m : d \in Dbs(e) /\ m \in Places(e, d) => (DropAt(e, cs, f, d, m) <=> DropAt(e, ds, f, d, m))
  BY <1>2 DEF DropAt
<1>4. ASSUME NEW b \in Callers, Retried(ds, b) PROVE CrashedBefore(e, ds, b)
  <2>1. CASE b = c
    BY <1>4, <2>1
  <2>2. CASE b # c
    BY <1>1, <1>4, <2>2 DEF Survives, Retried, CrashedBefore
  <2> QED
    BY <2>1, <2>2
<1>5. ASSUME n \leq 1, NEW b \in Callers, Retried(ds, b), ds[b].file \in reg PROVE OnItsWay(e, ds, b)
  <2>1. CASE b = c
    BY <1>5, <2>1
  <2>2. CASE b # c
    <3>1. ds[b] = cs[b]
      BY <1>1, <2>2
    <3>2. OnItsWay(e, cs, b) /\ CallOK(e, cs[b]) /\ Retried(cs, b)
      BY <1>5, <3>1 DEF Survives, Retried, CallsOK
    <3>3. cs[b].db \in Dbs(e)
      BY <3>2 DEF CallOK, NoCall, Retried
    <3>4. DropSent(e, cs, cs[b].file, cs[b].db) => DropSent(e, ds, cs[b].file, cs[b].db)
      BY <1>3, <3>3 DEF DropSent
    <3> QED
      BY <3>1, <3>2, <3>4 DEF OnItsWay
  <2> QED
    BY <2>1, <2>2
<1>6. ASSUME n \leq 1, NEW d \in Dbs(e), NEW m \in Places(e, d) PROVE MissingFile(e, ds, reg, d, m)
  <2>1. MissingFile(e, cs, reg, d, m)
    BY <1>6 DEF Survives
  <2>2. PICK b : b = Request(e, d, m).id
    OBVIOUS
  <2>3. Request(e, d, m).of = "caller" => ds[b] = cs[b] \/ ds[b].pc = "again"
    BY <1>2, <2>2
  <2>4. DropBefore(e, cs, cs[b].file, d, m) => DropBefore(e, ds, cs[b].file, d, m)
    BY <1>3 DEF DropBefore
  <2> QED
    BY <2>1, <2>2, <2>3, <2>4 DEF MissingFile, Retried
<1> QED
  BY <1>4, <1>5, <1>6 DEF Survives

(* when there are fewer sources,                                           *)
LEMMA SurvivesLess ==
  ASSUME NEW e, NEW cs, NEW reg, NEW less, NEW n, Survives(e, cs, reg, n), less \subseteq reg
  PROVE  Survives(e, cs, less, n)
BY DEF Survives, MissingFile

(* and when there is one more that no retried tile asked for.              *)
LEMMA SurvivesMore ==
  ASSUME NEW e, NEW cs, NEW reg, NEW f, NEW n, CallsOK(e, cs), Survives(e, cs, reg, n),
         \A c \in Callers : Retried(cs, c) => cs[c].file # f
  PROVE  Survives(e, cs, reg \cup {f}, n)
<1>1. ASSUME n \leq 1, NEW d \in Dbs(e), NEW m \in Places(e, d) PROVE MissingFile(e, cs, reg \cup {f}, d, m)
  <2>1. MissingFile(e, cs, reg, d, m) /\ CallerOK(e, cs, d, m)
    BY <1>1 DEF Survives, CallsOK
  <2> QED
    BY <2>1 DEF MissingFile, CallerOK
<1> QED
  BY <1>1 DEF Survives

-----------------------------------------------------------------------------
(* The parts of an action.                                                 *)

(* What every part of an action knows of the state.                        *)
LEMMA KeptIsTyped ==
  ASSUME NEW e, NEW cs, NEW reg, NEW us, NEW rs, NEW n, AllKept(e, cs, reg, us, rs, n)
  PROVE  /\ e \in EngineT /\ DbOf(e) \in Dbs(e) \cup {0} /\ ConnOf(e) \in Conns(e) \cup {0}
         /\ 0 \notin Dbs(e) /\ 0 \notin Conns(e)
         /\ \A k \in Conns(e) : DbOfConn(e, k) \in Dbs(e)
         /\ \A c \in Callers : CallOK(e, cs[c])
         /\ cs = [c \in Callers |-> cs[c]]
         /\ n \in Nat
BY DbOfIsADb DEF AllKept, EngineOK, CallsOK, Survives, Crashes

(* An answer is taken out of its queue.                                    *)
LEMMA KeptShorter ==
  ASSUME NEW e, NEW g, NEW d \in Dbs(e), NEW cs, NEW reg, NEW us, NEW rs, NEW n,
         AllKept(e, cs, reg, us, rs, n), Shorter(e, g, d),
         Request(e, d, 1).of = "caller" /\ cs[Request(e, d, 1).id].pc = "drop"
           => cs[Request(e, d, 1).id].file \notin reg
  PROVE  AllKept(g, cs, reg, us, rs, n)
<1>1. EngineOK(e) /\ CallsOK(e, cs) /\ FilesOnce(cs, reg, us) /\ Registered(e, cs, reg)
      /\ NothingElse(e, cs, reg, rs) /\ Survives(e, cs, reg, n)
  BY DEF AllKept
<1>2. EngineOK(g)
  BY <1>1, EngineShorter
<1>3. CallsOK(g, cs)
  BY <1>1, CallsShorter
<1>4. Registered(g, cs, reg)
  BY <1>1, RegisteredShorter
<1>5. NothingElse(g, cs, reg, rs)
  BY <1>1, NothingElseShorter
<1>6. Survives(g, cs, reg, n)
  BY <1>1, SurvivesShorter
<1> QED
  BY <1>1, <1>2, <1>3, <1>4, <1>5, <1>6 DEF AllKept

(* A request that changes no file.                                         *)
LEMMA KeptSent ==
  ASSUME NEW e, NEW g, NEW d \in Dbs(e), NEW r, NEW cs, NEW reg, NEW us, NEW rs, NEW n,
         AllKept(e, cs, reg, us, rs, n), Sent(e, g, d, r, FilesOf(e, d)),
         StateOf(e, d) \in {"ready", "crashed"},
         r.of = "conn" => /\ r.id \in Conns(e) /\ DbOfConn(e, r.id) = d
                          /\ ConnState(e, r.id) # "waiting",
         r.answer = "crash" <=> StateOf(e, d) = "crashed",
         r.of = "caller" =>
           /\ r.id \in Callers /\ Free(e, r.id) /\ Asks(cs, r.id, d, e) /\ cs[r.id].pc = "query"
           /\ r.answer = "bad" => cs[r.id].kind = "load"
           /\ r.answer = "ok" /\ cs[r.id].kind = "load" => cs[r.id].file \in FilesOf(e, d)
           /\ n \leq 1 /\ r.answer = "missing" /\ Retried(cs, r.id) /\ cs[r.id].file \in reg
                => DropSent(e, cs, cs[r.id].file, d)
  PROVE  AllKept(g, cs, reg, us, rs, n)
<1>1. EngineOK(e) /\ CallsOK(e, cs) /\ FilesOnce(cs, reg, us) /\ Registered(e, cs, reg)
      /\ NothingElse(e, cs, reg, rs) /\ Survives(e, cs, reg, n)
  BY DEF AllKept
<1>2. EngineOK(g)
  BY <1>1, EngineSent
<1>3. CallsOK(g, cs)
  BY <1>1, CallsSent
<1>4. Registered(g, cs, reg)
  BY <1>1, RegisteredSent
<1>5. NothingElse(g, cs, reg, rs)
  BY <1>1, NothingElseSent
<1>6. Survives(g, cs, reg, n)
  BY <1>1, SurvivesSent
<1> QED
  BY <1>1, <1>2, <1>3, <1>4, <1>5, <1>6 DEF AllKept

(* A request about a file of c.                                            *)
LEMMA KeptSentFile ==
  ASSUME NEW e, NEW g, NEW d \in Dbs(e), NEW r, NEW X, NEW cs, NEW reg, NEW us, NEW rs, NEW n,
         NEW c \in Callers,
         AllKept(e, cs, reg, us, rs, n), Sent(e, g, d, r, X),
         StateOf(e, d) \in {"ready", "crashed"},
         r.of = "caller", r.id = c, r.answer = "crash" <=> StateOf(e, d) = "crashed", r.answer # "missing",
         r.answer # "bad",
         Free(e, c), Asks(cs, c, d, e), cs[c].pc # "query",
         \/ cs[c].pc = "file" /\ X = FilesOf(e, d) \cup {cs[c].file}
         \/ cs[c].pc = "drop" /\ X = FilesOf(e, d) \ {cs[c].file}
         \/ cs[c].pc = "again" /\ \E f \in reg : X = FilesOf(e, d) \cup {f}
  PROVE  AllKept(g, cs, reg, us, rs, n)
<1>1. EngineOK(e) /\ CallsOK(e, cs) /\ FilesOnce(cs, reg, us) /\ Registered(e, cs, reg)
      /\ NothingElse(e, cs, reg, rs) /\ Survives(e, cs, reg, n)
  BY DEF AllKept
<1>2. EngineOK(g)
  BY <1>1, EngineSent
<1>3. CallsOK(g, cs)
  BY <1>1, CallsSent
<1>7. CallOK(e, cs[c]) /\ (cs[c].pc = "drop" => cs[c].kind = "delete") /\ (cs[c].pc = "file" => cs[c].kind = "load")
      /\ (cs[c].pc = "again" => cs[c].kind = "tile")
  <2>1. CallOK(e, cs[c])
    BY <1>1 DEF CallsOK
  <2> QED
    BY <2>1 DEF CallOK, NoCall
<1>8. ASSUME NEW b \in Callers, b # c, cs[c].pc = "drop", cs[b].kind = "load", cs[b].pc = "query"
      PROVE  cs[b].file # cs[c].file
  BY <1>1, <1>7, <1>8 DEF FilesOnce, Active, Ended
<1>9. ASSUME NEW b \in Callers, b # c, cs[c].pc = "file", cs[b].pc = "drop"
      PROVE  cs[b].file # cs[c].file
  <2>1. CallOK(e, cs[b])
    BY <1>1 DEF CallsOK
  <2>2. cs[b].kind = "delete"
    BY <1>9, <2>1 DEF CallOK, NoCall
  <2> QED
    BY <1>1, <1>7, <1>9, <2>2 DEF FilesOnce, Active, Ended
<1>4. Registered(g, cs, reg)
  BY <1>1, <1>7, <1>8, RegisteredSent
<1>5. NothingElse(g, cs, reg, rs)
  <2>1. cs[c].pc = "file" => LoadsFile(cs, c, cs[c].file, d)
    BY <1>7 DEF LoadsFile, Asks
  <2> QED
    BY <1>1, <1>7, <1>9, <2>1, NothingElseSent
<1>6. Survives(g, cs, reg, n)
  BY <1>1, SurvivesSent
<1> QED
  BY <1>1, <1>2, <1>3, <1>4, <1>5, <1>6 DEF AllKept

(* Caller c goes on.                                                       *)
LEMMA KeptMoved ==
  ASSUME NEW e, NEW cs, NEW ds, NEW c \in Callers, NEW reg, NEW us, NEW rs, NEW n,
         AllKept(e, cs, reg, us, rs, n), Moved(cs, ds, c), Settles(e, cs, ds, c), CallOK(e, ds[c]),
         ds[c].kind # "none" => ds[c].kind = cs[c].kind /\ ds[c].file = cs[c].file,
         ds[c].kind # "none" /\ Active(ds[c]) => Active(cs[c]),
         \A d \in Dbs(e), f \in reg :
           /\ StateOf(e, d) \in {"starting", "ready"}
           /\ cs[c].kind = "tile" /\ cs[c].pc \in {"db", "again"} /\ cs[c].db = d /\ f \notin cs[c].seen
           => \/ f \in FilesOf(e, d)
              \/ ds[c].kind = "tile" /\ ds[c].pc \in {"db", "again"} /\ ds[c].db = d /\ f \notin ds[c].seen,
         \A d \in Dbs(e) : \A f \in FilesOf(e, d) :
           StateOf(e, d) = "ready" /\ LoadsFile(cs, c, f, d) => f \in reg \cup rs \/ LoadsFile(ds, c, f, d),
         LoadsWhereItIs(e, ds, c),
         Retried(ds, c) => CrashedBefore(e, ds, c),
         n \leq 1 /\ Retried(ds, c) /\ ds[c].file \in reg => OnItsWay(e, ds, c)
  PROVE  AllKept(e, ds, reg, us, rs, n)
<1>1. EngineOK(e) /\ CallsOK(e, cs) /\ FilesOnce(cs, reg, us) /\ Registered(e, cs, reg)
      /\ NothingElse(e, cs, reg, rs) /\ Survives(e, cs, reg, n)
  BY DEF AllKept
<1>2. CallsOK(e, ds)
  BY <1>1, CallsMoved
<1>3. FilesOnce(ds, reg, us)
  BY <1>1, FilesOnceMoved
<1>4. Registered(e, ds, reg)
  BY <1>1, RegisteredMoved
<1>5. NothingElse(e, ds, reg, rs)
  BY <1>1, NothingElseMoved
<1>6. Survives(e, ds, reg, n)
  BY <1>1, SurvivesMoved
<1> QED
  BY <1>1, <1>2, <1>3, <1>4, <1>5, <1>6 DEF AllKept

(* Nothing changes but connections.                                        *)
LEMMA KeptGrown ==
  ASSUME NEW e, NEW g, NEW cs, NEW reg, NEW us, NEW rs, NEW n,
         AllKept(e, cs, reg, us, rs, n), EngineOK(g), Conns(e) \subseteq Conns(g),
         Dbs(g) = Dbs(e), \A x \in Dbs(e) : SameDb(e, g, x), DbOf(g) = DbOf(e),
         \A k \in Conns(e) : DbOfConn(g, k) = DbOfConn(e, k),
         \A k \in Conns(g) : ConnState(g, k) = "waiting" /\ StateOf(g, DbOfConn(g, k)) = "failed" => reg = {}
  PROVE  AllKept(g, cs, reg, us, rs, n) /\ Grown(e, g)
<1>1. EngineOK(e) /\ CallsOK(e, cs) /\ FilesOnce(cs, reg, us) /\ Registered(e, cs, reg)
      /\ NothingElse(e, cs, reg, rs) /\ Survives(e, cs, reg, n)
  BY DEF AllKept
<1>2. Grown(e, g)
  BY DEF Grown, SameDb, StayUp
<1>3. CallsOK(g, cs)
  BY <1>1, <1>2, CallsGrown
<1>4. Registered(g, cs, reg)
  <2>1. DbOf(g) = 0 => reg = {}
    BY <1>1 DEF Registered
  <2>2. \A x \in Dbs(e) : /\ FilesOf(g, x) = FilesOf(e, x) /\ Places(g, x) = Places(e, x)
                          /\ \A m \in Places(e, x) : Request(g, x, m) = Request(e, x, m)
    BY DEF SameDb
  <2>3. \A x \in Dbs(e) : StateOf(g, x) = StateOf(e, x)
    BY DEF SameDb
  <2> QED
    BY <1>1, <2>1, <2>2, <2>3, RegisteredSame
<1>5. \A x \in Dbs(e) : FilesOf(g, x) = FilesOf(e, x) /\ StateOf(g, x) = StateOf(e, x)
  BY DEF SameDb
<1>6. NothingElse(g, cs, reg, rs)
  BY <1>1, <1>2, <1>5, NothingElseSame
<1>7. Survives(g, cs, reg, n)
  <2>1. \A x \in Dbs(e) : FilesOf(g, x) = FilesOf(e, x)
    BY <1>5
  <2>2. \A x \in Dbs(e) : StateOf(g, x) = StateOf(e, x)
                          \/ (StateOf(e, x) = "starting" /\ StateOf(g, x) \in {"ready", "failed"})
    BY <1>5
  <2>3. \A x \in Dbs(g) \ Dbs(e) : StateOf(g, x) # "crashed"
    OBVIOUS
  <2> QED
    BY <1>1, <1>2, <2>1, <2>2, <2>3, SurvivesSame
<1> QED
  BY <1>1, <1>2, <1>3, <1>4, <1>6, <1>7 DEF AllKept

(* getDuckDB.  It makes a database only while there are no sources.        *)
LEMMA KeptWithDb ==
  ASSUME NEW e, NEW cs, NEW reg, NEW us, NEW rs, NEW n, AllKept(e, cs, reg, us, rs, n)
  PROVE  /\ AllKept(WithDb(e), cs, reg, us, rs, n) /\ Grown(e, WithDb(e))
         /\ DbOf(WithDb(e)) \in Dbs(WithDb(e)) /\ ConnOf(WithDb(e)) = ConnOf(e)
         /\ DbOf(e) # 0 => WithDb(e) = e
         /\ SameConns(e, WithDb(e))
<1>1. CASE DbOf(e) # 0
  <2>1. WithDb(e) = e
    BY <1>1 DEF WithDb
  <2> QED
    BY <1>1, <2>1, KeptIsTyped DEF Grown, StayUp, SameConns
<1>2. CASE DbOf(e) = 0
  <2>1. EngineOK(e) /\ CallsOK(e, cs) /\ FilesOnce(cs, reg, us) /\ Registered(e, cs, reg)
        /\ NothingElse(e, cs, reg, rs) /\ Survives(e, cs, reg, n)
    BY DEF AllKept
  <2>2. e.dbInstance = 0
    BY <1>2 DEF DbOf, Max0
  <2>3. e \in EngineT
    BY KeptIsTyped
  <2>4. PICK g : g = WithDb(e)
    OBVIOUS
  <2>5. \E N : NewDatabase(e, WithDb(e), N) /\ ConnOf(WithDb(e)) = ConnOf(e)
    BY <1>2, <2>2, <2>3, WithDbFacts
  <2>6. PICK N : NewDatabase(e, g, N) /\ ConnOf(g) = ConnOf(e)
    BY <2>4, <2>5
  <2>7. reg = {}
    BY <1>2, <2>1 DEF Registered
  <2>8. EngineOK(g)
    BY <1>2, <2>1, <2>6, EngineNewDatabase
  <2>9. Grown(e, g) /\ DbOf(g) = N /\ N \notin Dbs(e) /\ N \in Dbs(g) /\ SameConns(e, g)
        /\ \A x \in Dbs(e) : FilesOf(g, x) = FilesOf(e, x) /\ StateOf(g, x) = StateOf(e, x)
    BY <2>6 DEF NewDatabase, Grown, SameConns, SameDb, StayUp
  <2>10. \A x \in Dbs(g) \ Dbs(e) : FilesOf(g, x) = {} /\ StateOf(g, x) # "crashed"
    BY <2>6 DEF NewDatabase
  <2>11. CallsOK(g, cs)
    BY <2>1, <2>9, CallsGrown
  <2>12. Registered(g, cs, reg)
    BY <2>1, <2>6, <2>7, RegisteredNewDatabase
  <2>13. NothingElse(g, cs, reg, rs)
    BY <2>1, <2>9, <2>10, NothingElseSame
  <2>14. Survives(g, cs, reg, n)
    BY <2>1, <2>7, <2>9, <2>10, SurvivesSame
  <2>15. AllKept(g, cs, reg, us, rs, n)
    BY <2>1, <2>8, <2>11, <2>12, <2>13, <2>14 DEF AllKept
  <2> QED
    BY <1>2, <2>4, <2>6, <2>9, <2>15
<1> QED
  BY <1>1, <1>2

(* getConnection.                                                          *)
LEMMA KeptWithConn ==
  ASSUME NEW e, NEW cs, NEW reg, NEW us, NEW rs, NEW n, AllKept(e, cs, reg, us, rs, n)
  PROVE  /\ AllKept(WithConn(e), cs, reg, us, rs, n) /\ Grown(e, WithConn(e))
         /\ ConnOf(WithConn(e)) \in Conns(WithConn(e))
         /\ DbOf(e) # 0 => DbOf(WithConn(e)) = DbOf(e)
         /\ \/ reg # {}
            \/ \A k \in Conns(e) : ConnState(e, k) = "waiting" => StateOf(e, DbOfConn(e, k)) # "failed"
            => DbOfConn(WithConn(e), ConnOf(WithConn(e))) = DbOf(WithConn(e))
<1>1. CASE ConnOf(e) # 0
  <2>1. WithConn(e) = e
    BY <1>1 DEF WithConn
  <2>2. ConnOf(e) \in Conns(e)
    BY <1>1, KeptIsTyped
  <2>3. Grown(e, e)
    BY DEF Grown, StayUp
  <2>4. \/ DbOfConn(e, ConnOf(e)) = DbOf(e)
        \/ (ConnState(e, ConnOf(e)) = "waiting" /\ StateOf(e, DbOfConn(e, ConnOf(e))) = "failed")
    BY <1>1 DEF AllKept, EngineOK, Connections
  <2>5. ConnState(e, ConnOf(e)) = "waiting" /\ StateOf(e, DbOfConn(e, ConnOf(e))) = "failed" => reg = {}
    BY <2>2 DEF AllKept, Registered
  <2> QED
    BY <1>1, <2>1, <2>2, <2>3, <2>4, <2>5
<1>2. CASE ConnOf(e) = 0
  <2>1. PICK f : f = WithDb(e)
    OBVIOUS
  <2>2. AllKept(f, cs, reg, us, rs, n) /\ Grown(e, f) /\ DbOf(f) \in Dbs(f) /\ ConnOf(f) = 0
        /\ (DbOf(e) # 0 => f = e) /\ SameConns(e, f)
    BY <1>2, <2>1, KeptWithDb
  <2>3. DbOf(f) # 0 /\ f \in EngineT /\ DbOf(f) \in Nat /\ EngineOK(f)
    BY <2>2, KeptIsTyped, DbOfIsADb DEF AllKept
  <2>4. f.connInstance = 0
    BY <2>2 DEF ConnOf, Max0
  <2>5. WithConn(f) = WithConn(e)
    <3>1. WithDb(f) = f
      BY <2>3 DEF WithDb
    <3> QED
      BY <1>2, <2>1, <2>2, <3>1 DEF WithConn
  <2>6. PICK g : g = WithConn(f)
    OBVIOUS
  <2>7. \E K : NewConnection(f, WithConn(f), K)
    BY <2>2, <2>3, <2>4, WithConnFacts
  <2>8. PICK K : NewConnection(f, g, K)
    BY <2>6, <2>7
  <2>9. EngineOK(g)
    BY <2>3, <2>8, EngineNewConnection
  <2>10. /\ Conns(f) \subseteq Conns(g) /\ Dbs(g) = Dbs(f) /\ \A x \in Dbs(f) : SameDb(f, g, x)
         /\ DbOf(g) = DbOf(f) /\ \A k \in Conns(f) : DbOfConn(g, k) = DbOfConn(f, k)
         /\ ConnOf(g) \in Conns(g) /\ DbOfConn(g, ConnOf(g)) = DbOf(g)
    BY <2>8 DEF NewConnection
  <2>11. \A k \in Conns(g) : ConnState(g, k) = "waiting" /\ StateOf(g, DbOfConn(g, k)) = "failed" => reg = {}
    <3> SUFFICES ASSUME NEW k \in Conns(g), ConnState(g, k) = "waiting", StateOf(g, DbOfConn(g, k)) = "failed"
                 PROVE  reg = {}
      OBVIOUS
    <3>1. CASE k = K
      <4>1. StateOf(f, DbOf(f)) = "failed"
        BY <2>2, <2>8, <3>1 DEF NewConnection, SameDb
      <4>2. OneDatabase(f)
        BY <2>3 DEF EngineOK
      <4> QED
        BY <2>3, <4>1, <4>2 DEF OneDatabase, DbOf, Max0
    <3>2. CASE k # K
      <4>1. k \in Conns(f) /\ ConnState(f, k) = "waiting" /\ DbOfConn(g, k) = DbOfConn(f, k)
        BY <2>8, <3>2 DEF NewConnection
      <4>2. DbOfConn(f, k) \in Dbs(f)
        BY <2>2, <4>1, KeptIsTyped
      <4>3. StateOf(f, DbOfConn(f, k)) = "failed"
        BY <2>10, <4>1, <4>2 DEF SameDb
      <4> QED
        BY <2>2, <4>1, <4>3 DEF AllKept, Registered
    <3> QED
      BY <3>1, <3>2
  <2>12. AllKept(g, cs, reg, us, rs, n) /\ Grown(f, g)
    BY <2>2, <2>9, <2>10, <2>11, KeptGrown
  <2>13. Grown(e, g)
    BY <2>2, <2>12 DEF Grown, StayUp
  <2> QED
    BY <2>2, <2>5, <2>6, <2>10, <2>12, <2>13
<1> QED
  BY <1>1, <1>2

(* Caller c ends its call.                                                 *)
LEMMA KeptEnds ==
  ASSUME NEW e, NEW cs, NEW reg, NEW us, NEW rs, NEW n, AllKept(e, cs, reg, us, rs, n),
         NEW c \in Callers, Free(e, c), cs[c].kind # "none", NEW pc \in {"idle", "failed"},
         cs[c].kind = "tile" /\ cs[c].pc \in {"db", "again"} => StateOf(e, cs[c].db) \notin {"starting", "ready"},
         \A d \in Dbs(e) : \A f \in FilesOf(e, d) :
           StateOf(e, d) = "ready" /\ LoadsFile(cs, c, f, d) => f \in reg \cup rs,
         pc = "failed" /\ n \leq 1 /\ Retried(cs, c) => cs[c].file \notin reg
  PROVE  AllKept(e, [cs EXCEPT ![c] = IF pc = "idle" THEN NoCall ELSE [@ EXCEPT !.pc = pc]],
                 reg, us, rs, n)
<1>1. PICK new : new = IF pc = "idle" THEN NoCall ELSE [cs[c] EXCEPT !.pc = pc]
  OBVIOUS
<1>2. PICK ds : ds = [cs EXCEPT ![c] = new]
  OBVIOUS
<1>3. Moved(cs, ds, c) /\ ds[c] = new
  <2>1. cs = [b \in Callers |-> cs[b]]
    BY KeptIsTyped
  <2>2. Moved(cs, [cs EXCEPT ![c] = new], c) /\ [cs EXCEPT ![c] = new][c] = new
    BY <2>1, MovedFacts
  <2> QED
    BY <1>2, <2>2
<1>4. CallOK(e, cs[c]) /\ cs[c] \in CallT
  <2>1. CallOK(e, cs[c])
    BY KeptIsTyped
  <2> QED
    BY <2>1 DEF CallOK, NoCall
<1>5. \/ new = NoCall
      \/ /\ pc = "failed" /\ new \in CallT /\ new.pc = "failed" /\ new.kind = cs[c].kind /\ new.file = cs[c].file
         /\ new.db = cs[c].db /\ new.retried = cs[c].retried
  BY <1>1, <1>4 DEF CallT
<1>6. CallOK(e, new)
  <2>1. CASE new = NoCall
    BY <2>1 DEF CallOK
  <2>2. CASE new # NoCall
    <3>1. cs[c] # NoCall
      BY DEF NoCall
    <3>2. cs[c].kind \in {"load", "delete"} \/ cs[c].retried => cs[c].db \in Dbs(e)
      BY <1>4, <3>1 DEF CallOK
    <3>3. cs[c].retried => cs[c].kind = "tile"
      BY <1>4, <3>1 DEF CallOK
    <3> QED
      BY <1>5, <2>2, <3>2, <3>3 DEF CallOK
  <2> QED
    BY <2>1, <2>2
<1>7. ds[c].kind # "none" => ds[c].kind = cs[c].kind /\ ds[c].file = cs[c].file
  BY <1>3, <1>5 DEF NoCall
<1>8. ~ Active(ds[c])
  BY <1>3, <1>5 DEF NoCall, Active, Ended
<1>9. LoadsWhereItIs(e, ds, c)
  BY <1>3, <1>5 DEF NoCall, LoadsWhereItIs
<1>10. Retried(ds, c) => CrashedBefore(e, ds, c)
  <2>1. Retried(cs, c) => CrashedBefore(e, cs, c)
    BY DEF AllKept, Survives
  <2>2. CASE new = NoCall
    BY <1>3, <2>2 DEF NoCall, Retried
  <2>3. CASE new # NoCall
    BY <1>3, <1>5, <2>1, <2>3 DEF Retried, CrashedBefore
  <2> QED
    BY <2>2, <2>3
<1>11. ~ (n \leq 1 /\ Retried(ds, c) /\ ds[c].file \in reg)
  BY <1>3, <1>5 DEF NoCall, Retried
<1>12. Settles(e, cs, ds, c)
  BY DEF Settles
<1>13. AllKept(e, ds, reg, us, rs, n)
  BY <1>3, <1>6, <1>7, <1>8, <1>9, <1>10, <1>11, <1>12, KeptMoved
<1> QED
  BY <1>1, <1>2, <1>13

(* SendQuery, by a caller that has no request on its way.                  *)
LEMMA KeptSendQuery ==
  ASSUME NEW e, AllKept(e, calls, registry, used, raced, crashes),
         NEW c \in Callers, Free(e, c), calls[c].pc \in {"conn", "query"},
         NEW call, call = calls[c] \/ \E l \in Nat : call = [calls[c] EXCEPT !.left = l],
         StateOf(e, DbOfConn(e, calls[c].conn)) \in {"ready", "crashed"},
         SendQuery(e, c, call)
  PROVE  AllKept(eng', calls', registry, used, raced, crashes')
<1>1. CallOK(e, calls[c]) /\ calls[c] \in CallT /\ calls[c] # NoCall
  <2>1. CallOK(e, calls[c])
    BY KeptIsTyped
  <2> QED
    BY <2>1 DEF CallOK, NoCall
<1>2. /\ call \in CallT /\ call.kind = calls[c].kind /\ call.file = calls[c].file /\ call.pc = calls[c].pc
      /\ call.db = calls[c].db /\ call.conn = calls[c].conn /\ call.retried = calls[c].retried
      /\ call.seen = calls[c].seen
  BY <1>1 DEF CallT
<1>3. PICK new : new = [call EXCEPT !.pc = "query"]
  OBVIOUS
<1>4. /\ new \in CallT /\ new.kind = calls[c].kind /\ new.file = calls[c].file /\ new.pc = "query"
      /\ new.db = calls[c].db /\ new.conn = calls[c].conn /\ new.retried = calls[c].retried
      /\ new.seen = calls[c].seen
  BY <1>2, <1>3 DEF CallT
<1>5. PICK ds : ds = [calls EXCEPT ![c] = new]
  OBVIOUS
<1>6. Moved(calls, ds, c) /\ ds[c] = new
  <2>1. calls = [b \in Callers |-> calls[b]]
    BY KeptIsTyped
  <2>2. Moved(calls, [calls EXCEPT ![c] = new], c) /\ [calls EXCEPT ![c] = new][c] = new
    BY <2>1, MovedFacts
  <2> QED
    BY <1>5, <2>2
<1>7. CallOK(e, new)
  <2>1. /\ calls[c].conn \in Conns(e) /\ calls[c].kind # "delete"
        /\ calls[c].kind = "load" \/ calls[c].retried => calls[c].db \in Dbs(e)
        /\ calls[c].retried => calls[c].kind = "tile"
        /\ calls[c].kind = "load" => StateOf(e, calls[c].db) \in {"ready", "crashed"}
    BY <1>1 DEF CallOK
  <2> QED
    BY <1>4, <2>1 DEF CallOK
<1>8. LoadsWhereItIs(e, ds, c)
  <2>1. LoadsWhereItIs(e, calls, c)
    BY DEF AllKept, NothingElse
  <2> QED
    BY <1>4, <1>6, <2>1 DEF LoadsWhereItIs
<1>9. Retried(ds, c) => CrashedBefore(e, ds, c)
  <2>1. Retried(calls, c) => CrashedBefore(e, calls, c)
    BY DEF AllKept, Survives
  <2> QED
    BY <1>4, <1>6, <2>1 DEF Retried, CrashedBefore
<1>10. Settles(e, calls, ds, c)
  BY DEF Settles
<1>11. \A f, d, m : d \in Dbs(e) /\ m \in Places(e, d) => (DropAt(e, calls, f, d, m) <=> DropAt(e, ds, f, d, m))
  <2> SUFFICES ASSUME NEW f, NEW d \in Dbs(e), NEW m \in Places(e, d), Request(e, d, m).of = "caller"
               PROVE  calls[Request(e, d, m).id] = ds[Request(e, d, m).id]
    BY DEF DropAt
  <2>1. CallerOK(e, calls, d, m)
    BY DEF AllKept, CallsOK
  <2> QED
    BY <1>6, <2>1 DEF CallerOK, Free, Moved
<1>12. ASSUME crashes \leq 1, Retried(ds, c), ds[c].file \in registry PROVE OnItsWay(e, ds, c)
  <2>1. OnItsWay(e, calls, c)
    BY <1>4, <1>6, <1>12 DEF AllKept, Survives, Retried
  <2>2. DropSent(e, calls, calls[c].file, calls[c].db) => DropSent(e, ds, calls[c].file, calls[c].db)
    <3>1. calls[c].db \in Dbs(e)
      BY <1>1, <1>4, <1>6, <1>12 DEF CallOK, Retried
    <3> QED
      BY <1>11, <3>1 DEF DropSent
  <2> QED
    BY <1>4, <1>6, <2>1, <2>2 DEF OnItsWay
<1>13. AllKept(e, ds, registry, used, raced, crashes)
  <2>1. \A d \in Dbs(e) : \A f \in FilesOf(e, d) :
           StateOf(e, d) = "ready" /\ LoadsFile(calls, c, f, d) => f \in registry \cup raced \/ LoadsFile(ds, c, f, d)
    BY <1>4, <1>6 DEF LoadsFile
  <2>2. Active(calls[c])
    BY DEF Active, Ended
  <2> QED
    BY <1>4, <1>6, <1>7, <1>8, <1>9, <1>10, <1>12, <2>1, <2>2, KeptMoved
<1>14. PICK d : d = DbOfConn(e, calls[c].conn)
  OBVIOUS
<1>15. d \in Dbs(e) /\ e \in EngineT /\ Asks(ds, c, d, e) /\ calls[c].conn \in Conns(e)
  BY <1>1, <1>4, <1>6, <1>14, KeptIsTyped DEF CallOK, Asks
<1>16. d = e.conns[call.conn].db
  BY <1>2, <1>14 DEF DbOfConn
<1>17. calls' = ds
  BY <1>3, <1>5 DEF SendQuery, Goes
<1>18. PICK found : found = (call.file \in e.dbs[d].files)
  OBVIOUS
<1>19. found <=> new.file \in FilesOf(e, d)
  BY <1>2, <1>4, <1>18 DEF FilesOf
<1>20. \/ /\ eng' = Send(e, d, "caller", c, IF found THEN "ok" ELSE "missing")
          /\ UNCHANGED crashes
       \/ /\ found /\ call.kind = "load"
          /\ eng' = Send(e, d, "caller", c, "bad")
          /\ UNCHANGED crashes
       \/ /\ found /\ e.dbs[d].state = "ready" /\ crashes < MaxCrashes
          /\ crashes' = crashes + 1
          /\ eng' = Send([e EXCEPT !.dbs[d].state = "crashed"], d, "caller", c, "crash")
  BY <1>16, <1>18 DEF SendQuery
<1>21. CASE /\ eng' = Send(e, d, "caller", c, IF found THEN "ok" ELSE "missing")
            /\ UNCHANGED crashes
  <2>1. PICK a : a = IF found THEN "ok" ELSE "missing"
    OBVIOUS
  <2>2. a \in Answer
    BY <2>1 DEF Answer
  <2>3. PICK r : /\ Sent(e, Send(e, d, "caller", c, a), d, r, FilesOf(e, d))
                 /\ r.of = "caller" /\ r.id = c
                 /\ StateOf(e, d) = "ready" => r.answer = a
                 /\ StateOf(e, d) # "ready" => r.answer = "crash"
    BY <1>15, <2>2, SendFacts
  <2>4. Sent(e, eng', d, r, FilesOf(e, d))
    BY <1>21, <2>1, <2>3
  <2>5. r.answer = "crash" <=> StateOf(e, d) = "crashed"
    BY <1>14, <2>1, <2>3
  <2>6. r.answer # "bad" /\ (r.answer = "ok" => ds[c].file \in FilesOf(e, d))
    BY <1>6, <1>19, <2>1, <2>3
  <2>7. ASSUME crashes \leq 1, r.answer = "missing", Retried(ds, c), ds[c].file \in registry
        PROVE  DropSent(e, ds, ds[c].file, d)
    <3>1. OnItsWay(e, ds, c)
      BY <1>12, <2>7
    <3>2. d = ds[c].db /\ ds[c].file \in ds[c].seen
      BY <1>4, <1>6, <1>14, <3>1 DEF OnItsWay
    <3>3. StateOf(e, d) = "ready" /\ ds[c].file \notin FilesOf(e, d)
      BY <1>6, <1>14, <1>19, <2>1, <2>3, <2>7
    <3> QED
      BY <3>1, <3>2, <3>3 DEF OnItsWay
  <2>8. AllKept(eng', ds, registry, used, raced, crashes)
    BY <1>4, <1>6, <1>13, <1>14, <1>15, <2>3, <2>4, <2>5, <2>6, <2>7, KeptSent
  <2> QED
    BY <1>17, <1>21, <2>8
<1>22. CASE /\ found /\ call.kind = "load"
            /\ eng' = Send(e, d, "caller", c, "bad")
            /\ UNCHANGED crashes
  <2>2. "bad" \in Answer
    BY DEF Answer
  <2>3. PICK r : /\ Sent(e, Send(e, d, "caller", c, "bad"), d, r, FilesOf(e, d))
                 /\ r.of = "caller" /\ r.id = c
                 /\ StateOf(e, d) = "ready" => r.answer = "bad"
                 /\ StateOf(e, d) # "ready" => r.answer = "crash"
    BY <1>15, <2>2, SendFacts
  <2>4. Sent(e, eng', d, r, FilesOf(e, d))
    BY <1>22, <2>3
  <2>5. r.answer = "crash" <=> StateOf(e, d) = "crashed"
    BY <1>14, <2>3
  <2>6. r.answer # "ok" /\ r.answer # "missing" /\ ds[c].kind = "load"
    BY <1>2, <1>4, <1>6, <1>22, <2>3
  <2>8. AllKept(eng', ds, registry, used, raced, crashes)
    BY <1>4, <1>6, <1>13, <1>14, <1>15, <2>3, <2>4, <2>5, <2>6, KeptSent
  <2> QED
    BY <1>17, <1>22, <2>8
<1>23. CASE /\ found /\ e.dbs[d].state = "ready" /\ crashes < MaxCrashes
            /\ crashes' = crashes + 1
            /\ eng' = Send([e EXCEPT !.dbs[d].state = "crashed"], d, "caller", c, "crash")
  <2>1. PICK s : s = "crashed"
    OBVIOUS
  <2>2. PICK g : /\ g = [e EXCEPT !.dbs[d].state = s]
                 /\ DbBecomes(e, g, d, s) /\ SamePromises(e, g)
    BY <1>15, <2>1, DbBecomesFacts
  <2>3. EngineOK(e) /\ CallsOK(e, ds) /\ FilesOnce(ds, registry, used) /\ Registered(e, ds, registry)
        /\ NothingElse(e, ds, registry, raced) /\ Survives(e, ds, registry, crashes)
    BY <1>13 DEF AllKept
  <2>4. StateOf(e, d) = "ready" /\ DbBecomes(e, g, d, "crashed")
    BY <1>23, <2>1, <2>2 DEF StateOf
  <2>5. /\ Dbs(g) = Dbs(e) /\ Conns(g) = Conns(e) /\ DbOf(g) = DbOf(e) /\ StateOf(g, d) = "crashed"
        /\ \A x \in Dbs(e) : /\ FilesOf(g, x) = FilesOf(e, x) /\ Places(g, x) = Places(e, x)
                             /\ \A m \in Places(e, x) : Request(g, x, m) = Request(e, x, m)
        /\ \A x \in Dbs(e) \ {d} : StateOf(g, x) = StateOf(e, x)
        /\ \A k \in Conns(e) : DbOfConn(g, k) = DbOfConn(e, k) /\ ConnState(g, k) = ConnState(e, k)
    BY <2>2, <2>4 DEF DbBecomes, SamePromises, SameConns, SameDb
  <2>6. EngineOK(g)
    BY <1>15, <2>2, <2>3, <2>4, EngineCrashes
  <2>7. Grown(e, g)
    BY <2>5 DEF Grown, StayUp
  <2>8. CallsOK(g, ds)
    BY <2>3, <2>7, CallsGrown
  <2>9. Registered(g, ds, registry)
    <3>1. DbOf(g) = 0 => registry = {}
      BY <2>3, <2>5 DEF Registered
    <3>2. \A k \in Conns(g) : ConnState(g, k) = "waiting" /\ StateOf(g, DbOfConn(g, k)) = "failed" => registry = {}
      <4> SUFFICES ASSUME NEW k \in Conns(g), ConnState(g, k) = "waiting", StateOf(g, DbOfConn(g, k)) = "failed"
                   PROVE  registry = {}
        OBVIOUS
      <4>1. k \in Conns(e) /\ DbOfConn(e, k) \in Dbs(e)
        BY <1>13, <2>5, KeptIsTyped
      <4> QED
        BY <2>3, <2>5, <4>1 DEF Registered
    <3>3. \A x \in Dbs(e) : StateOf(g, x) = StateOf(e, x) \/ StateOf(g, x) = "crashed"
      BY <2>5
    <3> QED
      BY <2>3, <2>5, <3>1, <3>2, <3>3, RegisteredSame
  <2>10. NothingElse(g, ds, registry, raced)
    <3>1. \A x \in Dbs(e) : StateOf(g, x) = StateOf(e, x) \/ StateOf(g, x) = "crashed"
      BY <2>5
    <3> QED
      BY <2>3, <2>5, <2>7, <3>1, NothingElseSame
  <2>11. Survives(g, ds, registry, crashes + 1)
    BY <1>15, <2>3, <2>4, SurvivesCrash
  <2>12. AllKept(g, ds, registry, used, raced, crashes')
    BY <1>23, <2>3, <2>6, <2>8, <2>9, <2>10, <2>11 DEF AllKept
  <2>13. "crash" \in Answer /\ g \in EngineT /\ d \in Dbs(g)
    BY <1>15, <2>4, <2>5 DEF Answer, DbBecomes
  <2>14. PICK r : /\ Sent(g, Send(g, d, "caller", c, "crash"), d, r, FilesOf(g, d))
                  /\ r.of = "caller" /\ r.id = c
                  /\ StateOf(g, d) # "ready" => r.answer = "crash"
    BY <2>13, SendFacts
  <2>15. Sent(g, eng', d, r, FilesOf(g, d))
    BY <1>23, <2>1, <2>2, <2>14
  <2>16. Free(g, c)
    BY <2>5 DEF Free
  <2>17. Asks(ds, c, d, g)
    BY <1>4, <1>6, <1>15, <2>5 DEF Asks
  <2>18. AllKept(eng', ds, registry, used, raced, crashes')
    BY <1>4, <1>6, <2>5, <2>12, <2>13, <2>14, <2>15, <2>16, <2>17, KeptSent
  <2> QED
    BY <1>17, <2>18
<1> QED
  BY <1>20, <1>21, <1>22, <1>23

(* A deletion that is on its way is the same when another caller moves.    *)
LEMMA DropsMoved ==
  ASSUME NEW e, NEW cs, NEW ds, NEW c \in Callers, CallsOK(e, cs), Moved(cs, ds, c), Settles(e, cs, ds, c),
         NEW f, NEW d \in Dbs(e)
  PROVE  DropSent(e, cs, f, d) => DropSent(e, ds, f, d)
<1> SUFFICES ASSUME NEW m \in Places(e, d), DropAt(e, cs, f, d, m)
             PROVE  DropAt(e, ds, f, d, m)
  BY DEF DropSent
<1>1. CallerOK(e, cs, d, m) /\ Request(e, d, m).of = "caller" /\ cs[Request(e, d, m).id].pc = "drop"
  BY DEF CallsOK, DropAt
<1>2. Request(e, d, m).id \in Callers \ {c}
  BY <1>1 DEF CallerOK, Settles, Free
<1> QED
  BY <1>2 DEF Moved, DropAt

(* A call begins, of a source or of a file that is new.                    *)
LEMMA KeptBegins ==
  ASSUME NEW e, NEW cs, NEW reg, NEW us, NEW rs, NEW n, AllKept(e, cs, reg, us, rs, n),
         NEW c \in Callers, cs[c].pc \in Ended, NEW call, CallOK(e, call), ~ call.retried,
         \/ call.pc = "conn" /\ call.kind \in {"tile", "query"}
         \/ call.pc = "db" /\ call.kind \in {"load", "delete"},
         NEW ws,
         \/ call.kind # "load" /\ call.file \in reg /\ ws = us
         \/ call.kind = "load" /\ call.file \in Files \ us /\ ws = us \cup {call.file}
  PROVE  AllKept(e, [cs EXCEPT ![c] = call], reg, ws, rs, n)
<1>1. EngineOK(e) /\ CallsOK(e, cs) /\ FilesOnce(cs, reg, us) /\ Registered(e, cs, reg)
      /\ NothingElse(e, cs, reg, rs) /\ Survives(e, cs, reg, n)
  BY DEF AllKept
<1>2. PICK ds : ds = [cs EXCEPT ![c] = call]
  OBVIOUS
<1>3. Moved(cs, ds, c) /\ ds[c] = call
  <2>1. cs = [b \in Callers |-> cs[b]]
    BY KeptIsTyped
  <2>2. Moved(cs, [cs EXCEPT ![c] = call], c) /\ [cs EXCEPT ![c] = call][c] = call
    BY <2>1, MovedFacts
  <2> QED
    BY <1>2, <2>2
<1>4. Settles(e, cs, ds, c)
  BY <1>1, FreeIfNotAsking DEF Settles, Ended
<1>5. CallsOK(e, ds)
  BY <1>1, <1>3, <1>4, CallsMoved
<1>6. FilesOnce(ds, reg, ws)
  <2>1. \A b \in Callers \ {c} : ds[b] = cs[b]
    BY <1>3 DEF Moved
  <2>2. reg \subseteq ws /\ ws \subseteq Files /\ us \subseteq ws /\ call.file \in ws
    BY <1>1 DEF FilesOnce
  <2>3. \A b \in Callers : ds[b].kind # "none" => ds[b].file \in ws
    BY <1>1, <1>3, <2>1, <2>2 DEF FilesOnce
  <2>4. ASSUME NEW b \in Callers, ds[b].kind = "load", Active(ds[b])
        PROVE  /\ ds[b].file \notin reg
               /\ \A a \in Callers : ds[a].kind # "none" /\ a # b => ds[a].file # ds[b].file
    <3>1. CASE b = c
      BY <1>1, <1>3, <2>1, <2>4, <3>1 DEF FilesOnce
    <3>2. CASE b # c
      <4>1. cs[b].kind = "load" /\ Active(cs[b]) /\ ds[b] = cs[b]
        BY <2>1, <2>4, <3>2
      <4>2. cs[b].file \notin reg /\ cs[b].file \in us
        BY <1>1, <4>1 DEF FilesOnce
      <4>3. call.file # cs[b].file
        BY <4>2
      <4> QED
        BY <1>1, <1>3, <2>1, <4>1, <4>2, <4>3 DEF FilesOnce
    <3> QED
      BY <3>1, <3>2
  <2> QED
    BY <2>2, <2>3, <2>4 DEF FilesOnce
<1>7. Registered(e, ds, reg)
  <2>1. cs[c].pc \notin {"db", "again"}
    BY DEF Ended
  <2> QED
    BY <1>1, <1>3, <1>4, <2>1, RegisteredMoved
<1>8. NothingElse(e, ds, reg, rs)
  <2>1. \A f, d : ~ LoadsFile(cs, c, f, d)
    BY DEF LoadsFile, Ended
  <2>2. LoadsWhereItIs(e, ds, c)
    BY <1>3 DEF LoadsWhereItIs
  <2> QED
    BY <1>1, <1>3, <1>4, <2>1, <2>2, NothingElseMoved
<1>9. Survives(e, ds, reg, n)
  <2>1. ~ Retried(ds, c)
    BY <1>3 DEF Retried
  <2> QED
    BY <1>1, <1>3, <1>4, <2>1, SurvivesMoved
<1> QED
  BY <1>1, <1>2, <1>5, <1>6, <1>7, <1>8, <1>9 DEF AllKept

(* The loop of recoverAfterCrash: when it has come to its end the database *)
(* has the files of all sources.                                           *)
LEMMA KeptReregister ==
  ASSUME NEW e, AllKept(e, calls, registry, used, raced, crashes),
         NEW c \in Callers, Free(e, c), calls[c].pc \in {"db", "again"}, calls[c].kind = "tile",
         StateOf(e, calls[c].db) \in {"ready", "crashed"},
         Reregister(e, c, calls[c])
  PROVE  AllKept(eng', calls', registry, used, raced, crashes)
<1>1. CallOK(e, calls[c]) /\ calls[c] \in CallT /\ calls[c].retried /\ calls[c].db \in Dbs(e)
  <2>1. CallOK(e, calls[c])
    BY KeptIsTyped
  <2> QED
    BY <2>1 DEF CallOK, NoCall
<1>2. PICK d : d = calls[c].db
  OBVIOUS
<1>3. calls = [b \in Callers |-> calls[b]] /\ e \in EngineT /\ EngineOK(e) /\ CallsOK(e, calls)
  BY KeptIsTyped DEF AllKept
<1>4. CrashedBefore(e, calls, c) /\ Retried(calls, c)
  BY <1>1 DEF AllKept, Survives, Retried
<1>5. crashes \leq 1 /\ calls[c].file \in registry => OnItsWay(e, calls, c)
  BY <1>4 DEF AllKept, Survives
<1>6. Active(calls[c]) /\ \A f, x : ~ LoadsFile(calls, c, f, x)
  BY DEF Active, Ended, LoadsFile
<1>7. ASSUME NEW f \in registry \ calls[c].seen, eng' = SendFile(e, c, d, e.dbs[d].files \cup {f}),
             calls' = [calls EXCEPT ![c] = [calls[c] EXCEPT !.pc = "again", !.seen = @ \cup {f}]]
      PROVE  AllKept(eng', calls', registry, used, raced, crashes)
  <2>1. PICK n1 : n1 = [calls[c] EXCEPT !.pc = "again"]
    OBVIOUS
  <2>2. PICK n2 : n2 = [calls[c] EXCEPT !.pc = "again", !.seen = @ \cup {f}]
    OBVIOUS
  <2>3. f \in Files
    BY DEF AllKept, FilesOnce
  <2>4. /\ n1 \in CallT /\ n1.kind = "tile" /\ n1.file = calls[c].file /\ n1.pc = "again"
        /\ n1.db = d /\ n1.retried /\ n1.seen = calls[c].seen
    BY <1>1, <1>2, <2>1 DEF CallT
  <2>5. /\ n2 \in CallT /\ n2.kind = "tile" /\ n2.file = calls[c].file /\ n2.pc = "again"
        /\ n2.db = d /\ n2.retried /\ n2.seen = calls[c].seen \cup {f}
    BY <1>1, <1>2, <2>2, <2>3 DEF CallT
  <2>6. PICK d1 : d1 = [calls EXCEPT ![c] = n1]
    OBVIOUS
  <2>7. Moved(calls, d1, c) /\ d1[c] = n1
    <3>1. Moved(calls, [calls EXCEPT ![c] = n1], c) /\ [calls EXCEPT ![c] = n1][c] = n1
      BY <1>3, MovedFacts
    <3> QED
      BY <2>6, <3>1
  <2>8. PICK d2 : d2 = [calls EXCEPT ![c] = n2]
    OBVIOUS
  <2>9. Moved(calls, d2, c) /\ d2[c] = n2
    <3>1. Moved(calls, [calls EXCEPT ![c] = n2], c) /\ [calls EXCEPT ![c] = n2][c] = n2
      BY <1>3, MovedFacts
    <3> QED
      BY <2>8, <3>1
  <2>10. AllKept(e, d1, registry, used, raced, crashes)
    <3>1. Settles(e, calls, d1, c)
      BY DEF Settles
    <3>2. CallOK(e, d1[c])
      BY <1>1, <1>2, <2>4, <2>7 DEF CallOK
    <3>3. LoadsWhereItIs(e, d1, c)
      BY <2>4, <2>7 DEF LoadsWhereItIs
    <3>4. CrashedBefore(e, d1, c)
      BY <1>2, <1>4, <2>4, <2>7 DEF CrashedBefore
    <3>5. ASSUME crashes \leq 1, d1[c].file \in registry PROVE OnItsWay(e, d1, c)
      <4>1. OnItsWay(e, calls, c)
        BY <1>5, <2>4, <2>7, <3>5
      <4>2. DropSent(e, calls, calls[c].file, d) => DropSent(e, d1, calls[c].file, d)
        BY <1>1, <1>2, <1>3, <2>7, <3>1, DropsMoved
      <4> QED
        BY <1>2, <2>4, <2>7, <4>1, <4>2 DEF OnItsWay
    <3>6. \A x \in Dbs(e), h \in registry :
           /\ StateOf(e, x) \in {"starting", "ready"}
           /\ calls[c].kind = "tile" /\ calls[c].pc \in {"db", "again"} /\ calls[c].db = x /\ h \notin calls[c].seen
           => \/ h \in FilesOf(e, x)
              \/ d1[c].kind = "tile" /\ d1[c].pc \in {"db", "again"} /\ d1[c].db = x /\ h \notin d1[c].seen
      BY <1>2, <2>4, <2>7
    <3>7. d1[c].kind # "none" => d1[c].kind = calls[c].kind /\ d1[c].file = calls[c].file
      BY <2>4, <2>7
    <3> QED
      BY <1>6, <2>7, <3>1, <3>2, <3>3, <3>4, <3>5, <3>6, <3>7, KeptMoved
  <2>11. PICK X : X = FilesOf(e, d) \cup {f}
    OBVIOUS
  <2>12. X \in SUBSET Files
    <3>1. FilesOf(e, d) \in SUBSET Files
      BY <1>1, <1>2, <1>3, DbParts DEF FilesOf
    <3> QED
      BY <2>3, <2>11, <3>1
  <2>13. PICK r : /\ Sent(e, SendFile(e, c, d, X), d, r, X)
                  /\ r.of = "caller" /\ r.id = c
                  /\ StateOf(e, d) = "ready" => r.answer = "ok"
                  /\ StateOf(e, d) # "ready" => r.answer = "crash"
    BY <1>1, <1>2, <1>3, <2>12, SendFileFacts
  <2>14. eng' = SendFile(e, c, d, X)
    BY <1>7, <2>11 DEF FilesOf
  <2>15. PICK g : g = eng'
    OBVIOUS
  <2>16. Sent(e, g, d, r, X)
    BY <2>13, <2>14, <2>15
  <2>17. AllKept(g, d1, registry, used, raced, crashes)
    <3>1. Asks(d1, c, d, e)
      BY <2>4, <2>7 DEF Asks
    <3>2. r.answer = "crash" <=> StateOf(e, d) = "crashed"
      BY <1>2, <2>13
    <3>3. r.answer # "missing" /\ r.answer # "bad"
      BY <2>13
    <3>4. d1[c].pc = "again" /\ \E h \in registry : X = FilesOf(e, d) \cup {h}
      BY <2>4, <2>7, <2>11
    <3> QED
      BY <1>1, <1>2, <2>10, <2>13, <2>16, <3>1, <3>2, <3>3, <3>4, KeptSentFile
  <2>18. AllKept(g, d2, registry, used, raced, crashes)
    <3>0. /\ Moved(d1, d2, c) /\ d \in Dbs(g) /\ Dbs(g) = Dbs(e) /\ Conns(g) = Conns(e)
          /\ StateOf(g, d) = StateOf(e, d)
          /\ StateOf(e, d) = "ready" => FilesOf(g, d) = X
      BY <1>1, <1>2, <2>7, <2>9, <2>16 DEF Moved, Sent, SameConns
    <3>1. Settles(g, d1, d2, c)
      BY <2>4, <2>5, <2>7, <2>9 DEF Settles
    <3>2. CallOK(g, d2[c])
      BY <2>5, <2>9, <3>0 DEF CallOK
    <3>3. LoadsWhereItIs(g, d2, c)
      BY <2>5, <2>9 DEF LoadsWhereItIs
    <3>4. Retried(d1, c)
      BY <2>4, <2>7 DEF Retried
    <3>5. CrashedBefore(g, d2, c)
      <4>1. CrashedBefore(g, d1, c)
        BY <2>17, <3>4 DEF AllKept, Survives
      <4> QED
        BY <2>4, <2>5, <2>7, <2>9, <4>1 DEF CrashedBefore
    <3>6. ASSUME crashes \leq 1, d2[c].file \in registry PROVE OnItsWay(g, d2, c)
      <4>1. OnItsWay(g, d1, c)
        BY <2>4, <2>5, <2>7, <2>9, <2>17, <3>4, <3>6 DEF AllKept, Survives
      <4>2. DropSent(g, d1, calls[c].file, d) => DropSent(g, d2, calls[c].file, d)
        BY <2>17, <3>0, <3>1, DropsMoved DEF AllKept
      <4>3. StateOf(g, d) # "starting"
        BY <1>2, <3>0
      <4> QED
        BY <2>4, <2>5, <2>7, <2>9, <2>11, <3>0, <4>1, <4>2, <4>3 DEF OnItsWay
    <3>7. \A x \in Dbs(g), h \in registry :
           /\ StateOf(g, x) \in {"starting", "ready"}
           /\ d1[c].kind = "tile" /\ d1[c].pc \in {"db", "again"} /\ d1[c].db = x /\ h \notin d1[c].seen
           => \/ h \in FilesOf(g, x)
              \/ d2[c].kind = "tile" /\ d2[c].pc \in {"db", "again"} /\ d2[c].db = x /\ h \notin d2[c].seen
      BY <1>2, <2>4, <2>5, <2>7, <2>9, <2>11, <3>0
    <3>8. \A h, x : ~ LoadsFile(d1, c, h, x)
      BY <2>4, <2>7 DEF LoadsFile
    <3>9. /\ d2[c].kind # "none" => d2[c].kind = d1[c].kind /\ d2[c].file = d1[c].file
          /\ Active(d1[c])
      BY <2>4, <2>5, <2>7, <2>9 DEF Active, Ended
    <3> QED
      BY <2>17, <3>0, <3>1, <3>2, <3>3, <3>5, <3>6, <3>7, <3>8, <3>9, KeptMoved
  <2> QED
    BY <1>7, <2>2, <2>8, <2>15, <2>18
<1>8. ASSUME registry \subseteq calls[c].seen, eng' = WithConn(e),
             calls' = [calls EXCEPT ![c] = [calls[c] EXCEPT !.pc = "conn", !.conn = ConnOf(WithConn(e))]]
      PROVE  AllKept(eng', calls', registry, used, raced, crashes)
  <2>1. PICK g : g = WithConn(e)
    OBVIOUS
  <2>2. /\ AllKept(g, calls, registry, used, raced, crashes) /\ Grown(e, g)
        /\ ConnOf(g) \in Conns(g)
        /\ registry # {} => DbOfConn(g, ConnOf(g)) = DbOf(g)
    BY <2>1, KeptWithConn
  <2>3. PICK new : new = [calls[c] EXCEPT !.pc = "conn", !.conn = ConnOf(g)]
    OBVIOUS
  <2>4. ConnOf(g) \in Nat
    BY <2>2, DbOfIsADb DEF AllKept
  <2>5. /\ new \in CallT /\ new.kind = "tile" /\ new.file = calls[c].file /\ new.pc = "conn"
        /\ new.db = d /\ new.retried /\ new.seen = calls[c].seen /\ new.conn = ConnOf(g)
    BY <1>1, <1>2, <2>3, <2>4 DEF CallT
  <2>6. PICK ds : ds = [calls EXCEPT ![c] = new]
    OBVIOUS
  <2>7. Moved(calls, ds, c) /\ ds[c] = new
    <3>1. Moved(calls, [calls EXCEPT ![c] = new], c) /\ [calls EXCEPT ![c] = new][c] = new
      BY <1>3, MovedFacts
    <3> QED
      BY <2>6, <3>1
  <2>8. Free(g, c)
    BY <2>2 DEF Free, Grown
  <2>9. Settles(g, calls, ds, c)
    BY <2>8 DEF Settles
  <2>10. d \in Dbs(g)
    BY <1>1, <1>2, <2>2 DEF Grown
  <2>11. CallOK(g, ds[c])
    BY <2>2, <2>5, <2>7, <2>10 DEF CallOK
  <2>12. LoadsWhereItIs(g, ds, c)
    BY <2>5, <2>7 DEF LoadsWhereItIs
  <2>13. CrashedBefore(g, ds, c)
    <3>1. CrashedBefore(g, calls, c)
      BY <1>4, <2>2 DEF AllKept, Survives
    <3> QED
      BY <1>2, <2>5, <2>7, <3>1 DEF CrashedBefore
  <2>14. ASSUME crashes \leq 1, ds[c].file \in registry PROVE OnItsWay(g, ds, c)
    <3>1. OnItsWay(g, calls, c)
      BY <1>4, <2>2, <2>5, <2>7, <2>14 DEF AllKept, Survives
    <3>2. DropSent(g, calls, calls[c].file, d) => DropSent(g, ds, calls[c].file, d)
      BY <2>2, <2>7, <2>9, <2>10, DropsMoved DEF AllKept
    <3>3. DbOfConn(g, ds[c].conn) = d /\ ds[c].file \in ds[c].seen
      <4>1. registry # {} /\ calls[c].file \in registry
        BY <2>5, <2>7, <2>14
      <4>2. d = DbOf(g)
        BY <1>2, <3>1 DEF OnItsWay
      <4> QED
        BY <1>8, <2>2, <2>5, <2>7, <4>1, <4>2
    <3> QED
      BY <1>2, <2>5, <2>7, <3>1, <3>2, <3>3 DEF OnItsWay
  <2>15. /\ ds[c].kind # "none" => ds[c].kind = calls[c].kind /\ ds[c].file = calls[c].file
         /\ \A h \in registry : h \in calls[c].seen
    BY <1>8, <2>5, <2>7
  <2>16. AllKept(g, ds, registry, used, raced, crashes)
    BY <1>6, <2>2, <2>7, <2>9, <2>11, <2>12, <2>13, <2>14, <2>15, KeptMoved
  <2> QED
    BY <1>8, <2>1, <2>3, <2>6, <2>16
<1> QED
  <2>1. \/ \E f \in registry \ calls[c].seen :
             /\ eng' = SendFile(e, c, d, e.dbs[d].files \cup {f})
             /\ calls' = [calls EXCEPT ![c] = [calls[c] EXCEPT !.pc = "again", !.seen = @ \cup {f}]]
        \/ /\ registry \subseteq calls[c].seen
           /\ eng' = WithConn(e)
           /\ calls' = [calls EXCEPT ![c] = [calls[c] EXCEPT !.pc = "conn", !.conn = ConnOf(WithConn(e))]]
    BY <1>2 DEF Reregister, Goes
  <2> QED
    BY <2>1, <1>7, <1>8

(* The restart of recoverAfterCrash, when it gives up no other database    *)
(* than the one that crashed.                                              *)
LEMMA KeptRecover ==
  ASSUME NEW e, AllKept(e, calls, registry, used, raced, crashes),
         NEW c \in Callers, Free(e, c), calls[c].kind = "tile", calls[c].pc \in {"conn", "query"},
         DbOf(e) = DbOfConn(e, calls[c].conn), StateOf(e, DbOf(e)) = "crashed",
         \A n \in Places(e, DbOf(e)) : Request(e, DbOf(e), n).answer = "crash",
         Recover(e, c, calls[c])
  PROVE  AllKept(eng', calls', registry, used, raced, crashes)
<1>1. CallOK(e, calls[c]) /\ calls[c] \in CallT /\ calls[c].conn \in Conns(e)
  <2>1. CallOK(e, calls[c])
    BY KeptIsTyped
  <2> QED
    BY <2>1 DEF CallOK, NoCall
<1>2. EngineOK(e) /\ CallsOK(e, calls) /\ FilesOnce(calls, registry, used) /\ Registered(e, calls, registry)
      /\ NothingElse(e, calls, registry, raced) /\ Survives(e, calls, registry, crashes)
  BY DEF AllKept
<1>3. calls = [b \in Callers |-> calls[b]] /\ e \in EngineT /\ DbOf(e) \in Dbs(e)
  BY <1>1, KeptIsTyped
<1>4. PICK g : g = WithDb(resetDuckDB(e))
  OBVIOUS
<1>5. PICK N : NewDatabase(e, g, N) /\ ConnOf(g) = 0 /\ g.connInstance = 0
  <2>1. \E N : NewDatabase(e, WithDb(resetDuckDB(e)), N) /\ ConnOf(WithDb(resetDuckDB(e))) = 0
               /\ WithDb(resetDuckDB(e)).connInstance = 0
               /\ WithDb(resetDuckDB(e)).connPromise = 0
    BY <1>3, RestartFacts
  <2> QED
    BY <1>4, <2>1
<1>6. EngineOK(g)
  BY <1>2, <1>5, EngineNewDatabase
<1>7. /\ Grown(e, g) /\ DbOf(g) = N /\ N \notin Dbs(e) /\ N \in Dbs(g) /\ N \in Nat
      /\ \A x \in Dbs(e) : FilesOf(g, x) = FilesOf(e, x) /\ StateOf(g, x) = StateOf(e, x)
      /\ \A x \in Dbs(g) \ Dbs(e) : FilesOf(g, x) = {} /\ StateOf(g, x) # "crashed"
      /\ StateOf(g, N) = "starting"
  BY <1>5 DEF NewDatabase, Grown, SameConns, SameDb, StayUp
<1>8. PICK t : t = TRUE
  OBVIOUS
<1>9. PICK z \in SUBSET Files : z = {}
  OBVIOUS
<1>10. PICK new : new = [calls[c] EXCEPT !.pc = "db", !.db = DbOf(g), !.retried = t, !.seen = z]
  OBVIOUS
<1>11. /\ new \in CallT /\ new.kind = "tile" /\ new.file = calls[c].file /\ new.pc = "db"
       /\ new.db = N /\ new.retried /\ new.seen = {}
  BY <1>1, <1>7, <1>8, <1>9, <1>10 DEF CallT
<1>12. PICK ds : ds = [calls EXCEPT ![c] = new]
  OBVIOUS
<1>13. Moved(calls, ds, c) /\ ds[c] = new
  <2>1. Moved(calls, [calls EXCEPT ![c] = new], c) /\ [calls EXCEPT ![c] = new][c] = new
    BY <1>3, MovedFacts
  <2> QED
    BY <1>12, <2>1
<1>14. Settles(e, calls, ds, c) /\ Settles(g, calls, ds, c)
  BY <1>7 DEF Settles, Free, Grown
<1>15. CallsOK(g, calls)
  BY <1>2, <1>7, CallsGrown
<1>16. CallsOK(g, ds)
  <2>1. CallOK(g, ds[c])
    BY <1>7, <1>11, <1>13 DEF CallOK
  <2> QED
    BY <1>13, <1>14, <1>15, <2>1, CallsMoved
<1>17. FilesOnce(ds, registry, used)
  <2>1. Active(calls[c]) /\ ds[c].kind = calls[c].kind /\ ds[c].file = calls[c].file
    BY <1>11, <1>13 DEF Active, Ended
  <2> QED
    BY <1>2, <1>13, <2>1, FilesOnceMoved
<1>18. Registered(g, ds, registry)
  <2>1. Registered(e, ds, registry)
    BY <1>2, <1>13, <1>14, RegisteredMoved
  <2>2. \A f \in registry : WillRegister(ds, f, N)
    BY <1>11, <1>13 DEF WillRegister
  <2> QED
    BY <1>2, <1>5, <2>1, <2>2, RegisteredNewDatabase
<1>19. NothingElse(g, ds, registry, raced)
  <2>1. NothingElse(g, calls, registry, raced)
    BY <1>2, <1>7, NothingElseSame
  <2>2. LoadsWhereItIs(g, ds, c) /\ \A f, x : ~ LoadsFile(calls, c, f, x)
    BY <1>11, <1>13 DEF LoadsWhereItIs, LoadsFile
  <2> QED
    BY <1>13, <1>14, <1>15, <2>1, <2>2, NothingElseMoved
<1>20. Survives(g, ds, registry, crashes)
  <2>1. Survives(g, calls, registry, crashes)
    BY <1>2, <1>3, <1>7, SurvivesSame
  <2>2. CrashedBefore(g, ds, c)
    <3>1. DbOf(e) \in Dbs(g) /\ DbOf(e) # ds[c].db /\ StateOf(g, DbOf(e)) = "crashed"
      BY <1>3, <1>7, <1>11, <1>13 DEF Grown
    <3> QED
      BY <3>1 DEF CrashedBefore
  <2>3. OnItsWay(g, ds, c)
    BY <1>7, <1>11, <1>13 DEF OnItsWay
  <2> QED
    BY <1>13, <1>14, <1>15, <2>1, <2>2, <2>3, SurvivesMoved
<1>21. eng' = g /\ calls' = ds
  BY <1>4, <1>8, <1>9, <1>10, <1>12 DEF Recover, Goes
<1> QED
  BY <1>6, <1>16, <1>17, <1>18, <1>19, <1>20, <1>21 DEF AllKept
Kept == AllKept(eng, calls, registry, used, raced, crashes)

(* Nothing has happened yet.                                               *)
LEMMA InitKept ==
  ASSUME EngineInit
  PROVE  Kept
<1>1. /\ Dbs(eng) = {} /\ Conns(eng) = {} /\ eng \in EngineT
      /\ eng.dbInstance = 0 /\ eng.dbPromise = 0 /\ eng.connInstance = 0 /\ eng.connPromise = 0
      /\ DbOf(eng) = 0 /\ ConnOf(eng) = 0
  BY DEF EngineInit, EngineT, Dbs, Conns, DbOf, ConnOf, Max0
<1>2. EngineOK(eng)
  BY <1>1 DEF EngineOK, Promises, OneDatabase, Connections, Queues
<1>3. registry = {} /\ used = {} /\ crashes = 0 /\ calls = [c \in Callers |-> NoCall]
  BY DEF EngineInit
<1>4. \A c \in Callers : calls[c] = NoCall /\ calls[c].kind = "none" /\ calls[c].pc = "idle"
  BY <1>3 DEF NoCall
<1>5. CallsOK(eng, calls)
  <2>1. calls = [c \in Callers |-> calls[c]]
    BY <1>3
  <2> QED
    BY <1>1, <1>4, <2>1 DEF CallsOK, CallOK
<1>6. FilesOnce(calls, registry, used)
  BY <1>3, <1>4 DEF FilesOnce
<1>7. Registered(eng, calls, registry)
  BY <1>1, <1>3 DEF Registered
<1>8. NothingElse(eng, calls, registry, raced)
  BY <1>1, <1>4 DEF NothingElse, LoadsWhereItIs
<1>9. Survives(eng, calls, registry, crashes)
  BY <1>1, <1>3, <1>4 DEF Survives, Crashes, Retried
<1> QED
  BY <1>2, <1>5, <1>6, <1>7, <1>8, <1>9 DEF Kept, AllKept

(* The fields of a new call.                                               *)
LEMMA CallFacts ==
  ASSUME NEW g, DbOf(g) \in Nat, ConnOf(g) \in Nat,
         NEW kind \in {"tile", "query", "load", "delete"}, NEW f \in Files, NEW pc \in {"db", "conn"},
         NEW call, call = Call(kind, f, pc, g) \/ \E n \in Nat : call = [Call(kind, f, pc, g) EXCEPT !.left = n]
  PROVE  /\ call \in CallT /\ call.kind = kind /\ call.file = f /\ call.pc = pc
         /\ call.db = DbOf(g) /\ call.conn = ConnOf(g) /\ ~ call.retried
<1>1. PICK t \in BOOLEAN : t = FALSE
  OBVIOUS
<1>2. PICK z \in SUBSET Files : z = {}
  OBVIOUS
<1>3. PICK n \in Nat : call = [kind |-> kind, file |-> f, pc |-> pc, db |-> DbOf(g), conn |-> ConnOf(g),
                               left |-> n, retried |-> t, seen |-> z]
  BY <1>1, <1>2 DEF Call
<1>4. call \in CallT
  BY <1>3 DEF CallT
<1> QED
  BY <1>1, <1>3, <1>4

(* A tile, or other queries, are asked for.                                *)
LEMMA AskKept ==
  ASSUME Kept, NEW c \in Callers, NEW f \in Files, Begins(c), f \in registry, eng' = WithConn(eng),
         NEW kind \in {"tile", "query"}, NEW call,
         \/ call = Call(kind, f, "conn", WithConn(eng))
         \/ \E n \in Nat : call = [Call(kind, f, "conn", WithConn(eng)) EXCEPT !.left = n],
         calls' = [calls EXCEPT ![c] = call], UNCHANGED used
  PROVE  Kept'
<1>1. PICK g : g = WithConn(eng)
  OBVIOUS
<1>2. AllKept(g, calls, registry, used, raced, crashes) /\ ConnOf(g) \in Conns(g)
  BY <1>1, KeptWithConn DEF Kept
<1>3. DbOf(g) \in Nat /\ ConnOf(g) \in Nat
  BY <1>2, DbOfIsADb DEF AllKept
<1>4. /\ call \in CallT /\ call.kind = kind /\ call.file = f /\ call.pc = "conn"
      /\ call.conn = ConnOf(g) /\ ~ call.retried
  BY <1>1, <1>3, CallFacts
<1>5. CallOK(g, call)
  BY <1>2, <1>4 DEF CallOK
<1>6. AllKept(g, [calls EXCEPT ![c] = call], registry, used, raced, crashes)
  BY <1>2, <1>4, <1>5, KeptBegins DEF Begins
<1> QED
  BY <1>1, <1>6 DEF Kept, Begins

(* AskTile.                                                                *)
LEMMA AskTileKept ==
  ASSUME Kept, NEW c \in Callers, NEW f \in Files, AskTile(c, f)
  PROVE  Kept'
BY AskKept DEF AskTile, Goes

(* AskQueries.                                                             *)
LEMMA AskQueriesKept ==
  ASSUME Kept, NEW c \in Callers, NEW f \in Files, NEW n \in 1 .. 2, AskQueries(c, f, n)
  PROVE  Kept'
<1>1. n \in Nat
  OBVIOUS
<1> QED
  BY <1>1, AskKept DEF AskQueries, Goes

(* A load or a deletion begins.                                            *)
LEMMA LoadOrDeleteKept ==
  ASSUME Kept, NEW c \in Callers, NEW f \in Files, Begins(c), eng' = WithDb(eng),
         NEW kind \in {"load", "delete"}, NEW call,
         \/ call = Call(kind, f, "db", WithDb(eng))
         \/ \E n \in Nat : call = [Call(kind, f, "db", WithDb(eng)) EXCEPT !.left = n],
         calls' = [calls EXCEPT ![c] = call],
         \/ kind = "delete" /\ f \in registry /\ used' = used
         \/ kind = "load" /\ f \notin used /\ used' = used \cup {f}
  PROVE  Kept'
<1>1. PICK g : g = WithDb(eng)
  OBVIOUS
<1>2. AllKept(g, calls, registry, used, raced, crashes) /\ DbOf(g) \in Dbs(g)
  BY <1>1, KeptWithDb DEF Kept
<1>3. DbOf(g) \in Nat /\ ConnOf(g) \in Nat
  BY <1>2, DbOfIsADb DEF AllKept
<1>4. /\ call \in CallT /\ call.kind = kind /\ call.file = f /\ call.pc = "db"
      /\ call.db = DbOf(g) /\ ~ call.retried
  BY <1>1, <1>3, CallFacts
<1>5. CallOK(g, call)
  BY <1>2, <1>4 DEF CallOK
<1>6. AllKept(g, [calls EXCEPT ![c] = call], registry, used', raced, crashes)
  BY <1>2, <1>4, <1>5, KeptBegins DEF Begins
<1> QED
  BY <1>1, <1>6 DEF Kept, Begins

(* Load.                                                                   *)
LEMMA LoadKept ==
  ASSUME Kept, NEW c \in Callers, NEW f \in Files, Load(c, f)
  PROVE  Kept'
<1>1. 2 \in Nat
  OBVIOUS
<1> QED
  BY <1>1, LoadOrDeleteKept DEF Load, Goes

(* Delete.                                                                 *)
LEMMA DeleteKept ==
  ASSUME Kept, NEW c \in Callers, NEW f \in Files, Delete(c, f)
  PROVE  Kept'
BY LoadOrDeleteKept DEF Delete, Goes

(* A database starts, or fails to while there are no sources.              *)
LEMMA KeptStarted ==
  ASSUME NEW e, NEW g, NEW d \in Dbs(e), NEW s, NEW cs, NEW reg, NEW us, NEW rs, NEW n,
         AllKept(e, cs, reg, us, rs, n), DbBecomes(e, g, d, s), StateOf(e, d) = "starting", EngineOK(g),
         \/ s = "ready" /\ DbOf(g) = DbOf(e)
         \/ s = "failed" /\ DbOf(g) = 0 /\ reg = {}
  PROVE  AllKept(g, cs, reg, us, rs, n)
<1>1. EngineOK(e) /\ CallsOK(e, cs) /\ FilesOnce(cs, reg, us) /\ Registered(e, cs, reg)
      /\ NothingElse(e, cs, reg, rs) /\ Survives(e, cs, reg, n)
  BY DEF AllKept
<1>2. /\ Dbs(g) = Dbs(e) /\ Conns(g) = Conns(e) /\ StateOf(g, d) = s
      /\ \A x \in Dbs(e) : /\ FilesOf(g, x) = FilesOf(e, x) /\ Places(g, x) = Places(e, x)
                           /\ \A m \in Places(e, x) : Request(g, x, m) = Request(e, x, m)
      /\ \A x \in Dbs(e) \ {d} : StateOf(g, x) = StateOf(e, x)
      /\ \A k \in Conns(e) : DbOfConn(g, k) = DbOfConn(e, k) /\ ConnState(g, k) = ConnState(e, k)
  BY DEF DbBecomes, SameConns, SameDb
<1>3. \A x \in Dbs(e) : \/ StateOf(g, x) = StateOf(e, x)
                        \/ StateOf(e, x) = "starting" /\ StateOf(g, x) \in {"ready", "failed"}
  BY <1>2
<1>4. Grown(e, g)
  BY <1>2 DEF Grown, StayUp
<1>5. CallsOK(g, cs)
  BY <1>1, <1>4, CallsGrown
<1>6. Registered(g, cs, reg)
  <2>1. DbOf(g) = 0 => reg = {}
    BY <1>1 DEF Registered
  <2>2. \A k \in Conns(g) : ConnState(g, k) = "waiting" /\ StateOf(g, DbOfConn(g, k)) = "failed" => reg = {}
    <3> SUFFICES ASSUME NEW k \in Conns(e), ConnState(e, k) = "waiting", StateOf(g, DbOfConn(e, k)) = "failed"
                 PROVE  reg = {}
      BY <1>2
    <3>1. DbOfConn(e, k) \in Dbs(e)
      BY KeptIsTyped
    <3> QED
      BY <1>1, <1>2, <3>1 DEF Registered
  <2> QED
    BY <1>1, <1>2, <1>3, <2>1, <2>2, RegisteredSame
<1>7. NothingElse(g, cs, reg, rs)
  BY <1>1, <1>2, <1>3, <1>4, NothingElseSame
<1>8. Survives(g, cs, reg, n)
  BY <1>1, <1>2, <1>3, <1>4, SurvivesSame
<1> QED
  BY <1>1, <1>5, <1>6, <1>7, <1>8 DEF AllKept

(* Nothing differs but the promise of a database, or of a connection.      *)
SameButPromises(f, g) ==
  /\ g \in EngineT
  /\ Dbs(g) = Dbs(f) /\ SameConns(f, g) /\ \A x \in Dbs(f) : SameDb(f, g, x)

(* A promise may change when a database does,                              *)
LEMMA DbBecomesToo ==
  ASSUME NEW e, NEW f, NEW g, NEW d \in Dbs(e), NEW s, DbBecomes(e, f, d, s), SameButPromises(f, g),
         g.connInstance = f.connInstance, g.connPromise = f.connPromise
  PROVE  DbBecomes(e, g, d, s)
<1>1. ConnOf(g) = ConnOf(f)
  BY DEF ConnOf
<1> QED
  BY <1>1 DEF DbBecomes, SameButPromises, SameConns, SameDb

(* or a connection.                                                        *)
LEMMA ConnBecomesToo ==
  ASSUME NEW e, NEW f, NEW g, NEW k \in Conns(e), NEW s, ConnBecomes(e, f, k, s), SameButPromises(f, g),
         g.dbInstance = f.dbInstance, g.dbPromise = f.dbPromise
  PROVE  ConnBecomes(e, g, k, s)
<1>1. DbOf(g) = DbOf(f)
  BY DEF DbOf
<1> QED
  BY <1>1 DEF ConnBecomes, SameButPromises, SameConns, SameDb

(* Instantiate.                                                            *)
LEMMA InstantiateKept ==
  ASSUME Kept, NEW d \in Dbs(eng), Instantiate(d)
  PROVE  Kept'
<1>1. EngineOK(eng) /\ eng \in EngineT /\ d \in Nat
  BY KeptIsTyped, DbOfIsADb DEF Kept, AllKept
<1>2. PICK s \in {"ready", "failed"} : s = "ready"
  OBVIOUS
<1>3a. PICK f : /\ f = [eng EXCEPT !.dbs[d].state = s]
                /\ DbBecomes(eng, f, d, s) /\ SamePromises(eng, f)
  BY <1>1, DbBecomesFacts
<1>3b. PICK g : g = [f EXCEPT !.dbInstance = d]
  OBVIOUS
<1>3. DbBecomes(eng, g, d, s) /\ g.dbInstance = d /\ g.dbPromise = eng.dbPromise
  <2>1. f \in EngineT
    BY <1>3a DEF DbBecomes
  <2>2. SameButPromises(f, g)
    BY <1>1, <1>3b, <2>1, PromiseFacts DEF SameButPromises
  <2>3. /\ g.connInstance = f.connInstance /\ g.connPromise = f.connPromise
       /\ g.dbInstance = d /\ g.dbPromise = f.dbPromise
    BY <1>3b, <2>1 DEF EngineT
  <2>4. f.dbPromise = eng.dbPromise
    BY <1>3a DEF SamePromises
  <2> QED
    BY <1>3a, <2>2, <2>3, <2>4, DbBecomesToo
<1>5. StateOf(eng, d) = "starting"
  BY DEF Instantiate, Starting, StateOf
<1>6. EngineOK(g) /\ DbOf(g) = DbOf(eng)
  BY <1>1, <1>2, <1>3, <1>5, EngineStarts
<1>7. AllKept(g, calls, registry, used, raced, crashes)
  BY <1>2, <1>3, <1>5, <1>6, KeptStarted DEF Kept
<1> QED
  BY <1>2, <1>3a, <1>3b, <1>7 DEF Kept, Instantiate

(* FailToStart, without sources.                                           *)
LEMMA FailToStartKept ==
  ASSUME Kept, NEW d \in Dbs(eng), FailToStart(d), ~ abandoned'
  PROVE  Kept'
<1>1. EngineOK(eng) /\ eng \in EngineT
  BY KeptIsTyped DEF Kept, AllKept
<1>2. PICK s \in {"ready", "failed"} : s = "failed"
  OBVIOUS
<1>3. PICK z \in Nat : z = 0
  OBVIOUS
<1>4a. PICK f : /\ f = [eng EXCEPT !.dbs[d].state = s]
                /\ DbBecomes(eng, f, d, s) /\ SamePromises(eng, f)
  BY <1>1, DbBecomesFacts
<1>4b. PICK g : g = [f EXCEPT !.dbPromise = z]
  OBVIOUS
<1>4. DbBecomes(eng, g, d, s) /\ g.dbPromise = z /\ g.dbInstance = eng.dbInstance
  <2>1. f \in EngineT
    BY <1>4a DEF DbBecomes
  <2>2. SameButPromises(f, g)
    BY <1>1, <1>3, <1>4b, <2>1, PromiseFacts DEF SameButPromises
  <2>3. /\ g.connInstance = f.connInstance /\ g.connPromise = f.connPromise
       /\ g.dbPromise = z /\ g.dbInstance = f.dbInstance
    BY <1>4b, <2>1 DEF EngineT
  <2>4. f.dbInstance = eng.dbInstance
    BY <1>4a DEF SamePromises
  <2> QED
    BY <1>4a, <2>2, <2>3, <2>4, DbBecomesToo
<1>6. StateOf(eng, d) = "starting"
  BY DEF FailToStart, Starting, StateOf
<1>7. EngineOK(g) /\ DbOf(g) = 0
  BY <1>1, <1>2, <1>3, <1>4, <1>6, EngineDoesNotStart
<1>8. registry = {}
  BY DEF FailToStart
<1>9. AllKept(g, calls, registry, used, raced, crashes)
  BY <1>2, <1>4, <1>6, <1>7, <1>8, KeptStarted DEF Kept
<1> QED
  BY <1>2, <1>3, <1>4a, <1>4b, <1>9 DEF Kept, FailToStart

(* No connection but k has changed.                                        *)
LEMMA KeptConnected ==
  ASSUME NEW e, NEW g, NEW k \in Conns(e), NEW s, NEW cs, NEW reg, NEW us, NEW rs, NEW n,
         AllKept(e, cs, reg, us, rs, n), ConnBecomes(e, g, k, s), s # "waiting", EngineOK(g)
  PROVE  AllKept(g, cs, reg, us, rs, n)
<1>1. \A i \in Conns(g) : ConnState(g, i) = "waiting" /\ StateOf(g, DbOfConn(g, i)) = "failed" => reg = {}
  <2> SUFFICES ASSUME NEW i \in Conns(g), ConnState(g, i) = "waiting", StateOf(g, DbOfConn(g, i)) = "failed"
               PROVE  reg = {}
    OBVIOUS
  <2>1. i \in Conns(e) /\ ConnState(e, i) = "waiting" /\ DbOfConn(g, i) = DbOfConn(e, i)
    BY DEF ConnBecomes
  <2>2. DbOfConn(e, i) \in Dbs(e)
    BY <2>1, KeptIsTyped
  <2>3. StateOf(e, DbOfConn(e, i)) = "failed"
    BY <2>1, <2>2 DEF ConnBecomes, SameDb
  <2> QED
    BY <2>1, <2>3 DEF AllKept, Registered
<1>2. /\ Conns(e) \subseteq Conns(g) /\ Dbs(g) = Dbs(e) /\ \A x \in Dbs(e) : SameDb(e, g, x)
      /\ DbOf(g) = DbOf(e) /\ \A i \in Conns(e) : DbOfConn(g, i) = DbOfConn(e, i)
  BY DEF ConnBecomes
<1> QED
  BY <1>1, <1>2, KeptGrown

(* Connect.                                                                *)
LEMMA ConnectKept ==
  ASSUME Kept, NEW k \in Conns(eng), Connect(k)
  PROVE  Kept'
<1>1. EngineOK(eng) /\ eng \in EngineT /\ k \in Nat /\ ConnState(eng, k) = "waiting"
  BY KeptIsTyped, DbOfIsADb DEF Kept, AllKept, Connect, ConnState
<1>2. PICK d : d = DbOfConn(eng, k)
  OBVIOUS
<1>3. d \in Dbs(eng) /\ StateOf(eng, d) \in {"ready", "failed", "crashed"}
  <2>1. d \in Dbs(eng)
    BY <1>2, KeptIsTyped DEF Kept
  <2>2. StateOf(eng, d) \in {"starting", "ready", "failed", "crashed"}
    BY <1>1, <2>1, DbParts DEF StateOf
  <2>3. StateOf(eng, d) # "starting"
    BY <1>2 DEF Connect, Starting, StateOf, DbOfConn
  <2> QED
    BY <2>1, <2>2, <2>3
<1>4. CASE StateOf(eng, d) = "failed"
  <2>1. PICK s \in {"open", "failed"} : s = "failed"
    OBVIOUS
  <2>2. PICK z \in Nat : z = 0
    OBVIOUS
  <2>3a. PICK f : /\ f = [eng EXCEPT !.conns[k].state = s]
                  /\ ConnBecomes(eng, f, k, s) /\ f.connInstance = eng.connInstance /\ f.connPromise = eng.connPromise
    BY <1>1, ConnBecomesFacts
  <2>3b. PICK g : g = [f EXCEPT !.connPromise = z]
    OBVIOUS
  <2>3. ConnBecomes(eng, g, k, s) /\ g.connPromise = z /\ g.connInstance = eng.connInstance
    <3>1. f \in EngineT
      BY <2>3a DEF ConnBecomes
    <3>2. SameButPromises(f, g)
      BY <1>1, <2>2, <2>3b, <3>1, PromiseFacts DEF SameButPromises
    <3>3. /\ g.dbInstance = f.dbInstance /\ g.dbPromise = f.dbPromise
         /\ g.connPromise = z /\ g.connInstance = f.connInstance
      BY <2>3b, <3>1 DEF EngineT
    <3>4. f.connInstance = eng.connInstance
      BY <2>3a DEF SamePromises
    <3> QED
      BY <2>3a, <3>2, <3>3, <3>4, ConnBecomesToo
  <2>5. EngineOK(g)
    BY <1>1, <1>2, <1>4, <2>1, <2>2, <2>3, EngineDoesNotConnect
  <2>6. AllKept(g, calls, registry, used, raced, crashes)
    BY <2>1, <2>3, <2>5, KeptConnected DEF Kept
  <2>7. eng' = g
    BY <1>2, <1>4, <2>1, <2>2, <2>3a, <2>3b DEF Connect, StateOf, DbOfConn
  <2> QED
    BY <2>6, <2>7 DEF Kept, Connect
<1>5. CASE StateOf(eng, d) # "failed"
  <2>1. PICK s \in {"connecting", "open", "failed"} : s = "connecting"
    OBVIOUS
  <2>2. PICK f : /\ f = [eng EXCEPT !.conns[k].state = s]
                 /\ ConnBecomes(eng, f, k, s) /\ ConnOf(f) = ConnOf(eng)
                 /\ f.connInstance = eng.connInstance /\ f.connPromise = eng.connPromise
    BY <1>1, ConnBecomesFacts
  <2>3. EngineOK(f)
    BY <1>1, <1>2, <1>3, <1>5, <2>1, <2>2, EngineConnecting
  <2>4. AllKept(f, calls, registry, used, raced, crashes)
    BY <2>1, <2>2, <2>3, KeptConnected DEF Kept
  <2>5. /\ f \in EngineT /\ d \in Dbs(f) /\ k \in Conns(f) /\ DbOfConn(f, k) = d
        /\ ConnState(f, k) # "waiting" /\ StateOf(f, d) = StateOf(eng, d)
    BY <1>2, <1>3, <2>1, <2>2 DEF ConnBecomes, SameDb
  <2>6. "ok" \in Answer
    BY DEF Answer
  <2>7. PICK r : /\ Sent(f, Send(f, d, "conn", k, "ok"), d, r, FilesOf(f, d))
                 /\ r.of = "conn" /\ r.id = k
                 /\ StateOf(f, d) = "ready" => r.answer = "ok"
                 /\ StateOf(f, d) # "ready" => r.answer = "crash"
    BY <1>1, <2>5, <2>6, SendFacts
  <2>8. eng' = Send(f, d, "conn", k, "ok")
    <3>1. eng' = Send([eng EXCEPT !.conns[k].state = "connecting"], d, "conn", k, "ok")
      BY <1>2, <1>5 DEF Connect, StateOf, DbOfConn
    <3>2. f = [eng EXCEPT !.conns[k].state = "connecting"]
      BY <2>1, <2>2
    <3> QED
      BY <3>1, <3>2
  <2>9. Sent(f, eng', d, r, FilesOf(f, d))
    BY <2>7, <2>8
  <2>10. r.answer = "crash" <=> StateOf(f, d) = "crashed"
    BY <1>3, <1>5, <2>5, <2>7
  <2>11. AllKept(eng', calls, registry, used, raced, crashes)
    BY <1>3, <1>5, <2>4, <2>5, <2>7, <2>9, <2>10, KeptSent
  <2> QED
    BY <2>11 DEF Kept, Connect
<1> QED
  BY <1>4, <1>5

(* The current database has not failed.                                    *)
LEMMA CurrentDatabase ==
  ASSUME NEW e, EngineOK(e), DbOf(e) # 0
  PROVE  StateOf(e, DbOf(e)) \in {"starting", "ready", "crashed"}
BY DEF EngineOK, OneDatabase, DbOf, Max0

(* A load registers its file, or a deletion drops it.                      *)
LEMMA FileSentKept ==
  ASSUME Kept, NEW c \in Callers, calls[c].pc = "db",
         NEW d, d = calls[c].db, StateOf(eng, d) \in {"ready", "crashed"}, NEW pc, NEW X,
         \/ pc = "file" /\ calls[c].kind = "load" /\ X = FilesOf(eng, d) \cup {calls[c].file}
         \/ pc = "drop" /\ calls[c].kind = "delete" /\ X = FilesOf(eng, d) \ {calls[c].file},
         eng' = SendFile(eng, c, d, X),
         calls' = [calls EXCEPT ![c] = [calls[c] EXCEPT !.pc = pc]],
         UNCHANGED <<registry, used, made, crashes, failures, raced, abandoned>>
  PROVE  Kept'
<1>1. CallOK(eng, calls[c]) /\ calls[c] \in CallT /\ d \in Dbs(eng) /\ ~ calls[c].retried
  <2>1. CallOK(eng, calls[c])
    BY KeptIsTyped DEF Kept
  <2> QED
    BY <2>1 DEF CallOK, NoCall
<1>2. calls = [b \in Callers |-> calls[b]] /\ eng \in EngineT /\ CallsOK(eng, calls)
  BY KeptIsTyped DEF Kept, AllKept
<1>3. PICK new : new = [calls[c] EXCEPT !.pc = pc]
  OBVIOUS
<1>4. /\ new \in CallT /\ new.kind = calls[c].kind /\ new.file = calls[c].file /\ new.pc = pc
      /\ new.db = d /\ ~ new.retried
  BY <1>1, <1>3 DEF CallT
<1>5. PICK ds : ds = [calls EXCEPT ![c] = new]
  OBVIOUS
<1>6. Moved(calls, ds, c) /\ ds[c] = new
  <2>1. Moved(calls, [calls EXCEPT ![c] = new], c) /\ [calls EXCEPT ![c] = new][c] = new
    BY <1>2, MovedFacts
  <2> QED
    BY <1>5, <2>1
<1>7. Free(eng, c)
  BY <1>2, FreeIfNotAsking
<1>8. AllKept(eng, ds, registry, used, raced, crashes)
  <2>1. CallOK(eng, ds[c])
    BY <1>1, <1>4, <1>6 DEF CallOK
  <2>2. LoadsWhereItIs(eng, ds, c) /\ ~ Retried(ds, c)
    BY <1>4, <1>6 DEF LoadsWhereItIs, Retried
  <2>3. Settles(eng, calls, ds, c) /\ Active(calls[c]) /\ calls[c].kind # "tile"
    BY <1>7 DEF Settles, Active, Ended
  <2>4. \A f, x : ~ LoadsFile(calls, c, f, x)
    BY DEF LoadsFile
  <2> QED
    BY <1>4, <1>6, <2>1, <2>2, <2>3, <2>4, KeptMoved DEF Kept
<1>9. X \in SUBSET Files
  <2>1. FilesOf(eng, d) \in SUBSET Files
    BY <1>1, <1>2, DbParts DEF FilesOf
  <2>2. calls[c].file \in Files
    BY <1>1 DEF CallT
  <2> QED
    BY <2>1, <2>2
<1>10. PICK r : /\ Sent(eng, SendFile(eng, c, d, X), d, r, X)
                /\ r.of = "caller" /\ r.id = c
                /\ StateOf(eng, d) = "ready" => r.answer = "ok"
                /\ StateOf(eng, d) # "ready" => r.answer = "crash"
  BY <1>1, <1>2, <1>9, SendFileFacts
<1>11. Sent(eng, eng', d, r, X)
  BY <1>10
<1>12. Asks(ds, c, d, eng) /\ ds[c].pc # "query"
  BY <1>4, <1>6 DEF Asks
<1>13. \/ ds[c].pc = "file" /\ X = FilesOf(eng, d) \cup {ds[c].file}
       \/ ds[c].pc = "drop" /\ X = FilesOf(eng, d) \ {ds[c].file}
  BY <1>4, <1>6
<1>14. /\ r.answer = "crash" <=> StateOf(eng, d) = "crashed"
       /\ r.answer # "missing" /\ r.answer # "bad"
  BY <1>10
<1>15. AllKept(eng', ds, registry, used, raced, crashes)
  BY <1>1, <1>7, <1>8, <1>10, <1>11, <1>12, <1>13, <1>14, KeptSentFile
<1> QED
  BY <1>3, <1>5, <1>15 DEF Kept

(* HasDb, by what the caller does with its database.                       *)
LEMMA HasDbKept ==
  ASSUME Kept, NEW c \in Callers, HasDb(c)
  PROVE  Kept'
<1>1. PICK d : d = calls[c].db
  OBVIOUS
<1>2. CallOK(eng, calls[c]) /\ calls[c] \in CallT /\ d \in Dbs(eng) /\ calls[c].pc = "db" /\ calls[c].kind # "none"
  <2>1. CallOK(eng, calls[c])
    BY KeptIsTyped DEF Kept
  <2> QED
    BY <1>1, <2>1 DEF CallOK, NoCall, HasDb, CallT
<1>3. eng \in EngineT /\ CallsOK(eng, calls) /\ EngineOK(eng)
  BY KeptIsTyped DEF Kept, AllKept
<1>4. StateOf(eng, d) \in {"ready", "failed", "crashed"}
  <2>1. StateOf(eng, d) \in {"starting", "ready", "failed", "crashed"}
    BY <1>2, <1>3, DbParts DEF StateOf
  <2>2. StateOf(eng, d) # "starting"
    BY <1>1 DEF HasDb, Starting, StateOf
  <2> QED
    BY <2>1, <2>2
<1>5. Free(eng, c)
  BY <1>2, <1>3, FreeIfNotAsking
<1>6. CASE StateOf(eng, d) = "failed" /\ Ends(c, "failed") /\ UNCHANGED eng
  <2>1. ASSUME crashes \leq 1, Retried(calls, c) PROVE calls[c].file \notin registry
    <3> SUFFICES ASSUME calls[c].file \in registry PROVE FALSE
      OBVIOUS
    <3>1. OnItsWay(eng, calls, c)
      BY <2>1 DEF Kept, AllKept, Survives
    <3>2. d = DbOf(eng) /\ d # 0
      BY <1>1, <1>2, <3>1, KeptIsTyped DEF OnItsWay, Kept
    <3> QED
      BY <1>3, <1>6, <3>2, CurrentDatabase
  <2>2. \A f, x : ~ LoadsFile(calls, c, f, x)
    BY <1>2 DEF LoadsFile
  <2>3. PICK pc \in {"idle", "failed"} : pc = "failed"
    OBVIOUS
  <2>4. AllKept(eng, [calls EXCEPT ![c] = IF pc = "idle" THEN NoCall ELSE [@ EXCEPT !.pc = pc]],
                registry, used, raced, crashes)
    BY <1>1, <1>2, <1>5, <1>6, <2>1, <2>2, KeptEnds DEF Kept
  <2>5. calls' = [calls EXCEPT ![c] = IF pc = "idle" THEN NoCall ELSE [@ EXCEPT !.pc = pc]]
    BY <1>6, <2>3 DEF Ends
  <2> QED
    BY <1>6, <2>4, <2>5 DEF Kept, HasDb
<1>7. CASE /\ StateOf(eng, d) # "failed" /\ calls[c].kind = "load"
           /\ eng' = SendFile(eng, c, d, eng.dbs[d].files \cup {calls[c].file})
           /\ Goes(c, [calls[c] EXCEPT !.pc = "file"])
  <2>1. PICK pc : pc = "file"
    OBVIOUS
  <2>2. PICK X : X = FilesOf(eng, d) \cup {calls[c].file}
    OBVIOUS
  <2>3. eng' = SendFile(eng, c, d, X)
    BY <1>7, <2>2 DEF FilesOf
  <2>4. calls' = [calls EXCEPT ![c] = [calls[c] EXCEPT !.pc = pc]]
    BY <1>7, <2>1 DEF Goes
  <2>5. UNCHANGED <<registry, used, made, crashes, failures, raced, abandoned>>
    BY DEF HasDb
  <2> QED
    BY <1>1, <1>2, <1>4, <1>7, <2>1, <2>2, <2>3, <2>4, <2>5, FileSentKept
<1>8. CASE /\ StateOf(eng, d) # "failed" /\ calls[c].kind = "delete"
           /\ eng' = SendFile(eng, c, d, Dropped(eng, d, calls[c].file))
           /\ Goes(c, [calls[c] EXCEPT !.pc = "drop"])
  <2>1. PICK pc : pc = "drop"
    OBVIOUS
  <2>2. PICK X : X = FilesOf(eng, d) \ {calls[c].file}
    OBVIOUS
  <2>3. eng' = SendFile(eng, c, d, X)
    BY <1>8, <2>2 DEF FilesOf, Dropped
  <2>4. calls' = [calls EXCEPT ![c] = [calls[c] EXCEPT !.pc = pc]]
    BY <1>8, <2>1 DEF Goes
  <2>5. UNCHANGED <<registry, used, made, crashes, failures, raced, abandoned>>
    BY DEF HasDb
  <2> QED
    BY <1>1, <1>2, <1>4, <1>8, <2>1, <2>2, <2>3, <2>4, <2>5, FileSentKept
<1>9. CASE /\ StateOf(eng, d) # "failed" /\ calls[c].kind = "tile"
           /\ Reregister(eng, c, calls[c])
  <2>1. AllKept(eng', calls', registry, used, raced, crashes)
    BY <1>1, <1>2, <1>4, <1>5, <1>9, KeptReregister DEF Kept
  <2> QED
    BY <2>1 DEF Kept, HasDb
<1> QED
  BY <1>1, <1>6, <1>7, <1>8, <1>9 DEF HasDb, StateOf

(* HasConn, by what the caller does with its connection.                   *)
LEMMA HasConnKept ==
  ASSUME Kept, NEW c \in Callers, HasConn(c), ~ abandoned'
  PROVE  Kept'
<1>1. PICK k : k = calls[c].conn
  OBVIOUS
<1>2. CallOK(eng, calls[c]) /\ calls[c] \in CallT /\ k \in Conns(eng) /\ calls[c].pc = "conn" /\ calls[c].kind # "none"
  <2>1. CallOK(eng, calls[c])
    BY KeptIsTyped DEF Kept
  <2> QED
    BY <1>1, <2>1 DEF CallOK, NoCall, HasConn, CallT
<1>3. eng \in EngineT /\ CallsOK(eng, calls) /\ EngineOK(eng) /\ Connections(eng) /\ Queues(eng)
  BY KeptIsTyped DEF Kept, AllKept, EngineOK
<1>4. Free(eng, c)
  BY <1>2, <1>3, FreeIfNotAsking
<1>5. PICK d : d = DbOfConn(eng, k)
  OBVIOUS
<1>6. d \in Dbs(eng) /\ UNCHANGED <<registry, used, made, failures, raced>>
  BY <1>2, <1>5, KeptIsTyped DEF Kept, HasConn
<1>7. CASE ConnState(eng, k) = "open" /\ SendQuery(eng, c, calls[c])
  <2>1. StateOf(eng, d) \in {"ready", "crashed"}
    BY <1>2, <1>3, <1>5, <1>7 DEF Connections
  <2>2. AllKept(eng', calls', registry, used, raced, crashes')
    BY <1>1, <1>2, <1>4, <1>5, <1>7, <2>1, KeptSendQuery DEF Kept
  <2> QED
    BY <1>6, <2>2 DEF Kept
<1>8. CASE /\ ConnState(eng, k) = "failed" /\ calls[c].kind = "tile" /\ ~ calls[c].retried
           /\ StateOf(eng, d) = "crashed" /\ Recover(eng, c, calls[c]) /\ UNCHANGED crashes
  <2>1. DbOf(eng) = d
    BY <1>1, <1>5, <1>8 DEF Recover, DbOfConn
  <2>2. \A n \in Places(eng, d) : Request(eng, d, n).answer = "crash"
    BY <1>2, <1>3, <1>5, <1>8 DEF Queues
  <2>3. AllKept(eng', calls', registry, used, raced, crashes)
    BY <1>1, <1>2, <1>4, <1>5, <1>8, <2>1, <2>2, KeptRecover DEF Kept
  <2> QED
    BY <1>6, <1>8, <2>3 DEF Kept
<1>9. CASE ConnState(eng, k) = "failed" /\ Ends(c, "failed") /\ UNCHANGED <<eng, abandoned, crashes>>
  <2>0. StateOf(eng, d) \in {"failed", "crashed"}
    BY <1>2, <1>3, <1>5, <1>9 DEF Connections
  <2>1. ASSUME crashes \leq 1, Retried(calls, c) PROVE calls[c].file \notin registry
    <3> SUFFICES ASSUME calls[c].file \in registry PROVE FALSE
      OBVIOUS
    <3>1. OnItsWay(eng, calls, c) /\ CrashedBefore(eng, calls, c) /\ Crashes(eng, crashes)
      BY <2>1 DEF Kept, AllKept, Survives
    <3>2. d = DbOf(eng) /\ d # 0 /\ d = calls[c].db
      BY <1>1, <1>2, <1>5, <1>6, <3>1, KeptIsTyped DEF OnItsWay, Kept
    <3>3. StateOf(eng, d) = "crashed"
      BY <1>3, <2>0, <3>2, CurrentDatabase
    <3>4. PICK b \in Dbs(eng) : b # d /\ StateOf(eng, b) = "crashed"
      BY <3>1, <3>2 DEF CrashedBefore
    <3> QED
      BY <1>6, <2>1, <3>1, <3>3, <3>4 DEF Crashes
  <2>2. ASSUME NEW x \in Dbs(eng), NEW f \in FilesOf(eng, x), StateOf(eng, x) = "ready", LoadsFile(calls, c, f, x)
        PROVE  f \in registry \cup raced
    <3>1. LoadsWhereItIs(eng, calls, c)
      BY DEF Kept, AllKept, NothingElse
    <3>2. x = DbOf(eng)
      BY <1>3, <2>2 DEF EngineOK, OneDatabase
    <3>3. d = x
      BY <1>1, <1>2, <1>5, <2>2, <3>1, <3>2 DEF LoadsWhereItIs, LoadsFile
    <3> QED
      BY <2>0, <2>2, <3>3
  <2>3. PICK pc \in {"idle", "failed"} : pc = "failed"
    OBVIOUS
  <2>4. AllKept(eng, [calls EXCEPT ![c] = IF pc = "idle" THEN NoCall ELSE [@ EXCEPT !.pc = pc]],
                registry, used, raced, crashes)
    BY <1>2, <1>4, <2>1, <2>2, KeptEnds DEF Kept
  <2>5. calls' = [calls EXCEPT ![c] = IF pc = "idle" THEN NoCall ELSE [@ EXCEPT !.pc = pc]]
    BY <1>9, <2>3 DEF Ends
  <2> QED
    BY <1>6, <1>9, <2>4, <2>5 DEF Kept
<1> QED
  BY <1>1, <1>5, <1>7, <1>8, <1>9 DEF HasConn, ConnState, StateOf, DbOfConn
(* The first request of d is answered: what is known of it and of c, which *)
(* has sent it.                                                            *)
Answered(c, d, g) ==
  /\ c \in Callers /\ c = Request(eng, d, 1).id /\ Asker(d) = Request(eng, d, 1)
  /\ Request(eng, d, 1).of = "caller" /\ 1 \in Places(eng, d)
  /\ g = Popped(d) /\ Shorter(eng, g, d) /\ Free(g, c)
  /\ Asks(calls, c, d, eng) /\ CallOK(eng, calls[c]) /\ calls[c] \in CallT
  /\ StateOf(eng, d) \in {"ready", "crashed"} /\ StateOf(g, d) = StateOf(eng, d)
  /\ Asker(d).answer \in Answer
  /\ Asker(d).answer = "crash" =>
       StateOf(eng, d) = "crashed" /\ \A n \in Places(g, d) : Request(g, d, n).answer = "crash"
  /\ Asker(d).answer # "crash" => d = DbOf(eng)
  /\ Asker(d).answer = "bad" => calls[c].kind = "load"
  /\ DbOf(g) = DbOf(eng) /\ Dbs(g) = Dbs(eng) /\ Conns(g) = Conns(eng)
  /\ \A k \in Conns(eng) : DbOfConn(g, k) = DbOfConn(eng, k) /\ ConnState(g, k) = ConnState(eng, k)
  /\ \A x \in Dbs(eng) : StateOf(g, x) = StateOf(eng, x) /\ FilesOf(g, x) = FilesOf(eng, x)

(* What is known of an answer to a caller.                                 *)
LEMMA AnswerFacts ==
  ASSUME Kept, NEW d \in Dbs(eng), Answers(d), Asker(d).of = "caller"
  PROVE  Answered(Asker(d).id, d, Popped(d))
<1>1. eng \in EngineT /\ CallsOK(eng, calls) /\ EngineOK(eng) /\ Queues(eng)
  BY KeptIsTyped DEF Kept, AllKept, EngineOK
<1>2. PICK g : g = Popped(d)
  OBVIOUS
<1>3. Shorter(eng, g, d) /\ Asker(d) = Request(eng, d, 1)
  BY <1>1, <1>2, PopFacts DEF Popped, Asker, Answers
<1>4. PICK c : c = Asker(d).id
  OBVIOUS
<1>5. 1 \in Places(eng, d) /\ \A n \in Places(g, d) : n \in Nat /\ n >= 1 /\ n + 1 \in Places(eng, d)
                                                 /\ Request(g, d, n) = Request(eng, d, n + 1)
  BY <1>3 DEF Shorter
<1>6. CallerOK(eng, calls, d, 1)
  BY <1>1, <1>5 DEF CallsOK
<1>7. /\ c \in Callers /\ Asks(calls, c, d, eng)
      /\ Request(eng, d, 1).answer = "bad" => calls[c].kind = "load"
  BY <1>3, <1>4, <1>6 DEF CallerOK
<1>8. CallOK(eng, calls[c]) /\ calls[c] \in CallT
  <2>1. CallOK(eng, calls[c])
    BY <1>1, <1>7 DEF CallsOK
  <2> QED
    BY <1>7, <2>1 DEF CallOK, NoCall, Asks
<1>9. Free(g, c)
  BY <1>1, <1>3, <1>4, CallsShorter
<1>10. StateOf(eng, d) \in {"ready", "crashed"} /\ (Request(eng, d, 1).answer # "crash" => d = DbOf(eng))
  BY <1>1, <1>5 DEF Queues
<1>11. Request(eng, d, 1).answer = "crash" =>
         StateOf(eng, d) = "crashed" /\ \A n \in Places(g, d) : Request(g, d, n).answer = "crash"
  <2> SUFFICES ASSUME Request(eng, d, 1).answer = "crash"
               PROVE  StateOf(eng, d) = "crashed" /\ \A n \in Places(g, d) : Request(g, d, n).answer = "crash"
    OBVIOUS
  <2>1. /\ StateOf(eng, d) = "crashed"
        /\ \A m \in Places(eng, d) : 1 < m => Request(eng, d, m).answer = "crash"
    BY <1>1, <1>5 DEF Queues
  <2>2. ASSUME NEW n \in Places(g, d) PROVE Request(g, d, n).answer = "crash"
    <3>1. n \in Nat /\ n >= 1 /\ n + 1 \in Places(eng, d) /\ Request(g, d, n) = Request(eng, d, n + 1)
      BY <1>5
    <3>2. 1 < n + 1
      BY <3>1
    <3> QED
      BY <2>1, <3>1, <3>2
  <2> QED
    BY <2>1, <2>2
<1>12. Request(eng, d, 1).answer \in Answer
  <2>1. PICK q : q = eng.dbs[d].queue
    OBVIOUS
  <2>2. q \in Seq(RequestT)
    BY <1>1, <2>1, DbParts
  <2>3. 1 \in DOMAIN q
    BY <1>5, <2>1 DEF Places
  <2>4. q[1] \in RequestT
    BY <2>2, <2>3
  <2> QED
    BY <2>1, <2>4 DEF Request, RequestT
<1>13. /\ DbOf(g) = DbOf(eng) /\ Dbs(g) = Dbs(eng) /\ Conns(g) = Conns(eng)
       /\ \A k \in Conns(eng) : DbOfConn(g, k) = DbOfConn(eng, k) /\ ConnState(g, k) = ConnState(eng, k)
       /\ \A x \in Dbs(eng) : StateOf(g, x) = StateOf(eng, x) /\ FilesOf(g, x) = FilesOf(eng, x)
  BY <1>3 DEF Shorter, SameConns, SamePromises, SameDb
<1> QED
  BY <1>2, <1>3, <1>4, <1>5, <1>7, <1>8, <1>9, <1>10, <1>11, <1>12, <1>13 DEF Answered

(* An answer that is not to a deletion leaves everything as it is.         *)
LEMMA KeptPopped ==
  ASSUME Kept, NEW d \in Dbs(eng), NEW c, NEW g, Answered(c, d, g), calls[c].pc # "drop"
  PROVE  AllKept(g, calls, registry, used, raced, crashes)
BY KeptShorter DEF Answered, Kept

(* Connected.                                                              *)
LEMMA ConnectedKept ==
  ASSUME Kept, NEW d \in Dbs(eng), Connected(d)
  PROVE  Kept'
<1>1. eng \in EngineT /\ EngineOK(eng) /\ Queues(eng)
  BY KeptIsTyped DEF Kept, AllKept, EngineOK
<1>2. PICK g : g = Popped(d)
  OBVIOUS
<1>3. Shorter(eng, g, d) /\ Asker(d) = Request(eng, d, 1)
  BY <1>1, <1>2, PopFacts DEF Popped, Asker, Answers, Connected
<1>4. PICK k : k = Asker(d).id
  OBVIOUS
<1>5. 1 \in Places(eng, d) /\ \A n \in Places(g, d) : n \in Nat /\ n >= 1 /\ n + 1 \in Places(eng, d)
                                                 /\ Request(g, d, n) = Request(eng, d, n + 1)
  BY <1>3 DEF Shorter
<1>6. Request(eng, d, 1).of = "conn"
  BY <1>3 DEF Connected
<1>7. /\ k \in Conns(eng) /\ DbOfConn(eng, k) = d /\ StateOf(eng, d) \in {"ready", "crashed"}
      /\ Request(eng, d, 1).answer # "crash" => d = DbOf(eng)
  BY <1>1, <1>3, <1>4, <1>5, <1>6 DEF Queues
<1>8. AllKept(g, calls, registry, used, raced, crashes)
  BY <1>3, <1>6, KeptShorter DEF Kept
<1>9. /\ g \in EngineT /\ EngineOK(g) /\ k \in Conns(g) /\ DbOfConn(g, k) = d /\ StateOf(g, d) = StateOf(eng, d)
      /\ DbOf(g) = DbOf(eng) /\ k \in Nat
  <2>1. k \in Nat
    BY <1>1, <1>7, DbOfIsADb
  <2> QED
    BY <1>3, <1>7, <1>8, <2>1 DEF Shorter, SameConns, SamePromises, AllKept
<1>10. CASE Asker(d).answer # "crash"
  <2>1. PICK s \in {"connecting", "open", "failed"} : s = "open"
    OBVIOUS
  <2>2. PICK f : /\ f = [g EXCEPT !.conns[k].state = s]
                 /\ ConnBecomes(g, f, k, s) /\ ConnOf(f) = ConnOf(g)
                 /\ f.connInstance = g.connInstance /\ f.connPromise = g.connPromise
    BY <1>9, ConnBecomesFacts
  <2>3. PICK h : h = [f EXCEPT !.connInstance = k]
    OBVIOUS
  <2>4. f \in EngineT
    BY <2>2 DEF ConnBecomes
  <2>5. SameButPromises(f, h)
    BY <1>9, <2>3, <2>4, PromiseFacts DEF SameButPromises
  <2>6. /\ h.dbInstance = f.dbInstance /\ h.dbPromise = f.dbPromise
        /\ h.connInstance = k /\ h.connPromise = f.connPromise
    BY <2>3, <2>4 DEF EngineT
  <2>7. ConnBecomes(g, h, k, s)
    BY <1>9, <2>2, <2>5, <2>6, ConnBecomesToo
  <2>8. EngineOK(h)
    BY <1>3, <1>7, <1>9, <1>10, <2>1, <2>2, <2>6, <2>7, EngineConnected
  <2>9. AllKept(h, calls, registry, used, raced, crashes)
    BY <1>8, <1>9, <2>1, <2>7, <2>8, KeptConnected
  <2>10. eng' = h
    BY <1>2, <1>4, <1>10, <2>1, <2>2, <2>3 DEF Connected
  <2> QED
    BY <2>9, <2>10 DEF Kept, Connected
<1>11. CASE Asker(d).answer = "crash"
  <2>1. PICK s \in {"connecting", "open", "failed"} : s = "failed"
    OBVIOUS
  <2>2. PICK f : /\ f = [g EXCEPT !.conns[k].state = s]
                 /\ ConnBecomes(g, f, k, s) /\ ConnOf(f) = ConnOf(g)
                 /\ f.connInstance = g.connInstance /\ f.connPromise = g.connPromise
    BY <1>9, ConnBecomesFacts
  <2>0. PICK z \in Nat : z = 0
    OBVIOUS
  <2>3. PICK h : h = [f EXCEPT !.connPromise = z]
    OBVIOUS
  <2>4. f \in EngineT
    BY <2>2 DEF ConnBecomes
  <2>5. SameButPromises(f, h)
    BY <2>0, <2>3, <2>4, PromiseFacts DEF SameButPromises
  <2>6. /\ h.dbInstance = f.dbInstance /\ h.dbPromise = f.dbPromise
        /\ h.connInstance = f.connInstance /\ h.connPromise = z
    BY <2>3, <2>4 DEF EngineT
  <2>7. ConnBecomes(g, h, k, s)
    BY <1>9, <2>2, <2>5, <2>6, ConnBecomesToo
  <2>11. /\ StateOf(eng, d) = "crashed"
         /\ \A m \in Places(eng, d) : 1 < m => Request(eng, d, m).answer = "crash"
    BY <1>1, <1>3, <1>5, <1>11 DEF Queues
  <2>12. \A n \in Places(g, d) : Request(g, d, n).answer = "crash"
    <3> SUFFICES ASSUME NEW n \in Places(g, d) PROVE Request(g, d, n).answer = "crash"
      OBVIOUS
    <3>1. n \in Nat /\ n >= 1 /\ n + 1 \in Places(eng, d) /\ Request(g, d, n) = Request(eng, d, n + 1)
      BY <1>5
    <3>2. 1 < n + 1
      BY <3>1
    <3> QED
      BY <2>11, <3>1, <3>2
  <2>8. EngineOK(h)
    BY <1>9, <2>0, <2>1, <2>2, <2>6, <2>7, <2>11, <2>12, EngineDoesNotConnect
  <2>9. AllKept(h, calls, registry, used, raced, crashes)
    BY <1>8, <1>9, <2>1, <2>7, <2>8, KeptConnected
  <2>10. eng' = h
    BY <1>2, <1>4, <1>11, <2>0, <2>1, <2>2, <2>3 DEF Connected
  <2> QED
    BY <2>9, <2>10 DEF Kept, Connected
<1> QED
  BY <1>10, <1>11

(* TileAnswered.                                                           *)
LEMMA TileAnsweredKept ==
  ASSUME Kept, NEW d \in Dbs(eng), TileAnswered(d), ~ abandoned'
  PROVE  Kept'
<1>1. PICK g : g = Popped(d)
  OBVIOUS
<1>2. PICK c : c = Asker(d).id
  OBVIOUS
<1>3. Answered(c, d, g)
  BY <1>1, <1>2, AnswerFacts DEF TileAnswered, AnswersCaller
<1>4. calls[c].pc = "query" /\ calls[c].kind = "tile"
  BY <1>2 DEF TileAnswered, AnswersCaller
<1>5. AllKept(g, calls, registry, used, raced, crashes)
  BY <1>3, <1>4, KeptPopped
<1>6. /\ c \in Callers /\ Free(g, c) /\ StateOf(g, d) = StateOf(eng, d) /\ DbOf(g) = DbOf(eng)
      /\ calls[c].conn \in Conns(eng) /\ DbOfConn(eng, calls[c].conn) = d
  BY <1>3, <1>4 DEF Answered, Asks, CallOK, NoCall
<1>7. DbOfConn(g, calls[c].conn) = d
  BY <1>3, <1>6 DEF Answered
<1>8. CASE Asker(d).answer = "crash" /\ Recover(g, c, calls[c])
  <2>1. DbOf(g) = d
    BY <1>6, <1>8 DEF Recover, TileAnswered, DbOfConn
  <2>2. StateOf(g, d) = "crashed" /\ \A n \in Places(g, d) : Request(g, d, n).answer = "crash"
    BY <1>3, <1>6, <1>8 DEF Answered
  <2>3. AllKept(eng', calls', registry, used, raced, crashes)
    BY <1>4, <1>5, <1>6, <1>7, <1>8, <2>1, <2>2, KeptRecover
  <2> QED
    BY <2>3 DEF Kept, TileAnswered
<1>9. CASE /\ Asker(d).answer # "crash" \/ calls[c].retried
           /\ eng' = g
           /\ Ends(c, IF Asker(d).answer = "ok" THEN "idle" ELSE "failed")
  <2>1. PICK pc \in {"idle", "failed"} : pc = IF Asker(d).answer = "ok" THEN "idle" ELSE "failed"
    OBVIOUS
  <2>2. ASSUME pc = "failed", crashes \leq 1, Retried(calls, c) PROVE calls[c].file \notin registry
    <3> SUFFICES ASSUME calls[c].file \in registry PROVE FALSE
      OBVIOUS
    <3>1. /\ OnItsWay(eng, calls, c) /\ CrashedBefore(eng, calls, c) /\ Crashes(eng, crashes)
          /\ MissingFile(eng, calls, registry, d, 1)
      BY <1>3, <1>6, <2>2 DEF Kept, AllKept, Survives, Answered
    <3>2. d = calls[c].db
      BY <1>4, <1>6, <3>1 DEF OnItsWay
    <3>3. Asker(d).answer \in {"missing", "crash"}
      BY <1>3, <1>4, <2>1, <2>2 DEF Answered, Answer
    <3>4. CASE Asker(d).answer = "crash"
      <4>1. StateOf(eng, d) = "crashed"
        BY <1>3, <3>4 DEF Answered
      <4>2. PICK b \in Dbs(eng) : b # d /\ StateOf(eng, b) = "crashed"
        BY <3>1, <3>2 DEF CrashedBefore
      <4> QED
        BY <2>2, <3>1, <4>1, <4>2 DEF Crashes
    <3>5. CASE Asker(d).answer = "missing"
      <4>1. DropBefore(eng, calls, calls[c].file, d, 1)
        BY <1>3, <1>4, <2>2, <3>1, <3>5 DEF MissingFile, Answered
      <4>2. PICK i \in Places(eng, d) : i < 1
        BY <4>1 DEF DropBefore
      <4>3. i \in Nat /\ i >= 1
        BY <1>3, <4>2 DEF Answered, Shorter
      <4> QED
        BY <4>2, <4>3
    <3> QED
      BY <3>3, <3>4, <3>5
  <2>3. \A f, x : ~ LoadsFile(calls, c, f, x)
    BY <1>4 DEF LoadsFile
  <2>4. AllKept(g, [calls EXCEPT ![c] = IF pc = "idle" THEN NoCall ELSE [@ EXCEPT !.pc = pc]],
                registry, used, raced, crashes)
    BY <1>4, <1>5, <1>6, <2>2, <2>3, KeptEnds
  <2>5. calls' = [calls EXCEPT ![c] = IF pc = "idle" THEN NoCall ELSE [@ EXCEPT !.pc = pc]]
    BY <1>9, <2>1 DEF Ends
  <2> QED
    BY <1>9, <2>4, <2>5 DEF Kept, TileAnswered
<1>10. UNCHANGED crashes
  BY DEF TileAnswered
<1> QED
  BY <1>1, <1>2, <1>8, <1>9 DEF TileAnswered

(* QueryAnswered.                                                          *)
LEMMA QueryAnsweredKept ==
  ASSUME Kept, NEW d \in Dbs(eng), QueryAnswered(d)
  PROVE  Kept'
<1>1. PICK g : g = Popped(d)
  OBVIOUS
<1>2. PICK c : c = Asker(d).id
  OBVIOUS
<1>3. Answered(c, d, g)
  BY <1>1, <1>2, AnswerFacts DEF QueryAnswered, AnswersCaller
<1>4. calls[c].pc = "query" /\ calls[c].kind = "query"
  BY <1>2 DEF QueryAnswered, AnswersCaller
<1>5. AllKept(g, calls, registry, used, raced, crashes)
  BY <1>3, <1>4, KeptPopped
<1>6. /\ c \in Callers /\ Free(g, c) /\ StateOf(g, d) \in {"ready", "crashed"}
      /\ calls[c].conn \in Conns(eng) /\ DbOfConn(eng, calls[c].conn) = d /\ calls[c].left \in Nat
  BY <1>3, <1>4 DEF Answered, Asks, CallOK, NoCall, CallT
<1>7. DbOfConn(g, calls[c].conn) = d
  BY <1>3, <1>6 DEF Answered
<1>8. CASE /\ calls[c].left > 1
           /\ SendQuery(g, c, [calls[c] EXCEPT !.left = @ - 1])
  <2>1. PICK l \in Nat : l = calls[c].left - 1
    BY <1>6, <1>8
  <2>2. PICK call : call = [calls[c] EXCEPT !.left = l]
    OBVIOUS
  <2>3. SendQuery(g, c, call)
    BY <1>8, <2>1, <2>2
  <2>4. AllKept(eng', calls', registry, used, raced, crashes')
    BY <1>4, <1>5, <1>6, <1>7, <2>2, <2>3, KeptSendQuery
  <2> QED
    BY <2>4 DEF Kept, QueryAnswered
<1>9. CASE /\ eng' = g /\ UNCHANGED crashes
           /\ Ends(c, IF Asker(d).answer = "ok" THEN "idle" ELSE "failed")
  <2>1. PICK pc \in {"idle", "failed"} : pc = IF Asker(d).answer = "ok" THEN "idle" ELSE "failed"
    OBVIOUS
  <2>2. ~ Retried(calls, c) /\ \A f, x : ~ LoadsFile(calls, c, f, x)
    BY <1>4 DEF LoadsFile, Retried
  <2>3. AllKept(g, [calls EXCEPT ![c] = IF pc = "idle" THEN NoCall ELSE [@ EXCEPT !.pc = pc]],
                registry, used, raced, crashes)
    BY <1>4, <1>5, <1>6, <2>2, KeptEnds
  <2>4. calls' = [calls EXCEPT ![c] = IF pc = "idle" THEN NoCall ELSE [@ EXCEPT !.pc = pc]]
    BY <1>9, <2>1 DEF Ends
  <2> QED
    BY <1>9, <2>3, <2>4 DEF Kept, QueryAnswered
<1> QED
  BY <1>1, <1>2, <1>8, <1>9 DEF QueryAnswered

(* FileAgain.                                                              *)
LEMMA FileAgainKept ==
  ASSUME Kept, NEW d \in Dbs(eng), FileAgain(d)
  PROVE  Kept'
<1>1. PICK g : g = Popped(d)
  OBVIOUS
<1>2. PICK c : c = Asker(d).id
  OBVIOUS
<1>3. Answered(c, d, g)
  BY <1>1, <1>2, AnswerFacts DEF FileAgain, AnswersCaller
<1>4. calls[c].pc = "again"
  BY <1>2 DEF FileAgain, AnswersCaller
<1>5. AllKept(g, calls, registry, used, raced, crashes)
  BY <1>3, <1>4, KeptPopped
<1>6. /\ c \in Callers /\ Free(g, c) /\ StateOf(g, d) \in {"ready", "crashed"}
      /\ calls[c].db = d /\ calls[c].kind = "tile"
  BY <1>3, <1>4 DEF Answered, Asks, CallOK, NoCall
<1>7. Reregister(g, c, calls[c])
  BY <1>1, <1>2 DEF FileAgain
<1>8. AllKept(eng', calls', registry, used, raced, crashes)
  BY <1>4, <1>5, <1>6, <1>7, KeptReregister
<1> QED
  BY <1>8 DEF Kept, FileAgain

(* FileRegistered.                                                         *)
LEMMA FileRegisteredKept ==
  ASSUME Kept, NEW d \in Dbs(eng), FileRegistered(d)
  PROVE  Kept'
<1>1. PICK g : g = Popped(d)
  OBVIOUS
<1>2. PICK c : c = Asker(d).id
  OBVIOUS
<1>3. Answered(c, d, g) /\ Settled
  BY <1>1, <1>2, AnswerFacts DEF FileRegistered, AnswersCaller, Answers
<1>4. calls[c].pc = "file"
  BY <1>2 DEF FileRegistered, AnswersCaller
<1>5. AllKept(g, calls, registry, used, raced, crashes)
  BY <1>3, <1>4, KeptPopped
<1>6. /\ c \in Callers /\ Free(g, c) /\ StateOf(g, d) \in {"ready", "crashed"}
      /\ calls[c].db = d /\ calls[c].kind = "load" /\ calls[c] \in CallT /\ ~ calls[c].retried
  BY <1>3, <1>4 DEF Answered, Asks, CallOK, NoCall
<1>7. calls = [b \in Callers |-> calls[b]]
  BY KeptIsTyped DEF Kept
<1>8. CASE /\ eng' = WithConn(g)
           /\ Goes(c, [calls[c] EXCEPT !.pc = "conn", !.conn = ConnOf(WithConn(g))])
  <2>1. PICK h : h = WithConn(g)
    OBVIOUS
  <2>2. \A k \in Conns(g) : ConnState(g, k) = "waiting" => StateOf(g, DbOfConn(g, k)) # "failed"
    <3> SUFFICES ASSUME NEW k \in Conns(g), ConnState(g, k) = "waiting" PROVE StateOf(g, DbOfConn(g, k)) # "failed"
      OBVIOUS
    <3>1. k \in Conns(eng) /\ ConnState(eng, k) = "waiting" /\ DbOfConn(g, k) = DbOfConn(eng, k)
      BY <1>3 DEF Answered
    <3>2. DbOfConn(eng, k) \in Dbs(eng)
      BY <3>1, KeptIsTyped DEF Kept
    <3>3. StateOf(eng, DbOfConn(eng, k)) = "starting"
      BY <1>3, <3>1 DEF Settled, Starting, ConnState, DbOfConn, StateOf, Conns
    <3> QED
      BY <1>3, <3>1, <3>2, <3>3 DEF Answered
  <2>3. /\ AllKept(h, calls, registry, used, raced, crashes) /\ Grown(g, h)
        /\ ConnOf(h) \in Conns(h) /\ DbOfConn(h, ConnOf(h)) = DbOf(h)
    BY <1>5, <2>1, <2>2, KeptWithConn
  <2>4. ConnOf(h) \in Nat
    BY <2>3, DbOfIsADb DEF AllKept
  <2>5. PICK new : new = [calls[c] EXCEPT !.pc = "conn", !.conn = ConnOf(h)]
    OBVIOUS
  <2>6. /\ new \in CallT /\ new.kind = "load" /\ new.file = calls[c].file /\ new.pc = "conn"
        /\ new.db = d /\ ~ new.retried /\ new.conn = ConnOf(h)
    BY <1>6, <2>4, <2>5 DEF CallT
  <2>7. PICK ds : ds = [calls EXCEPT ![c] = new]
    OBVIOUS
  <2>8. Moved(calls, ds, c) /\ ds[c] = new
    <3>1. Moved(calls, [calls EXCEPT ![c] = new], c) /\ [calls EXCEPT ![c] = new][c] = new
      BY <1>6, <1>7, MovedFacts
    <3> QED
      BY <2>7, <3>1
  <2>9. Settles(h, calls, ds, c)
    BY <1>6, <2>3 DEF Settles, Free, Grown
  <2>10. CallOK(h, ds[c])
    <3>1. d \in Dbs(h) /\ StateOf(h, d) \in {"ready", "crashed"}
      BY <1>3, <1>6, <2>3 DEF Grown, StayUp, Answered
    <3> QED
      BY <2>3, <2>6, <2>8, <3>1 DEF CallOK
  <2>11. LoadsWhereItIs(h, ds, c) /\ ~ Retried(ds, c)
    BY <2>3, <2>6, <2>8 DEF LoadsWhereItIs, Retried
  <2>12. \A f, x : LoadsFile(calls, c, f, x) => LoadsFile(ds, c, f, x)
    BY <1>6, <2>6, <2>8 DEF LoadsFile
  <2>13. Active(calls[c]) /\ ds[c].kind = calls[c].kind /\ ds[c].file = calls[c].file
    BY <1>4, <1>6, <2>6, <2>8 DEF Active, Ended
  <2>14. AllKept(h, ds, registry, used, raced, crashes)
    BY <1>6, <2>3, <2>8, <2>9, <2>10, <2>11, <2>12, <2>13, KeptMoved
  <2> QED
    BY <1>8, <2>1, <2>5, <2>7, <2>14 DEF Kept, FileRegistered, Goes
<1>9. CASE Asker(d).answer = "crash" /\ eng' = g /\ Ends(c, "failed")
  <2>1. StateOf(g, d) # "ready" /\ ~ Retried(calls, c)
    BY <1>3, <1>6, <1>9 DEF Answered, Retried
  <2>2. \A x \in Dbs(g) : \A f \in FilesOf(g, x) : ~ (StateOf(g, x) = "ready" /\ LoadsFile(calls, c, f, x))
    BY <1>6, <2>1 DEF LoadsFile
  <2>3. PICK pc \in {"idle", "failed"} : pc = "failed"
    OBVIOUS
  <2>4. AllKept(g, [calls EXCEPT ![c] = IF pc = "idle" THEN NoCall ELSE [@ EXCEPT !.pc = pc]],
                registry, used, raced, crashes)
    BY <1>5, <1>6, <2>1, <2>2, KeptEnds
  <2>5. calls' = [calls EXCEPT ![c] = IF pc = "idle" THEN NoCall ELSE [@ EXCEPT !.pc = pc]]
    BY <1>9, <2>3 DEF Ends
  <2> QED
    BY <1>9, <2>4, <2>5 DEF Kept, FileRegistered
<1> QED
  BY <1>1, <1>2, <1>8, <1>9 DEF FileRegistered

(* A file that has been read is that of a source from now on.              *)
LEMMA KeptLoaded ==
  ASSUME Kept, NEW d \in Dbs(eng), NEW c, NEW g, Answered(c, d, g), Settled,
         AllKept(g, calls, registry, used, raced, crashes),
         calls[c].pc = "query", calls[c].kind = "load", Asker(d).answer = "ok"
  PROVE  AllKept(g, [calls EXCEPT ![c] = NoCall], registry \cup {calls[c].file}, used, raced, crashes)
<1>1. PICK f : f = calls[c].file
  OBVIOUS
<1>2. EngineOK(g) /\ CallsOK(g, calls) /\ FilesOnce(calls, registry, used) /\ Registered(g, calls, registry)
      /\ NothingElse(g, calls, registry, raced) /\ Survives(g, calls, registry, crashes)
  BY DEF AllKept
<1>3. c \in Callers /\ Free(g, c) /\ Active(calls[c]) /\ calls = [b \in Callers |-> calls[b]]
  BY KeptIsTyped DEF Answered, Active, Ended
<1>4. PICK ds : ds = [calls EXCEPT ![c] = NoCall]
  OBVIOUS
<1>5. Moved(calls, ds, c) /\ ds[c] = NoCall
  <2>1. Moved(calls, [calls EXCEPT ![c] = NoCall], c) /\ [calls EXCEPT ![c] = NoCall][c] = NoCall
    BY <1>3, MovedFacts
  <2> QED
    BY <1>4, <2>1
<1>6. Settles(g, calls, ds, c) /\ ds[c].kind = "none" /\ ds[c].pc = "idle"
  BY <1>3, <1>5 DEF Settles, NoCall
<1>7. CallsOK(g, ds)
  <2>1. CallOK(g, ds[c])
    BY <1>5 DEF CallOK
  <2> QED
    BY <1>2, <1>3, <1>5, <1>6, <2>1, CallsMoved
<1>8. /\ f \in used /\ f \notin registry
      /\ \A b \in Callers \ {c} : calls[b].kind # "none" => calls[b].file # f
  BY <1>1, <1>2, <1>3 DEF FilesOnce
<1>9. FilesOnce(ds, registry \cup {f}, used)
  <2>1. \A b \in Callers \ {c} : ds[b] = calls[b]
    BY <1>5 DEF Moved
  <2>2. \A b \in Callers : ds[b].kind # "none" => b # c /\ ds[b] = calls[b]
    BY <1>6, <2>1
  <2>3. /\ registry \cup {f} \subseteq used /\ used \subseteq Files
        /\ \A b \in Callers : ds[b].kind # "none" => ds[b].file \in used
    BY <1>2, <1>8, <2>2 DEF FilesOnce
  <2>4. ASSUME NEW b \in Callers, ds[b].kind = "load", Active(ds[b])
        PROVE  /\ ds[b].file \notin registry \cup {f}
               /\ \A a \in Callers : ds[a].kind # "none" /\ a # b => ds[a].file # ds[b].file
    <3>1. b # c /\ calls[b].kind = "load" /\ Active(calls[b]) /\ ds[b] = calls[b]
      BY <2>2, <2>4
    <3>2. calls[b].file \notin registry /\ calls[b].file # f
      BY <1>2, <1>8, <3>1 DEF FilesOnce
    <3>3. \A a \in Callers : calls[a].kind # "none" /\ a # b => calls[a].file # calls[b].file
      BY <1>2, <3>1 DEF FilesOnce
    <3> QED
      BY <2>2, <3>1, <3>2, <3>3
  <2> QED
    BY <2>3, <2>4 DEF FilesOnce
<1>10. Registered(g, ds, registry \cup {f})
  <2>1. \A k \in Conns(g) : ConnState(g, k) = "waiting" => StateOf(g, DbOfConn(g, k)) # "failed"
    <3> SUFFICES ASSUME NEW k \in Conns(g), ConnState(g, k) = "waiting" PROVE StateOf(g, DbOfConn(g, k)) # "failed"
      OBVIOUS
    <3>1. k \in Conns(eng) /\ ConnState(eng, k) = "waiting" /\ DbOfConn(g, k) = DbOfConn(eng, k)
      BY DEF Answered
    <3>2. DbOfConn(eng, k) \in Dbs(eng)
      BY <3>1, KeptIsTyped DEF Kept
    <3>3. StateOf(eng, DbOfConn(eng, k)) = "starting"
      BY <3>1 DEF Settled, Starting, ConnState, DbOfConn, StateOf, Conns
    <3> QED
      BY <3>1, <3>2, <3>3 DEF Answered
  <2>2. d = DbOf(g) /\ d \in Dbs(g) /\ d # 0
    <3>1. d = DbOf(g) /\ d \in Dbs(g)
      BY DEF Answered
    <3> QED
      BY <1>2, <3>1, DbOfIsADb
  <2>3. LoadedFile(eng, calls, d, 1)
    BY DEF Kept, AllKept, Registered, Answered
  <2>4. StateOf(g, d) = "ready" => f \in FilesOf(g, d)
    BY <1>1, <2>3 DEF LoadedFile, Answered
  <2>5. \A x \in Dbs(g) : StateOf(g, x) \in {"starting", "ready"} => f \in FilesOf(g, x)
    <3> SUFFICES ASSUME NEW x \in Dbs(g), StateOf(g, x) \in {"starting", "ready"} PROVE f \in FilesOf(g, x)
      OBVIOUS
    <3>1. x = d
      BY <1>2, <2>2 DEF EngineOK, OneDatabase
    <3> QED
      BY <2>4, <3>1 DEF Answered
  <2>6. Registered(g, calls, registry \cup {f})
    BY <1>2, <2>1, <2>2, <2>5, RegisteredMore
  <2> QED
    BY <1>2, <1>3, <1>5, <1>6, <2>6, RegisteredMoved
<1>11. NothingElse(g, ds, registry \cup {f}, raced)
  <2>1. NothingElse(g, calls, registry \cup {f}, raced)
    BY <1>2, NothingElseCounts
  <2>2. LoadsWhereItIs(g, ds, c)
    BY <1>6 DEF LoadsWhereItIs
  <2>3. \A h, x : LoadsFile(calls, c, h, x) => h = f
    BY <1>1 DEF LoadsFile
  <2> QED
    BY <1>2, <1>3, <1>5, <1>6, <2>1, <2>2, <2>3, NothingElseMoved
<1>12. Survives(g, ds, registry \cup {f}, crashes)
  <2>1. \A b \in Callers : Retried(calls, b) => calls[b].file # f
    BY <1>8 DEF Retried
  <2>2. Survives(g, calls, registry \cup {f}, crashes)
    BY <1>2, <2>1, SurvivesMore
  <2>3. ~ Retried(ds, c)
    BY <1>6 DEF Retried
  <2> QED
    BY <1>2, <1>3, <1>5, <1>6, <2>2, <2>3, SurvivesMoved
<1> QED
  BY <1>1, <1>2, <1>4, <1>7, <1>9, <1>10, <1>11, <1>12 DEF AllKept

(* A load that fails drops its file.                                       *)
LEMMA KeptUndone ==
  ASSUME Kept, NEW d \in Dbs(eng), NEW c, NEW g, Answered(c, d, g),
         AllKept(g, calls, registry, used, raced, crashes),
         calls[c].pc = "query", calls[c].kind = "load",
         eng' = SendFile(g, c, calls[c].db, Dropped(g, calls[c].db, calls[c].file)),
         calls' = [calls EXCEPT ![c] = [calls[c] EXCEPT !.pc = "undo"]]
  PROVE  AllKept(eng', calls', registry, used, raced, crashes)
<1>1. PICK f : f = calls[c].file
  OBVIOUS
<1>2. PICK b : b = calls[c].db
  OBVIOUS
<1>3. EngineOK(g) /\ CallsOK(g, calls) /\ FilesOnce(calls, registry, used) /\ Registered(g, calls, registry)
      /\ NothingElse(g, calls, registry, raced) /\ Survives(g, calls, registry, crashes)
  BY DEF AllKept
<1>4. /\ c \in Callers /\ Free(g, c) /\ Active(calls[c]) /\ calls = [a \in Callers |-> calls[a]]
      /\ g \in EngineT /\ calls[c] \in CallT
  BY KeptIsTyped DEF Answered, Active, Ended
<1>5. b \in Dbs(g) /\ StateOf(g, b) \in {"ready", "crashed"} /\ ~ calls[c].retried
  <2>1. CallOK(g, calls[c])
    BY <1>3, <1>4 DEF CallsOK
  <2> QED
    BY <1>2, <2>1 DEF CallOK, NoCall
<1>6. PICK new : new = [calls[c] EXCEPT !.pc = "undo"]
  OBVIOUS
<1>7. /\ new \in CallT /\ new.kind = "load" /\ new.file = f /\ new.pc = "undo"
      /\ new.db = b /\ ~ new.retried
  BY <1>1, <1>2, <1>4, <1>5, <1>6 DEF CallT
<1>8. PICK ds : ds = [calls EXCEPT ![c] = new]
  OBVIOUS
<1>9. Moved(calls, ds, c) /\ ds[c] = new
  <2>1. Moved(calls, [calls EXCEPT ![c] = new], c) /\ [calls EXCEPT ![c] = new][c] = new
    BY <1>4, MovedFacts
  <2> QED
    BY <1>8, <2>1
<1>10. Settles(g, calls, ds, c) /\ ~ Retried(ds, c)
  BY <1>4, <1>7, <1>9 DEF Settles, Retried
<1>11. CallsOK(g, ds)
  <2>1. CallOK(g, ds[c])
    BY <1>5, <1>7, <1>9 DEF CallOK
  <2> QED
    BY <1>3, <1>4, <1>9, <1>10, <2>1, CallsMoved
<1>12. /\ f \in used /\ f \notin registry /\ f \in Files
       /\ \A a \in Callers \ {c} : calls[a].kind # "none" => calls[a].file # f
  BY <1>1, <1>3, <1>4 DEF FilesOnce
<1>13. PICK X : X = FilesOf(g, b) \ {f}
  OBVIOUS
<1>14. X \in SUBSET Files
  <2>1. FilesOf(g, b) \in SUBSET Files
    BY <1>4, <1>5, DbParts DEF FilesOf
  <2> QED
    BY <1>13, <2>1
<1>15. PICK r : /\ Sent(g, SendFile(g, c, b, X), b, r, X)
                /\ r.of = "caller" /\ r.id = c
                /\ StateOf(g, b) = "ready" => r.answer = "ok"
                /\ StateOf(g, b) # "ready" => r.answer = "crash"
  BY <1>4, <1>5, <1>14, SendFileFacts
<1>16. PICK h : h = eng'
  OBVIOUS
<1>17. Sent(g, h, b, r, X)
  <2>1. eng' = SendFile(g, c, b, X)
    BY <1>1, <1>2, <1>13 DEF Dropped, FilesOf
  <2> QED
    BY <1>15, <1>16, <2>1
<1>18. r.answer = "crash" <=> StateOf(g, b) = "crashed"
  BY <1>5, <1>15
<1>19. EngineOK(h)
  BY <1>3, <1>5, <1>15, <1>17, <1>18, EngineSent
<1>20. CallsOK(h, ds)
  <2>1. Asks(ds, c, b, g) /\ r.answer # "bad"
    BY <1>7, <1>9, <1>15 DEF Asks
  <2> QED
    BY <1>4, <1>5, <1>11, <1>15, <1>17, <2>1, CallsSent
<1>21. FilesOnce(ds, registry, used)
  BY <1>1, <1>3, <1>4, <1>7, <1>9, FilesOnceMoved
<1>22. Registered(h, ds, registry)
  <2>1. Registered(g, ds, registry)
    BY <1>3, <1>4, <1>9, <1>10, RegisteredMoved
  <2>2. \A a \in Callers : ds[a].kind = "load" /\ ds[a].pc = "query" => ds[a].file # f
    BY <1>7, <1>9, <1>12 DEF Moved
  <2>3. \A k \in FilesOf(g, b) \ X : k = f
    BY <1>13
  <2>4. ds[r.id].pc # "query"
    BY <1>7, <1>9, <1>15
  <2> QED
    BY <1>3, <1>5, <1>11, <1>12, <1>17, <2>1, <2>2, <2>3, <2>4, RegisteredSent
<1>23. NothingElse(h, ds, registry, raced)
  <2>0. PICK rs : rs = raced \cup {f}
    OBVIOUS
  <2>1. NothingElse(g, calls, registry, rs)
    BY <1>3, <2>0, NothingElseCounts
  <2>2. LoadsWhereItIs(g, ds, c)
    BY <1>7, <1>9 DEF LoadsWhereItIs
  <2>3. \A k, x : LoadsFile(calls, c, k, x) => k = f
    BY <1>1 DEF LoadsFile
  <2>4. NothingElse(g, ds, registry, rs)
    BY <1>3, <1>4, <1>9, <1>10, <2>0, <2>1, <2>2, <2>3, NothingElseMoved
  <2>5. NothingElse(h, ds, registry, rs)
    <3>1. X \subseteq FilesOf(g, b) /\ ds[r.id].pc = "undo"
      BY <1>7, <1>9, <1>13, <1>15
    <3> QED
      BY <1>3, <1>5, <1>11, <1>17, <2>4, <3>1, NothingElseSent
  <2>6. ASSUME NEW x \in Dbs(h), StateOf(h, x) = "ready" PROVE f \in FilesOf(h, x) => f \in registry \cup raced
    <3>1. x \in Dbs(g) /\ (x = b => StateOf(g, b) = "ready" /\ FilesOf(h, b) = X)
          /\ (x # b => StateOf(g, x) = "ready" /\ FilesOf(h, x) = FilesOf(g, x))
      BY <1>17, <2>6 DEF Sent, SameDb
    <3>2. ASSUME x # b, f \in FilesOf(g, x) PROVE f \in registry \cup raced
      <4> SUFFICES ASSUME NEW a \in Callers, LoadsFile(calls, a, f, x) PROVE FALSE
        BY <1>3, <3>1, <3>2 DEF NothingElse
      <4>1. a = c
        BY <1>12 DEF LoadsFile
      <4> QED
        BY <1>2, <3>2, <4>1 DEF LoadsFile
    <3> QED
      BY <1>13, <3>1, <3>2
  <2> QED
    BY <2>0, <2>5, <2>6, NothingElseCounts
<1>24. Survives(h, ds, registry, crashes)
  <2>1. Survives(g, ds, registry, crashes)
    BY <1>3, <1>4, <1>9, <1>10, SurvivesMoved
  <2>2. \A k \in FilesOf(g, b) \ X : k \notin registry
    BY <1>12, <1>13
  <2>3. ds[r.id].pc # "query"
    BY <1>7, <1>9, <1>15
  <2> QED
    BY <1>3, <1>5, <1>11, <1>17, <2>1, <2>2, <2>3, SurvivesSent
<1>25. calls' = ds
  BY <1>6, <1>8
<1> QED
  BY <1>16, <1>19, <1>20, <1>21, <1>22, <1>23, <1>24, <1>25 DEF AllKept

(* LoadAnswered.                                                           *)
LEMMA LoadAnsweredKept ==
  ASSUME Kept, NEW d \in Dbs(eng), LoadAnswered(d)
  PROVE  Kept'
<1>1. PICK g : g = Popped(d)
  OBVIOUS
<1>2. PICK c : c = Asker(d).id
  OBVIOUS
<1>3. Answered(c, d, g) /\ Settled
  BY <1>1, <1>2, AnswerFacts DEF LoadAnswered, AnswersCaller, Answers
<1>4. calls[c].pc = "query" /\ calls[c].kind = "load"
  BY <1>2 DEF LoadAnswered, AnswersCaller
<1>5. AllKept(g, calls, registry, used, raced, crashes)
  BY <1>3, <1>4, KeptPopped
<1>6. /\ c \in Callers /\ Free(g, c) /\ StateOf(g, d) \in {"ready", "crashed"}
      /\ calls[c].conn \in Conns(eng) /\ DbOfConn(eng, calls[c].conn) = d
  BY <1>3, <1>4 DEF Answered, Asks, CallOK, NoCall
<1>7. DbOfConn(g, calls[c].conn) = d
  BY <1>3, <1>6 DEF Answered
<1>8. CASE SendQuery(g, c, [calls[c] EXCEPT !.left = 1]) /\ UNCHANGED registry
  <2>1. PICK l \in Nat : l = 1
    OBVIOUS
  <2>2. PICK call : call = [calls[c] EXCEPT !.left = l]
    OBVIOUS
  <2>3. SendQuery(g, c, call)
    BY <1>8, <2>1, <2>2
  <2>4. AllKept(eng', calls', registry, used, raced, crashes')
    BY <1>4, <1>5, <1>6, <1>7, <2>2, <2>3, KeptSendQuery
  <2> QED
    BY <1>8, <2>4 DEF Kept, LoadAnswered
<1>9. CASE /\ Asker(d).answer = "ok" /\ eng' = g /\ registry' = registry \cup {calls[c].file}
           /\ Ends(c, "idle") /\ UNCHANGED crashes
  <2>1. calls' = [calls EXCEPT ![c] = NoCall]
    BY <1>9 DEF Ends
  <2>2. AllKept(g, [calls EXCEPT ![c] = NoCall], registry \cup {calls[c].file}, used, raced, crashes)
    BY <1>3, <1>4, <1>5, <1>9, KeptLoaded
  <2> QED
    BY <1>9, <2>1, <2>2 DEF Kept, LoadAnswered
<1>10. CASE /\ eng' = SendFile(g, c, calls[c].db, Dropped(g, calls[c].db, calls[c].file))
            /\ Goes(c, [calls[c] EXCEPT !.pc = "undo"]) /\ UNCHANGED <<registry, crashes>>
  <2>1. calls' = [calls EXCEPT ![c] = [calls[c] EXCEPT !.pc = "undo"]]
    BY <1>10 DEF Goes
  <2>2. AllKept(eng', calls', registry, used, raced, crashes)
    BY <1>3, <1>4, <1>5, <1>10, <2>1, KeptUndone
  <2> QED
    BY <1>10, <2>2 DEF Kept, LoadAnswered
<1> QED
  BY <1>1, <1>2, <1>8, <1>9, <1>10 DEF LoadAnswered

(* FileDropped: a dropped file that a recovery registered again is raced.  *)
LEMMA FileDroppedKept ==
  ASSUME Kept, NEW d \in Dbs(eng), FileDropped(d)
  PROVE  Kept'
<1>1. PICK g : g = Popped(d)
  OBVIOUS
<1>2. PICK c : c = Asker(d).id
  OBVIOUS
<1>3. Answered(c, d, g)
  BY <1>1, <1>2, AnswerFacts DEF FileDropped, AnswersCaller
<1>4. calls[c].pc \in {"drop", "undo"}
  BY <1>2 DEF FileDropped, AnswersCaller
<1>5. PICK f : f = calls[c].file
  OBVIOUS
<1>6. /\ c \in Callers /\ Free(g, c) /\ calls[c].db = d
      /\ calls[c].kind \in {"load", "delete"}
  BY <1>3, <1>4 DEF Answered, Asks, CallOK, NoCall
<1>7. PICK reg : reg = IF calls[c].pc = "drop" THEN registry \ {f} ELSE registry
  OBVIOUS
<1>8. PICK rs : rs = IF calls[c].db # DbOf(eng) \/ Recovering THEN raced \cup {f} ELSE raced
  OBVIOUS
<1>9. EngineOK(eng) /\ CallsOK(eng, calls) /\ FilesOnce(calls, registry, used) /\ Registered(eng, calls, registry)
      /\ NothingElse(eng, calls, registry, raced) /\ Survives(eng, calls, registry, crashes)
  BY DEF Kept, AllKept
<1>10. reg \subseteq registry /\ raced \subseteq rs
  BY <1>7, <1>8
<1>11. FilesOnce(calls, reg, used)
  BY <1>9, <1>10 DEF FilesOnce
<1>12. NothingElse(eng, calls, reg, rs)
  <2>1. ASSUME NEW x \in Dbs(eng), StateOf(eng, x) = "ready", f \in FilesOf(eng, x), calls[c].pc = "drop"
        PROVE  f \in rs
    <3>1. x = DbOf(eng)
      BY <1>9, <2>1 DEF EngineOK, OneDatabase
    <3>2. CASE d # DbOf(eng)
      BY <1>6, <1>8, <3>2
    <3>3. CASE d = DbOf(eng)
      <4>1. DropAt(eng, calls, f, d, 1) /\ 1 \in Places(eng, d)
        BY <1>3, <1>5, <2>1 DEF Answered, DropAt
      <4>2. RegisteredAfter(eng, calls, f, d, 1)
        BY <1>9, <2>1, <3>1, <3>3, <4>1 DEF NothingElse
      <4>3. PICK m \in Places(eng, d) : Request(eng, d, m).of = "caller" /\ calls[Request(eng, d, m).id].pc = "again"
        BY <4>1, <4>2 DEF RegisteredAfter
      <4>4. CallerOK(eng, calls, d, m)
        BY <1>9, <4>3 DEF CallsOK
      <4>5. PICK b \in Callers : calls[b].pc = "again"
        BY <4>3, <4>4 DEF CallerOK
      <4>6. CallOK(eng, calls[b])
        BY <1>9, <4>5 DEF CallsOK
      <4>7. calls[b].kind = "tile"
        BY <4>5, <4>6 DEF CallOK, NoCall
      <4>8. Recovering
        BY <4>5, <4>7 DEF Recovering
      <4> QED
        BY <1>8, <4>8
    <3> QED
      BY <3>2, <3>3
  <2>2. \A x \in Dbs(eng) : StateOf(eng, x) = "ready" =>
          \A h \in FilesOf(eng, x) : h \in registry \cup raced => h \in reg \cup rs
    BY <1>7, <1>10, <2>1
  <2> QED
    BY <1>9, <2>2, NothingElseCounts
<1>13. Registered(eng, calls, reg) /\ Survives(eng, calls, reg, crashes)
  BY <1>9, <1>10, RegisteredLess, SurvivesLess
<1>14. AllKept(eng, calls, reg, used, rs, crashes)
  BY <1>9, <1>11, <1>12, <1>13 DEF AllKept
<1>15. AllKept(g, calls, reg, used, rs, crashes)
  <2>1. calls[Request(eng, d, 1).id].pc = "drop" => calls[Request(eng, d, 1).id].file \notin reg
    BY <1>3, <1>5, <1>7 DEF Answered
  <2> QED
    BY <1>3, <1>14, <2>1, KeptShorter DEF Answered
<1>16. PICK pc \in {"idle", "failed"} : pc = IF calls[c].pc = "drop" THEN "idle" ELSE "failed"
  OBVIOUS
<1>17. ~ Retried(calls, c) /\ \A h, x : ~ LoadsFile(calls, c, h, x)
  BY <1>4, <1>6 DEF Retried, LoadsFile
<1>18. AllKept(g, [calls EXCEPT ![c] = IF pc = "idle" THEN NoCall ELSE [@ EXCEPT !.pc = pc]],
               reg, used, rs, crashes)
  BY <1>6, <1>15, <1>17, KeptEnds
<1>19. calls' = [calls EXCEPT ![c] = IF pc = "idle" THEN NoCall ELSE [@ EXCEPT !.pc = pc]]
  BY <1>2, <1>16 DEF FileDropped, Ends
<1>20. registry' = reg /\ raced' = rs /\ eng' = g
  BY <1>1, <1>2, <1>5, <1>7, <1>8 DEF FileDropped
<1> QED
  BY <1>18, <1>19, <1>20 DEF Kept, FileDropped

(* What is abandoned stays abandoned.                                      *)
LEMMA AbandonedStays ==
  ASSUME EngineNext, abandoned
  PROVE  abandoned'
BY DEF EngineNext, AskTile, AskQueries, Load, Delete, Begins, HasDb, HasConn, Recover, Connect, Instantiate, FailToStart,
       Connected, TileAnswered, QueryAnswered, LoadAnswered, FileRegistered, FileAgain, FileDropped

(* Every action keeps the invariant that abandons nothing.                 *)
LEMMA NextKeeps ==
  ASSUME Kept, EngineNext, ~ abandoned'
  PROVE  Kept'
<1>1. ASSUME NEW c \in Callers, NEW f \in Files, AskTile(c, f)
      PROVE  Kept'
  BY <1>1, AskTileKept
<1>2. ASSUME NEW c \in Callers, NEW f \in Files, NEW n \in 1 .. 2, AskQueries(c, f, n)
      PROVE  Kept'
  BY <1>2, AskQueriesKept
<1>3. ASSUME NEW c \in Callers, NEW f \in Files, Load(c, f) \/ Delete(c, f)
      PROVE  Kept'
  BY <1>3, LoadKept, DeleteKept
<1>4. ASSUME NEW c \in Callers, HasDb(c) \/ HasConn(c)
      PROVE  Kept'
  BY <1>4, HasDbKept, HasConnKept
<1>5. ASSUME NEW k \in DOMAIN eng.conns, Connect(k)
      PROVE  Kept'
  BY <1>5, ConnectKept DEF Conns
<1>6. ASSUME NEW d \in DOMAIN eng.dbs, Instantiate(d) \/ FailToStart(d)
      PROVE  Kept'
  BY <1>6, InstantiateKept, FailToStartKept DEF Dbs
<1>7. ASSUME NEW d \in DOMAIN eng.dbs, Connected(d) \/ TileAnswered(d) \/ QueryAnswered(d)
      PROVE  Kept'
  BY <1>7, ConnectedKept, TileAnsweredKept, QueryAnsweredKept DEF Dbs
<1>8. ASSUME NEW d \in DOMAIN eng.dbs, LoadAnswered(d) \/ FileRegistered(d) \/ FileAgain(d) \/ FileDropped(d)
      PROVE  Kept'
  BY <1>8, LoadAnsweredKept, FileRegisteredKept, FileAgainKept, FileDroppedKept DEF Dbs
<1> QED
  BY <1>1, <1>2, <1>3, <1>4, <1>5, <1>6, <1>7, <1>8 DEF EngineNext

(* The invariant holds in every state: setup.ts holds one database, its    *)
(* queue ends in errors once it has crashed, sources have their files in   *)
(* it or get them from the recovery, no file is left over, and a retried   *)
(* tile is on its way (setup.ts, adapter.ts).                              *)
THEOREM EngineInductive == EngineSpec => []EngineInv
<1>1. EngineInit => EngineInv
  BY InitKept DEF EngineInv, Kept
<1>2. EngineInv /\ [EngineNext]_engineVars => EngineInv'
  <2> SUFFICES ASSUME EngineInv, [EngineNext]_engineVars PROVE EngineInv'
    OBVIOUS
  <2>1. CASE UNCHANGED engineVars
    BY <2>1 DEF EngineInv, engineVars
  <2>2. CASE EngineNext /\ abandoned
    BY <2>2, AbandonedStays DEF EngineInv
  <2>3. CASE EngineNext /\ ~ abandoned /\ ~ abandoned'
    BY <2>3, NextKeeps DEF EngineInv, Kept
  <2> QED
    BY <2>1, <2>2, <2>3 DEF EngineInv
<1> QED
  BY <1>1, <1>2, PTL DEF EngineSpec

(* When nothing is under way a working database has the file of every      *)
(* source, whatever crashed before, its connection is to it, and it has no *)
(* other file but of sources that were deleted during a recovery: nothing  *)
(* has been sent that could be on its way, and no recovery goes on         *)
(* (recoverAfterCrash, loadBuffer, deleteSource).                          *)
THEOREM EngineFilesAreTheSources == EngineSpec => []FilesAreTheSources
<1>1. EngineInv => FilesAreTheSources
  <2> SUFFICES ASSUME Kept, Quiet, Works(eng.dbInstance)
               PROVE  /\ registry \subseteq eng.dbs[eng.dbInstance].files
                      /\ eng.dbs[eng.dbInstance].files \subseteq registry \cup raced
                      /\ eng.connInstance # 0 => eng.conns[eng.connInstance].db = eng.dbInstance
    BY DEF EngineInv, FilesAreTheSources, Kept
  <2>1. EngineOK(eng) /\ CallsOK(eng, calls) /\ Registered(eng, calls, registry)
        /\ NothingElse(eng, calls, registry, raced)
    BY DEF Kept, AllKept
  <2>2. PICK d : d = eng.dbInstance
    OBVIOUS
  <2>3. d # 0 /\ d \in Dbs(eng) /\ StateOf(eng, d) = "ready" /\ d = DbOf(eng)
    BY <2>1, <2>2 DEF Works, EngineOK, Promises, StateOf, DbOf, Max0
  <2>4. \A n : n \notin Places(eng, d)
    BY <2>3 DEF Quiet, Places, Dbs
  <2>5. \A c \in Callers : calls[c].pc \in Ended
    BY DEF Quiet
  <2>6. registry \subseteq FilesOf(eng, d)
    <3>1. \A f \in registry : HasFile(eng, calls, f, d)
      BY <2>1, <2>3 DEF Registered
    <3> QED
      BY <2>4, <2>5, <3>1 DEF HasFile, WillRegister, DropSent, Ended
  <2>7. FilesOf(eng, d) \subseteq registry \cup raced
    <3>1. \A f \in FilesOf(eng, d) : f \in registry \cup raced \/ \E c \in Callers : LoadsFile(calls, c, f, d)
      BY <2>1, <2>3 DEF NothingElse
    <3> QED
      BY <2>5, <3>1 DEF LoadsFile, Ended
  <2>8. eng.connInstance # 0 => DbOfConn(eng, eng.connInstance) = d
    BY <2>1, <2>3 DEF EngineOK, Connections
  <2> QED
    BY <2>2, <2>6, <2>7, <2>8 DEF FilesOf, DbOfConn
<1> QED
  BY <1>1, EngineInductive, PTL

(* The tile that notices a crash fails only after a second crash, or       *)
(* without its source: it is on its way in the database that was started   *)
(* for it (fetchViewTile, recoverAfterCrash).                              *)
THEOREM EngineTilesSurviveACrash == EngineSpec => []TilesSurviveACrash
<1>1. EngineInv => TilesSurviveACrash
  <2> SUFFICES ASSUME Kept, NEW c \in Callers, calls[c].pc = "failed", calls[c].kind = "tile", calls[c].retried,
                      calls[c].file \in registry, ~ (crashes > 1)
               PROVE  FALSE
    BY DEF EngineInv, TilesSurviveACrash, Kept
  <2>1. crashes \in Nat
    BY KeptIsTyped DEF Kept
  <2>2. OnItsWay(eng, calls, c)
    BY <2>1 DEF Kept, AllKept, Survives, Retried
  <2> QED
    BY <2>2 DEF OnItsWay
<1> QED
  BY <1>1, EngineInductive, PTL

===============================================================================
