----------------------------- MODULE Navigation -----------------------------
(***************************************************************************)
(* Where the grid of the web client is scrolled to, and everything that    *)
(* moves it: the wheel and the scroll bar, the keyboard with its history   *)
(* of places, the minimap, the panels of landmarks and bookmarks, the      *)
(* dialog for a row number, zooming and resizing.  A far jump is animated  *)
(* by frames that write the position again and again; each component that  *)
(* jumps has an animation of its own, and any command may come between two *)
(* frames.                                                                 *)
(*                                                                         *)
(* Lengths are small integers instead of pixels and a zoom is an integer   *)
(* factor; a division of positions is rounded down, where the code keeps   *)
(* fractions.  A name with _Slip is that definition with a slip in it.     *)
(***************************************************************************)
EXTENDS Integers, Sequences, FiniteSetsExt

CONSTANTS
    Zooms,              \* the zoom levels, an interval of positive integers
    DEFAULT_CELL_W, DEFAULT_CELL_H, ROW_HEADER_W, SCROLLBAR_SIZE,
    HEADER_H,           \* [Zooms -> Nat]: the height of the column header
    TILE_ROWS, TILE_COLS, \* [Zooms -> positive integers]
    MINIMAP_W, COLLAPSED_W, \* the width of the minimap, shown and hidden
    NAV_HISTORY_MAX,
    NCols,              \* the columns of every table
    RowCounts,          \* the row counts a table or a view may have
    Sizes,              \* the sizes [w, h] the window may have
    Landmarks,          \* row offsets, the most severe first
    Deltas,             \* what a turn of the wheel adds
    Cursors,            \* positions of the pointer in the grid
    MaxBookmarks,
    MaxJumps            \* a bound on the jumps under way at a time

ASSUME ZoomsAssumption ==
    /\ Zooms \subseteq Nat \ {0} /\ IsFiniteSet(Zooms)
    /\ 1 \in Zooms
    /\ TILE_ROWS \in [Zooms -> Nat \ {0}] /\ TILE_COLS \in [Zooms -> Nat \ {0}]
    /\ HEADER_H \in [Zooms -> Nat]
ASSUME LengthsAssumption ==
    /\ DEFAULT_CELL_W \in Nat \ {0} /\ DEFAULT_CELL_H \in Nat \ {0}
    /\ {ROW_HEADER_W, SCROLLBAR_SIZE, MINIMAP_W, COLLAPSED_W} \subseteq Nat
    /\ NAV_HISTORY_MAX \in Nat \ {0} /\ NCols \in Nat /\ RowCounts \subseteq Nat
    /\ Sizes \subseteq [w : Nat, h : Nat]
    /\ Landmarks \in Seq(Nat) /\ Deltas \subseteq Int
    /\ MaxBookmarks \in Nat /\ MaxJumps \in Nat
    /\ Cursors \subseteq [x : Int, y : Int]

NoCount == -1
NoJump == [from |-> <<>>, to |-> <<>>]
Jumpers == {"minimap", "landmarks", "bookmarks"}
Positions == [x : Nat, y : Nat]

VARIABLES
    nRows,          \* source.n_rows
    count,          \* virtualRowCount, or NoCount
    size,           \* viewport.width and viewport.height
    pos,            \* viewport.scrollX and viewport.scrollY
    zoom, minimapVisible,
    navHistory, navHistoryIdx,      \* from -1, as in the code
    bookmarks,
    dragging,       \* the pointer is down on the minimap
    anim            \* anim[c]: the jump that component c animates

vars == <<nRows, count, size, pos, zoom, minimapVisible, navHistory,
          navHistoryIdx, bookmarks, dragging, anim>>
historyVars == <<navHistory, navHistoryIdx>>
tableVars == <<nRows, count>>
panelVars == <<size, minimapVisible, bookmarks, dragging>>

MinOf(a, b) == IF a <= b THEN a ELSE b
MaxOf(a, b) == IF a >= b THEN a ELSE b
Abs(a) == MaxOf(a, -a)
Ceil(a, b) == (a + b - 1) \div b

-----------------------------------------------------------------------------
(* Geometry. *)

CellW(z) == DEFAULT_CELL_W * z
CellH(z) == DEFAULT_CELL_H * z
EffectiveRowCount == IF count # NoCount THEN count ELSE nRows

scrollBounds(n, z, vw, vh) ==
    [x |-> MaxOf(0, NCols * CellW(z) - vw), y |-> MaxOf(0, n * CellH(z) - vh)]

\* The part of a window of this size that the grid fills.
GridW(s) == MaxOf(0, s.w - ROW_HEADER_W - (IF minimapVisible THEN MINIMAP_W ELSE COLLAPSED_W))
GridH(s) == MaxOf(0, s.h - HEADER_H[zoom] - SCROLLBAR_SIZE)

GridBounds(s) == scrollBounds(EffectiveRowCount, zoom, GridW(s), GridH(s))

\* Bounds that take the whole window for the grid, as the keyboard, the
\* minimap and the zoom do.
WindowBounds(n, z) == scrollBounds(n, z, size.w, size.h)

Clamp(p, bounds) == [x |-> MaxOf(0, MinOf(bounds.x, p.x)), y |-> MaxOf(0, MinOf(bounds.y, p.y))]
Distance(p, q) == Abs(p.x - q.x) + Abs(p.y - q.y)

cellAtPixel(px, py) ==
    [row |-> MaxOf(0, (py + pos.y) \div CellH(zoom)),
     col |-> MaxOf(0, (px + pos.x) \div CellW(zoom))]

\* The tile that getCellValue and renderCells look in for a cell.
TileOf(cell) == <<cell.row \div TILE_ROWS[zoom], cell.col \div TILE_COLS[zoom]>>

visibleTiles_Slip(prefetch) ==
    LET tw == CellW(zoom) * TILE_COLS[zoom]
        th == CellH(zoom) * TILE_ROWS[zoom]
    IN (MaxOf(0, pos.y \div th - prefetch) .. (pos.y + size.h) \div th + prefetch - 1)
       \X (MaxOf(0, pos.x \div tw - prefetch) .. Ceil(pos.x + size.w, tw) + prefetch - 1)
visibleTiles(prefetch) ==
    LET tw == CellW(zoom) * TILE_COLS[zoom]
        th == CellH(zoom) * TILE_ROWS[zoom]
    IN (MaxOf(0, pos.y \div th - prefetch) .. Ceil(pos.y + size.h, th) + prefetch - 1)
       \X (MaxOf(0, pos.x \div tw - prefetch) .. Ceil(pos.x + size.w, tw) + prefetch - 1)

\* The cells renderCells paints.
DrawnCells ==
    [row : pos.y \div CellH(zoom) ..
           MinOf(EffectiveRowCount, Ceil(pos.y + GridH(size), CellH(zoom)) + 1) - 1,
     col : pos.x \div CellW(zoom) ..
           MinOf(NCols, Ceil(pos.x + GridW(size), CellW(zoom)) + 1) - 1]

-----------------------------------------------------------------------------
(* Moving. *)

Init ==
    /\ nRows \in RowCounts /\ count = NoCount
    /\ size \in Sizes /\ pos = [x |-> 0, y |-> 0]
    /\ zoom = 1 /\ minimapVisible = TRUE
    /\ navHistory = <<>> /\ navHistoryIdx = -1
    /\ bookmarks = <<>> /\ dragging = FALSE
    /\ anim = [c \in Jumpers |-> NoJump]

LastOf(s, n) == SubSeq(s, MaxOf(1, Len(s) - n + 1), Len(s))

pushNavHistory_Slip(p) ==
    /\ navHistory' = LastOf(Append(SubSeq(navHistory, 1, navHistoryIdx + 1), p), NAV_HISTORY_MAX)
    /\ navHistoryIdx' = navHistoryIdx + 1
pushNavHistory(p) ==
    /\ navHistory' = LastOf(Append(SubSeq(navHistory, 1, navHistoryIdx + 1), p), NAV_HISTORY_MAX)
    /\ navHistoryIdx' = Len(navHistory') - 1

\* A place is remembered when it is left for one more than two windows away.
navigateTo(p, push) ==
    LET to == Clamp(p, GridBounds(size))
    IN /\ pos' = to
       /\ IF push /\ Distance(to, pos) > 2 * size.h THEN pushNavHistory(pos)
                                                     ELSE UNCHANGED historyVars

\* A near target is reached at once.  For a far one the position is first
\* brought within its bounds, then the frames go from where it was.  What
\* the component animated before is cancelled.
teleportTo(c, p) ==
    IF Distance(p, pos) < 2 * size.h
    THEN navigateTo(p, TRUE) /\ anim' = [anim EXCEPT ![c] = NoJump]
    ELSE /\ Cardinality({d \in Jumpers \ {c} : anim[d] # NoJump}) < MaxJumps
         /\ navigateTo(pos, TRUE)
         /\ anim' = [anim EXCEPT ![c] = [from |-> pos, to |-> p]]

Move(p, push) ==
    /\ navigateTo(p, push)
    /\ UNCHANGED <<tableVars, panelVars, zoom, anim>>

\* A frame writes a place on the way; the last one writes the target, whatever
\* the bounds and the zoom have become.  The clock a frame is given is taken to
\* be no earlier than the start of the jump.
OnTheWay(jump, quarters) ==
    [x |-> jump.from.x + ((jump.to.x - jump.from.x) * quarters) \div 4,
     y |-> jump.from.y + ((jump.to.y - jump.from.y) * quarters) \div 4]
FrameOnTheWay(c) ==
    /\ anim[c] # NoJump
    /\ \E quarters \in {0, 3} : pos' = OnTheWay(anim[c], quarters)
    /\ UNCHANGED <<tableVars, panelVars, historyVars, zoom, anim>>
LastFrame(c) ==
    /\ anim[c] # NoJump
    /\ pos' = anim[c].to
    /\ anim' = [anim EXCEPT ![c] = NoJump]
    /\ UNCHANGED <<tableVars, panelVars, historyVars, zoom>>

-----------------------------------------------------------------------------
(* The wheel and the scroll bar. *)

WheelGrid(dx, dy) ==
    Move(Clamp([x |-> pos.x + dx, y |-> pos.y + dy], GridBounds(size)), FALSE)

WheelMinimap(dx, dy) ==
    /\ minimapVisible
    /\ Move([x |-> MaxOf(0, pos.x + dx), y |-> MaxOf(0, pos.y + dy)], FALSE)

ViewportCols == Ceil(GridW(size), CellW(zoom))

\* The arrows move three columns, the track and the thumb to any column.  The
\* right arrow has no lower bound: when all columns fit it may ask for less
\* than nothing.
ScrollBar ==
    LET col == pos.x \div CellW(zoom)
        last == NCols - ViewportCols
        To(c) == Move([x |-> c * CellW(zoom), y |-> pos.y], FALSE)
    IN \/ To(MaxOf(0, col - 3))
       \/ To(MinOf(last, col + 3))
       \/ \E c \in 0 .. NCols : To(MaxOf(0, MinOf(last, c)))

-----------------------------------------------------------------------------
(* The keyboard, whose bounds are those of the whole window and of the table *)
(* without its view.                                                         *)

KeyBounds == WindowBounds(nRows, zoom)

KeyRight(cells) == Move([x |-> MinOf(KeyBounds.x, pos.x + cells * CellW(zoom)), y |-> pos.y], FALSE)
KeyLeft(cells) == Move([x |-> MaxOf(0, pos.x - cells * CellW(zoom)), y |-> pos.y], FALSE)
KeyDown == Move([x |-> pos.x, y |-> MinOf(KeyBounds.y, pos.y + CellH(zoom))], FALSE)
KeyUp == Move([x |-> pos.x, y |-> MaxOf(0, pos.y - CellH(zoom))], FALSE)

\* The first landmark of the list that lies below, or the last that lies above.
KeyLandmark ==
    LET below == {i \in DOMAIN Landmarks : Landmarks[i] * CellH(zoom) > pos.y + CellH(zoom)}
        above == {i \in DOMAIN Landmarks : Landmarks[i] * CellH(zoom) < pos.y - CellH(zoom)}
        To(i) == Move([x |-> pos.x, y |-> Landmarks[i] * CellH(zoom)], TRUE)
    IN \/ \E i \in below : (\A j \in below : i <= j) /\ To(i)
       \/ \E i \in above : (\A j \in above : i >= j) /\ To(i)

KeyHome ==
    \/ Move([x |-> 0, y |-> 0], TRUE)
    \/ Move([x |-> 0, y |-> pos.y], FALSE)
KeyEnd ==
    \/ Move(KeyBounds, TRUE)
    \/ Move([x |-> KeyBounds.x, y |-> pos.y], FALSE)

KeyPage ==
    \E pages \in {1, 10} :
        \/ Move([x |-> pos.x, y |-> MinOf(KeyBounds.y, pos.y + pages * size.h)], pages = 10)
        \/ Move([x |-> pos.x, y |-> MaxOf(0, pos.y - pages * size.h)], pages = 10)

HistoryStep(idx) ==
    /\ navHistoryIdx' = idx
    /\ pos' = Clamp(navHistory[idx + 1], GridBounds(size))
    /\ UNCHANGED <<tableVars, panelVars, zoom, anim, navHistory>>

navHistoryBack == navHistoryIdx > 0 /\ HistoryStep(navHistoryIdx - 1)
navHistoryForward == navHistoryIdx < Len(navHistory) - 1 /\ HistoryStep(navHistoryIdx + 1)

KeyAddBookmark ==
    /\ Len(bookmarks) < MaxBookmarks
    /\ bookmarks' = Append(bookmarks, pos)
    /\ UNCHANGED <<tableVars, size, pos, minimapVisible, dragging, historyVars, zoom, anim>>

KeyBookmark == \E i \in DOMAIN bookmarks : Move(bookmarks[i], TRUE)

-----------------------------------------------------------------------------
(* The minimap, the panels and the dialog for a row number. *)

\* A point of the minimap, given as a fraction of its height.
toScrollY(tenths) ==
    LET m == WindowBounds(EffectiveRowCount, zoom).y IN MaxOf(0, MinOf(m, (tenths * m) \div 10))

MinimapDown(tenths) ==
    /\ minimapVisible
    /\ teleportTo("minimap", [x |-> pos.x, y |-> toScrollY(tenths)])
    /\ dragging' = TRUE
    /\ UNCHANGED <<tableVars, size, minimapVisible, bookmarks, zoom>>

MinimapBookmark(tenths) ==
    /\ minimapVisible /\ Len(bookmarks) < MaxBookmarks
    /\ bookmarks' = Append(bookmarks, [x |-> pos.x, y |-> toScrollY(tenths)])
    /\ UNCHANGED <<tableVars, size, pos, minimapVisible, dragging, historyVars, zoom, anim>>

MinimapDrag(tenths) == dragging /\ Move([x |-> pos.x, y |-> toScrollY(tenths)], FALSE)

MinimapUp ==
    /\ dragging
    /\ dragging' = FALSE
    /\ UNCHANGED <<tableVars, size, pos, minimapVisible, bookmarks, historyVars, zoom, anim>>

ShowMinimap ==
    /\ ~minimapVisible
    /\ minimapVisible' = TRUE
    /\ UNCHANGED <<tableVars, size, pos, bookmarks, dragging, historyVars, zoom, anim>>

\* Hiding the minimap removes its canvas and with it the pointer it held.
HideMinimap ==
    /\ minimapVisible
    /\ minimapVisible' = FALSE /\ dragging' = FALSE
    /\ UNCHANGED <<tableVars, size, pos, bookmarks, historyVars, zoom, anim>>

PanelLandmark ==
    /\ \E i \in DOMAIN Landmarks :
          teleportTo("landmarks", [x |-> 0, y |-> Landmarks[i] * CellH(zoom)])
    /\ UNCHANGED <<tableVars, panelVars, zoom>>
PanelBookmark ==
    /\ \E i \in DOMAIN bookmarks : teleportTo("bookmarks", bookmarks[i])
    /\ UNCHANGED <<tableVars, panelVars, zoom>>

RemoveBookmark ==
    /\ \E i \in DOMAIN bookmarks :
          bookmarks' = SubSeq(bookmarks, 1, i - 1) \o SubSeq(bookmarks, i + 1, Len(bookmarks))
    /\ UNCHANGED <<tableVars, size, pos, minimapVisible, dragging, historyVars, zoom, anim>>

\* Neither the zoom nor the bounds have a part in these two.
JumpToRow(row) ==
    /\ row >= 1
    /\ pos' = [pos EXCEPT !.y = (row - 1) * DEFAULT_CELL_H]
    /\ UNCHANGED <<tableVars, panelVars, historyVars, zoom, anim>>
JumpToColumn(col) ==
    /\ pos' = [pos EXCEPT !.x = col * CellW(zoom)]
    /\ UNCHANGED <<tableVars, panelVars, historyVars, zoom, anim>>

-----------------------------------------------------------------------------
(* Zooming and resizing. *)

\* The point under the cursor stays where it is, unless a bound is in the way.
applyZoom(z, cursor) ==
    /\ z # zoom
    /\ zoom' = z
    /\ pos' = Clamp([x |-> ((cursor.x + pos.x) * z) \div zoom - cursor.x,
                     y |-> ((cursor.y + pos.y) * z) \div zoom - cursor.y],
                    WindowBounds(EffectiveRowCount, z))
    /\ UNCHANGED <<tableVars, panelVars, historyVars, anim>>

Corner == [x |-> 0, y |-> 0]
ZoomIn == zoom + 1 \in Zooms /\ applyZoom(zoom + 1, Corner)
ZoomOut == zoom - 1 \in Zooms /\ applyZoom(zoom - 1, Corner)
ResetZoom == applyZoom(1, Corner)
WheelZoom == \E z \in Zooms, cursor \in Cursors : applyZoom(z, cursor)

Resize(s) ==
    /\ s # size
    /\ size' = s
    /\ pos' = [x |-> MinOf(pos.x, GridBounds(s).x), y |-> MinOf(pos.y, GridBounds(s).y)]
    /\ UNCHANGED <<tableVars, minimapVisible, bookmarks, dragging, historyVars, zoom, anim>>

\* Another table, or an answer with the row count of the view: the position
\* stays as it is.
SetSource(n) ==
    /\ nRows' = n /\ count' = NoCount
    /\ UNCHANGED <<panelVars, pos, historyVars, zoom, anim>>
SetCount(c) ==
    /\ count' = c
    /\ UNCHANGED <<panelVars, pos, nRows, historyVars, zoom, anim>>

-----------------------------------------------------------------------------
Keys ==
    \/ \E cells \in {1, 10} : KeyRight(cells) \/ KeyLeft(cells)
    \/ KeyDown \/ KeyUp \/ KeyLandmark \/ KeyHome \/ KeyEnd \/ KeyPage
    \/ navHistoryBack \/ navHistoryForward \/ KeyAddBookmark \/ KeyBookmark

Pointer ==
    \/ \E dx, dy \in Deltas : WheelGrid(dx, dy) \/ WheelMinimap(dx, dy)
    \/ ScrollBar
    \/ \E tenths \in {0, 5, 10} : MinimapDown(tenths) \/ MinimapBookmark(tenths) \/ MinimapDrag(tenths)
    \/ MinimapUp

Panels ==
    \/ ShowMinimap \/ HideMinimap \/ PanelLandmark \/ PanelBookmark \/ RemoveBookmark
    \/ \E row \in 1 .. nRows : JumpToRow(row)
    \/ \E col \in 0 .. NCols - 1 : JumpToColumn(col)

Changes ==
    \/ ZoomIn \/ ZoomOut \/ ResetZoom \/ WheelZoom
    \/ \E s \in Sizes : Resize(s)
    \/ \E n \in RowCounts : SetSource(n) \/ SetCount(n)

Next ==
    \/ Keys \/ Pointer \/ Panels \/ Changes
    \/ \E c \in Jumpers : FrameOnTheWay(c) \/ LastFrame(c)

Spec == Init /\ [][Next]_vars

-----------------------------------------------------------------------------
(* Properties. *)

\* The places that the history, the bookmarks and the jumps keep are never
\* before the first cell, whatever bounds they were computed from.
TypeOK ==
    /\ nRows \in RowCounts /\ count \in RowCounts \cup {NoCount}
    /\ size \in Sizes /\ pos \in [x : Int, y : Int]
    /\ zoom \in Zooms /\ minimapVisible \in BOOLEAN /\ dragging \in BOOLEAN
    /\ navHistory \in Seq(Positions) /\ navHistoryIdx \in Int
    /\ bookmarks \in Seq(Positions)
    /\ anim \in [Jumpers -> [from : Positions, to : Positions] \cup {NoJump}]

\* The place of the history that Back and Forward start from is one of those
\* kept, whatever was cut off at its front or at its end.
HistoryInRange ==
    /\ Len(navHistory) <= NAV_HISTORY_MAX
    /\ navHistoryIdx \in -1 .. Len(navHistory) - 1
    /\ navHistoryIdx = -1 => navHistory = <<>>

\* The grid is never scrolled to before its first row or column, where it would
\* ask for tiles and cells with negative numbers: not by a command computed
\* from bounds that another window, zoom, view or table had, and not by a
\* frame of a jump that began before one of those changes.
NeverBeforeTheFirstCell == pos \in Positions

\* The places that the client keeps: both of the above.
PlacesInRange == HistoryInRange /\ NeverBeforeTheFirstCell

\* Every pixel of the grid that shows a cell of the table is painted by
\* renderCells, and the tile it is painted from is one that useTiles asks for,
\* at every place and zoom that the commands can reach.
PixelsOf(s) == (0 .. GridW(s) - 1) \X (0 .. GridH(s) - 1)
TilesCoverTheGrid ==
    \A p \in PixelsOf(size) :
        LET cell == cellAtPixel(p[1], p[2])
        IN cell.row < EffectiveRowCount /\ cell.col < NCols =>
              cell \in DrawnCells /\ TileOf(cell) \in visibleTiles(0)

=============================================================================
