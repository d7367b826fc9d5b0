SPECIFICATION Spec
CONSTANTS
    Zooms <- MCZooms
    DEFAULT_CELL_W = 1
    DEFAULT_CELL_H = 1
    ROW_HEADER_W = 1
    SCROLLBAR_SIZE = 1
    HEADER_H <- MCHeaders
    TILE_ROWS <- MCTileRows
    TILE_COLS <- MCTileCols
    MINIMAP_W = 2
    COLLAPSED_W = 1
    NAV_HISTORY_MAX = 2
    NCols = 2
    RowCounts = {2, 5}
    Sizes <- MCSizes
    Landmarks <- MCLandmarks
    Deltas <- MCDeltas
    Cursors <- MCCursors
    MaxBookmarks = 1
    MaxJumps = 1
CONSTRAINT FewPlaces
INVARIANTS PlacesInRange TilesCoverTheGrid
CHECK_DEADLOCK FALSE
