SPECIFICATION LoadingSpec
CONSTANTS
    a = a
    b = b
    Views = {a, b}
    Zooms = {1, 2, 3}
    AggZooms = {2}
    CELL_H <- MCCellH
    TILE_ROWS <- MCTileRows
    NRows = 6
    Count <- MCCount
    Height = 2
    Tops = {0, 3, 8}
    JUMP_THRESHOLD_VIEWPORTS = 3
    TILE_STORE_MAX = 2
    CACHE_MAX = 1
    HISTORY_LEN = 2
    PREFETCH_CANDIDATES = 1
    MaxSteps = 2
    MaxTimers = 1
CONSTRAINT FewUnderWay
INVARIANTS CellsShowTheirRow 
CHECK_DEADLOCK FALSE
