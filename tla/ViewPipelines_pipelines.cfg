SPECIFICATION Spec
CONSTANTS
  Null = Null
  Error = Error
  SampleOf <- LastFirst
  NameOrder <- Alphabet
  TopKThreshold = 3
  Chunk = 2
  Fanout = 2
  Sources <- AllSources
  Ops <- AllOps
  MaxOps = 3
  Windows <- WholeAndCorner
  IndexPredicates <- IndexAsked
  Bins = 3
  Samples <- AllSamples
  Heights <- PanelHeights
  CellSizes <- Sizes
  Skews <- Tenths
INVARIANTS   OptimizerKeepsMeaning BrowserShowsTheView
  IndexFindsTheRows
  PicturesKeepOrder RowGroupsFillTheirPixels 
CHECK_DEADLOCK FALSE
