SPECIFICATION FairSpec
CONSTANTS
  r1 = r1
  r2 = r2
  s1 = s1
  s2 = s2
  plain = plain
  sorted = sorted
  Requests = {r1, r2}
  Sources = {s1, s2}
  Views = {plain, sorted}
  Slow = {sorted}
  Offsets = {0, 2}
  Heights = {2}
  Modes = {"raw"}
  NRows = 3
  MaxAsked = 2

  
  
PROPERTIES
  TileRequestsEnd
CHECK_DEADLOCK FALSE
