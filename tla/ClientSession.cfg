SPECIFICATION Spec
CONSTANTS
  s1 = s1
  s2 = s2
  s3 = s3
  none = none
  filtered = filtered
  grouped = grouped
  Sources <- MCSources
  Registered <- MCRegistered
  Ops <- MCOps
  NoOps = none
  CountChanging = {filtered, grouped}
  SchemaAffecting = {grouped}
  Encodable = {none, filtered}
  Columns = {0}
  None = None
  MaxSteps = 4
  MaxUnderWay = 1
SYMMETRY SourceSymmetry
INVARIANTS
  FeedsAreOfTheView
  CodeIsOfTheView
  OneStatsRequest
  ReloadKeepsTheView
CHECK_DEADLOCK FALSE
