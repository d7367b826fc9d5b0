SPECIFICATION EngineSpec
CONSTANTS
  Callers = {c1, c2}
  Files = {f1, f2}
  MaxCalls = 6
  MaxCrashes = 2
  MaxFailures = 1
SYMMETRY Sym
INVARIANTS FilesAreTheSources 
CHECK_DEADLOCK FALSE
