SPECIFICATION FairSpec
CONSTANTS
  r1 = r1
  r2 = r2
  Requests = {r1, r2}
  Kinds <- AllKinds
  MaxAsked = 2
  MaxBuilds = 6
  MaxEvictions = 1
INVARIANTS
  
  NoOrphanedRuns

  
CHECK_DEADLOCK FALSE
