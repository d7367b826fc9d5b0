SPECIFICATION Spec
CONSTANTS
  ka = ka
  kb = kb
  kc = kc
  s1 = s1
  s2 = s2
  Callers = {c1, c2}
  Cancellable = {c1, c2}
  Jobs = {j1}
  Keys = {ka, kb}
  Sources = {s1, s2}
  SourceOf <- MCSourceOf
  Built <- MCBuilt
  Full <- MCFull
  MaxMemoryBytes = 3
  MaxDiskBacked = 1
  Word = 64
  MaxCalls = 3
  MaxSeq = 2
  NoChan = NoChan
  Orphan = Orphan
  NoView = NoView
SYMMETRY CallerSymmetry
INVARIANTS
  DiskCountExact
  OwnView
  SingleFlight
  NoLostWakeup
PROPERTIES
  ExactNeverDowngraded
  
CHECK_DEADLOCK FALSE
