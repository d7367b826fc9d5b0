SPECIFICATION FairSpec
CONSTANTS
  ka = ka
  kb = kb
  kc = kc
  s1 = s1
  s2 = s2
  Callers = {c1, c2}
  Cancellable = {}
  Jobs = {}
  Keys = {ka, kb, kc}
  Sources = {s1, s2}
  SourceOf <- MCSourceOf
  Built <- MCAny
  Full <- MCFull
  MaxMemoryBytes = 3
  MaxDiskBacked = 1
  Word = 64
  MaxCalls = 3
  MaxSeq = 0
  NoChan = NoChan
  Orphan = Orphan
  NoView = NoView
INVARIANTS
  BytesExact
  OvershootBounded
PROPERTIES EveryCallReturns
CHECK_DEADLOCK FALSE
