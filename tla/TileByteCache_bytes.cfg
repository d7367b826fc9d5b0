SPECIFICATION Spec
CONSTANTS
  t1 = t1
  t2 = t2
  ka = ka
  kb = kb
  kc = kc
  Threads = {t1, t2}
  Keys = {ka, kb, kc}
  Sizes = {1, 2}
  MaxBytes = 2
  Word = 16
  MaxFreq = 2
  MaxSets = 3
SYMMETRY ThreadKeySymmetry
INVARIANTS
  NeverUndercounts
CHECK_DEADLOCK FALSE
PROPERTIES
  ImplementsLossyMap
