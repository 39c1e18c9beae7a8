CONSTANTS
  s1 = s1
  s2 = s2
  m1 = m1
  m2 = m2
  m3 = m3
  e1 = e1
  e2 = e2
  Threads = {t1, t2}
  Signals = {s1, s2}
  Memos = {m1}
  Effects = {e1, e2}
  Reads <- EffectsAndMemoReads
  Gated = {e2}
  Coarse = {}
  Writes <- FirstWrites
  Nobody = Nobody
  NoValue = NoValue
  MaxWrites = 1
  MayHold = TRUE
  MayPause = FALSE
SPECIFICATION Spec
SYMMETRY ThreadSymmetry
CHECK_DEADLOCK FALSE
PROPERTIES
  GuardedValueIsStable
INVARIANTS
  EffectsSettled
