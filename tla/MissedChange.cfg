CONSTANTS
  s1 = s1
  s2 = s2
  m1 = m1
  m2 = m2
  m3 = m3
  e1 = e1
  e2 = e2
  Threads = {t1}
  Signals = {s1}
  Memos = {m1, m2}
  Effects = {e1}
  Reads <- MemoThenSource
  Gated = {}
  Coarse = {m2}
  Writes <- NoWrites
  Nobody = Nobody
  NoValue = NoValue
  MaxWrites = 2
  MayHold = FALSE
  MayPause = FALSE
SPECIFICATION Spec
INVARIANTS
  EffectsSettled
