CONSTANTS
  t1 = t1
  t2 = t2
  Threads = {t1, t2}
  Signals = {s1}
  NoThread = NoThread
  MaxOps <- Two
  MaxApplied = 2
  MayPanic = TRUE
  MayExit = TRUE
SPECIFICATION FairSpec
INVARIANT TurnDiscipline
PROPERTIES
  RegisterSpec
  PendingIsApplied
  NobodyWaitsForever
