CONSTANTS
  t1 = t1
  t2 = t2
  Threads = {t1, t2}
  Signals = {s1}
  NoThread = NoThread
  MaxOps <- FourAndOne
  MaxApplied = 2
  MayPanic = FALSE
  MayExit = FALSE
SPECIFICATION Spec
INVARIANTS
  TypeOK
  TurnDiscipline
  UpdateOverCommitted
  NeverWaitsForItself
  PendingHasFlusher
  ChangesAreMarked
PROPERTIES
  CommitsInThreadOrder
