CONSTANTS
  Outer = outer
  Inner = {i1}
  Threads = {t1}
  Root = root
  Store = store
  MaxMarks = 1
  MaxCalls = 1
SPECIFICATION FairSpec
CHECK_DEADLOCK FALSE
INVARIANTS TypeOK NoLostWakeup CleanedBeforeRun NoRunAfterDisposal
PROPERTIES InnerCleanedFirst MarkedRuns DisposalReachesAll
