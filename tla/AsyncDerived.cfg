CONSTANTS
  Transitions = {x1}
  NoTransition = NoTransition
  Loader = Loader
  Writers = {w1}
  Awaiters = {a1}
  Nobody = Nobody
  MaxSource = 1
  MaxWrites = 1
  MaxPauses = 1
SPECIFICATION FairSpec
INVARIANTS
  TypeOK
  LoaderSettled
  TransitionWaits
PROPERTIES
  AwaitersResolve
  BoundaryResolves
