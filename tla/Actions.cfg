CONSTANTS
  Dispatches = {d1, d2}
  Submissions = {u1}
  Nothing = Nothing
  MaxFlight = 2
  MaxVersion = 1
SPECIFICATION FairSpec
INVARIANTS
  InputIsCurrent
  SettledShowsResult
PROPERTIES
  AbortedEnds
