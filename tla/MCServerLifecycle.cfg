\* Two threads besides the owner, two workers, and the server run twice.
CONSTANTS
  main = main
  t1 = t1
  t2 = t2
  Owner = main
  Others <- MCOthers
  N = 2
  MaxRuns = 2
  MaxStops = 2
  MaxConns = 1
  SignalStops = FALSE

SPECIFICATION FairSpec

INVARIANT TypeOK
INVARIANT RunningAgrees
INVARIANT ThreadsOutlived
PROPERTY WaitEnds
