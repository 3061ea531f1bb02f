\* The only thread waits for the server, and a signal handler stops it.  The
\* program then stands still, which WaitEnds is to report.
CONSTANTS
  main = main
  t1 = t1
  t2 = t2
  Owner = main
  Others <- MCNobody
  N = 2
  MaxRuns = 2
  MaxStops = 2
  MaxConns = 1
  SignalStops = TRUE

SPECIFICATION FairSpec

PROPERTY WaitEnds
CHECK_DEADLOCK FALSE
