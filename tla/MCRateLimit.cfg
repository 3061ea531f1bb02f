\* Two threads and two keys, a bucket of one token and a half.
CONSTANTS
  t1 = t1
  t2 = t2
  a = a
  b = b
  Threads <- MCThreads
  Keys <- MCKeys
  NoKey = NoKey
  Capacity = 3
  One = 2
  Refilling = TRUE
  Second = 2
  PruneAfter = 2
  MaxLag = 2
  MaxClock = 6
  MaxRequests = 6

SPECIFICATION Spec
SYMMETRY MCSymmetry

INVARIANT WindowBound
INVARIANT RetryKept
