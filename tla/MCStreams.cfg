\* Two threads that each send a stream on one channel.
CONSTANTS
  t1 = t1
  t2 = t2
  c1 = c1
  c2 = c2
  a1 = a1
  a2 = a2
  r1 = r1
  s1 = s1
  None = None
  Threads = {t1, t2}
  Chans = {c1}
  RoomNames = {r1}
  Addrs = {a1, a2}
  Streams = {s1}
  WorkerOf <- MCWorkerOf
  Ops = {"stream"}
  MaxOps = 2
  MaxCalls = 2
  Pieces = 2

SPECIFICATION Spec
SYMMETRY MCSymmetry
CHECK_DEADLOCK FALSE

INVARIANT StreamsWhole
