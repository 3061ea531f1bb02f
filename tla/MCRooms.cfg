\* Two threads with three calls in all, on two channels of one worker and one room,
\* where a broadcast to every room stands for one to the room too.
CONSTANTS
  t1 = t1
  t2 = t2
  c1 = c1
  c2 = c2
  a1 = a1
  a2 = a2
  r1 = r1
  s1 = s1
  s2 = s2
  None = None
  Threads = {t1, t2}
  Chans = {c1, c2}
  RoomNames = {r1}
  Addrs = {a1, a2}
  Streams = {s1, s2}
  WorkerOf <- MCWorkerOf
  Ops = {"join", "leave", "leaveAll", "prune", "broadcastAll", "mediaJoin", "mediaLeave", "mediaSend", "send", "stream", "release"}
  MaxOps = 3
  MaxCalls = 2
  Pieces = 3

SPECIFICATION Spec
SYMMETRY MCSymmetry
CHECK_DEADLOCK FALSE

INVARIANT TypeOK
INVARIANT TablesTrue
INVARIANT FramesInOrder
