\* Two threads, both kinds of stream, a socket that takes one frame at a time.
CONSTANTS
  t1 = t1
  t2 = t2
  w = w
  Threads <- MCThreads
  Worker = w
  Kinds = {"sse", "pulse"}
  Inbound = {"text", "ping", "close", "bad", "unknown"}
  MaxCalls = 2
  MaxInbound = 2
  MaxEvents = 2
  SndCap = 1

SPECIFICATION FairSpec

INVARIANT TypeOK
INVARIANT StreamIntact
INVARIANT NothingForgotten
INVARIANT NoSleepOnWork
INVARIANT OutputArmed
INVARIANT CloseHandlersOnce
INVARIANT CleanClose
PROPERTY StreamRefined
