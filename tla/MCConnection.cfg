\* Two requests of every kind, pipelined or not, with and without TLS.
CONSTANTS
  Kinds = {"plain", "split", "post", "expect", "close", "file", "gone", "badpath", "bad", "upgrade"}
  PipelineAfter = {"plain", "split", "post", "expect", "close", "badpath", "bad"}
  MaxRequests = 2
  FileLen = 2
  SndCap = 1
  Tls = {TRUE, FALSE}
  HsFlights = 1
  HsWants = {"write"}

SPECIFICATION FairSpec

INVARIANT TypeOK
INVARIANT WaitsRight
INVARIANT WireInOrder
INVARIANT NothingLeftBehind
PROPERTY Answered
 
