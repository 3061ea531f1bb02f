\* A request that arrives while the file of the one before it is being sent.
CONSTANTS
  Kinds = {"plain", "file"}
  PipelineAfter = {"plain", "file"}
  MaxRequests = 2
  FileLen = 2
  SndCap = 1
  Tls = {FALSE}
  HsFlights = 1
  HsWants = {}

SPECIFICATION Spec

INVARIANT WireInOrder
