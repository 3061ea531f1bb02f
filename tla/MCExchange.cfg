SPECIFICATION Spec
CONSTANTS
  Scenarios <- MCScenarios
  TableOf <- MCTableOf
  DiskOf <- MCDiskOf
  Params = {":"}
  Wildcards = {"*"}
  Subprotocols = {"p1", "p2"}
  GivenCookies <- MCGivenCookies
  CharOf <- MCCharOf
  Schemes = {"http://", "https://"}
  MaxHeaderBytes = 24
  MaxBodyBytes = 90
  MaxSizeLine = 1
  MaxTrailerLine = 2
  SizeMax = 1000
  MinSize = 2
CHECK_DEADLOCK FALSE
INVARIANT FragmentsDoNotMatter
 
INVARIANT Routed
 
 
 
 
