\* Three requests, two of which may overlap on one session.
CONSTANTS
  r1 = r1
  r2 = r2
  r3 = r3
  user = user
  cart = cart
  Reqs <- MCReqs
  Ids <- MCIds
  Keys <- MCKeys
  User = user
  Confs <- MCConfs
  NoCred = NoCred
  BadCred = BadCred
  TTL = 2
  PruneAt = 2
  MaxOps = 2
  MaxClock = 3

SPECIFICATION Spec
SYMMETRY MCSymmetry
CHECK_DEADLOCK FALSE

INVARIANT TypeOK
 
INVARIANT NoFixation
