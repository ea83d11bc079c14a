SPECIFICATION Spec
CONSTANTS
  o1 = o1
  o2 = o2
  Objects = {o1, o2}
  Populations <- Pairs
  Keys = {k1}
  Tokens = {t1, t2}
  Handlers = {h1, h2}
  Lifetime = 1
  Limit = 1
  Window = 1
  None = None
  MaxTime = 1
  MaxRequests = 3
  MaxChanges = 1
  MaxFaults = 1
SYMMETRY Symmetry
INVARIANTS
  SealedTogether
  ActsOnSeen
  TrailIsComplete
PROPERTIES
  KeepsPromise
CHECK_DEADLOCK FALSE
