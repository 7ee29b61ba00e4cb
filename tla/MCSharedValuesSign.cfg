SPECIFICATION ValuesSpec
CONSTANTS
  t1 = t1  t2 = t2  o1 = o1
  Interpreters = {t1, t2}
  Referents = {o1}
  Small = 3
  CoefNames = {"real"}
  Weighted = {2}
  Unsupported = {3}
  Rings <- RingSet
  Storable <- NumberSet
  Scopes <- ScopeOf
  MaxRefs = 3
INVARIANT ExactCopy
CHECK_DEADLOCK FALSE
