SPECIFICATION Spec
CONSTANTS
  Data = {d1, d2}
  Control = {c1}
  Len_ = 3
  N1 = 2
  Retries = 2
  MscLike = {d2}
  MaxCuts = 1
  None = None
CHECK_DEADLOCK FALSE
INVARIANTS WireSound ReportsTrue
PROPERTIES EveryCallReturns
