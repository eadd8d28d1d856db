SPECIFICATION Spec
CONSTANTS
  CAP = 2
  MARK = 3
  MaxLen = 2
  t1 = t1
  t2 = t2
  Threads = {t1, t2}
  MaxFrames = 3
CHECK_DEADLOCK FALSE
INVARIANT CachedFramesIntact
