\* A pty of one byte, frames of one or two bytes, threads that overlap.
SPECIFICATION FairSpec
CONSTANTS
  CAP = 1
  MARK = 3
  MaxLen = 2
  t1 = t1
  t2 = t2
  Threads = {t1, t2}
  MaxFrames = 3
CHECK_DEADLOCK FALSE
INVARIANTS PtyStreamInOrder CacheSound
PROPERTIES FlowProgress
