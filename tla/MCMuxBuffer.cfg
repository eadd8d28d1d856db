\* The smallest buffer allowed for payloads of one byte; at most one stray
\* byte before, between and after the frames.
SPECIFICATION FairSpec
CONSTANTS
  SIZE = 5
  N1 = 1
  MAX_RESYNC = 2
  MaxFrames = 2
  MaxNoise = 1
CHECK_DEADLOCK FALSE
INVARIANTS RingSound NoMutualSleep
PROPERTIES FramesInOrder ReceiveProgress
