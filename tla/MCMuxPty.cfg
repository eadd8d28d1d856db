SPECIFICATION FairSpec
CONSTANTS
  MaxChunks = 3
  MaxMsc = 4
  MaxHangups = 2
CHECK_DEADLOCK FALSE
INVARIANTS NoMissedFcOn NotLeftChoked PortSound
PROPERTIES EveryChunkSent
