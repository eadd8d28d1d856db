SPECIFICATION FairSpec
CONSTANTS
  s1 = s1
  s2 = s2
  Senders <- MCSenders
  Kinds <- MCKinds
  MaxCmds = 2
  MaxUrcs = 2
  MaxOpens = 2
  MaxFaults = 1
  MaxEvents = 2
  None = None
CHECK_DEADLOCK FALSE
INVARIANTS PendingIsOwned LinesSorted
PROPERTIES CallsReturn ClosedReopens
