SPECIFICATION Spec
CONSTANTS
  Threads = {t1, t2}
  Wake = 1
  Delays = {0}
  MaxTimers = 3
  Horizon = 4
  None = None
CHECK_DEADLOCK FALSE
INVARIANTS TimerListSound WakeHeld
PROPERTIES LoopServes
