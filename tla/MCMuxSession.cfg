\* One session with all its trouble: refusals, a modem that stops answering or
\* closes and opens channels or the session, hang-ups, wakeups without reason.
SPECIFICATION SilentModemSpec
CONSTANTS
  Ports = 2
  ATCI = 2
  use_ping = 1
  MaxSessions = 1
  MaxPeer = 2
  MaxHangups = 1
CHECK_DEADLOCK FALSE
INVARIANTS SetupGate Agreement UaNotMissed OrderlyClose
PROPERTIES SessionProgress
