SPECIFICATION Spec
CONSTANTS
  Clients = {c1, c2}
  Kinds = {"vibrate", "stop"}
  Forces = {32, 64}
  Default = 32
  None = None
  MAXEVENTS = 2
  MaxInputs = 3
CHECK_DEADLOCK FALSE
INVARIANTS RequestsKept ForceKept
PROPERTIES ClientsServed
