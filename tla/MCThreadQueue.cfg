\* MSGPOOL_SIZE 0 and up to six messages: every branch of the pool runs.
SPECIFICATION FairSpec
CONSTANTS
  Data = {d1, d2, d3, d4, d5, d6}
  NULL = NULL
  Consumers = {c1, c2}
  Timed = {c2}
  MSGPOOL_SIZE = 0
  MaxSent = 6
  MaxNodes = 5
INVARIANTS BooksBalance NoLostWakeup NoFreeOfDelivered
PROPERTIES ImplementsFifo EveryMessageDelivered
