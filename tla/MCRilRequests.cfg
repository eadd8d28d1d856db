SPECIFICATION Spec
CONSTANTS
  Fds = {1, 2}
  Strangers = {2}
  MaxConns = 3
  MaxReqs = 2
  MaxUrcs = 1
  MaxOthers = 1
CHECK_DEADLOCK FALSE
INVARIANTS AnswersDelivered WholeRecords DescriptorsSound
PROPERTIES EveryoneServed
