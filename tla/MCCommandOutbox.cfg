SPECIFICATION Spec
CONSTANTS
  c1 = c1
  c2 = c2
  a1 = a1
  a2 = a2
  a3 = a3
  e1 = e1
  e2 = e2
  Command = {c1, c2}
  Attempt = {a1, a2, a3}
  CommandOf <- MCCommandOf
  Worker = {w1, w2}
  Event = {e1, e2}
  OwnerOf <- MCOwnerOf
  Consumers = 2
  BatchSize = 2
  MaxCrashes = 1
INVARIANTS
  RepeatsNeedACrash
PROPERTIES
  KeepsThePromise
  EveryWriteIsAnnounced
  EverySendingIsAnswered
CHECK_DEADLOCK FALSE
