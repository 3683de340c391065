SPECIFICATION FairSpec
CONSTANTS
  Rows = {o1}
  Relays = {w1, w2}
  Null = Null
  Batch = 2
  MaxAttempts = 3
  MaxFaults = 2
INVARIANTS TypeOK OneDeadLetter NotGivenUpEarly
PROPERTIES ImplementsIntent IntentsResolved
CHECK_DEADLOCK FALSE
