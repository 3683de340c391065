SPECIFICATION Spec
CONSTANTS
  Schedulers = {s1, s2}
  Workers = {w1, w2}
  Day = 2
  Units = {"hour", "day"}
  Loads <- MCLoads
  Retention = 1
  Attempts = 2
  MaxBatches = 2
  MaxHour = 3
  MaxTicks = 2
  MaxFaults = 1
  Null = Null
SYMMETRY Symmetry
INVARIANTS OncePerSlot TicksDistinct
PROPERTIES CompletedIsClean
CHECK_DEADLOCK FALSE
