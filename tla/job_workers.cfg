SPECIFICATION FairSpec
CONSTANTS
  Workers = {w1, w2}
  Jobs = {m1}
  Null = Null
  Attempts = 2
  MaxStalled = 1
  MaxAdds = 2
  MaxFaults = 2
INVARIANTS SentOnce DeadLetterLedger
PROPERTIES CleanExitIsQuiet JobsEnd
CHECK_DEADLOCK FALSE
