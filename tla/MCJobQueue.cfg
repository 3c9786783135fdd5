SPECIFICATION QueueSpec
CONSTANTS
  j1 = j1
  j2 = j2
  w1 = w1
  w2 = w2
  Jobs = {j1}
  Workers = {w1, w2}
  RingCap = 1
  BatchSize = 1
  Concurrency = 1
  MaxStops = 1
  MaxCrashes = 1
INVARIANTS Once ReportedBeforeExit
PROPERTIES Handled
CHECK_DEADLOCK FALSE
