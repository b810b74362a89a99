SPECIFICATION Spec
CONSTANTS
  d1 = d1
  d2 = d2
  w1 = w1
  w2 = w2
  a1 = a1
  a2 = a2
  NoDoc = NoDoc
  Docs <- OneDoc
  Workers <- OneWorker
  ApiProcs <- OneApi
  MaxJobs = 1
  MaxRetries = 1
  Faults <- NodeFaults
  MaxFaults = 1
  ExhaustionHandled = FALSE
INVARIANT CompletedJobIsIndexed
CHECK_DEADLOCK FALSE
