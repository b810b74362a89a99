SPECIFICATION Spec
CONSTANTS
  d1 = d1
  d2 = d2
  w1 = w1
  w2 = w2
  a1 = a1
  a2 = a2
  NoDoc = NoDoc
  Docs <- OneDoc
  Workers <- TwoWorkers
  ApiProcs <- OneApi
  MaxJobs = 2
  MaxRetries = 1
  Faults <- NoFaults
  MaxFaults = 0
  ExhaustionHandled = FALSE
PROPERTY StatusFollowsMachine
CHECK_DEADLOCK FALSE
