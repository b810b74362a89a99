SPECIFICATION FairSpec
CONSTANTS
  d1 = d1
  d2 = d2
  w1 = w1
  w2 = w2
  a1 = a1
  a2 = a2
  NoDoc = NoDoc
  Docs <- OneDoc
  Workers <- OneWorker
  ApiProcs <- OneApi
  MaxJobs = 1
  MaxRetries = 1
  Faults <- NoFaults
  MaxFaults = 0
  ExhaustionHandled = FALSE
PROPERTY ExhaustedJobSettles
CHECK_DEADLOCK FALSE
