SPECIFICATION Spec
CONSTANTS
  d1 = d1
  d2 = d2
  d3 = d3
  here = here
  elsewhere = elsewhere
  q1 = q1
  q2 = q2
  u1 = u1
  u2 = u2
  r1 = r1
  r2 = r2
  r3 = r3
  c1 = c1
  c2 = c2
  t1 = t1
  t2 = t2
  e1 = e1
  g1 = g1
  g2 = g2
  wa = wa
  wb = wb
  wc = wc
  Documents <- ThreeDocuments
  Generations <- TwoGenerations
  Workspaces <- BothWorkspaces
  HomeOf <- OneForeign
  ChunkTokens <- Tokens
  Queries <- TwoQueries
  Qualifying <- Matches
  TopK = 2
  CallerWorkspace = here
  MaxSteps = 2
  RunTimeout = 4
  CallTime = 2
  MaxToolInput = 3
  MaxSummaryBatches = 2
  Comparisons <- Pairs
  Filters <- NoFilter
  AskerWorkspace = here
  Users <- TwoUsers
  Asks <- ThreeAsks
  MaxAsks = 2
  AskedBy <- TwoOfOne
  QueryOf <- AsksQuery
  AskFilters <- NoFilter
  Conversations <- TwoConversations
  NoOne = NoOne
  ContextMax = 2
  HistoryMax = 2
  Texts <- OneText
  ChunkSize = 4
  ChunkOverlap = 2
  HeadingTokens = 1
  Inside <- InsideCharacters
  BatchSize = 2
  Threads <- TwoThreads
  MaxRequests = 2
  Window = 4
  MaxDelay = 1
  Second = 2
  MaxTime = 7
  Emails <- OneEmail
  Registrations <- TwoRegistrations
  EmailOf <- SameEmail
  Free = Free
  Sites <- ThreeSites
  Administered <- BothAdministered
  Nowhere = Nowhere
  MaxSwitches = 4
  MaxLoads = 12
  MaxThreads = 3
  Parts = {"agent"}
  Changing <- OneDocument
INVARIANT CompletedWithinTimeout
CHECK_DEADLOCK FALSE
