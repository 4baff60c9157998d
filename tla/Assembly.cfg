SPECIFICATION FairSpec
CONSTANTS
  j1 = j1
  j2 = j2
  x1 = x1
  x2 = x2
  c1 = c1
  c2 = c2
  c3 = c3
  d1 = d1
  Nobody = Nobody
  Jobs <- TwoJobs
  Chunks <- TwoChunks
  Content <- Nested
  Difs <- TwoJobs
  DebugOf <- SameDebugId
  Clients <- ThreeClients
  Uploaders <- OnlyC2
  JobOf <- TwiceJobOf
  ListOf <- MistakenListOf
  MaxRetries = 2
  MaxRows = 2
  MaxFaults = 1
  MaxCrashes = 1
  MaxAges = 1

INVARIANT ChunksKept
PROPERTIES
  LiveJobsStay
  JobsSettle
CHECK_DEADLOCK FALSE
