\* Three writers of a pending event, with a failure, a kill and a loss of power;
\* two collections of source files beside the worker, with a failure and a crash.
SPECIFICATION Stores

CONSTANTS
  w1 = w1
  w2 = w2
  w3 = w3
  Missing = Missing
  Malformed = Malformed
  Writers <- ThreeWriters
  Found <- EitherFound
  MaxFaults = 1
  MaxCrashes = 1
  PowerFails = TRUE
  n1 = n1
  n2 = n2
  c1 = c1
  c2 = c2
  Names = {n1, n2}
  Contents = {c1, c2}
  Jobs <- MCJobs
  Files <- MCFiles
  Collectors = {sweep, asked}
  Requested = {asked}
  MayCrash = TRUE
  MaxFails = 1
  None = None

SYMMETRY Interchangeable

INVARIANTS
  AckedIsComplete
  PublishedIsDurable
  NeverNeither
  NoStrayFile

PROPERTIES
  FirstLinkWins
  CollectionsKeepNames

\* Every writer ends; nothing else is left to do.
CHECK_DEADLOCK FALSE
