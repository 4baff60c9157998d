SPECIFICATION FairSpec
CONSTANTS
  r1 = r1
  r2 = r2
  r3 = r3
  e1 = e1
  e2 = e2
  c1 = c1
  c2 = c2
  c3 = c3
  Worker = Worker
  Idle = Idle
  Backoff <- Doubling
  SendTime = 1
  Digests <- ThreeDigests
  EventOf <- TwiceAndOther
  Channels <- OneChannel
  Lease = 2
  Cooldown = 1
  MaxAttempts = 2
  MaxMishaps = 1
  MaxEdits = 1

INVARIANTS
  NeverDoubleSent
  SuppressedAfterNotice
PROPERTIES
  Settles

CHECK_DEADLOCK FALSE
