SPECIFICATION Spec
CONSTANTS
  r1 = r1
  r2 = r2
  r3 = r3
  e1 = e1
  e2 = e2
  c1 = c1
  c2 = c2
  c3 = c3
  Worker = Worker
  Idle = Idle
  Backoff <- Doubling
  SendTime = 1
  Digests <- OneDigest
  EventOf <- OneEvent
  Channels <- ThreeChannels
  Lease = 2
  Cooldown = 0
  MaxAttempts = 2
  MaxMishaps = 0
  MaxEdits = 0

INVARIANT NeverDoubleSent
CHECK_DEADLOCK FALSE
