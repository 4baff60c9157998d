SPECIFICATION Spec

CONSTANTS
  e1 = e1
  e2 = e2
  d1 = d1
  d2 = d2
  d3 = d3
  Recovery = Recovery
  Durability = Durability
  Nobody = Nobody
  NoEvent = NoEvent
  Events <- TwoEvents
  Deliveries <- ThreeDeliveries
  EventOf <- RetryAndOther
  Refusable <- SecondEvent
  MaxProcessing = 2
  MaxDigestAttempts = 2
  MaxWriteAttempts = 2
  MaxCheckpointAttempts = 2
  QuotaLimit = 1
  MaxWindow = 1
  MaxFaults = 1
  MaxCrashes = 1
  PowerFails = FALSE
  ChannelsVanish = TRUE

INVARIANTS
  ResourcesAccounted
  NothingAckedIsLost
  DigestedOnce
  QueueIsServed

PROPERTIES
  ImplementsAccepted
