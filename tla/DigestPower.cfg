SPECIFICATION FairSpec

CONSTANTS
  e1 = e1
  e2 = e2
  d1 = d1
  d2 = d2
  d3 = d3
  Recovery = Recovery
  Durability = Durability
  Nobody = Nobody
  NoEvent = NoEvent
  Events <- OneEvent
  Deliveries <- TwoDeliveries
  EventOf <- RetryOf
  Refusable <- Nothing
  MaxProcessing = 2
  MaxDigestAttempts = 2
  MaxWriteAttempts = 2
  MaxCheckpointAttempts = 2
  QuotaLimit = 3
  MaxWindow = 0
  MaxFaults = 2
  MaxCrashes = 1
  PowerFails = TRUE
  ChannelsVanish = FALSE

INVARIANTS
  DeletedOnlyWhenDurable
  AlertedBeforeDeleted

PROPERTIES
  FilesDrain
  ImplementsUnderPower
