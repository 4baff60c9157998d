\* Both policies, a clean-up by hand, a save, one mishap of any kind.
SPECIFICATION FairSpec
CONSTANTS
  Manuals = {hand}
  Recorded = {hand}
  Settings <- MCSettings
  Slots <- MCSlots
  Policies = {"RunOnce", "Skip"}
  Mishaps = {"crash", "fault", "hangup"}
  MaxMishaps = 1
  MaxSaves = 1
  MaxClock = 3
  None = None

INVARIANTS NeverOverlaps SavedWins
PROPERTY DueRuns
CHECK_DEADLOCK FALSE
