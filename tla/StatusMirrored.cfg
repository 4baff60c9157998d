\* Three changes of one linked issue, no webhooks, no failure.
CONSTANTS
    g1 = g1
    s1 = s1
    s2 = s2
    s3 = s3
    Unset = Unset
    Remotes = {g1}
    Linked = {g1}
    Openers = {}
    Syncs = {s1, s2, s3}
    MaxAttempts = 1
    MaxHooks = 0
    MaxChanges = 3
    MaxLost = 0
SPECIFICATION MirrorSpec
INVARIANT MatchesAsItIsNow
CHECK_DEADLOCK FALSE
