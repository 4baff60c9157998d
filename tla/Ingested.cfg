\* Two runs of a monitored job, two releases of sessions and room for one, three
\* events of two keys and an issue from an older server, two GitHub issues.
CONSTANTS
    a = a
    b = b
    Runs <- MCRuns
    Requests <- MCRequests
    RunOf <- MCRunOf
    StatusOf <- MCStatusOf
    WithConfig <- MCWithConfig
    Interval = 2
    Margin = 1
    MaxRuntime = 1
    Ceiling = 2
    FailureThreshold = 1
    RecoveryThreshold = 1
    None = None
    MaxLookups = 1
    LastArrival = 1
    LastMinute = 3
    MaxMishaps = 1
    p = p
    Updates <- MCUpdates
    ReleaseOf <- MCReleaseOf
    UserOf <- MCUserOf
    Inits = {"start", "again"}
    Crashes = {"crash"}
    Ends = {"other"}
    Overflow = Overflow
    Cap = 1
    Nobody = Nobody
    MaxFailures = 2
    e1 = e1
    e2 = e2
    e3 = e3
    r1 = r1
    r2 = r2
    i0 = i0
    i1 = i1
    i2 = i2
    i3 = i3
    Events = {e1, e2, e3}
    KeyOf <- KeyOfEvents
    LegacyOf <- LegacyOfEvents
    VersionOf <- VersionOfEvents
    NoVersion = NoVersion
    Versions = {r1, r2}
    Issues = {i0, i1, i2, i3}
    Old = i0
    OldKeys = {"old"}
    MaxActions = 3
    g1 = g1
    g2 = g2
    o1 = o1
    o2 = o2
    s1 = s1
    s2 = s2
    Remotes = {g1, g2}
    Linked = {g1, g2}
    Openers = {o1, o2}
    Syncs = {s1, s2}
    MaxAttempts = 2
    MaxHooks = 2
    MaxChanges = 2
    Unset = Unset
    MaxLost = 1
SPECIFICATION Ingested
INVARIANTS NewestResultDecides ReportedOnce CountedOnce AnsweredIsKept OneIssuePerKey CountsItsEvents OpenedOnce CatchesUp
PROPERTIES OpenRunsEnd
CHECK_DEADLOCK FALSE
