\* Two accounts in one tab, one control that saves the language; two cleanups,
\* one started here, a restart, a read that fails; two requests for the figures.
CONSTANTS
    Methods = {"GET", "POST", "DELETE"}
    Retried = {"GET", "DELETE"}
    MaxRetries = 2
    Users = {ann, bob}
    Nobody = nobody
    Unknown = unknown
    Writers = {"language"}
    Others = {}
    Reads = {r1, r2}
    MaxSignIns = 3
    MaxSaves = 1
    Asked = {q1, q2}
    MaxJobs = 2
    MaxCollections = 1
    MaxStarts = 2
    MaxRestarts = 1
    MaxFailures = 1
SPECIFICATION Dashboard
INVARIANTS ClearedIsAsked ReadersApart FiguresAreCurrent KeptIsAfterCollection
PROPERTIES ImplementsCall SeenIsTold NeverAnOldOutcome
CHECK_DEADLOCK FALSE
