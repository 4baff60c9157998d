\* One account whose language and time zone are saved at the same time.
CONSTANTS
    Users = {ann}
    Nobody = nobody
    Unknown = unknown
    Writers = {"language", "zone"}
    Others = {}
    Reads = {r1}
    MaxSignIns = 0
    MaxSaves = 2
SPECIFICATION TabSpec
INVARIANT LanguageShown
CHECK_DEADLOCK FALSE
