\* An assembly that takes up a file whose row a collection has deleted.
CONSTANTS
    n1 = n1
    n2 = n2
    c1 = c1
    c2 = c2
    Names = {n1, n2}
    Contents = {c1, c2}
    Jobs <- MCOneJob
    Files <- MCOne
    Collectors = {sweep}
    Requested = {}
    MayCrash = FALSE
    MaxFails = 0
    None = None
SPECIFICATION FilesSpec
INVARIANT FileOfEveryName
