SPECIFICATION FairSpec
CONSTANTS
    Procs = {w1}
    Paths = {p1}
    Contents = {c1, c2, c3}
    Blank = {}
    Dims = {1}
    None = None
    Archive = TRUE
    NoRaw = {FALSE}
    Forced = {FALSE}
    Commands = {"ingest", "reindex", "delete"}
    Faults = {"fail", "race"}
    Reverts = FALSE
    MaxIds = 3
PROPERTIES EventuallyIndexed
CHECK_DEADLOCK FALSE
