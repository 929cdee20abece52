SPECIFICATION Spec
CONSTANTS
    Procs = {w1}
    Paths = {p1}
    Contents = {c1, c2}
    Blank = {}
    Dims = {1}
    None = None
    Archive = TRUE
    NoRaw = {FALSE}
    Forced = {FALSE}
    Commands = {"ingest"}
    Faults = {"fail", "torn"}
    Reverts = FALSE
    MaxIds = 2
INVARIANTS SkipMeansIndexed
CHECK_DEADLOCK FALSE
