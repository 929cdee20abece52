SPECIFICATION Spec
CONSTANTS
    Procs = {w1}
    Paths = {p1}
    Contents = {c1, c2}
    Blank = {}
    Dims = {1}
    None = None
    Archive = TRUE
    NoRaw = {TRUE, FALSE}
    Forced = {FALSE}
    Commands = {"ingest"}
    Faults = {}
    Reverts = FALSE
    MaxIds = 2
INVARIANTS RecordedCopyIsCurrent
CHECK_DEADLOCK FALSE
