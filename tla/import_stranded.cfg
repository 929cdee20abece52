SPECIFICATION TransferSpec
CONSTANTS
    Procs = {w1}
    Paths = {p1}
    Contents = {c1, c2}
    Blank = {}
    Dims = {1}
    None = None
    Archive = TRUE
    NoRaw = {FALSE}
    Forced = {FALSE}
    Commands = {"ingest"}
    Faults = {}
    Reverts = FALSE
    MaxIds = 2
    Templates = {}
    BuiltinText = c1
    Policies = {"skip", "overwrite"}
    ImportFaults = {"stop"}
INVARIANTS NothingHalfImported
CHECK_DEADLOCK FALSE
