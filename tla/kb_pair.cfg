SPECIFICATION Spec
CONSTANTS
    Procs = {w1, w2}
    Paths = {p1}
    Contents = {c1, c2}
    Blank = {c2}
    Dims = {1}
    None = None
    Archive = TRUE
    NoRaw = {TRUE, FALSE}
    Forced = {TRUE, FALSE}
    Commands = {"ingest", "reindex", "delete"}
    Faults = {"fail"}
    Reverts = FALSE
    MaxIds = 3
INVARIANTS RecordedMeansStored ArchiveIsWhole ArchivedBeforeIndexed
CHECK_DEADLOCK FALSE
SYMMETRY ProcSymmetry
