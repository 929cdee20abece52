SPECIFICATION Spec
CONSTANTS
    Procs = {w1}
    Paths = {p1, p2}
    Contents = {c1, c2, c3}
    Blank = {}
    Dims = {1, 2}
    None = None
    Archive = TRUE
    NoRaw = {FALSE}
    Forced = {FALSE}
    Commands = {"ingest", "preprocess", "reindex", "delete"}
    Faults = {"fail"}
    Reverts = FALSE
    MaxIds = 3
INVARIANTS TypeOK RecordedMeansStored ArchiveIsWhole ArchivedBeforeIndexed ContentAddressed RecordedCopyIsCurrent SkipMeansIndexed
PROPERTIES IngestKeepsUniform ReindexRepairs IndexNeverLost
CHECK_DEADLOCK FALSE
SYMMETRY Symmetry
