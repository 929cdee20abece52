SPECIFICATION FairTransferSpec
CONSTANTS
    Procs = {w1}
    Paths = {p1, p2}
    Contents = {c1, c2}
    Blank = {}
    Dims = {1}
    None = None
    Archive = TRUE
    NoRaw = {FALSE}
    Forced = {FALSE}
    Commands = {"ingest"}
    Faults = {}
    Reverts = FALSE
    MaxIds = 2
    Templates = {t1}
    BuiltinText = c1
    Policies = {"skip", "overwrite"}
    ImportFaults = {"embed", "row"}
INVARIANTS TransferTypeOK ExportCarriesCopies IdentityIsIndexed
PROPERTIES CleanImportDelivers SkipChangesNothing EventuallyImported
CHECK_DEADLOCK FALSE
