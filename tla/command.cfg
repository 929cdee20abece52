SPECIFICATION FairCommandSpec
CONSTANTS
    Calls = {"condense", "expand", "answer"}
    Keys = {"", "window", "q", "r", "p"}
    Rewrites <- MCRewrites
    Paraphrases <- MCParaphrases
    Invocations <- MCInvocations
    MaxRetries = 2
    Base = 1
    RetryAfters = {0, 3}
    Docs = {"d1", "d2"}
    Bodies <- MCBodies
    MaxChunks = 3
    QueryDim = 1
    Dims = {1, 2}
    RRFK = 60
    Corpora <- MCCorpora
    TermsOf <- MCTermsOf
    ChunkTokens <- MCChunkTokens
    SqueezedTokens <- MCSqueezedTokens
    Texts <- MCTexts
    Sizes = {0, 1, 2}
    Overlaps = {0, 1, 2}
    Weight <- MCWeight
    Separators <- MCSeparators
    Openers = {"tbuk", "other"}
    Migrations <- MCMigrations
    Databases <- MCDatabases
    Tbuk = "tbuk"
    Queries <- MCQueries
    Passages = {1, 2, 3}
    Evaluations <- MCEvaluations
    RankedLists <- MCRankedLists
    Discounts <- MCDiscounts
INVARIANTS CommandTypeOK RecordedAnswerIsWhole PlanIsUsable FitIsPreferred
INVARIANTS ExcludedStaysOut RetryWaitsAsAsked ChunksCoverText SchemaIsRecorded ReportIsHonest
PROPERTIES CancelledCallsEnd PlanningEnds
CHECK_DEADLOCK FALSE
