---------------------------- MODULE CommandProofs ----------------------------
(***************************************************************************)
(* Proofs about one run of tbuk, whatever other processes and providers do *)
(* and whenever Ctrl-C is pressed.  In turn: the open, the request for an  *)
(* embedding, the split, the search, the answer, the plan, the prompt, the *)
(* evaluation, and the types of all of them.  Each part has an invariant   *)
(* of its own, kept by every step of the command (CommandSpec).            *)
(***************************************************************************)
EXTENDS Command, ChunkerProofs

-----------------------------------------------------------------------------
(* The open: any list of migrations and any database file to begin with *)

Opened == [at : {"closed", "bootstrap", "version", "check", "begin", "record", "commit",
                 "ready", "failed", "killed"},
           next : 1 .. Len(Migrations) + 1, staged : SUBSET Versions]

\* An Open begins with the first migration.  Past the check of its version
\* it carries no older one than the file, the migrations it is done with are
\* recorded, and none it applies is one the file came with.
Behind(o) ==
    /\ open[o].at \in {"bootstrap", "version"} => open[o].next = 1
    /\ open[o].at \in {"check", "begin", "record", "commit", "ready"} =>
        /\ \A v \in file.recorded : v <= Latest
        /\ \A i \in 1 .. open[o].next - 1 : Migrations[i] \in file.recorded
    /\ open[o].at \in {"begin", "record", "commit"} =>
        open[o].next <= Len(Migrations) /\ Version(o) \notin file.old
    /\ open[o].at = "ready" => open[o].next = Len(Migrations) + 1

\* Its transaction holds the lock from its first write to its end; one that
\* found the schema there has nothing to commit.
Locked(o) ==
    /\ open[o].staged # {} =>
        /\ lock = o
        /\ open[o].at \in {"record", "commit"}
        /\ open[o].staged = {Version(o)}
    /\ open[o].at = "record" /\ open[o].staged = {} => Version(o) \in file.applied
    /\ open[o].at = "commit" => open[o].staged # {}

MInv ==
    /\ MigrateTypeOK
    /\ file.applied = file.recorded \ file.old /\ file.old \subseteq file.recorded
    /\ \A o \in Openers : Behind(o) /\ Locked(o)

\* No migration of this tbuk is newer than its latest.
LEMMA LatestIsLast ==
    /\ Latest \in Versions
    /\ \A i \in 1 .. Len(Migrations) :
        /\ Migrations[i] \in Nat /\ Migrations[i] \in Versions
        /\ Migrations[i] <= Latest
  <1>1. Len(Migrations) \in Nat /\ Len(Migrations) \in 1 .. Len(Migrations)
    BY MigrateAssumption
  <1>2. ASSUME NEW i \in 1 .. Len(Migrations)
        PROVE  /\ Migrations[i] \in Nat /\ Migrations[i] \in Versions
               /\ Migrations[i] <= Latest
    <2>1. Migrations[i] \in Nat /\ Latest \in Nat
      BY <1>1, MigrateAssumption DEF Latest
    <2>2. Migrations[i] \in ToSet(Migrations)
      BY <1>1, MigrateAssumption DEF ToSet
    <2>3. Migrations[i] <= Latest
      BY <1>1, <2>1, MigrateAssumption DEF Latest
    <2>4. Migrations[i] \in Versions
      BY <2>2, Zenon DEF Versions
    <2> QED  BY <2>1, <2>3, <2>4
  <1> QED  BY <1>1, <1>2 DEF Latest

\* Versions are numbers.
LEMMA VersionsAreNat == Versions \subseteq Nat
  <1>1. ToSet(Migrations) \subseteq Nat
    BY MigrateAssumption DEF ToSet
  <1>2. UNION {d.recorded : d \in Databases} \subseteq Nat
    BY MigrateAssumption
  <1> QED  BY <1>1, <1>2 DEF Versions

LEMMA MigrateInitInv == MigrateInit => MInv
  <1> SUFFICES ASSUME MigrateInit PROVE MInv
    OBVIOUS
  <1>0. PICK d \in Databases :
            file = [recorded |-> d.recorded, applied |-> d.recorded \ d.old, old |-> d.old]
    BY DEF MigrateInit
  <1>1. MigrateTypeOK
    <2>1. d.recorded \subseteq Versions /\ d.old \subseteq d.recorded
      BY MigrateAssumption DEF Versions
    <2>2. file \in [recorded : SUBSET Versions, applied : SUBSET Versions, old : SUBSET Versions]
      BY <1>0, <2>1
    <2> QED  BY <2>2, MigrateAssumption DEF MigrateInit, MigrateTypeOK, Closed
  <1>2. /\ file.applied = file.recorded \ file.old /\ file.old \subseteq file.recorded
        /\ \A o \in Openers : Behind(o) /\ Locked(o)
    BY <1>0, MigrateAssumption DEF MigrateInit, Closed, Behind, Locked
  <1> QED  BY <1>1, <1>2 DEF MInv

\* What a step of one Open does to the file and the lock leaves what is known
\* of every other Open as it is.
Apart(o) ==
    /\ \A p \in Openers \ {o} : open'[p] = open[p]
    /\ file.recorded \subseteq file'.recorded /\ file.applied \subseteq file'.applied
    /\ file'.old = file.old
    /\ \A v \in file'.recorded : v \in file.recorded \/ v <= Latest
    /\ lock' = lock \/ lock \in {"free", o}

LEMMA OthersUnmoved ==
    ASSUME MInv, NEW o \in Openers, Apart(o), NEW p \in Openers \ {o}
    PROVE  Behind(p)' /\ Locked(p)'
  <1>1. open[p].staged # {} => lock' = p
    BY MigrateAssumption DEF MInv, Locked, Apart
  <1>2. Behind(p) /\ Locked(p) /\ open'[p] = open[p]
    BY DEF MInv, Apart
  <1>3. Behind(p)'
    BY <1>2 DEF Behind, Apart, Version
  <1>4. Locked(p)'
    BY <1>1, <1>2 DEF Locked, Apart, Version
  <1> QED  BY <1>3, <1>4

\* So a step keeps the invariant if it keeps it for the Open that takes it.
LEMMA OwnStep ==
    ASSUME MInv, NEW o \in Openers, Apart(o),
           file' \in [recorded : SUBSET Versions, applied : SUBSET Versions, old : SUBSET Versions],
           file'.applied = file'.recorded \ file'.old, file'.old \subseteq file'.recorded,
           lock' \in Openers \cup {"free"},
           open' \in [Openers -> Opened],
           Behind(o)', Locked(o)'
    PROVE  MInv'
  <1>1. \A p \in Openers : Behind(p)' /\ Locked(p)'
    BY OthersUnmoved
  <1>2. MigrateTypeOK'
    BY <1>1 DEF MigrateTypeOK, Locked, Opened
  <1> QED  BY <1>1, <1>2 DEF MInv

\* Every step of an Open keeps the invariant.
LEMMA MigrateStepInv ==
    ASSUME MInv, NEW o \in Openers, OpenDatabase(o) \/ MigrateStep(o)
    PROVE  MInv'
  <1>0. /\ Len(Migrations) \in Nat \ {0}
        /\ open \in [Openers -> Opened]
        /\ open[o].next \in 1 .. Len(Migrations) + 1
        /\ file.recorded \subseteq Nat /\ Latest \in Nat
    <2>1. Len(Migrations) \in Nat \ {0}
      BY MigrateAssumption
    <2>2. open \in [Openers -> Opened] /\ file.recorded \subseteq Versions
      BY DEF MInv, MigrateTypeOK, Opened
    <2>3. open[o].next \in 1 .. Len(Migrations) + 1
      BY <2>2 DEF Opened
    <2> QED  BY <2>1, <2>2, <2>3, VersionsAreNat, LatestIsLast
  <1>9. /\ lock \in Openers \cup {"free"}
        /\ file \in [recorded : SUBSET Versions, applied : SUBSET Versions, old : SUBSET Versions]
        /\ file.applied = file.recorded \ file.old /\ file.old \subseteq file.recorded
        /\ Behind(o) /\ Locked(o)
    BY DEF MInv, MigrateTypeOK
  <1> USE <1>0, <1>9
  <1>1. CASE OpenDatabase(o)
    <2>1. open' \in [Openers -> Opened]
      BY <1>1 DEF OpenDatabase, Closed, Opened
    <2>2. Apart(o)
      BY <1>1 DEF OpenDatabase, Apart
    <2>3. Behind(o)' /\ Locked(o)'
      BY <1>1 DEF OpenDatabase, Closed, Behind, Locked
    <2> QED  BY <1>1, <2>1, <2>2, <2>3, OwnStep DEF OpenDatabase
  <1>2. CASE Bootstrap(o)
    <2>1. open' \in [Openers -> Opened]
      BY <1>2 DEF Bootstrap, Goes, Opened
    <2>2. Apart(o)
      BY <1>2 DEF Bootstrap, Goes, Apart
    <2>3. Behind(o)' /\ Locked(o)'
      BY <1>2 DEF Bootstrap, Goes, Behind, Locked
    <2> QED  BY <1>2, <2>1, <2>2, <2>3, OwnStep DEF Bootstrap
  <1>3. CASE ReadVersion(o)
    <2>1. open' \in [Openers -> Opened]
      BY <1>3 DEF ReadVersion, Goes, Opened
    <2>2. Apart(o)
      BY <1>3 DEF ReadVersion, Goes, Apart
    <2>3. Behind(o)' /\ Locked(o)'
      BY <1>3 DEF ReadVersion, Goes, Behind, Locked
    <2> QED  BY <1>3, <2>1, <2>2, <2>3, OwnStep DEF ReadVersion
  <1>4. CASE CheckApplied(o)
    <2>1. open' \in [Openers -> Opened]
      BY <1>4 DEF CheckApplied, Goes, Opened
    <2>2. Apart(o)
      BY <1>4 DEF CheckApplied, Goes, Apart
    <2>3. open[o].staged = {} /\ open'[o].staged = {} /\ open'[o].at \in {"check", "begin", "ready"}
      BY <1>4 DEF CheckApplied, Goes, Locked, Opened
    <2>4. Locked(o)'
      BY <2>3 DEF Locked
    <2>5. Behind(o)'
      <3>1. CASE open[o].next > Len(Migrations)
        BY <1>4, <3>1 DEF CheckApplied, Goes, Behind, Opened
      <3>2. CASE open[o].next <= Len(Migrations) /\ Version(o) \in file.recorded
        BY <1>4, <3>2 DEF CheckApplied, Behind, Version, Opened
      <3>3. CASE open[o].next <= Len(Migrations) /\ Version(o) \notin file.recorded
        BY <1>4, <3>3 DEF CheckApplied, Goes, Behind, Version, Opened
      <3> QED  BY <3>1, <3>2, <3>3
    <2> QED  BY <1>4, <2>1, <2>2, <2>4, <2>5, OwnStep DEF CheckApplied
  <1>5. CASE ApplySchema(o)
    <2>0. open[o].next \in 1 .. Len(Migrations) /\ Version(o) \in Versions
      BY <1>5, LatestIsLast DEF ApplySchema, Behind, Version
    <2>1. open' \in [Openers -> Opened]
      BY <1>5, <2>0 DEF ApplySchema, Goes, Opened
    <2>2. Apart(o)
      BY <1>5 DEF ApplySchema, Goes, Apart
    <2>3. open[o].staged = {}
      BY <1>5 DEF ApplySchema, Locked
    <2>4. Behind(o)'
      BY <1>5, <2>3 DEF ApplySchema, Goes, Behind, Version, Opened
    <2>5. Locked(o)'
      <3>1. CASE Version(o) \in file.applied
        BY <1>5, <2>3, <3>1 DEF ApplySchema, Goes, Locked, Version, Opened
      <3>2. CASE Version(o) \notin file.applied
        <4>1. lock' = o /\ open'[o].at = "record" /\ open'[o].staged = {Version(o)}
          BY <1>5, <3>2 DEF ApplySchema, Opened
        <4>2. open'[o].next = open[o].next
          BY <1>5, <3>2 DEF ApplySchema, Opened
        <4> QED  BY <4>1, <4>2 DEF Locked, Version
      <3> QED  BY <3>1, <3>2
    <2> QED  BY <1>5, <2>1, <2>2, <2>4, <2>5, OwnStep DEF ApplySchema
  <1>6. CASE RecordVersion(o)
    <2>1. open' \in [Openers -> Opened]
      BY <1>6 DEF RecordVersion, Goes, Opened
    <2>2. Apart(o)
      BY <1>6 DEF RecordVersion, Goes, Apart
    <2>3. Behind(o)' /\ Locked(o)'
      BY <1>6 DEF RecordVersion, Goes, Behind, Locked, Version, Opened
    <2> QED  BY <1>6, <2>1, <2>2, <2>3, OwnStep DEF RecordVersion, Goes
  <1>7. CASE Commit(o)
    <2>0. /\ open[o].next \in 1 .. Len(Migrations)
          /\ Version(o) \in Versions /\ Version(o) <= Latest /\ Version(o) \notin file.old
          /\ open[o].staged = {Version(o)}
      BY <1>7, LatestIsLast DEF Commit, Behind, Locked, Version
    <2>1. open' \in [Openers -> Opened]
      BY <1>7, <2>0 DEF Commit, Opened
    <2>2. Apart(o)
      BY <1>7, <2>0 DEF Commit, Apart, Locked
    <2>3. Behind(o)' /\ Locked(o)'
      BY <1>7, <2>0 DEF Commit, Behind, Locked, Version
    <2>4. /\ file' \in [recorded : SUBSET Versions, applied : SUBSET Versions, old : SUBSET Versions]
          /\ file'.applied = file'.recorded \ file'.old /\ file'.old \subseteq file'.recorded
      BY <1>7, <2>0 DEF Commit
    <2> QED  BY <1>7, <2>1, <2>2, <2>3, <2>4, OwnStep DEF Commit
  <1>8. ASSUME NEW at \in {"failed", "killed"}, Abandon(o, at)
        PROVE  MInv'
    <2>1. open' \in [Openers -> Opened]
      BY <1>8 DEF Abandon, Opened
    <2>2. Apart(o)
      BY <1>8 DEF Abandon, Apart
    <2>3. open'[o].at = at /\ open'[o].staged = {}
      BY <1>8 DEF Abandon, Opened
    <2>4. Behind(o)' /\ Locked(o)'
      BY <2>3 DEF Behind, Locked
    <2> QED  BY <1>8, <2>1, <2>2, <2>4, OwnStep DEF Abandon
  <1> QED  BY <1>1, <1>2, <1>3, <1>4, <1>5, <1>6, <1>7, <1>8 DEF MigrateStep

\* Once the database is open the locals of Open are gone.
LEMMA BeginCloses ==
    ASSUME MInv, NEW c, Begin(c)
    PROVE  MInv'
  <1>1. open' = [o \in Openers |-> Closed] /\ file' = file /\ lock' = lock
    BY DEF Begin
  <1>2. Closed \in Opened /\ Closed.staged = {} /\ Closed.at = "closed"
    BY MigrateAssumption DEF Closed, Opened
  <1>3. open' \in [Openers -> Opened] /\ \A o \in Openers : open'[o] = Closed
    BY <1>1, <1>2
  <1>4. MigrateTypeOK'
    BY <1>1, <1>2, <1>3 DEF MInv, MigrateTypeOK, Opened
  <1>5. \A o \in Openers : Behind(o)' /\ Locked(o)'
    BY <1>2, <1>3 DEF Behind, Locked
  <1> QED  BY <1>1, <1>4, <1>5 DEF MInv

\* The schema and its record: whatever versions the file began with, whoever
\* opens it at once and whoever fails or is killed at any point, the
\* strengthened invariant of Open and runMigrations holds.
THEOREM MigrateInvariance == CommandSpec => []MInv
  <1>1. Init => MInv
    BY MigrateInitInv DEF Init
  <1>2. ASSUME MInv, [Next]_vars
        PROVE  MInv'
    <2>1. CASE UNCHANGED opening
      BY <1>2, <2>1 DEF opening, MInv, MigrateTypeOK, Behind, Locked, Version
    <2>2. CASE Opening
      BY <1>2, <2>2, MigrateStepInv DEF Opening
    <2>3. CASE \E c : Begin(c)
      BY <1>2, <2>3, BeginCloses
    <2> QED
      BY <1>2, <2>1, <2>2, <2>3
      DEF Next, vars, BeginAsk, BeginSearch, BeginSplit, BeginEval, End, Asking, Searching, Splitting,
          Evaluating, PressCtrlC, SearchInterrupted, OtherProcesses, Answering, TimeOut, Quiet
  <1> QED  BY <1>1, <1>2, PTL DEF CommandSpec

\* A version is recorded exactly when its schema is there, but for those the
\* file came with in an older shape; an Open that returned a database returned
\* one that records every version of this tbuk and none newer; and the database
\* of a newer tbuk is never written to (migrate.go:19-21, 30-34, 251-254,
\* 272-275).
THEOREM SchemaIsRecordedAlways == CommandSpec => []SchemaIsRecorded
  <1>1. MInv => SchemaIsRecorded
    <2> SUFFICES ASSUME MInv PROVE SchemaIsRecorded
      OBVIOUS
    <2>0. Len(Migrations) \in Nat /\ file.recorded \subseteq Nat /\ Latest \in Nat
      <3>1. file.recorded \subseteq Versions
        BY DEF MInv, MigrateTypeOK
      <3>2. Latest \in Nat
        BY VersionsAreNat, LatestIsLast
      <3>3. Len(Migrations) \in Nat
        BY MigrateAssumption
      <3> QED  BY <3>1, <3>2, <3>3, VersionsAreNat
    <2>1. ASSUME NEW o \in Openers, open[o].at = "ready"
          PROVE  /\ ToSet(Migrations) \subseteq file.recorded
                 /\ \A v \in file.recorded : v <= Latest
      <3>1. \A i \in 1 .. Len(Migrations) : Migrations[i] \in file.recorded
        BY <2>0, <2>1 DEF MInv, Behind
      <3>2. ToSet(Migrations) \subseteq file.recorded
        BY <3>1, MigrateAssumption DEF ToSet
      <3> QED  BY <2>1, <3>2 DEF MInv, Behind
    <2>2. ASSUME NEW v \in file.recorded, v > Latest, NEW o \in Openers, open[o].at = "commit"
          PROVE  FALSE
      BY <2>0, <2>2 DEF MInv, Behind
    <2> QED  BY <2>1, <2>2 DEF SchemaIsRecorded, MInv
  <1> QED  BY <1>1, MigrateInvariance, PTL

-----------------------------------------------------------------------------
(* The request for an embedding: any number of retries, any backoff, any waits *)

\* What the next sleep will be: what the last failure asked for, if anything.
Asked == IF failure.kind = "busy" /\ failure.after > 0 THEN failure.after
         ELSE Base * 2 ^ (attempt - 1)

RInv ==
    /\ RetryTypeOK
    /\ request \in {"send", "sleep"} => attempt <= MaxRetries
    /\ request = "sleep" => attempt > 0 /\ wait = failure.after
    /\ request = "send" /\ attempt > 0 => slept = Asked

\* Only a busy answer asks for a wait.
LEMMA WaitIsNat ==
    ASSUME NEW f \in Failures \cup {NoFailure}
    PROVE  f.after \in Nat /\ (f.kind # "busy" => f.after = 0)
  BY RetryAssumption DEF Failures, NoFailure

\* A request is started afresh, its locals go, it moves on or is cancelled.
LEMMA RetryMoves ==
    ASSUME [Next]_vars
    PROVE  \/ UNCHANGED retry
           \/ RetryStep \/ CancelRequest
           \/ Renewed("send") \/ Renewed("idle")
  <1>1. CASE UNCHANGED retry
    BY <1>1
  <1>2. CASE BeginSearch
    BY <1>2 DEF BeginSearch, StartSearch, StartRequest
  <1>3. CASE Asking
    BY <1>3 DEF Asking, AskStep, PlanQueries, PlanReady, RetrieveNext, TakeResults, AskModel, TakeAnswer,
        FinishAnswer, StartSearch, StartRequest
  <1>4. CASE Searching
    BY <1>4 DEF Searching, SearchStep, Embedded, RankVector, HydrateVector, KeywordLeg, Fuse
  <1>5. CASE SearchInterrupted
    BY <1>5 DEF SearchInterrupted, CancelSearch
  <1> QED
    BY <1>1, <1>2, <1>3, <1>4, <1>5
    DEF Next, vars, Opening, BeginAsk, StartAsk, BeginSplit, BeginEval, End, Splitting, Evaluating,
        PressCtrlC, OtherProcesses, Answering, TimeOut

\* The retries: every sleep before one is the one that was asked for.
THEOREM RetryInvariance == CommandSpec => []RInv
  <1>1. Init => RInv
    BY RetryAssumption DEF Init, RetryInit, RInv, RetryTypeOK
  <1>2. RInv /\ [Next]_vars => RInv'
    <2> SUFFICES ASSUME RInv, [Next]_vars PROVE RInv'
      OBVIOUS
    <2> USE RetryAssumption
    <2>0. attempt \in Nat /\ failure \in Failures \cup {NoFailure}
      BY DEF RInv, RetryTypeOK
    <2>1. CASE Renewed("send") \/ Renewed("idle")
      BY <2>1 DEF Renewed, RInv, RetryTypeOK
    <2>2. CASE Respond
      BY <2>2 DEF Respond, RInv, RetryTypeOK
    <2>3. CASE Sleep
      <3>1. failure.after \in Nat /\ (failure.kind # "busy" => failure.after = 0)
        BY <2>0, WaitIsNat
      <3>2. slept' = Asked
        BY <2>3, <3>1 DEF Sleep, RInv, Asked, Backoff
      <3>3. Asked' = Asked
        BY <2>3 DEF Sleep, Asked
      <3>4. attempt - 1 \in 0 .. MaxRetries - 1 /\ wait \in RetryAfters \cup {0} /\ wait \in Nat
        BY <2>0, <2>3 DEF Sleep, RInv, RetryTypeOK
      <3>5. slept' = Base * 2 ^ (attempt - 1) \/ slept' \in RetryAfters
        BY <2>3, <3>4 DEF Sleep, Backoff
      <3>6. slept' \in RetryAfters \cup {Base * 2 ^ i : i \in 0 .. MaxRetries - 1}
        BY <3>4, <3>5
      <3>7. RetryTypeOK'
        BY <2>3, <3>6 DEF Sleep, RInv, RetryTypeOK
      <3> QED  BY <2>3, <3>2, <3>3, <3>7 DEF Sleep, RInv
    <2>4. ASSUME NEW f \in Failures, AttemptFails(f)
          PROVE  RInv'
      <3>1. f.after \in RetryAfters \cup {0}
        BY DEF Failures
      <3>2. RetryTypeOK'
        BY <2>4, <3>1 DEF AttemptFails, WaitAfter, RInv, RetryTypeOK
      <3> QED  BY <2>0, <2>4, <3>2 DEF AttemptFails, WaitAfter, RInv
    <2>5. CASE CancelRequest
      BY <2>5 DEF CancelRequest, RInv, RetryTypeOK
    <2>6. CASE UNCHANGED retry
      BY <2>6 DEF retry, RInv, RetryTypeOK, Asked
    <2> QED  BY <2>1, <2>2, <2>3, <2>4, <2>5, <2>6, RetryMoves DEF RetryStep
  <1> QED  BY <1>1, <1>2, PTL DEF CommandSpec

\* Whatever the provider answers and in whatever order, a retry waits for what
\* the failure right before it asked for, else for its place in the backoff,
\* and there are at most MaxRetries of them (retry.go:41-80).
THEOREM RetryWaitsAlways == CommandSpec => []RetryWaitsAsAsked
  <1>1. RInv => RetryWaitsAsAsked
    BY DEF RInv, Asked, RetryWaitsAsAsked
  <1> QED  BY <1>1, RetryInvariance, PTL

-----------------------------------------------------------------------------
(* The split of a text *)

\* Whatever the text, chunk.size and chunk.overlap, the chunks cover the text
\* from its first rune to its last, each starts and ends further than the one
\* before it, and none but a single heavy rune is over the size: a split always
\* goes forward, even where the overlap is no smaller than the size
\* (chunker.go:29-95, token.go:64-98).
THEOREM ChunksCoverTextAlways == CommandSpec => []ChunksCoverText
  <1>1. Init => CInv
    BY ChunkerInitInv DEF Init
  <1>2. CInv /\ [Next]_vars => CInv'
    <2> SUFFICES ASSUME CInv, [Next]_vars PROVE CInv'
      OBVIOUS
    <2>1. StartSplit \/ SplitStep \/ UNCHANGED chunker
      BY DEF Next, vars, Opening, BeginAsk, BeginSearch, BeginSplit, BeginEval, End, Asking, Searching,
          Splitting, Evaluating, PressCtrlC, SearchInterrupted, OtherProcesses, Answering, TimeOut, Quiet
    <2> QED  BY <2>1, ChunkerStepInv
  <1>3. CInv => ChunksCoverText
    BY ChunksCover
  <1> QED  BY <1>1, <1>2, <1>3, PTL DEF CommandSpec

-----------------------------------------------------------------------------
(* The search: any documents, depths, constants of fusion *)

\* A list of results: chunk ids that were given out, each once.
Listed(s) == s \in Seq(1 .. nextChunk - 1) /\ IsInjective(s)

LEMMA FirstIs ==
  ASSUME NEW T, NEW s \in Seq(T), NEW k \in Nat
  PROVE  /\ First(k, s) \in Seq(T) /\ Len(First(k, s)) = Least(k, Len(s))
         /\ \A i \in 1 .. Len(First(k, s)) : i \in 1 .. Len(s) /\ First(k, s)[i] = s[i]
         /\ IsInjective(s) => IsInjective(First(k, s))
  <1> DEFINE m == Least(k, Len(s))
  <1>1. Len(s) \in Nat /\ \A i \in 1 .. Len(s) : s[i] \in T
    BY ElementOfSeq, LenProperties
  <1>2. m \in Nat /\ m <= Len(s)
    BY <1>1 DEF Least
  <1> HIDE DEF m
  <1>3. \A i \in 1 .. m : i \in 1 .. Len(s) /\ s[i] \in T
    BY <1>1, <1>2
  <1>4. /\ First(k, s) \in Seq(T)
        /\ Len(First(k, s)) = IF 1 <= m THEN m - 1 + 1 ELSE 0
        /\ \A i \in 1 .. m - 1 + 1 : First(k, s)[i] = s[1 + i - 1]
    BY <1>2, <1>3, SubSeqProperties DEF First, m
  <1>5. Len(First(k, s)) = m
    BY <1>2, <1>4
  <1>6. \A i \in 1 .. m : First(k, s)[i] = s[i]
    BY <1>2, <1>4
  <1>7. IsInjective(s) => IsInjective(First(k, s))
    <2>1. DOMAIN s = 1 .. Len(s) /\ DOMAIN First(k, s) = 1 .. m
      BY <1>4, <1>5, LenProperties
    <2> QED  BY <1>3, <1>6, <2>1 DEF IsInjective
  <1> QED  BY <1>3, <1>4, <1>5, <1>6, <1>7 DEF m

\* What is left of a list by filtering it.
LEMMA FilteredIs ==
  ASSUME NEW T, NEW s \in Seq(T), NEW P, P \subseteq 1 .. Len(s)
  PROVE  /\ AtPlaces(s, P) \in Seq(T)
         /\ IsInjective(s) => IsInjective(AtPlaces(s, P))
  <1> DEFINE C == Cardinality(P)
  <1>1. PICK place \in [1 .. C -> P] :
            /\ C \in Nat
            /\ AtPlaces(s, P) = [n \in 1 .. C |-> s[place[n]]]
            /\ AtPlaces(s, P) \in Seq(T) /\ Len(AtPlaces(s, P)) = C
            /\ \A p \in P : \E n \in 1 .. C : place[n] = p
            /\ \A m, n \in 1 .. C : m < n => place[m] < place[n]
    BY AtPlacesIs, Zenon
  <1> HIDE DEF C
  <1>2. DOMAIN s = 1 .. Len(s) /\ Len(s) \in Nat /\ DOMAIN AtPlaces(s, P) = 1 .. C
    BY <1>1, LenProperties
  <1>3. ASSUME IsInjective(s), NEW m \in 1 .. C, NEW n \in 1 .. C,
               AtPlaces(s, P)[m] = AtPlaces(s, P)[n]
        PROVE  m = n
    <2>0. place[m] \in 1 .. Len(s) /\ place[n] \in 1 .. Len(s) /\ s[place[m]] = s[place[n]]
      BY <1>1, <1>3
    <2>1. place[m] = place[n] /\ place[m] \in Int /\ place[n] \in Int
      BY <1>2, <1>3, <2>0 DEF IsInjective
    <2>2. ~(m < n) /\ ~(n < m)
      BY <1>1, <2>1
    <2> QED  BY <1>1, <2>2
  <1>4. IsInjective(s) => IsInjective(AtPlaces(s, P))
    BY <1>2, <1>3 DEF IsInjective
  <1> QED  BY <1>1, <1>4

LEMMA FilteredHas ==
  ASSUME NEW T, NEW s \in Seq(T), NEW P, P \subseteq 1 .. Len(s)
  PROVE  AtPlaces(s, P) \in Seq({s[p] : p \in P})
  <1> DEFINE C == Cardinality(P)
             Found == {s[p] : p \in P}
  <1>1. PICK place \in [1 .. C -> P] :
            /\ C \in Nat
            /\ AtPlaces(s, P) = [n \in 1 .. C |-> s[place[n]]]
            /\ AtPlaces(s, P) \in Seq(T) /\ Len(AtPlaces(s, P)) = C
            /\ \A p \in P : \E n \in 1 .. C : place[n] = p
            /\ \A m, n \in 1 .. C : m < n => place[m] < place[n]
    BY AtPlacesIs, Zenon
  <1> HIDE DEF C
  <1>2. \A n \in 1 .. C : s[place[n]] \in Found
    BY <1>1
  <1> HIDE DEF Found
  <1>3. AtPlaces(s, P) \in [1 .. C -> Found]
    BY <1>1, <1>2
  <1>4. AtPlaces(s, P) \in Seq(Found)
    BY <1>1, <1>3, IsASeq
  <1> QED  BY <1>4 DEF Found

\* Ranks weigh something.
LEMMA RankWeightIsInteger ==
  ASSUME NEW rank \in Nat \ {0}
  PROVE  RankWeight(rank) \in Int
  <1> DEFINE N == MaxChunks
             step == [p \in Int \X (1 .. N) |-> (RRFK + p[2]) * p[1]]
             Multiplies(g) == g = [n \in 0 .. N |-> IF n = 0 THEN 1 ELSE (RRFK + n) * g[n - 1]]
             product == CHOOSE g : Multiplies(g)
  <1>1. N \in Nat /\ RRFK \in Nat
    BY SearchAssumption
  <1>2. step \in [Int \X (1 .. N) -> Int] /\ \A x \in Int, i \in 1 .. N : step[x, i] = (RRFK + i) * x
    <2>1. \A p \in Int \X (1 .. N) : p[1] \in Int /\ p[2] \in 1 .. N
      OBVIOUS
    <2>2. \A p \in Int \X (1 .. N) : (RRFK + p[2]) * p[1] \in Int
      BY <1>1, <2>1
    <2>3. \A x \in Int, i \in 1 .. N :
             <<x, i>> \in Int \X (1 .. N) /\ <<x, i>>[1] = x /\ <<x, i>>[2] = i
      OBVIOUS
    <2> QED  BY <2>2, <2>3
  <1> HIDE DEF step, N
  <1>3. PICK f \in [0 .. N -> Int] : Follows(f, 0, N, 1, step)
    <2>1. N \in Int /\ 0 <= N /\ 0 \in Int /\ 1 \in Int /\ 0 + 1 = 1
      BY <1>1
    <2>2. step \in [Int \X (0 + 1 .. N) -> Int]
      BY <1>2, <2>1
    <2> QED  BY <2>1, <2>2, RecursionExists
  <1>4. Multiplies(f)
    <2>1. \A i \in 0 .. N : i # 0 => i \in 1 .. N /\ i - 1 \in 0 .. N
      BY <1>1
    <2>2. \A i \in 0 .. N : f[i] = IF i = 0 THEN 1 ELSE (RRFK + i) * f[i - 1]
      BY <1>2, <1>3, <2>1 DEF Follows
    <2> QED  BY <2>2
  <1>5. Multiplies(product)
    <2> HIDE DEF Multiplies
    <2> QED  BY <1>4
  <1> HIDE DEF product
  <1>6. product[N] \in Int
    <2>1. product[0] = 1 /\ \A i \in 1 .. N : product[i] = (RRFK + i) * product[i - 1]
      BY <1>1, <1>5
    <2>2. \A i \in 1 .. N : product[i - 1] \in Int => product[i] \in Int
      BY <1>1, <2>1
    <2>3. product[0] \in Int
      BY <2>1
    <2>4. \A i \in 0 .. N : product[i] \in Int
      BY <1>1, <2>2, <2>3, RecursionIsInteger
    <2> QED  BY <1>1, <2>4
  <1>7. Denominator = product[N]
    BY DEF Denominator, product, N
  <1>8. RRFK + rank \in Nat /\ RRFK + rank > 0
    BY <1>1
  <1> QED  BY <1>6, <1>7, <1>8 DEF RankWeight

\* And so do lists of results, summed up.
LEMMA RRFIsInteger ==
  ASSUME NEW T, NEW lists \in Seq(Seq(T)), NEW id
  PROVE  RRF(lists, id) \in Int
  <1> DEFINE N == Len(lists)
             weight == [l \in 1 .. N |->
                           IF Contains(lists[l], id) THEN RankWeight(Rank(lists[l], id)) ELSE 0]
             step == [p \in Int \X (1 .. N) |-> p[1] + weight[p[2]]]
             Adds(g) == g = [l \in 0 .. N |->
                                IF l = 0 THEN 0
                                ELSE g[l - 1] + IF Contains(lists[l], id)
                                                THEN RankWeight(Rank(lists[l], id)) ELSE 0]
             sum == CHOOSE g : Adds(g)
  <1>1. N \in Nat /\ \A l \in 1 .. N : lists[l] \in Seq(T)
    BY ElementOfSeq, LenProperties
  <1>2. \A l \in 1 .. N : weight[l] \in Int
    <2>1. ASSUME NEW l \in 1 .. N, Contains(lists[l], id)
          PROVE  RankWeight(Rank(lists[l], id)) \in Int
      <3>1. Len(lists[l]) \in Nat
        BY <1>1, LenProperties
      <3>2. Rank(lists[l], id) \in 1 .. Len(lists[l])
        BY <2>1 DEF Contains, Rank
      <3>3. Rank(lists[l], id) \in Nat \ {0}
        BY <3>1, <3>2
      <3> QED  BY <3>3, RankWeightIsInteger
    <2> QED  BY <2>1
  <1>3. \A g : Adds(g) <=> g = [l \in 0 .. N |-> IF l = 0 THEN 0 ELSE g[l - 1] + weight[l]]
    <2>1. \A l \in 0 .. N : l # 0 => l \in 1 .. N
      BY <1>1
    <2>2. \A l \in 1 .. N : weight[l] = IF Contains(lists[l], id) THEN RankWeight(Rank(lists[l], id)) ELSE 0
      OBVIOUS
    <2> HIDE DEF weight, N
    <2> QED  BY <2>1, <2>2
  <1> HIDE DEF weight, N, Adds
  <1>4. step \in [Int \X (1 .. N) -> Int] /\ \A x \in Int, i \in 1 .. N : step[x, i] = x + weight[i]
    <2>1. \A p \in Int \X (1 .. N) : p[1] \in Int /\ p[2] \in 1 .. N
      OBVIOUS
    <2>2. \A p \in Int \X (1 .. N) : p[1] + weight[p[2]] \in Int
      BY <1>2, <2>1
    <2>3. \A x \in Int, i \in 1 .. N :
             <<x, i>> \in Int \X (1 .. N) /\ <<x, i>>[1] = x /\ <<x, i>>[2] = i
      OBVIOUS
    <2> QED  BY <2>2, <2>3
  <1> HIDE DEF step
  <1>5. PICK f \in [0 .. N -> Int] : Follows(f, 0, N, 0, step)
    <2>1. N \in Int /\ 0 <= N /\ 0 \in Int /\ 0 + 1 = 1
      BY <1>1
    <2>2. step \in [Int \X (0 + 1 .. N) -> Int]
      BY <1>4, <2>1
    <2> QED  BY <2>1, <2>2, RecursionExists
  <1>6. Adds(f)
    <2>1. \A i \in 0 .. N : i # 0 => i \in 1 .. N /\ i - 1 \in 0 .. N
      BY <1>1
    <2>2. \A i \in 0 .. N : f[i] = IF i = 0 THEN 0 ELSE f[i - 1] + weight[i]
      BY <1>4, <1>5, <2>1 DEF Follows
    <2> QED  BY <1>3, <2>2
  <1>7. Adds(sum)
    BY <1>6
  <1> HIDE DEF sum
  <1>8. sum[N] \in Int
    <2>1. sum[0] = 0 /\ \A i \in 1 .. N : sum[i] = sum[i - 1] + weight[i]
      BY <1>1, <1>3, <1>7
    <2>2. \A i \in 1 .. N : sum[i - 1] \in Int => sum[i] \in Int
      BY <1>2, <2>1
    <2>3. sum[0] \in Int
      BY <2>1
    <2>4. \A i \in 0 .. N : sum[i] \in Int
      BY <1>1, <2>2, <2>3, RecursionIsInteger
    <2> QED  BY <1>1, <2>4
  <1>9. RRF(lists, id) = sum[N]
    BY DEF RRF, sum, Adds, N
  <1> QED  BY <1>8, <1>9

\* Fusion lists each result once, and only what some list has.
LEMMA FusedIs ==
  ASSUME NEW n \in Nat, NEW lists \in Seq(Seq(1 .. n))
  PROVE  /\ FuseRRF(lists) \in Seq(1 .. n) /\ IsInjective(FuseRRF(lists))
         /\ \A i \in 1 .. Len(FuseRRF(lists)) :
               \E l \in 1 .. Len(lists) : Contains(lists[l], FuseRRF(lists)[i])
  <1> DEFINE ids == UNION {ToSet(lists[l]) : l \in 1 .. Len(lists)}
             before == {p \in ids \X ids :
                          \/ RRF(lists, p[1]) > RRF(lists, p[2])
                          \/ RRF(lists, p[1]) = RRF(lists, p[2]) /\ p[1] < p[2]}
             N == Cardinality(ids)
  <1>1. \A l \in 1 .. Len(lists) : lists[l] \in Seq(1 .. n)
    BY ElementOfSeq
  <1>2. \A l \in 1 .. Len(lists) : /\ DOMAIN lists[l] = 1 .. Len(lists[l])
                                   /\ \A i \in 1 .. Len(lists[l]) : lists[l][i] \in 1 .. n
    BY <1>1, ElementOfSeq, LenProperties
  <1>3. \A id \in ids : id \in 1 .. n /\ \E l \in 1 .. Len(lists) : Contains(lists[l], id)
    BY <1>2 DEF ToSet, Contains
  <1>4. FuseRRF(lists) = Ordered(ids, before)
    BY DEF FuseRRF
  <1>5. \A x, y \in ids : <<x, y>> \in before <=>
            \/ RRF(lists, x) > RRF(lists, y)
            \/ RRF(lists, x) = RRF(lists, y) /\ x < y
    OBVIOUS
  <1> HIDE DEF ids, before
  <1>6. IsFiniteSet(ids)
    <2>1. IsFiniteSet(1 .. n) /\ ids \subseteq 1 .. n
      BY <1>3, FS_Interval
    <2> QED  BY <2>1, FS_Subset
  <1>7. Orders(before, ids)
    <2>1. \A x \in ids : RRF(lists, x) \in Int /\ x \in Int
      BY <1>3, RRFIsInteger
    <2>2. \A x \in ids : <<x, x>> \notin before
      BY <1>5, <2>1
    <2>3. \A x, y \in ids : x # y => <<x, y>> \in before \/ <<y, x>> \in before
      BY <1>5, <2>1
    <2>4. \A x, y, z \in ids : <<x, y>> \in before /\ <<y, z>> \in before => <<x, z>> \in before
      BY <1>5, <2>1
    <2> QED  BY <2>2, <2>3, <2>4 DEF Orders
  <1>8. /\ N \in Nat
        /\ FuseRRF(lists) \in [1 .. N -> ids]
        /\ \A i, j \in 1 .. N : i < j => <<FuseRRF(lists)[i], FuseRRF(lists)[j]>> \in before
    BY <1>4, <1>6, <1>7, OrderedIs
  <1> HIDE DEF N
  <1>9. FuseRRF(lists) \in [1 .. N -> 1 .. n]
    BY <1>3, <1>8
  <1>10. FuseRRF(lists) \in Seq(1 .. n) /\ Len(FuseRRF(lists)) = N
    <2>1. FuseRRF(lists) \in Seq(1 .. n)
      BY <1>8, <1>9
    <2> QED  BY <1>8, <1>9, <2>1, LenProperties
  <1>11. IsInjective(FuseRRF(lists))
    <2>1. ASSUME NEW i \in 1 .. N, NEW j \in 1 .. N, FuseRRF(lists)[i] = FuseRRF(lists)[j]
          PROVE  i = j
      <3>1. ~(i < j) /\ ~(j < i)
        BY <1>7, <1>8, <2>1 DEF Orders
      <3> QED  BY <1>8, <3>1
    <2> QED  BY <1>8, <2>1 DEF IsInjective
  <1> QED  BY <1>3, <1>8, <1>10, <1>11

\* The ask under way is one that a user may start.
Chosen == opts \in Invocations

LEMMA ChosenAlways == CommandSpec => []Chosen
  <1>1. Init => Chosen
    BY PlannerAssumption DEF Init, AskInit, Chosen
  <1>2. Chosen /\ [Next]_vars => Chosen'
    <2> SUFFICES ASSUME Chosen, [Next]_vars PROVE Chosen'
      OBVIOUS
    <2>1. CASE UNCHANGED opts
      BY <2>1 DEF Chosen
    <2>2. CASE BeginAsk
      BY <2>2 DEF BeginAsk, StartAsk, Chosen
    <2> QED
      BY <2>1, <2>2
      DEF Next, vars, asking, Opening, BeginSearch, BeginSplit, BeginEval, End, Asking, Searching, Splitting,
          Evaluating, PressCtrlC, SearchInterrupted, OtherProcesses, Answering, TimeOut, AskStep, PlanQueries,
          PlanReady, RetrieveNext, TakeResults, AskModel, TakeAnswer, FinishAnswer
  <1> QED  BY <1>1, <1>2, PTL DEF CommandSpec

\* The results that are still in the corpus hold no excluded term, and were
\* brought by a leg.
Sifted(s) ==
    \A n \in 1 .. Len(s) : s[n] \in Live =>
        /\ corpus[s[n]].words \cap search.unwanted = {}
        /\ Contains(search.vector, s[n]) \/ corpus[s[n]].words \cap search.wanted # {}

\* What the keyword leg found holds a term that was asked for.
Matched(s) ==
    \A n \in 1 .. Len(s) : s[n] \in Live => corpus[s[n]].words \cap search.wanted # {}

\* The rows of the corpus, whose ids are not used again.
Rows ==
    /\ nextChunk \in 1 .. MaxChunks + 1
    /\ Live \subseteq 1 .. nextChunk - 1
    /\ corpus \in [Live -> Chunk]

SearchShape ==
    search = [at |-> search.at, mode |-> search.mode, wanted |-> search.wanted,
              unwanted |-> search.unwanted, k |-> search.k, ranked |-> search.ranked,
              vector |-> search.vector, keyword |-> search.keyword, found |-> search.found]

Results ==
    /\ Listed(search.ranked) /\ Listed(search.vector)
    /\ Listed(search.keyword) /\ Listed(search.found)

XInv ==
    /\ Rows
    /\ SearchShape /\ search.k \in Nat
    /\ search.at \in {"idle", "embed", "rank", "hydrate", "keyword", "fuse", "found", "failed"}
    /\ Results
    /\ search.at = "fuse" => Matched(search.keyword)
    /\ search.at = "found" /\ search.mode # "vector" => Sifted(search.found)

\* A search is as it was, or starts over; another process changes a document,
\* or the next query of the search is run.
LEMMA SearchMoves ==
    ASSUME Chosen, [Next]_vars
    PROVE  \/ UNCHANGED searching
           \/ search' = NoSearch /\ UNCHANGED <<corpus, nextChunk>>
           \/ \E mode, wanted, unwanted : \E k \in Nat : StartSearch(mode, wanted, unwanted, k)
           \/ Others
           \/ Embedded \/ RankVector \/ HydrateVector \/ KeywordLeg \/ Fuse \/ CancelSearch
  <1>1. opts.topK \in Nat
    BY PlannerAssumption DEF Chosen
  <1>2. CASE UNCHANGED searching
    BY <1>2
  <1>3. CASE BeginSearch
    BY <1>3, CommandAssumption DEF BeginSearch
  <1>4. CASE Asking
    BY <1>1, <1>4 DEF Asking, AskStep, PlanQueries, PlanReady, RetrieveNext, TakeResults, AskModel, TakeAnswer,
        FinishAnswer
  <1>5. CASE Searching
    BY <1>5 DEF Searching, SearchStep
  <1>6. CASE SearchInterrupted
    BY <1>6 DEF SearchInterrupted
  <1>7. CASE OtherProcesses
    BY <1>7 DEF OtherProcesses
  <1> QED
    BY <1>2, <1>3, <1>4, <1>5, <1>6, <1>7
    DEF Next, vars, searching, Opening, BeginAsk, StartAsk, BeginSplit, BeginEval, End, Splitting, Evaluating,
        PressCtrlC, Answering, TimeOut

\* Other processes give out new ids only, and change no row.
LEMMA CorpusChanges ==
    ASSUME XInv, Others
    PROVE  XInv'
  <1> DEFINE n == nextChunk
             Same(i) == i \in Live /\ corpus'[i] = corpus[i]
             Given(i) == i = n /\ nextChunk' = n + 1 /\ corpus'[i] \in Chunk
  <1>1. n \in Nat \ {0} /\ n <= MaxChunks + 1 /\ MaxChunks \in Nat /\ search' = search
    BY SearchAssumption DEF XInv, Rows, Others, Deleted, Reindexed
  <1>2. \A d \in Docs : /\ DOMAIN Without(d) \subseteq Live
                        /\ \A i \in DOMAIN Without(d) : Without(d)[i] = corpus[i]
    BY DEF Without
  <1>3. /\ nextChunk' \in n .. MaxChunks + 1
        /\ corpus' = [i \in Live' |-> corpus'[i]]
        /\ \A i \in Live' : Same(i) \/ Given(i)
    <2>1. ASSUME NEW d \in Docs, Deleted(d)
          PROVE  /\ nextChunk' \in n .. MaxChunks + 1
                 /\ corpus' = [i \in Live' |-> corpus'[i]]
                 /\ \A i \in Live' : Same(i) \/ Given(i)
      <3>1. nextChunk' = n /\ corpus' = Without(d)
        BY <2>1 DEF Deleted
      <3>2. corpus' = [i \in Live' |-> corpus'[i]]
        BY <3>1 DEF Without, Live
      <3> QED  BY <1>1, <1>2, <3>1, <3>2 DEF Live
    <2>2. ASSUME NEW d \in Docs, NEW words \in Bodies, NEW dim \in Dims, Reindexed(d, words, dim)
          PROVE  /\ nextChunk' \in n .. MaxChunks + 1
                 /\ corpus' = [i \in Live' |-> corpus'[i]]
                 /\ \A i \in Live' : Same(i) \/ Given(i)
      <3> DEFINE new == [doc |-> d, words |-> words, dim |-> dim]
      <3>1. /\ nextChunk' = n + 1 /\ n <= MaxChunks /\ new \in Chunk
            /\ corpus' = [i \in DOMAIN Without(d) \cup {n} |-> IF i = n THEN new ELSE corpus[i]]
        BY <2>2 DEF Reindexed, Chunk
      <3> HIDE DEF new
      <3>2. Live' = DOMAIN Without(d) \cup {n}
        BY <3>1 DEF Live
      <3>3. corpus' = [i \in Live' |-> corpus'[i]]
        BY <3>1, <3>2
      <3>4. \A i \in Live' : corpus'[i] = IF i = n THEN new ELSE corpus[i]
        BY <3>1, <3>2
      <3>5. \A i \in Live' : Same(i) \/ Given(i)
        BY <1>2, <3>1, <3>2, <3>4
      <3> QED  BY <1>1, <3>1, <3>3, <3>5
    <2> QED  BY <2>1, <2>2 DEF Others
  <1>4. Rows'
    <2>1. \A i \in Live' : corpus'[i] \in Chunk /\ i \in 1 .. nextChunk' - 1
      BY <1>1, <1>3 DEF XInv, Rows
    <2>2. nextChunk' \in 1 .. MaxChunks + 1
      BY <1>1, <1>3
    <2>3. corpus' \in [Live' -> Chunk]
      BY <1>3, <2>1
    <2> QED  BY <2>1, <2>2, <2>3 DEF Rows
  <1>5. \A s : Listed(s) => Listed(s)' /\ \A i \in 1 .. Len(s) : s[i] \in Live' => Same(s[i])
    <2> SUFFICES ASSUME NEW s, Listed(s)
                 PROVE  Listed(s)' /\ \A i \in 1 .. Len(s) : s[i] \in Live' => Same(s[i])
      OBVIOUS
    <2>1. 1 .. n - 1 \subseteq 1 .. nextChunk' - 1
      BY <1>1, <1>3
    <2>2. s \in Seq(1 .. nextChunk' - 1)
      BY <2>1, SeqMonotonic DEF Listed
    <2>3. \A i \in 1 .. Len(s) : s[i] # n
      BY <1>1, ElementOfSeq DEF Listed
    <2> QED  BY <1>3, <2>2, <2>3 DEF Listed
  <1> HIDE DEF Same, Given
  <1>6. Results'
    BY <1>1, <1>5 DEF XInv, Results
  <1>7. (search.at = "fuse" => Matched(search.keyword))'
    BY <1>1, <1>5 DEF XInv, Results, Matched, Same
  <1>8. (search.at = "found" /\ search.mode # "vector" => Sifted(search.found))'
    BY <1>1, <1>5 DEF XInv, Results, Sifted, Same
  <1> QED  BY <1>1, <1>4, <1>6, <1>7, <1>8 DEF XInv, SearchShape

\* A list that any ranking gives.
LEMMA RankedIs ==
  ASSUME Rows, NEW S \in SUBSET Live, NEW k \in Nat, NEW r \in Rankings(S, k)
  PROVE  Listed(r) /\ \A i \in 1 .. Len(r) : r[i] \in S
  <1>1. IsFiniteSet(S) /\ Cardinality(S) \in Nat
    <2>1. nextChunk - 1 \in Int
      BY SearchAssumption DEF Rows
    <2>2. IsFiniteSet(1 .. nextChunk - 1) /\ S \subseteq 1 .. nextChunk - 1
      BY <2>1, FS_Interval DEF Rows
    <2> QED  BY <2>2, FS_Subset, FS_CardinalityType
  <1> DEFINE m == Least(k, Cardinality(S))
  <1>2. m \in Nat
    BY <1>1 DEF Least
  <1>3. r \in [1 .. m -> S] /\ IsInjective(r)
    BY DEF Rankings
  <1> HIDE DEF m
  <1>4. \A i \in 1 .. m : r[i] \in S /\ r[i] \in 1 .. nextChunk - 1
    BY <1>3 DEF Rows
  <1>5. r \in Seq(1 .. nextChunk - 1) /\ Len(r) = m
    <2> DEFINE T == 1 .. nextChunk - 1
    <2>1. r \in [1 .. m -> T]
      BY <1>3, <1>4
    <2> HIDE DEF T
    <2>2. r \in Seq(T)
      BY <1>2, <2>1
    <2>3. Len(r) = m
      BY <1>2, <2>1, <2>2, LenProperties
    <2> QED  BY <2>2, <2>3 DEF T
  <1> QED  BY <1>3, <1>4, <1>5 DEF Listed

LEMMA NothingListed == Listed(<<>>)
  BY EmptySeq DEF Listed, IsInjective

\* The corpus stays: what is listed stays listed, and what the search keeps to.
LEMMA SearchOnly ==
    ASSUME UNCHANGED <<corpus, nextChunk>>
    PROVE  /\ Rows' <=> Rows
           /\ \A s : Listed(s)' <=> Listed(s)
           /\ \A s : Matched(s)' <=>
                 \A n \in 1 .. Len(s) : s[n] \in Live => corpus[s[n]].words \cap search'.wanted # {}
           /\ \A s : Sifted(s)' <=>
                 \A n \in 1 .. Len(s) : s[n] \in Live =>
                     /\ corpus[s[n]].words \cap search'.unwanted = {}
                     /\ Contains(search'.vector, s[n]) \/ corpus[s[n]].words \cap search'.wanted # {}
  BY DEF Rows, Listed, Matched, Sifted, Live

LEMMA SearchStarts ==
    ASSUME XInv, UNCHANGED <<corpus, nextChunk>>,
           NEW mode, NEW wanted, NEW unwanted, NEW k \in Nat,
           search' = NoSearch \/ StartSearch(mode, wanted, unwanted, k)
    PROVE  XInv'
  <1>1. /\ SearchShape' /\ search'.k \in Nat
        /\ search'.at \in {"idle", "embed", "hydrate", "keyword"}
        /\ search'.ranked = <<>> /\ search'.vector = <<>> /\ search'.keyword = <<>> /\ search'.found = <<>>
    <2>1. CASE search' = NoSearch
      BY <2>1 DEF NoSearch, SearchShape
    <2>2. ASSUME NEW at \in {"embed", "hydrate", "keyword"},
                 search' = [NoSearch EXCEPT !.at = at, !.mode = mode, !.wanted = wanted,
                               !.unwanted = unwanted, !.k = k]
          PROVE  /\ SearchShape' /\ search'.k \in Nat /\ search'.at = at
                 /\ search'.ranked = <<>> /\ search'.vector = <<>>
                 /\ search'.keyword = <<>> /\ search'.found = <<>>
      BY <2>2 DEF NoSearch, SearchShape
    <2> QED  BY <2>1, <2>2 DEF StartSearch
  <1>2. Results'
    BY <1>1, NothingListed, SearchOnly DEF Results
  <1> QED  BY <1>1, <1>2, SearchOnly DEF XInv

\* The query's vector, the ranking by it, and the end of a search that fails.
LEMMA RankStep ==
    ASSUME XInv, Embedded \/ RankVector \/ CancelSearch
    PROVE  XInv'
  <1>1. corpus' = corpus /\ nextChunk' = nextChunk
    BY DEF Embedded, RankVector, CancelSearch, searching
  <1>2. CASE UNCHANGED searching
    BY <1>2, SearchOnly DEF searching, XInv, SearchShape, Results, Matched, Sifted
  <1>3. ASSUME NEW at \in {"rank", "failed"}, search' = [search EXCEPT !.at = at]
        PROVE  XInv'
    <2>1. SearchShape' /\ search'.at = at /\ search'.k = search.k /\ UNCHANGED <<search.ranked, search.vector,
              search.keyword, search.found>>
      BY <1>3 DEF XInv, SearchShape
    <2>2. Results'
      BY <1>1, <2>1, SearchOnly DEF XInv, Results
    <2> QED  BY <1>1, <2>1, <2>2, SearchOnly DEF XInv
  <1>4. ASSUME NEW r \in Rankings(Live, Depth), search' = [search EXCEPT !.at = "hydrate", !.ranked = r]
        PROVE  XInv'
    <2>1. SearchShape' /\ search'.at = "hydrate" /\ search'.k = search.k /\ search'.ranked = r
          /\ UNCHANGED <<search.vector, search.keyword, search.found>>
      BY <1>4 DEF XInv, SearchShape
    <2>2. Depth \in Nat
      BY DEF XInv, Depth
    <2>3. Results'
      BY <1>1, <2>1, <2>2, RankedIs, SearchOnly DEF XInv, Results
    <2> QED  BY <1>1, <2>1, <2>3, SearchOnly DEF XInv
  <1> QED  BY <1>2, <1>3, <1>4 DEF Embedded, RankVector, CancelSearch

LEMMA HydrateStep ==
    ASSUME XInv, HydrateVector
    PROVE  XInv'
  <1>1. corpus' = corpus /\ nextChunk' = nextChunk
    BY DEF HydrateVector
  <1> DEFINE places == {n \in 1 .. Len(search.ranked) : search.ranked[n] \in Live}
             vector == AtPlaces(search.ranked, places)
  <1>2. Listed(vector)
    BY FilteredIs DEF XInv, Results, Listed
  <1>3. \/ search.mode = "vector" /\ search' = [search EXCEPT !.at = "found", !.ranked = <<>>, !.found = vector]
        \/ search' = [search EXCEPT !.at = "keyword", !.ranked = <<>>, !.vector = vector]
    BY DEF HydrateVector
  <1> HIDE DEF vector
  <1>4. CASE search.mode = "vector" /\ search' = [search EXCEPT !.at = "found", !.ranked = <<>>, !.found = vector]
    <2>1. SearchShape' /\ search'.at = "found" /\ search'.k = search.k /\ search'.ranked = <<>>
          /\ search'.found = vector /\ search'.mode = "vector" /\ UNCHANGED <<search.vector, search.keyword>>
      BY <1>4 DEF XInv, SearchShape
    <2>2. Results'
      BY <1>1, <1>2, <2>1, NothingListed, SearchOnly DEF XInv, Results
    <2> QED  BY <1>1, <2>1, <2>2, SearchOnly DEF XInv
  <1>5. CASE search' = [search EXCEPT !.at = "keyword", !.ranked = <<>>, !.vector = vector]
    <2>1. SearchShape' /\ search'.at = "keyword" /\ search'.k = search.k /\ search'.ranked = <<>>
          /\ search'.vector = vector /\ UNCHANGED <<search.found, search.keyword>>
      BY <1>5 DEF XInv, SearchShape
    <2>2. Results'
      BY <1>1, <1>2, <2>1, NothingListed, SearchOnly DEF XInv, Results
    <2> QED  BY <1>1, <2>1, <2>2, SearchOnly DEF XInv
  <1> QED  BY <1>3, <1>4, <1>5

LEMMA KeywordStep ==
    ASSUME XInv, KeywordLeg
    PROVE  XInv'
  <1>1. corpus' = corpus /\ nextChunk' = nextChunk
    BY DEF KeywordLeg
  <1> DEFINE S == Matching(search.wanted) \ Excluded(search.unwanted)
  <1>2. PICK r \in Rankings(S, Depth) :
            \/ search.mode = "keyword" /\ search' = [search EXCEPT !.at = "found", !.found = r]
            \/ search' = [search EXCEPT !.at = "fuse", !.keyword = r]
    BY DEF KeywordLeg
  <1>3. S \in SUBSET Live /\ Depth \in Nat
    BY DEF Matching, XInv, Depth
  <1>4. Listed(r) /\ \A i \in 1 .. Len(r) : r[i] \in S
    BY <1>2, <1>3, RankedIs DEF XInv
  <1>5. \A i \in 1 .. Len(r) : /\ corpus[r[i]].words \cap search.wanted # {}
                               /\ corpus[r[i]].words \cap search.unwanted = {}
    BY <1>3, <1>4 DEF Matching, Excluded
  <1> HIDE DEF S
  <1>6. CASE search' = [search EXCEPT !.at = "found", !.found = r]
    <2>1. SearchShape' /\ search'.at = "found" /\ search'.found = r
          /\ UNCHANGED <<search.k, search.ranked, search.vector, search.keyword, search.wanted, search.unwanted>>
      BY <1>6 DEF XInv, SearchShape
    <2>2. Results'
      BY <1>1, <1>4, <2>1, SearchOnly DEF XInv, Results
    <2>3. Sifted(search.found)'
      BY <1>1, <1>5, <2>1, SearchOnly
    <2> QED  BY <1>1, <2>1, <2>2, <2>3, SearchOnly DEF XInv
  <1>7. CASE search' = [search EXCEPT !.at = "fuse", !.keyword = r]
    <2>1. SearchShape' /\ search'.at = "fuse" /\ search'.keyword = r
          /\ UNCHANGED <<search.k, search.ranked, search.vector, search.found, search.wanted, search.unwanted>>
      BY <1>7 DEF XInv, SearchShape
    <2>2. Results'
      BY <1>1, <1>4, <2>1, SearchOnly DEF XInv, Results
    <2>3. Matched(search.keyword)'
      BY <1>1, <1>5, <2>1, SearchOnly
    <2> QED  BY <1>1, <2>1, <2>2, <2>3, SearchOnly DEF XInv
  <1> QED  BY <1>2, <1>6, <1>7

\* Fusing brings back excluded chunks, which are put out before the cut.
LEMMA FuseStep ==
    ASSUME XInv, Fuse
    PROVE  XInv'
  <1>1. corpus' = corpus /\ nextChunk' = nextChunk /\ search.at = "fuse"
    BY DEF Fuse
  <1> DEFINE n == nextChunk - 1
             lists == <<search.vector, search.keyword>>
             fused == FuseRRF(lists)
             places == {i \in 1 .. Len(fused) : fused[i] \notin Excluded(search.unwanted)}
             kept == AtPlaces(fused, places)
             found == First(search.k, kept)
  <1>2. search' = [search EXCEPT !.at = "found", !.found = found]
    BY DEF Fuse, Kept
  <1>3. n \in Nat /\ lists \in Seq(Seq(1 .. n)) /\ Len(lists) = 2
        /\ lists[1] = search.vector /\ lists[2] = search.keyword
    BY SearchAssumption DEF XInv, Rows, Results, Listed
  <1> HIDE DEF lists
  <1>4. /\ fused \in Seq(1 .. n) /\ IsInjective(fused)
        /\ \A i \in 1 .. Len(fused) : Contains(search.vector, fused[i]) \/ Contains(search.keyword, fused[i])
    <2>1. /\ fused \in Seq(1 .. n) /\ IsInjective(fused)
          /\ \A i \in 1 .. Len(fused) : \E l \in 1 .. Len(lists) : Contains(lists[l], fused[i])
      BY <1>3, FusedIs
    <2>2. \A l \in 1 .. Len(lists) : l = 1 \/ l = 2
      BY <1>3
    <2> QED  BY <1>3, <2>1, <2>2
  <1> HIDE DEF fused
  <1> DEFINE Left == {fused[p] : p \in places}
             T == 1 .. n
  <1>5. kept \in Seq(T) /\ IsInjective(kept) /\ kept \in Seq(Left)
    <2>1. places \subseteq 1 .. Len(fused)
      OBVIOUS
    <2>2. fused \in Seq(T) /\ IsInjective(fused)
      BY <1>4
    <2> HIDE DEF places, T
    <2>3. kept \in Seq(T)
      BY <2>1, <2>2, FilteredIs
    <2>4. IsInjective(kept)
      BY <2>1, <2>2, FilteredIs
    <2>5. kept \in Seq(Left)
      BY <2>1, <2>2, FilteredHas
    <2> HIDE DEF kept, Left
    <2> QED  BY <2>3, <2>4, <2>5
  <1> HIDE DEF kept, Left, T
  <1>6. found \in Seq(T) /\ IsInjective(found) /\ found \in Seq(Left)
    <2>1. search.k \in Nat
      BY DEF XInv
    <2>2. found \in Seq(T)
      BY <1>5, <2>1, FirstIs
    <2>3. found \in Seq(Left)
      BY <1>5, <2>1, FirstIs
    <2>4. IsInjective(found)
      BY <1>5, <2>1, FirstIs
    <2> HIDE DEF found
    <2> QED  BY <2>2, <2>3, <2>4
  <1> HIDE DEF found, n
  <1>7. ASSUME NEW i \in 1 .. Len(found), found[i] \in Live
        PROVE  /\ corpus[found[i]].words \cap search.unwanted = {}
               /\ \/ Contains(search.vector, found[i])
                  \/ corpus[found[i]].words \cap search.wanted # {}
    <2>1. PICK p \in places : found[i] = fused[p]
      <3>1. found[i] \in Left
        BY <1>6, ElementOfSeq
      <3> QED  BY <3>1 DEF Left
    <2>2. found[i] \notin Excluded(search.unwanted)
      BY <2>1
    <2>3. corpus[found[i]].words \cap search.unwanted = {}
      BY <1>7, <2>2 DEF Excluded, Matching
    <2>4. ASSUME Contains(search.keyword, found[i])
          PROVE  corpus[found[i]].words \cap search.wanted # {}
      BY <1>1, <1>7, <2>4 DEF XInv, Matched, Contains
    <2>5. Contains(search.vector, found[i]) \/ Contains(search.keyword, found[i])
      BY <1>4, <2>1
    <2> QED  BY <2>3, <2>4, <2>5
  <1>8. SearchShape' /\ search'.at = "found" /\ search'.found = found
        /\ UNCHANGED <<search.k, search.ranked, search.vector, search.keyword, search.wanted, search.unwanted>>
    BY <1>2 DEF XInv, SearchShape
  <1>9. Results'
    BY <1>1, <1>6, <1>8, SearchOnly DEF XInv, Results, Listed, T, n
  <1>10. Sifted(search.found)'
    BY <1>1, <1>7, <1>8, SearchOnly
  <1> QED  BY <1>1, <1>8, <1>9, <1>10, SearchOnly DEF XInv

\* The corpus a run starts with is numbered from 1.
LEMMA SearchInitInv == SearchInit => XInv
  <1> SUFFICES ASSUME SearchInit PROVE XInv
    OBVIOUS
  <1>1. PICK stored \in Corpora : corpus = SetToSeq(stored) /\ nextChunk = Cardinality(stored) + 1
    BY DEF SearchInit
  <1>2. /\ IsFiniteSet(stored) /\ Cardinality(stored) \in Nat /\ Cardinality(stored) <= MaxChunks
        /\ stored \subseteq Chunk /\ MaxChunks \in Nat
    BY <1>1, SearchAssumption, FS_CardinalityType DEF Chunk
  <1> DEFINE N == Cardinality(stored)
  <1>3. corpus \in [1 .. N -> stored]
    <2>1. \E f \in [1 .. N -> stored] : IsInjective(f)
      <3>1. ExistsBijection(1 .. N, stored)
        BY <1>2, FS_CardinalityType
      <3> QED  BY <3>1 DEF ExistsBijection, Bijection, Injection
    <2> HIDE DEF N
    <2>2. corpus = CHOOSE f \in [1 .. N -> stored] : IsInjective(f)
      BY <1>1 DEF SetToSeq, N
    <2> QED  BY <2>1, <2>2
  <1> HIDE DEF N
  <1>4. Rows
    <2>1. nextChunk \in 1 .. MaxChunks + 1 /\ nextChunk - 1 = N
      BY <1>1, <1>2 DEF N
    <2>2. Live = 1 .. N /\ corpus \in [1 .. N -> Chunk]
      BY <1>2, <1>3 DEF Live
    <2> QED  BY <2>1, <2>2 DEF Rows
  <1>5. search = NoSearch
    BY DEF SearchInit
  <1>6. Results
    BY <1>5, NothingListed DEF NoSearch, Results
  <1> QED  BY <1>4, <1>5, <1>6 DEF XInv, NoSearch, SearchShape

\* Whatever corpus a run starts with, and whatever is searched, replaced and
\* deleted in whatever order, the strengthened invariant of the search holds.
THEOREM SearchInvariance == CommandSpec => []XInv
  <1>1. Init => XInv
    BY SearchInitInv DEF Init
  <1>2. Chosen /\ XInv /\ [Next]_vars => XInv'
    <2> SUFFICES ASSUME Chosen, XInv, [Next]_vars PROVE XInv'
      OBVIOUS
    <2>1. CASE UNCHANGED searching
      BY <2>1, SearchOnly DEF searching, XInv, SearchShape, Results, Matched, Sifted
    <2>2. CASE search' = NoSearch /\ UNCHANGED <<corpus, nextChunk>>
      <3>1. 0 \in Nat
        OBVIOUS
      <3> QED  BY <2>2, <3>1, SearchStarts
    <2>3. ASSUME NEW mode, NEW wanted, NEW unwanted, NEW k \in Nat, StartSearch(mode, wanted, unwanted, k)
          PROVE  XInv'
      <3>1. UNCHANGED <<corpus, nextChunk>>
        BY <2>3 DEF StartSearch
      <3> QED  BY <2>3, <3>1, SearchStarts
    <2> QED
      BY <2>1, <2>2, <2>3, SearchMoves, CorpusChanges, RankStep, HydrateStep, KeywordStep, FuseStep
  <1> QED  BY <1>1, <1>2, ChosenAlways, PTL DEF CommandSpec

\* What a hybrid or keyword search returns and is still in the corpus holds
\* no excluded term and was found by a leg, whatever other processes replace
\* and delete between its queries: ids are not used again, so a row is either
\* gone or what it was when the exclusions were read (hybrid.go:25-45).
THEOREM ExcludedStaysOutAlways == CommandSpec => []ExcludedStaysOut
  <1>1. XInv => ExcludedStaysOut
    <2> SUFFICES ASSUME XInv, search.at = "found", search.mode # "vector",
                        NEW i \in ToSet(search.found) \cap Live
                 PROVE  /\ corpus[i].words \cap search.unwanted = {}
                        /\ Contains(search.vector, i) \/ corpus[i].words \cap search.wanted # {}
      BY DEF ExcludedStaysOut
    <2>1. DOMAIN search.found = 1 .. Len(search.found)
      BY LenProperties DEF XInv, Results, Listed
    <2> QED  BY <2>1 DEF XInv, Sifted, ToSet
  <1> QED  BY <1>1, SearchInvariance, PTL

-----------------------------------------------------------------------------
(* The answer *)

answer == call["answer"]

\* The stream ended by itself, with a last token or without.
EndedWhole == answer.at = "closed" /\ answer.ending \in {"stop", "silent"}

\* The ask is a record of its locals, the calls are calls.
Shape ==
    /\ call \in [Calls -> Call]
    /\ interrupted \in BOOLEAN
    /\ ask = [at |-> ask.at, queries |-> ask.queries, lists |-> ask.lists, chunks |-> ask.chunks,
              prompt |-> ask.prompt, heard |-> ask.heard, outcome |-> ask.outcome]

\* Until Ctrl-C, the answer's stream is only ended by its provider: nothing
\* else cancels its context before the ask returns.
Attended ==
    /\ ask.at = "answer" /\ ~interrupted =>
        /\ ~answer.cancelled
        /\ answer.at = "offer" /\ answer.token = "done" => answer.ending = "stop"
        /\ answer.at = "closed" => EndedWhole
    /\ ask.at = "finish" /\ ~interrupted => EndedWhole

Recorded ==
    ask.outcome = "recorded" => ask.at = "ended" /\ ask.heard /\ EndedWhole

AInv == Shape /\ Attended /\ Recorded

\* A step that leaves the ask, its call and the context alone changes nothing.
LEMMA Elsewhere ==
    ASSUME AInv, UNCHANGED <<ask, answer, interrupted>>, call' \in [Calls -> Call]
    PROVE  AInv'
  BY DEF AInv, Shape, Attended, Recorded, EndedWhole

\* Every step on a call replaces its record.
Replaced(c, r) == call' = [call EXCEPT ![c] = r]

LEMMA ReplacedIsTyped ==
    ASSUME Shape, NEW c \in Calls, NEW r \in Call, Replaced(c, r)
    PROVE  /\ call' \in [Calls -> Call]
           /\ call'[c] = r
           /\ \A d \in Calls : d # c => call'[d] = call[d]
  BY DEF Shape, Replaced

\* What Chat, Cancel and Received put there is a call.
LEMMA CallsMade ==
    ASSUME Shape, NEW c \in Calls
    PROVE  /\ [NoCall EXCEPT !.at = "request", !.cancelled = interrupted] \in Call
           /\ [call[c] EXCEPT !.cancelled = TRUE] \in Call
           /\ Received(c) \in Call
           /\ [Received(c) EXCEPT !.cancelled = TRUE] \in Call
           /\ \A token \in {"text", "thinking", "done", "error"}, ending \in {"open", "stop", "failed"} :
                 Offering(c, token, ending) \in Call
  <1>1. call[c] \in Call /\ interrupted \in BOOLEAN
    BY DEF Shape
  <1>2. [NoCall EXCEPT !.at = "request", !.cancelled = interrupted] \in Call
    BY <1>1 DEF NoCall, Call
  <1>3. [call[c] EXCEPT !.cancelled = TRUE] \in Call
    BY <1>1 DEF Call
  <1>4. Received(c) \in Call
    BY <1>1 DEF Received, Call
  <1>5. [Received(c) EXCEPT !.cancelled = TRUE] \in Call
    BY <1>4 DEF Call
  <1>6. \A token \in {"text", "thinking", "done", "error"}, ending \in {"open", "stop", "failed"} :
            Offering(c, token, ending) \in Call
    BY <1>1 DEF Offering, Call
  <1> QED  BY <1>2, <1>3, <1>4, <1>5, <1>6

\* The planner makes, hears and ends calls of its own.
LEMMA PlannerStep ==
    ASSUME Shape, PlanStep \/ \E c \in Calls : Deadline(c)
    PROVE  call' \in [Calls -> Call] /\ answer' = answer /\ interrupted' = interrupted
  <1>1. {"condense", "expand", "answer"} \subseteq Calls
    BY AskAssumption
  <1> DEFINE Own == call' = call \/ \E c \in Calls \ {"answer"}, r \in Call : Replaced(c, r)
  <1>2. SUFFICES Own /\ interrupted' = interrupted
    BY <1>1, ReplacedIsTyped DEF Shape, answer
  <1>3. CASE StartPlan
    <2>1. call' = call \/ Chat("condense")
      BY <1>3 DEF StartPlan
    <2> QED  BY <1>1, <1>3, <2>1, CallsMade DEF StartPlan, Chat, Replaced
  <1>4. CASE StartExpand
    BY <1>1, <1>4, CallsMade DEF StartExpand, Chat, Replaced
  <1>5. ASSUME NEW c \in Calls, TakeToken(c)
        PROVE  Own /\ interrupted' = interrupted
    <2>1. c # "answer"
      BY <1>5 DEF TakeToken, Calling
    <2>2. Replaced(c, Received(c)) \/ Replaced(c, [Received(c) EXCEPT !.cancelled = TRUE])
      BY <1>5 DEF TakeToken, Replaced
    <2>3. interrupted' = interrupted
      BY <1>5 DEF TakeToken
    <2> QED  BY <2>1, <2>2, <2>3, CallsMade
  <1>6. ASSUME NEW c \in Calls, SeeClosed(c) \/ GiveUpCall(c) \/ Deadline(c)
        PROVE  Own /\ interrupted' = interrupted
    <2>1. c # "answer" /\ Cancel(c) /\ interrupted' = interrupted
      BY <1>6 DEF SeeClosed, GiveUpCall, Deadline, Calling
    <2>2. Replaced(c, [call[c] EXCEPT !.cancelled = TRUE])
      BY <2>1 DEF Cancel, Replaced, Shape
    <2> QED  BY <2>1, <2>2, CallsMade
  <1> QED  BY <1>3, <1>4, <1>5, <1>6 DEF PlanStep

\* What the provider and the goroutine of a call may make of its record.
LEMMA StreamMoves ==
    ASSUME Shape, NEW c \in Calls, Provider(c) \/ Interrupt(c) \/ Yield(c)
    PROVE  \E r \in Call :
              /\ Replaced(c, r)
              /\ call[c].at \in {"request", "read"} \/ (call[c].at = "offer" /\ call[c].cancelled)
              /\ r.cancelled <=> call[c].cancelled
              /\ r.at = "offer" /\ r.token = "done" => r.ending = "stop"
              /\ r.at = "closed" /\ ~call[c].cancelled => r.ending = "silent"
  <1> DEFINE Sound(r) ==
              /\ call[c].at \in {"request", "read"} \/ (call[c].at = "offer" /\ call[c].cancelled)
              /\ r.cancelled <=> call[c].cancelled
              /\ r.at = "offer" /\ r.token = "done" => r.ending = "stop"
              /\ r.at = "closed" /\ ~call[c].cancelled => r.ending = "silent"
  <1> SUFFICES \E r \in Call : Replaced(c, r) /\ Sound(r)
    OBVIOUS
  <1>0. call[c] \in Call /\ call \in [Calls -> Call]
    BY DEF Shape
  <1>1. CASE Accepted(c)
    <2> DEFINE r == [call[c] EXCEPT !.at = "read"]
    <2>1. r \in Call
      BY <1>0 DEF Call
    <2>2. Replaced(c, r)
      BY <1>0, <1>1 DEF Accepted, Replaced, Call
    <2>3. Sound(r)
      BY <1>0, <1>1 DEF Accepted, Call
    <2> QED  BY <2>1, <2>2, <2>3
  <1>2. CASE Refused(c)
    <2> DEFINE r == [call[c] EXCEPT !.at = "refused", !.ending = "failed"]
    <2>1. r \in Call
      BY <1>0 DEF Call
    <2>2. Replaced(c, r)
      BY <1>0, <1>2 DEF Refused, Replaced, Call
    <2>3. Sound(r)
      BY <1>0, <1>2 DEF Refused, Call
    <2> QED  BY <2>1, <2>2, <2>3
  <1>3. ASSUME NEW token \in {"text", "thinking", "done", "error"},
               NEW ending \in {"open", "stop", "failed"}, token = "done" => ending = "stop",
               call[c].at = "read", call' = [call EXCEPT ![c] = Offering(c, token, ending)]
        PROVE  \E r \in Call : Replaced(c, r) /\ Sound(r)
    <2>1. Offering(c, token, ending) \in Call
      BY CallsMade
    <2>2. Replaced(c, Offering(c, token, ending))
      BY <1>3 DEF Replaced
    <2>3. Sound(Offering(c, token, ending))
      BY <1>0, <1>3 DEF Offering, Call
    <2> QED  BY <2>1, <2>2, <2>3
  <1>4. CASE ReadText(c) \/ ReadThinking(c) \/ ReadStop(c) \/ ReadError(c)
    BY <1>3, <1>4 DEF ReadText, ReadThinking, ReadStop, ReadError
  <1>5. CASE ReadNothing(c)
    <2> DEFINE r == [call[c] EXCEPT !.at = "closed", !.ending = "silent"]
    <2>1. r \in Call
      BY <1>0 DEF Call
    <2>2. Replaced(c, r)
      BY <1>0, <1>5 DEF ReadNothing, Replaced, Call
    <2>3. Sound(r)
      BY <1>0, <1>5 DEF ReadNothing, Call
    <2> QED  BY <2>1, <2>2, <2>3
  <1>6. CASE Yield(c)
    <2> DEFINE r == [call[c] EXCEPT !.at = "closed", !.token = "none",
                        !.ending = IF @ = "open" THEN "cut" ELSE @]
    <2>1. r \in Call
      BY <1>0 DEF Call
    <2>2. Replaced(c, r)
      BY <1>0, <1>6 DEF Yield, Replaced, Call
    <2>3. Sound(r)
      <3>1. call[c].at = "offer" /\ call[c].cancelled
        BY <1>6 DEF Yield
      <3>2. r.at = "closed"
        BY <1>0 DEF Call
      <3>3. r.cancelled <=> call[c].cancelled
        BY <1>0 DEF Call
      <3> QED  BY <3>1, <3>2, <3>3
    <2> QED  BY <2>1, <2>2, <2>3
  <1> QED  BY <1>1, <1>2, <1>4, <1>5, <1>6 DEF Provider, Interrupt

LEMMA StreamStep ==
    ASSUME AInv, NEW c \in Calls, Provider(c) \/ Interrupt(c) \/ Yield(c),
           UNCHANGED <<ask, interrupted>>
    PROVE  AInv'
  <1>1. "answer" \in Calls
    BY AskAssumption
  <1>2. PICK r \in Call :
              /\ Replaced(c, r)
              /\ call[c].at \in {"request", "read"} \/ (call[c].at = "offer" /\ call[c].cancelled)
              /\ r.cancelled <=> call[c].cancelled
              /\ r.at = "offer" /\ r.token = "done" => r.ending = "stop"
              /\ r.at = "closed" /\ ~call[c].cancelled => r.ending = "silent"
    BY StreamMoves DEF AInv
  <1>3. call' \in [Calls -> Call] /\ call'[c] = r /\ \A d \in Calls : d # c => call'[d] = call[d]
    BY <1>2, ReplacedIsTyped DEF AInv
  <1>4. CASE c # "answer"
    BY <1>1, <1>3, <1>4, Elsewhere DEF answer
  <1>5. CASE c = "answer"
    <2>1. ask.outcome # "recorded" /\ (ask.at = "finish" => interrupted)
      BY <1>2, <1>5 DEF AInv, Recorded, Attended, EndedWhole, answer
    <2>2. Shape' /\ Recorded'
      BY <1>3, <2>1 DEF AInv, Shape, Recorded
    <2>3. Attended'
      BY <1>2, <1>3, <1>5, <2>1 DEF AInv, Attended, EndedWhole, answer
    <2> QED  BY <2>2, <2>3 DEF AInv
  <1> QED  BY <1>4, <1>5

LEMMA CancelIsTyped ==
    ASSUME Shape, NEW c \in Calls, Cancel(c)
    PROVE  /\ call' \in [Calls -> Call]
           /\ call'[c] = [call[c] EXCEPT !.cancelled = TRUE]
  <1>1. Replaced(c, [call[c] EXCEPT !.cancelled = TRUE])
    BY DEF Cancel, Replaced, Shape
  <1> QED  BY <1>1, CallsMade, ReplacedIsTyped

\* RunAsk returns, with a turn recorded only if the answer is whole.
LEMMA ReturnStep ==
    ASSUME AInv, NEW outcome, Return(outcome), interrupted' = interrupted,
           outcome = "recorded" => ask.heard /\ EndedWhole
    PROVE  AInv'
  <1>1. "answer" \in Calls
    BY AskAssumption
  <1>2. call' \in [Calls -> Call] /\ answer' = [answer EXCEPT !.cancelled = TRUE]
    BY <1>1, CancelIsTyped DEF AInv, Return, answer
  <1>3. ask' = [ask EXCEPT !.at = "ended", !.outcome = outcome]
    BY DEF Return
  <1>4. ask'.at = "ended" /\ ask'.outcome = outcome /\ ask'.heard = ask.heard
    BY <1>3 DEF AInv, Shape
  <1>5. Shape'
    BY <1>2, <1>3 DEF AInv, Shape
  <1>6. EndedWhole => EndedWhole'
    BY <1>1, <1>2 DEF AInv, Shape, Call, EndedWhole, answer
  <1>7. Attended' /\ Recorded'
    BY <1>4, <1>6 DEF Attended, Recorded
  <1> QED  BY <1>5, <1>7 DEF AInv

LEMMA AskModelStep ==
    ASSUME AInv, AskModel
    PROVE  AInv'
  <1>1. "answer" \in Calls /\ interrupted' = interrupted
    BY AskAssumption DEF AskModel
  <1> DEFINE budgeted == Budgeted(Retrieved)
             ready == [NoAsk EXCEPT !.chunks = budgeted, !.prompt = PromptFor(budgeted)]
  <1>2. \/ \E outcome \in {"no context", "overflow"} :
              ask' = [ready EXCEPT !.at = "ended", !.outcome = outcome] /\ Cancel("answer")
        \/ ask' = [ready EXCEPT !.at = "answer"] /\ Chat("answer")
    BY DEF AskModel
  <1> HIDE DEF budgeted
  <1>3. CASE ask' = [ready EXCEPT !.at = "answer"] /\ Chat("answer")
    <2>1. Replaced("answer", [NoCall EXCEPT !.at = "request", !.cancelled = interrupted])
      BY <1>3 DEF Chat, Replaced
    <2>2. call' \in [Calls -> Call]
          /\ answer' = [NoCall EXCEPT !.at = "request", !.cancelled = interrupted]
      BY <1>1, <2>1, CallsMade, ReplacedIsTyped DEF AInv, answer
    <2>3. ask'.at = "answer" /\ ask'.outcome = "none"
      BY <1>3 DEF NoAsk
    <2>4. Shape'
      BY <1>1, <1>3, <2>2 DEF AInv, Shape, NoAsk
    <2>5. answer'.at = "request" /\ (~interrupted => ~answer'.cancelled)
      BY <2>2 DEF NoCall, AInv, Shape
    <2>6. Attended' /\ Recorded'
      BY <1>1, <2>3, <2>5 DEF Attended, Recorded
    <2> QED  BY <2>4, <2>6 DEF AInv
  <1>4. ASSUME NEW outcome \in {"no context", "overflow"},
               ask' = [ready EXCEPT !.at = "ended", !.outcome = outcome], Cancel("answer")
        PROVE  AInv'
    <2>1. call' \in [Calls -> Call]
      BY <1>1, <1>4, CancelIsTyped DEF AInv
    <2>2. ask'.at = "ended" /\ ask'.outcome = outcome
      BY <1>4 DEF NoAsk
    <2>3. Shape'
      BY <1>1, <1>4, <2>1 DEF AInv, Shape, NoAsk
    <2>4. Attended' /\ Recorded'
      BY <2>2 DEF Attended, Recorded
    <2> QED  BY <2>3, <2>4 DEF AInv
  <1> QED  BY <1>2, <1>3, <1>4

\* A token of the answer moves the ask and the call together.
LEMMA TakeAnswerStep ==
    ASSUME AInv, TakeAnswer
    PROVE  AInv'
  <1>1. "answer" \in Calls /\ interrupted' = interrupted /\ ask.at = "answer"
    BY AskAssumption DEF TakeAnswer
  <1>2. ask.outcome # "recorded" /\ answer \in Call
    BY <1>1 DEF AInv, Recorded, Shape, answer
  <1>3. CASE answer.at = "refused" /\ Return("error")
    BY <1>1, <1>3, ReturnStep
  <1>4. CASE answer.at = "closed" /\ ask' = [ask EXCEPT !.at = "finish"] /\ call' = call
    <2>1. ask'.at = "finish" /\ ask'.outcome = ask.outcome
      BY <1>4 DEF AInv, Shape
    <2>2. Shape'
      BY <1>1, <1>4 DEF AInv, Shape
    <2>3. answer' = answer
      BY <1>4 DEF answer
    <2>4. Attended' /\ Recorded'
      BY <1>1, <1>2, <1>4, <2>1, <2>3 DEF AInv, Attended, Recorded, EndedWhole
    <2> QED  BY <2>2, <2>4 DEF AInv
  <1>5. CASE /\ answer.at = "offer" /\ answer.token = "error"
             /\ ask' = [ask EXCEPT !.at = "ended", !.outcome = "error"]
             /\ call' = [call EXCEPT !["answer"] = [Received("answer") EXCEPT !.cancelled = TRUE]]
    <2>1. Replaced("answer", [Received("answer") EXCEPT !.cancelled = TRUE])
      BY <1>5 DEF Replaced
    <2>2. call' \in [Calls -> Call]
      BY <1>1, <2>1, CallsMade, ReplacedIsTyped DEF AInv
    <2>3. ask'.at = "ended" /\ ask'.outcome = "error"
      BY <1>5 DEF AInv, Shape
    <2>4. Shape'
      BY <1>1, <1>5, <2>2 DEF AInv, Shape
    <2> QED  BY <2>3, <2>4 DEF AInv, Attended, Recorded
  <1>6. ASSUME answer.at = "offer", Replaced("answer", Received("answer"))
        PROVE  /\ call' \in [Calls -> Call]
               /\ answer' = Received("answer")
    BY <1>1, <1>6, CallsMade, ReplacedIsTyped DEF AInv, answer
  <1>7. CASE /\ answer.at = "offer" /\ answer.token = "done"
             /\ ask' = [ask EXCEPT !.at = "finish"]
             /\ Replaced("answer", Received("answer"))
    <2>1. ask'.at = "finish" /\ ask'.outcome = ask.outcome
      BY <1>7 DEF AInv, Shape
    <2>2. Shape'
      BY <1>1, <1>6, <1>7 DEF AInv, Shape
    <2>3. answer'.at = "closed" /\ answer'.ending = answer.ending
      BY <1>2, <1>6, <1>7 DEF Received, answer, Call
    <2>4. Attended' /\ Recorded'
      BY <1>1, <1>2, <1>7, <2>1, <2>3 DEF AInv, Attended, Recorded, EndedWhole
    <2> QED  BY <2>2, <2>4 DEF AInv
  <1>8. CASE /\ answer.at = "offer" /\ answer.token \notin {"done", "error"}
             /\ ask' = [ask EXCEPT !.heard = @ \/ answer.token = "text"]
             /\ Replaced("answer", Received("answer"))
    <2>1. ask'.at = "answer" /\ ask'.outcome = ask.outcome
      BY <1>1, <1>8 DEF AInv, Shape
    <2>2. Shape'
      BY <1>1, <1>6, <1>8 DEF AInv, Shape
    <2>3. answer'.at = "read" /\ (answer'.cancelled <=> answer.cancelled)
      BY <1>2, <1>6, <1>8 DEF Received, answer, Call
    <2>4. Attended' /\ Recorded'
      BY <1>1, <1>2, <2>1, <2>3 DEF AInv, Attended, Recorded, EndedWhole
    <2> QED  BY <2>2, <2>4 DEF AInv
  <1> QED  BY <1>3, <1>4, <1>5, <1>7, <1>8 DEF TakeAnswer, answer, Replaced

\* Nothing is recorded once Ctrl-C was pressed; before it, every stream that
\* got this far ended by itself.
LEMMA FinishAnswerStep ==
    ASSUME AInv, FinishAnswer
    PROVE  AInv'
  <1>1. PICK outcome \in {"error", "answered", "recorded"} :
            /\ Return(outcome)
            /\ outcome = "recorded" => ask.heard /\ Recordable
    BY DEF FinishAnswer
  <1>2. ask.at = "finish" /\ interrupted' = interrupted
    BY DEF FinishAnswer
  <1>3. outcome = "recorded" => ask.heard /\ EndedWhole
    BY <1>1, <1>2 DEF AInv, Attended, Recordable
  <1> QED  BY <1>1, <1>2, <1>3, ReturnStep

LEMMA AskStepInv ==
    ASSUME AInv, AskStep
    PROVE  AInv'
  <1>1. CASE PlanQueries
    <2>1. ask' = ask /\ call' \in [Calls -> Call] /\ answer' = answer /\ interrupted' = interrupted
      BY <1>1, PlannerStep DEF PlanQueries, AInv
    <2> QED  BY <2>1, Elsewhere
  <1>2. CASE PlanReady
    <2>1. ask.outcome # "recorded"
      BY <1>2 DEF PlanReady, AInv, Recorded
    <2>2. ask'.at = "retrieve" /\ ask'.outcome = ask.outcome /\ Shape'
      BY <1>2 DEF PlanReady, AInv, Shape
    <2> QED  BY <2>1, <2>2 DEF AInv, Attended, Recorded
  <1>3. CASE RetrieveNext
    BY <1>3, Elsewhere DEF RetrieveNext, AInv, Shape, answer
  <1>4. CASE TakeResults
    <2>1. ask.at = "retrieve" /\ ask.outcome # "recorded" /\ interrupted' = interrupted
      BY <1>4 DEF TakeResults, AInv, Recorded
    <2>2. CASE Return("error")
      BY <2>1, <2>2, ReturnStep
    <2>3. CASE ask' = [ask EXCEPT !.lists = Append(@, search.found)] /\ call' = call
      <3>1. ask'.at = "retrieve" /\ ask'.outcome = ask.outcome /\ Shape'
        BY <2>1, <2>3 DEF AInv, Shape
      <3> QED  BY <2>1, <3>1 DEF AInv, Attended, Recorded
    <2> QED  BY <1>4, <2>2, <2>3 DEF TakeResults
  <1> QED  BY <1>1, <1>2, <1>3, <1>4, AskModelStep, TakeAnswerStep, FinishAnswerStep DEF AskStep

\* Ctrl-C cancels contexts; it does not end a stream that is still open.
LEMMA CtrlCStep ==
    ASSUME AInv, CtrlC, ask' = ask
    PROVE  AInv'
  <1>1. "answer" \in Calls
    BY AskAssumption
  <1>2. call' \in [Calls -> Call]
    <2>1. \A c \in Calls : [call[c] EXCEPT !.cancelled = call[c].cancelled \/ call[c].at # "none"] \in Call
      BY DEF AInv, Shape, Call
    <2> QED  BY <2>1 DEF CtrlC
  <1>3. EndedWhole => EndedWhole'
    BY <1>1 DEF AInv, Shape, Call, CtrlC, EndedWhole, answer
  <1> QED  BY <1>2, <1>3 DEF AInv, Shape, Attended, Recorded, CtrlC

LEMMA CommandInit ==
    ASSUME Init
    PROVE  AInv
  <1>1. NoCall \in Call
    BY DEF NoCall, Call
  <1>2. Shape
    BY <1>1 DEF Init, AskInit, StreamInit, Shape, NoAsk
  <1>3. ask.at = "idle" /\ ask.outcome = "none"
    BY DEF Init, AskInit, NoAsk
  <1> QED  BY <1>2, <1>3 DEF AInv, Attended, Recorded

LEMMA CommandStep ==
    ASSUME AInv, [Next]_vars
    PROVE  AInv'
  <1>1. CASE UNCHANGED asking
    BY <1>1, Elsewhere DEF asking, answer, AInv, Shape
  <1>2. CASE BeginAsk
    <2>1. ask.outcome # "recorded"
      BY <1>2 DEF BeginAsk, StartAsk, AInv, Recorded
    <2>2. ask'.at = "plan" /\ ask'.outcome = ask.outcome /\ Shape'
      BY <1>2 DEF BeginAsk, StartAsk, AInv, Shape
    <2> QED  BY <2>1, <2>2 DEF AInv, Attended, Recorded
  <1>3. CASE Asking
    BY <1>3, AskStepInv DEF Asking
  <1>4. CASE PressCtrlC
    BY <1>4, CtrlCStep DEF PressCtrlC
  <1>5. ASSUME NEW c \in Calls, Answering(c)
        PROVE  AInv'
    BY <1>5, StreamStep DEF Answering
  <1>6. ASSUME NEW c \in Calls, TimeOut(c)
        PROVE  AInv'
    <2>1. ask' = ask /\ call' \in [Calls -> Call] /\ answer' = answer /\ interrupted' = interrupted
      BY <1>6, PlannerStep DEF TimeOut, AInv
    <2> QED  BY <2>1, Elsewhere
  <1> QED
    BY <1>1, <1>2, <1>3, <1>4, <1>5, <1>6
    DEF Next, vars, Opening, BeginSearch, BeginSplit, BeginEval, End, Searching, Splitting, Evaluating,
        SearchInterrupted, OtherProcesses

\* Whatever the provider sends and whenever Ctrl-C is pressed, the strengthened
\* invariant of the answer holds.
THEOREM AnswerInvariance == CommandSpec => []AInv
  <1>1. Init => AInv
    BY CommandInit
  <1>2. AInv /\ [Next]_vars => AInv'
    BY CommandStep
  <1> QED  BY <1>1, <1>2, PTL DEF CommandSpec

\* Whatever the provider sends, however its stream ends and whenever Ctrl-C
\* is pressed, a turn that was recorded is the whole of an answer with text in
\* it: the context of appendTurn's transaction is the one sendToken gave up
\* for (ask.go:817-822, stream.go:10-22).
THEOREM RecordedAnswerIsWholeAlways == CommandSpec => []RecordedAnswerIsWhole
  <1>1. AInv => RecordedAnswerIsWhole
    BY DEF AInv, Recorded, RecordedAnswerIsWhole, EndedWhole, answer
  <1> QED  BY <1>1, AnswerInvariance, PTL

-----------------------------------------------------------------------------
(* The plan: any question, thread, model *)

\* What is planned before it is expanded: the window, or the model's rewrite.
Begun(qs) ==
    \E q \in Query :
        /\ qs = <<q>>
        /\ q = Window(opts.question) \/ (opts.mode = "condense" /\ q \in Rewrites /\ ~Blank(q))

\* A plan that retrieval can run: no wording twice, and where there is more
\* than one, none that is blank.
Good(qs) ==
    /\ qs \in Seq(Query) /\ Len(qs) <= 1 + opts.expand
    /\ \A i \in 1 .. Len(qs) : \A j \in 1 .. i - 1 : qs[i].key # qs[j].key
    /\ Len(qs) > 1 => \A i \in 1 .. Len(qs) : ~Blank(qs[i])
    /\ qs # <<>> =>
        \/ qs[1] \in {opts.question, Window(opts.question)}
        \/ opts.mode = "condense" /\ qs[1] \in Rewrites
        \/ Blank(Window(opts.question))

PInv ==
    /\ plan = [at |-> plan.at, got |-> plan.got, queries |-> plan.queries]
    /\ plan.at \in {"idle", "condense", "toExpand", "expand", "planned"} /\ plan.got \in BOOLEAN
    /\ ask.at = "idle" => plan.at = "idle"
    /\ plan.at = "condense" => opts.mode = "condense"
    /\ plan.at \in {"toExpand", "expand"} => Begun(plan.queries)
    /\ plan.at = "planned" => Good(plan.queries)

\* The first that is left of a list by filtering it.
LEMMA FirstLeft ==
  ASSUME NEW T, NEW s \in Seq(T), NEW P, P \subseteq 1 .. Len(s), NEW m \in P, \A p \in P : m <= p
  PROVE  Len(AtPlaces(s, P)) > 0 /\ AtPlaces(s, P)[1] = s[m]
  <1> DEFINE C == Cardinality(P)
  <1>1. PICK place \in [1 .. C -> P] :
            /\ C \in Nat
            /\ AtPlaces(s, P) = [n \in 1 .. C |-> s[place[n]]]
            /\ AtPlaces(s, P) \in Seq(T) /\ Len(AtPlaces(s, P)) = C
            /\ \A p \in P : \E n \in 1 .. C : place[n] = p
            /\ \A i, n \in 1 .. C : i < n => place[i] < place[n]
    BY AtPlacesIs, Zenon
  <1> HIDE DEF C
  <1>2. PICK n \in 1 .. C : place[n] = m
    BY <1>1
  <1>3. 1 \in 1 .. C /\ place[1] \in P /\ place[1] \in Int /\ m \in Int
    <2>1. Len(s) \in Nat /\ 1 \in 1 .. C
      BY <1>1, <1>2, LenProperties
    <2>2. place[1] \in P
      BY <1>1, <2>1
    <2>3. place[1] \in 1 .. Len(s) /\ m \in 1 .. Len(s)
      BY <2>2
    <2> QED  BY <2>1, <2>2, <2>3
  <1>4. ~(1 < n)
    <2>1. ~(place[1] < m)
      BY <1>3
    <2> QED  BY <1>1, <1>2, <1>3, <2>1
  <1>5. place[1] = m
    BY <1>1, <1>2, <1>4
  <1> QED  BY <1>1, <1>3, <1>5

\* One query is a plan by itself.
LEMMA OneQueryIsGood ==
  ASSUME Chosen, NEW q \in Query,
         \/ q \in {opts.question, Window(opts.question)}
         \/ opts.mode = "condense" /\ q \in Rewrites
  PROVE  Good(<<q>>)
  <1>1. opts.expand \in Nat
    BY PlannerAssumption DEF Chosen
  <1>2. <<q>> \in Seq(Query) /\ Len(<<q>>) = 1 /\ <<q>>[1] = q
    OBVIOUS
  <1> QED  BY <1>1, <1>2 DEF Good

LEMMA WindowIsQuery ==
  ASSUME Chosen
  PROVE  opts.question \in Query /\ Window(opts.question) \in Query
  <1>1. opts.question \in Query
    BY PlannerAssumption DEF Chosen
  <1>2. Spelled("window", 1) \in Query
    BY PlannerAssumption DEF Spelled, Query
  <1> QED  BY <1>1, <1>2 DEF Window

LEMMA NothingIsGood == ASSUME Chosen PROVE Good(<<>>)
  <1>1. opts.expand \in Nat
    BY PlannerAssumption DEF Chosen
  <1> QED  BY <1>1, EmptySeq DEF Good

\* An expanded plan: the planned query and the wordings it does not have yet.
LEMMA ExpandedIsGood ==
  ASSUME Chosen, NEW qs, Begun(qs), NEW ps \in Seq(Query)
  PROVE  Good(Dedupe(qs \o ps, Len(qs) + opts.expand))
  <1>1. PICK q \in Query :
            /\ qs = <<q>>
            /\ q = Window(opts.question) \/ (opts.mode = "condense" /\ q \in Rewrites /\ ~Blank(q))
    BY DEF Begun
  <1> DEFINE s == qs \o ps
             limit == Len(qs) + opts.expand
             F == {i \in 1 .. Len(s) : ~Blank(s[i]) /\ \A j \in 1 .. i - 1 : s[j].key # s[i].key}
             kept == AtPlaces(s, F)
             D == Dedupe(s, limit)
  <1>2. opts.expand \in Nat /\ limit \in Nat /\ limit = 1 + opts.expand
    <2>1. opts.expand \in Nat
      BY PlannerAssumption DEF Chosen
    <2>2. Len(qs) = 1
      BY <1>1
    <2> QED  BY <2>1, <2>2
  <1>3. s \in Seq(Query) /\ s[1] = q /\ Len(s) \in Nat /\ Len(s) >= 1
    <2>1. qs \in Seq(Query) /\ Len(qs) = 1 /\ qs[1] = q /\ Len(ps) \in Nat
      BY <1>1, LenProperties
    <2> QED  BY <2>1, ConcatProperties
  <1> HIDE DEF s
  <1>4. PICK place \in [1 .. Cardinality(F) -> F] :
            /\ Cardinality(F) \in Nat
            /\ kept = [n \in 1 .. Cardinality(F) |-> s[place[n]]]
            /\ kept \in Seq(Query) /\ Len(kept) = Cardinality(F)
            /\ \A p \in F : \E n \in 1 .. Cardinality(F) : place[n] = p
            /\ \A m, n \in 1 .. Cardinality(F) : m < n => place[m] < place[n]
    <2>1. F \subseteq 1 .. Len(s)
      OBVIOUS
    <2> HIDE DEF F
    <2> QED  BY <1>3, <2>1, AtPlacesIs, Zenon
  <1>5. \A n \in 1 .. Len(kept) : /\ ~Blank(kept[n])
                                  /\ \A m \in 1 .. n - 1 : kept[n].key # kept[m].key
    <2>1. ASSUME NEW n \in 1 .. Len(kept)
          PROVE  ~Blank(kept[n])
      BY <1>4, <2>1
    <2>2. ASSUME NEW n \in 1 .. Len(kept), NEW m \in 1 .. n - 1
          PROVE  kept[n].key # kept[m].key
      <3>1. m \in 1 .. Cardinality(F) /\ n \in 1 .. Cardinality(F) /\ m < n
        BY <1>4, <2>2
      <3>2. place[m] < place[n] /\ place[m] \in F /\ place[n] \in F
        BY <1>4, <3>1
      <3>3. place[m] \in 1 .. place[n] - 1
        BY <1>3, <3>2
      <3> QED  BY <1>4, <3>1, <3>2, <3>3
    <2> QED  BY <2>1, <2>2
  <1>6. ~Blank(q) => Len(kept) > 0 /\ kept[1] = q
    <2> SUFFICES ASSUME ~Blank(q) PROVE Len(kept) > 0 /\ kept[1] = q
      OBVIOUS
    <2>1. 1 \in F /\ F \subseteq 1 .. Len(s) /\ \A p \in F : 1 <= p
      BY <1>3
    <2> HIDE DEF F
    <2> QED  BY <1>3, <2>1, FirstLeft
  <1> HIDE DEF F
  <1>7. D = First(limit, kept)
    <2>1. Len(kept) \in Nat
      BY <1>4
    <2>2. D = SubSeq(kept, 1, IF Len(kept) < limit THEN Len(kept) ELSE limit)
      BY DEF Dedupe, F
    <2>3. Least(limit, Len(kept)) = IF Len(kept) < limit THEN Len(kept) ELSE limit
      BY <1>2, <2>1 DEF Least
    <2> QED  BY <2>2, <2>3 DEF First
  <1> HIDE DEF kept, D
  <1>8. /\ D \in Seq(Query) /\ Len(D) = Least(limit, Len(kept))
        /\ \A i \in 1 .. Len(D) : i \in 1 .. Len(kept) /\ D[i] = kept[i]
    BY ZenonT(30), <1>2, <1>4, <1>7, FirstIs
  <1>9. Len(kept) \in Nat /\ Len(D) \in Nat /\ Len(D) <= limit
    BY <1>2, <1>4, <1>8 DEF Least
  <1>10. \A i \in 1 .. Len(D) : ~Blank(D[i]) /\ \A j \in 1 .. i - 1 : D[i].key # D[j].key
    <2>1. ASSUME NEW i \in 1 .. Len(D), NEW j \in 1 .. i - 1
          PROVE  D[i].key # D[j].key
      <3>1. j \in 1 .. Len(D)
        BY <1>9
      <3> QED  BY <1>5, <1>8, <3>1
    <2> QED  BY <1>5, <1>8, <2>1
  <1>11. D # <<>> => D[1] = q \/ Blank(Window(opts.question))
    <2> SUFFICES ASSUME D # <<>>, ~Blank(q) PROVE D[1] = q
      BY <1>1
    <2>1. 1 \in 1 .. Len(D)
      BY <1>8, <1>9, EmptySeq
    <2> QED  BY <1>6, <1>8, <2>1
  <1> HIDE DEF limit
  <1>12. Good(D)
    BY <1>1, <1>2, <1>8, <1>9, <1>10, <1>11 DEF Good
  <1> QED  BY <1>12 DEF D, s, limit

\* What retrieval runs of a good plan.
LEMMA GoodIsUsable ==
  ASSUME Chosen, NEW qs, Good(qs)
  PROVE  LET queries == Usable(qs) IN
         /\ queries \in Seq(Query) /\ NonBlank(queries) \in Seq(Query)
         /\ queries # <<>>
         /\ Len(queries) <= 1 + opts.expand
         /\ \A i \in 1 .. Len(queries) :
             /\ Blank(queries[i]) => Blank(opts.question)
             /\ \A j \in 1 .. i - 1 : queries[i].key # queries[j].key
         /\ \/ queries[1] \in {opts.question, Window(opts.question)}
            \/ opts.mode = "condense" /\ queries[1] \in Rewrites
            \/ Blank(Window(opts.question))
  <1> DEFINE P == {i \in 1 .. Len(qs) : ~Blank(qs[i])}
             N == Cardinality(P)
             left == AtPlaces(qs, P)
             queries == Usable(qs)
  <1>1. qs \in Seq(Query) /\ Len(qs) \in Nat /\ opts.expand \in Nat
    BY PlannerAssumption, LenProperties DEF Good, Chosen
  <1>2. NonBlank(qs) = left
    BY DEF NonBlank
  <1>3. PICK place \in [1 .. N -> P] :
            /\ N \in Nat
            /\ left = [n \in 1 .. N |-> qs[place[n]]]
            /\ left \in Seq(Query) /\ Len(left) = N
            /\ \A p \in P : \E n \in 1 .. N : place[n] = p
            /\ \A m, n \in 1 .. N : m < n => place[m] < place[n]
    <2>1. P \subseteq 1 .. Len(qs)
      OBVIOUS
    <2> HIDE DEF P
    <2> QED  BY <1>1, <2>1, AtPlacesIs, Zenon
  <1>4. N <= Len(qs)
    <2> DEFINE L == Len(qs)
    <2>0. L \in Nat /\ P \subseteq 1 .. L
      BY <1>1
    <2> HIDE DEF L, P
    <2>1. IsFiniteSet(1 .. L) /\ Cardinality(1 .. L) = L
      BY <2>0, FS_Interval
    <2>2. Cardinality(P) <= L
      BY ZenonT(30), <2>0, <2>1, FS_Subset
    <2> QED  BY <2>2 DEF L
  <1>5. \A n \in 1 .. N : /\ ~Blank(left[n])
                          /\ \A m \in 1 .. n - 1 : left[n].key # left[m].key
    <2>1. ASSUME NEW n \in 1 .. N, NEW m \in 1 .. n - 1
          PROVE  left[n].key # left[m].key
      <3>1. m \in 1 .. N /\ m < n
        BY <1>3
      <3>2. place[m] < place[n] /\ place[m] \in P /\ place[n] \in P
        BY <1>3, <3>1
      <3>3. place[n] \in 1 .. Len(qs) /\ place[m] \in 1 .. place[n] - 1
        BY <1>1, <3>2
      <3>4. qs[place[n]].key # qs[place[m]].key
        BY <3>3 DEF Good
      <3> QED  BY <1>3, <3>1, <3>4
    <2>2. ASSUME NEW n \in 1 .. N
          PROVE  ~Blank(left[n])
      BY <1>3, <2>2
    <2> QED  BY <2>1, <2>2
  <1>6. left # <<>> => left[1] = qs[1] /\ qs # <<>>
    <2> SUFFICES ASSUME left # <<>> PROVE left[1] = qs[1] /\ qs # <<>>
      OBVIOUS
    <2>1. N > 0 /\ 1 \in 1 .. N /\ place[1] \in P
      BY <1>3, EmptySeq
    <2>2. Len(qs) > 0 /\ qs # <<>>
      BY <1>1, <2>1, EmptySeq
    <2>3. 1 \in P
      <3>1. CASE Len(qs) > 1
        BY <1>1, <3>1 DEF Good
      <3>2. CASE Len(qs) = 1
        BY <2>1, <3>2
      <3> HIDE DEF P
      <3>3. Len(qs) > 1 \/ Len(qs) = 1
        <4> DEFINE L == Len(qs)
        <4>1. L \in Nat /\ L > 0
          BY <1>1, <2>2
        <4> HIDE DEF L
        <4>2. L > 1 \/ L = 1
          BY <4>1
        <4> QED  BY <4>2 DEF L
      <3> QED  BY <3>1, <3>2, <3>3
    <2>4. P \subseteq 1 .. Len(qs) /\ \A p \in P : 1 <= p
      BY <1>1
    <2> HIDE DEF P
    <2> QED  BY <1>1, <2>2, <2>3, <2>4, FirstLeft
  <1> HIDE DEF P, left
  <1>7. CASE left = <<>>
    <2>1. queries = <<opts.question>>
      BY <1>2, <1>7 DEF Usable
    <2>2. queries \in Seq(Query) /\ Len(queries) = 1 /\ queries[1] = opts.question /\ queries # <<>>
      BY <2>1, WindowIsQuery
    <2>3. NonBlank(queries) \in Seq(Query)
      BY <2>2, FilteredIs DEF NonBlank
    <2> HIDE DEF queries
    <2>4. \A i \in 1 .. Len(queries) : i = 1 /\ 1 .. i - 1 = {}
      BY <2>2
    <2>5. 1 <= 1 + opts.expand
      BY <1>1
    <2> QED  BY <2>2, <2>3, <2>4, <2>5 DEF queries
  <1>8. CASE left # <<>>
    <2>1. queries = left
      BY <1>2, <1>8 DEF Usable
    <2>2. NonBlank(queries) \in Seq(Query)
      BY <1>3, <2>1, FilteredIs DEF NonBlank
    <2>3. Len(queries) <= 1 + opts.expand
      BY <1>1, <1>3, <1>4, <2>1 DEF Good
    <2>4. \/ queries[1] \in {opts.question, Window(opts.question)}
          \/ opts.mode = "condense" /\ queries[1] \in Rewrites
          \/ Blank(Window(opts.question))
      BY <1>6, <1>8, <2>1 DEF Good
    <2> HIDE DEF queries
    <2> QED  BY <1>3, <1>5, <1>8, <2>1, <2>2, <2>3, <2>4 DEF queries
  <1> QED  BY <1>7, <1>8

PlanShape == plan = [at |-> plan.at, got |-> plan.got, queries |-> plan.queries]

\* Once an ask has started it does not become idle again.
LEMMA IdleBefore ==
  ASSUME Shape, [Next]_vars, ask'.at = "idle"
  PROVE  ask' = ask
  <1>1. CASE BeginAsk
    BY <1>1 DEF BeginAsk, StartAsk, Shape
  <1>2. CASE PlanReady
    BY <1>2 DEF PlanReady, Shape
  <1>3. ASSUME NEW outcome, Return(outcome)
        PROVE  FALSE
    BY <1>3 DEF Return, Shape
  <1>4. CASE TakeResults
    <2>1. CASE ask' = [ask EXCEPT !.lists = Append(@, search.found)]
      BY <1>4, <2>1 DEF TakeResults, Shape
    <2> QED  BY <1>3, <1>4, <2>1 DEF TakeResults
  <1>5. CASE AskModel
    BY <1>5 DEF AskModel, NoAsk
  <1>6. CASE TakeAnswer
    BY <1>3, <1>6 DEF TakeAnswer, Shape
  <1>7. CASE FinishAnswer
    BY <1>3, <1>7 DEF FinishAnswer
  <1> QED
    BY <1>1, <1>2, <1>4, <1>5, <1>6, <1>7
    DEF Next, vars, asking, Opening, BeginSearch, BeginSplit, BeginEval, End, Asking, AskStep, PlanQueries,
        RetrieveNext, Searching, Splitting, Evaluating, PressCtrlC, SearchInterrupted, OtherProcesses, Answering,
        TimeOut

\* Planning that has come to an end, or on to its expansion.
LEMMA PlannedIs ==
  ASSUME Chosen, PInv, NEW qs, plan' = Planned(qs), opts' = opts, ask.at # "idle", ask'.at # "idle", Begun(qs)
  PROVE  PInv'
  <1>1. /\ PlanShape' /\ plan'.got = plan.got /\ plan'.queries = qs
        /\ plan'.at \in {"planned", "toExpand"}
    BY DEF Planned, PInv, PlanShape
  <1>2. PICK q \in Query :
            /\ qs = <<q>>
            /\ q = Window(opts.question) \/ (opts.mode = "condense" /\ q \in Rewrites /\ ~Blank(q))
    BY DEF Begun
  <1>3. Good(qs)
    BY <1>2, OneQueryIsGood
  <1>4. Good(qs)' <=> Good(qs)
    BY DEF Good, Window
  <1>5. Begun(qs)' <=> Begun(qs)
    BY DEF Begun, Window
  <1> QED  BY <1>1, <1>3, <1>4, <1>5 DEF PInv, PlanShape

LEMMA FallbackBegins == ASSUME Chosen PROVE Begun(Fallback)
  BY WindowIsQuery DEF Fallback, Begun

\* A planner's call that fails.
LEMMA GivingUpKeeps ==
  ASSUME Chosen, PInv, NEW c, Calling(c), plan' = GivenUp(c), opts' = opts, ask.at # "idle", ask'.at # "idle"
  PROVE  PInv'
  <1>1. CASE c = "condense"
    BY <1>1, FallbackBegins, PlannedIs DEF GivenUp
  <1>2. CASE c # "condense"
    <2>1. c = "expand" /\ plan.at = "expand" /\ plan' = [plan EXCEPT !.at = "planned"]
      BY <1>2 DEF Calling, GivenUp
    <2>2. PlanShape' /\ plan'.at = "planned" /\ plan'.got = plan.got /\ plan'.queries = plan.queries
      BY <2>1 DEF PInv, PlanShape
    <2>3. Good(plan.queries)
      <3>1. Begun(plan.queries)
        BY <2>1 DEF PInv
      <3> QED  BY <3>1, OneQueryIsGood DEF Begun
    <2>4. Good(plan.queries)' <=> Good(plan.queries)
      BY <2>2 DEF Good, Window
    <2> QED  BY <2>2, <2>3, <2>4 DEF PInv, PlanShape
  <1> QED  BY <1>1, <1>2

\* A completion, and what it is good for.
LEMMA JudgedKeeps ==
  ASSUME Chosen, PInv, NEW c, Calling(c), plan' \in Judged(c), opts' = opts, ask.at # "idle", ask'.at # "idle"
  PROVE  PInv'
  <1>1. CASE plan' = GivenUp(c)
    BY <1>1, GivingUpKeeps
  <1>2. ASSUME NEW q \in Rewrites, ~Blank(q), plan' = Planned(<<q>>), c = "condense"
        PROVE  PInv'
    <2>1. q \in Query
      BY PlannerAssumption
    <2>2. opts.mode = "condense"
      BY <1>2 DEF Calling, PInv
    <2>3. Begun(<<q>>)
      BY <1>2, <2>1, <2>2 DEF Begun
    <2> QED  BY <1>2, <2>3, PlannedIs
  <1>3. ASSUME NEW ps \in Paraphrases, c # "condense",
               plan' = [plan EXCEPT !.at = "planned",
                           !.queries = Dedupe(plan.queries \o ps, Len(plan.queries) + opts.expand)]
        PROVE  PInv'
    <2>1. plan.at = "expand" /\ Begun(plan.queries)
      BY <1>3 DEF Calling, PInv
    <2>2. PICK D : D = Dedupe(plan.queries \o ps, Len(plan.queries) + opts.expand) /\ Good(D)
      BY <2>1, ExpandedIsGood, PlannerAssumption
    <2>3. PlanShape' /\ plan'.at = "planned" /\ plan'.got = plan.got /\ plan'.queries = D
      BY <1>3, <2>2 DEF PInv, PlanShape
    <2>4. Good(D)' <=> Good(D)
      BY <2>3 DEF Good, Window
    <2> QED  BY <2>2, <2>3, <2>4 DEF PInv, PlanShape
  <1> QED  BY <1>1, <1>2, <1>3 DEF Judged

LEMMA PlanStepKeeps ==
  ASSUME Chosen, PInv, PlanStep, opts' = opts, ask.at # "idle", ask' = ask
  PROVE  PInv'
  <1>1. CASE StartPlan
    <2>1. CASE ~NeedsPlanner /\ plan' = [plan EXCEPT !.at = "planned", !.queries = <<opts.question>>]
      <3>1. /\ PlanShape' /\ plan'.at = "planned" /\ plan'.got = plan.got
            /\ plan'.queries = <<opts.question>>
        BY <2>1 DEF PInv, PlanShape
      <3>2. Good(<<opts.question>>)
        BY WindowIsQuery, OneQueryIsGood
      <3>3. Good(<<opts.question>>)' <=> Good(<<opts.question>>)
        BY DEF Good, Window
      <3> QED  BY <3>1, <3>2, <3>3 DEF PInv, PlanShape
    <2>2. CASE plan' = Planned(Fallback)
      BY <2>2, FallbackBegins, PlannedIs
    <2>3. CASE opts.mode = "condense" /\ plan' = [plan EXCEPT !.at = "condense"]
      <3>1. PlanShape' /\ plan'.at = "condense" /\ plan'.got = plan.got
        BY <2>3 DEF PInv, PlanShape
      <3> QED  BY <2>3, <3>1 DEF PInv, PlanShape
    <2> QED  BY <1>1, <2>1, <2>2, <2>3 DEF StartPlan
  <1>2. CASE StartExpand
    <2>1. plan.at = "toExpand" /\ plan' = [plan EXCEPT !.at = "expand", !.got = FALSE]
      BY <1>2 DEF StartExpand
    <2>2. PlanShape' /\ plan'.at = "expand" /\ plan'.got = FALSE /\ plan'.queries = plan.queries
      BY <2>1 DEF PInv, PlanShape
    <2>3. Begun(plan.queries)'
      BY <2>1, <2>2 DEF PInv, Begun, Window
    <2> QED  BY <2>2, <2>3 DEF PInv, PlanShape
  <1>3. ASSUME NEW c \in Calls, TakeToken(c)
        PROVE  PInv'
    <2>1. Calling(c)
      BY <1>3 DEF TakeToken
    <2>2. CASE plan' = GivenUp(c) \/ plan' \in Judged(c)
      BY <2>1, <2>2, GivingUpKeeps, JudgedKeeps
    <2>3. ASSUME NEW got \in BOOLEAN, plan' = [plan EXCEPT !.got = got]
          PROVE  PInv'
      <3>1. PlanShape' /\ plan'.at = plan.at /\ plan'.got = got /\ plan'.queries = plan.queries
        BY <2>3 DEF PInv, PlanShape
      <3>2. /\ Good(plan.queries)' <=> Good(plan.queries)
            /\ Begun(plan.queries)' <=> Begun(plan.queries)
        BY <3>1 DEF Good, Begun, Window
      <3> QED  BY <3>1, <3>2 DEF PInv, PlanShape
    <2>4. (plan.got \/ call[c].token = "text") \in BOOLEAN
      OBVIOUS
    <2> QED  BY <1>3, <2>2, <2>3, <2>4 DEF TakeToken
  <1>4. ASSUME NEW c \in Calls, SeeClosed(c)
        PROVE  PInv'
    BY <1>4, JudgedKeeps DEF SeeClosed
  <1>5. ASSUME NEW c \in Calls, GiveUpCall(c)
        PROVE  PInv'
    BY <1>5, GivingUpKeeps DEF GiveUpCall
  <1> QED  BY <1>1, <1>2, <1>3, <1>4, <1>5 DEF PlanStep

\* Whatever the model answers, at whatever point it fails or is cancelled,
\* the strengthened invariant of planning holds.
THEOREM PlanInvariance == CommandSpec => []PInv
  <1>1. Init => PInv
    BY DEF Init, AskInit, NoPlan, NoAsk, PInv
  <1>2. Chosen /\ Shape /\ PInv /\ [Next]_vars => PInv'
    <2> SUFFICES ASSUME Chosen, Shape, PInv, [Next]_vars PROVE PInv'
      OBVIOUS
    <2>1. CASE plan' = plan /\ opts' = opts
      <3>1. /\ Good(plan.queries)' <=> Good(plan.queries)
            /\ Begun(plan.queries)' <=> Begun(plan.queries)
        BY <2>1 DEF Good, Begun, Window
      <3> QED  BY <2>1, <3>1, IdleBefore DEF PInv
    <2>2. CASE BeginAsk
      <3>1. plan' = plan /\ plan.at = "idle" /\ ask'.at = "plan"
        BY <2>2 DEF BeginAsk, StartAsk, PInv, Shape
      <3> QED  BY <3>1 DEF PInv
    <2>3. CASE PlanQueries
      BY <2>3, PlanStepKeeps DEF PlanQueries
    <2>4. CASE PlanReady
      <3>1. plan' = [NoPlan EXCEPT !.at = "planned"] /\ opts' = opts /\ ask'.at = "retrieve"
        BY <2>4 DEF PlanReady, Shape
      <3>2. PlanShape' /\ plan'.at = "planned" /\ plan'.got = FALSE /\ plan'.queries = <<>>
        BY <3>1 DEF NoPlan, PlanShape
      <3>3. Good(<<>>)' <=> Good(<<>>)
        BY <3>1 DEF Good, Window
      <3> QED  BY <3>1, <3>2, <3>3, NothingIsGood DEF PInv, PlanShape
    <2> QED
      BY <2>1, <2>2, <2>3, <2>4
      DEF Next, vars, asking, Opening, BeginSearch, BeginSplit, BeginEval, End, Asking, Searching, Splitting,
          Evaluating, PressCtrlC, SearchInterrupted, OtherProcesses, Answering, TimeOut, AskStep, RetrieveNext,
          TakeResults, AskModel, TakeAnswer, FinishAnswer, Deadline
  <1>3. CommandSpec => []Shape
    BY AnswerInvariance, PTL DEF AInv
  <1> QED  BY <1>1, <1>2, <1>3, ChosenAlways, PTL DEF CommandSpec

\* Whatever the model answers, and however late, retrieval has a plan: it
\* starts with the question, the window or the model's rewrite, runs no blank
\* query (unless the user asked nothing), none twice and no more than were
\* asked for (condense.go:43-46, expand.go:38-40, 175-180).
THEOREM PlanIsUsableAlways == CommandSpec => []PlanIsUsable
  <1>1. Chosen /\ PInv => PlanIsUsable
    <2> SUFFICES ASSUME Chosen, PInv PROVE PlanIsUsable
      OBVIOUS
    <2> QED  BY GoodIsUsable DEF PInv, PlanIsUsable
  <1> QED  BY <1>1, ChosenAlways, PlanInvariance, PTL

-----------------------------------------------------------------------------
(* The prompt and what is retrieved for it: any thread, chunks, costs and windows *)

\* How many rungs give up older turns, and how many squeeze and drop chunks.
Dropped(h) == IF h = 0 THEN 0 ELSE h - 1
Squeezes(n) == IF n = 0 THEN 0 ELSE n + 1

\* The rung of the ladder at a place.
Rung(h, n, i) ==
    IF i <= 1 + Dropped(h) THEN [turns |-> h - (i - 1), squeezed |-> FALSE, kept |-> n]
    ELSE IF i <= 1 + Dropped(h) + Squeezes(n)
    THEN [turns |-> Smaller(h, 1), squeezed |-> TRUE, kept |-> n - (i - 1 - Dropped(h) - 1)]
    ELSE [turns |-> 0, squeezed |-> TRUE, kept |-> n - (i - 1 - Dropped(h) - Squeezes(n) - 1)]

Rungs(h, n) == 1 + Dropped(h) + Squeezes(n) + (IF h = 0 THEN 0 ELSE Squeezes(n))

\* Two sequences one after the other, place by place.
LEMMA Joined ==
  ASSUME NEW T, NEW s \in Seq(T), NEW t \in Seq(T), NEW a, NEW b, Len(s) = a, Len(t) = b
  PROVE  /\ s \o t \in Seq(T) /\ Len(s \o t) = a + b
         /\ \A i \in 1 .. a + b : (s \o t)[i] = IF i <= a THEN s[i] ELSE t[i - a]
  BY LenProperties, ConcatProperties

LEMMA ChunkRungsAre ==
  ASSUME NEW turns \in Nat, NEW n \in Nat
  PROVE  /\ ChunkRungs(turns, n) \in Seq(Prompt) /\ Len(ChunkRungs(turns, n)) = Squeezes(n)
         /\ \A i \in 1 .. Squeezes(n) :
               ChunkRungs(turns, n)[i] = [turns |-> turns, squeezed |-> TRUE, kept |-> n - (i - 1)]
  <1> DEFINE N == Squeezes(n)
             s == ChunkRungs(turns, n)
  <1>1. N \in Nat /\ (N # 0 => N = n + 1)
    BY DEF Squeezes
  <1>2. s = [i \in 1 .. N |-> [turns |-> turns, squeezed |-> TRUE, kept |-> n - (i - 1)]]
    BY DEF ChunkRungs, Squeezes
  <1> HIDE DEF N, s
  <1>3. \A i \in 1 .. N : [turns |-> turns, squeezed |-> TRUE, kept |-> n - (i - 1)] \in Prompt
    <2>1. \A i \in 1 .. N : n - (i - 1) \in Nat
      BY <1>1
    <2> QED  BY <2>1 DEF Prompt
  <1>4. s \in [1 .. N -> Prompt]
    BY <1>2, <1>3
  <1>5. s \in Seq(Prompt) /\ Len(s) = N
    <2>1. s \in Seq(Prompt)
      BY <1>1, <1>4
    <2> QED  BY <1>1, <1>4, <2>1, LenProperties
  <1> QED  BY <1>2, <1>5 DEF N, s

LEMMA LadderIs ==
  ASSUME NEW h \in Nat, NEW n \in Nat
  PROVE  /\ Ladder(h, n) \in Seq(Prompt) /\ Len(Ladder(h, n)) = Rungs(h, n)
         /\ \A i \in 1 .. Rungs(h, n) : Ladder(h, n)[i] = Rung(h, n, i)
  <1> DEFINE H == Dropped(h)
             N == Squeezes(n)
             whole == <<[turns |-> h, squeezed |-> FALSE, kept |-> n]>>
             older == [d \in 1 .. H |-> [turns |-> h - d, squeezed |-> FALSE, kept |-> n]]
             last == ChunkRungs(Smaller(h, 1), n)
             none == IF h = 0 THEN <<>> ELSE ChunkRungs(0, n)
             M == IF h = 0 THEN 0 ELSE N
  <1>1. H \in Nat /\ (h = 0 => H = 0) /\ (h # 0 => H = h - 1) /\ N \in Nat /\ M \in Nat /\ Smaller(h, 1) \in Nat
    BY DEF Dropped, Squeezes, Smaller
  <1>2. Ladder(h, n) = ((whole \o older) \o last) \o none
    BY DEF Ladder, Dropped
  <1>3. /\ whole \in Seq(Prompt) /\ Len(whole) = 1
        /\ whole[1] = [turns |-> h, squeezed |-> FALSE, kept |-> n]
    BY DEF Prompt
  <1>4. /\ older \in Seq(Prompt) /\ Len(older) = H
        /\ \A d \in 1 .. H : older[d] = [turns |-> h - d, squeezed |-> FALSE, kept |-> n]
    <2> HIDE DEF H
    <2>1. \A d \in 1 .. H : [turns |-> h - d, squeezed |-> FALSE, kept |-> n] \in Prompt
      <3>1. \A d \in 1 .. H : h - d \in Nat
        BY <1>1
      <3> QED  BY <3>1 DEF Prompt
    <2>2. older \in [1 .. H -> Prompt]
      BY <2>1
    <2>3. \A d \in 1 .. H : older[d] = [turns |-> h - d, squeezed |-> FALSE, kept |-> n]
      OBVIOUS
    <2> HIDE DEF older
    <2>4. older \in Seq(Prompt)
      BY <1>1, <2>2
    <2> QED  BY <1>1, <2>2, <2>3, <2>4, LenProperties
  <1>5. /\ last \in Seq(Prompt) /\ Len(last) = N
        /\ \A i \in 1 .. N : last[i] = [turns |-> Smaller(h, 1), squeezed |-> TRUE, kept |-> n - (i - 1)]
    BY <1>1, ChunkRungsAre
  <1>6. /\ none \in Seq(Prompt) /\ Len(none) = M
        /\ \A i \in 1 .. M : none[i] = [turns |-> 0, squeezed |-> TRUE, kept |-> n - (i - 1)]
    <2>1. CASE h = 0
      <3>1. none = <<>> /\ M = 0
        BY <2>1
      <3>2. <<>> \in Seq(Prompt) /\ Len(<<>>) = 0 /\ 1 .. 0 = {}
        BY EmptySeq
      <3> HIDE DEF none, M
      <3> QED  BY <3>1, <3>2
    <2>2. CASE h # 0
      <3>1. none = ChunkRungs(0, n) /\ M = N /\ 0 \in Nat
        BY <2>2
      <3> QED  BY <3>1, ChunkRungsAre
    <2> QED  BY <2>1, <2>2
  <1> HIDE DEF whole, older, last, none, H, N, M
  <1> DEFINE front == whole \o older
             middle == front \o last
  <1>7. /\ front \in Seq(Prompt) /\ Len(front) = 1 + H
        /\ \A i \in 1 .. 1 + H : front[i] = [turns |-> h - (i - 1), squeezed |-> FALSE, kept |-> n]
    <2>1. /\ front \in Seq(Prompt) /\ Len(front) = 1 + H
          /\ \A i \in 1 .. 1 + H : front[i] = IF i <= 1 THEN whole[i] ELSE older[i - 1]
      <3>1. PICK a : a = 1
        OBVIOUS
      <3>2. /\ whole \in Seq(Prompt) /\ older \in Seq(Prompt)
            /\ Len(whole) = a /\ Len(older) = H
        BY <1>3, <1>4, <3>1, Zenon
      <3>3. /\ front \in Seq(Prompt) /\ Len(front) = a + H
            /\ \A i \in 1 .. a + H : front[i] = IF i <= a THEN whole[i] ELSE older[i - a]
        BY <3>2, Joined
      <3> HIDE DEF front
      <3> QED  BY <3>1, <3>3
    <2>2. ASSUME NEW i \in 1 .. 1 + H
          PROVE  front[i] = [turns |-> h - (i - 1), squeezed |-> FALSE, kept |-> n]
      <3>1. CASE i = 1
        <4>1. h - (i - 1) = h /\ i <= 1
          BY <3>1
        <4>2. front[i] = whole[1]
          BY <2>1, <3>1, <4>1
        <4> QED  BY <1>3, <4>1, <4>2
      <3>2. CASE i # 1
        <4>1. i - 1 \in 1 .. H /\ ~(i <= 1)
          BY <1>1, <3>2
        <4> QED  BY <1>4, <2>1, <4>1
      <3> QED  BY <3>1, <3>2
    <2> QED  BY <2>1, <2>2
  <1> HIDE DEF front
  <1>8. /\ middle \in Seq(Prompt) /\ Len(middle) = 1 + H + N
        /\ \A i \in 1 .. 1 + H + N : middle[i] = IF i <= 1 + H THEN front[i] ELSE last[i - (1 + H)]
    BY <1>5, <1>7, Joined
  <1> HIDE DEF middle
  <1>9. /\ middle \o none \in Seq(Prompt) /\ Len(middle \o none) = 1 + H + N + M
        /\ \A i \in 1 .. 1 + H + N + M :
              (middle \o none)[i] = IF i <= 1 + H + N THEN middle[i] ELSE none[i - (1 + H + N)]
    BY <1>6, <1>8, Joined
  <1>10. Ladder(h, n) = middle \o none /\ Rungs(h, n) = 1 + H + N + M
    BY <1>2 DEF middle, front, Rungs, H, N, M
  <1>11. ASSUME NEW i \in 1 .. 1 + H + N + M
         PROVE  (middle \o none)[i] = Rung(h, n, i)
    <2>1. CASE i <= 1 + H
      <3>1. i \in 1 .. 1 + H /\ i <= 1 + H + N
        BY <1>1, <2>1
      <3>2. i \in 1 .. 1 + H + N
        BY <1>1, <3>1
      <3> QED  BY <1>7, <1>8, <1>9, <2>1, <3>1, <3>2 DEF Rung, H, N
    <2>2. CASE ~(i <= 1 + H) /\ i <= 1 + H + N
      <3>1. i \in 1 .. 1 + H + N /\ i - (1 + H) \in 1 .. N /\ i - (1 + H) - 1 = i - 1 - H - 1
        BY <1>1, <2>2
      <3>2. (middle \o none)[i] = last[i - (1 + H)]
        BY <1>8, <1>9, <2>2, <3>1
      <3>3. last[i - (1 + H)] = [turns |-> Smaller(h, 1), squeezed |-> TRUE, kept |-> n - (i - (1 + H) - 1)]
        BY <1>5, <3>1
      <3> QED  BY <2>2, <3>1, <3>2, <3>3 DEF Rung, H, N
    <2>3. CASE ~(i <= 1 + H) /\ ~(i <= 1 + H + N)
      <3>1. i - (1 + H + N) \in 1 .. M /\ i - (1 + H + N) - 1 = i - 1 - H - N - 1
        BY <1>1, <2>3
      <3>2. (middle \o none)[i] = none[i - (1 + H + N)]
        BY <1>9, <2>3
      <3>3. none[i - (1 + H + N)] = [turns |-> 0, squeezed |-> TRUE, kept |-> n - (i - (1 + H + N) - 1)]
        BY <1>6, <3>1
      <3> QED  BY <2>3, <3>1, <3>2, <3>3 DEF Rung, H, N
    <2> QED  BY <1>1, <2>1, <2>2, <2>3
  <1> QED  BY <1>9, <1>10, <1>11

\* Better, without equations between truth values.
LEMMA BetterMeans ==
  ASSUME NEW p, NEW q, Better(q, p), q.squeezed \in BOOLEAN, p.squeezed \in BOOLEAN
  PROVE  \/ q.turns > 0 /\ p.turns = 0
         \/ ~q.squeezed /\ p.squeezed
         \/ /\ q.squeezed <=> p.squeezed
            /\ q.turns > 0 <=> p.turns > 0
            /\ q.kept > p.kept \/ (q.kept = p.kept /\ q.turns > p.turns)
  BY Zenon DEF Better

\* A prompt there is to choose from is tried before all that are worse; and
\* where there are chunks, every one of them is tried.
LEMMA BetterIsTriedFirst ==
  ASSUME NEW h \in Nat, NEW n \in Nat, NEW q \in Candidates(h, n)
  PROVE  /\ n > 0 => \E j \in 1 .. Rungs(h, n) : Rung(h, n, j) = q
         /\ \A i \in 1 .. Rungs(h, n) : Better(q, Rung(h, n, i)) =>
               \E j \in 1 .. i - 1 : Rung(h, n, j) = q
  <1> DEFINE H == Dropped(h)
             N == Squeezes(n)
  <1>1. /\ H \in Nat /\ N \in Nat /\ Rungs(h, n) \in Nat
        /\ h = 0 => H = 0 /\ Rungs(h, n) = 1 + H + N
        /\ h # 0 => H = h - 1 /\ Rungs(h, n) = 1 + H + N + N
        /\ n = 0 => N = 0
        /\ n # 0 => N = n + 1
        /\ Smaller(h, 1) = IF h = 0 THEN 0 ELSE 1
    BY DEF Dropped, Squeezes, Rungs, Smaller
  <1>2. /\ q = [turns |-> q.turns, squeezed |-> q.squeezed, kept |-> q.kept]
        /\ q.turns \in 0 .. h /\ q.squeezed \in BOOLEAN /\ q.kept \in 0 .. n
        /\ ~q.squeezed => q.kept = n /\ (q.turns > 0 \/ h = 0)
        /\ q.squeezed => q.turns <= 1
    BY DEF Candidates
  <1>3. \A i \in 1 .. Rungs(h, n) :
          LET r == Rung(h, n, i) IN
          \/ i <= 1 + H /\ r.turns = h - (i - 1) /\ ~r.squeezed /\ r.kept = n
          \/ /\ i > 1 + H /\ i <= 1 + H + N
             /\ r.turns = Smaller(h, 1) /\ r.squeezed /\ r.kept = n - (i - 1 - H - 1)
          \/ /\ i > 1 + H + N
             /\ r.turns = 0 /\ r.squeezed /\ r.kept = n - (i - 1 - H - N - 1)
    BY <1>1 DEF Rung
  <1> HIDE DEF H, N
  <1>4. CASE ~q.squeezed
    <2> DEFINE j == h - q.turns + 1
    <2>1. j \in 1 .. Rungs(h, n) /\ j <= 1 + H /\ h - (j - 1) = q.turns
      BY <1>1, <1>2, <1>4
    <2>2. Rung(h, n, j) = q
      BY <1>2, <1>4, <2>1 DEF Rung, H
    <2>3. ASSUME NEW i \in 1 .. Rungs(h, n), Better(q, Rung(h, n, i))
          PROVE  j \in 1 .. i - 1
      <3> DEFINE r == Rung(h, n, i)
      <3>1. \/ i <= 1 + H /\ r.turns = h - (i - 1) /\ ~r.squeezed /\ r.kept = n
            \/ /\ i > 1 + H /\ i <= 1 + H + N
               /\ r.turns = Smaller(h, 1) /\ r.squeezed /\ r.kept = n - (i - 1 - H - 1)
            \/ /\ i > 1 + H + N
               /\ r.turns = 0 /\ r.squeezed /\ r.kept = n - (i - 1 - H - N - 1)
        BY <1>3
      <3> HIDE DEF r
      <3>2. r.squeezed \in BOOLEAN
        BY DEF r, Rung
      <3>3. \/ q.turns > 0 /\ r.turns = 0
            \/ ~q.squeezed /\ r.squeezed
            \/ /\ q.squeezed <=> r.squeezed
               /\ q.turns > 0 <=> r.turns > 0
               /\ q.kept > r.kept \/ (q.kept = r.kept /\ q.turns > r.turns)
        BY <1>2, <2>3, <3>2, BetterMeans DEF r
      <3>4. CASE i <= 1 + H
        <4>1. r.turns = h - (i - 1) /\ ~r.squeezed /\ r.kept = n
          BY <1>1, <3>1, <3>4
        <4>2. (q.turns > 0 /\ r.turns = 0) \/ q.kept > r.kept \/ q.turns > r.turns
          BY <1>4, <3>3, <4>1
        <4>3. q.kept = n /\ (q.turns > 0 \/ h = 0) /\ q.turns \in 0 .. h
          BY <1>2, <1>4
        <4> QED  BY <1>1, <3>4, <4>1, <4>2, <4>3
      <3>5. CASE ~(i <= 1 + H)
        BY <1>1, <1>2, <2>1, <3>5
      <3> QED  BY <3>4, <3>5
    <2> QED  BY <2>1, <2>2, <2>3
  <1>5. CASE q.squeezed /\ n > 0 /\ q.turns = Smaller(h, 1)
    <2> DEFINE j == 1 + H + 1 + n - q.kept
    <2>1. /\ j \in 1 .. Rungs(h, n) /\ ~(j <= 1 + H) /\ j <= 1 + H + N
          /\ n - (j - 1 - H - 1) = q.kept
      BY <1>1, <1>2, <1>5
    <2>2. Rung(h, n, j) = q
      BY <1>2, <1>5, <2>1 DEF Rung, H, N
    <2>3. ASSUME NEW i \in 1 .. Rungs(h, n), Better(q, Rung(h, n, i))
          PROVE  j \in 1 .. i - 1
      <3> DEFINE r == Rung(h, n, i)
      <3>1. \/ i <= 1 + H /\ r.turns = h - (i - 1) /\ ~r.squeezed /\ r.kept = n
            \/ /\ i > 1 + H /\ i <= 1 + H + N
               /\ r.turns = Smaller(h, 1) /\ r.squeezed /\ r.kept = n - (i - 1 - H - 1)
            \/ /\ i > 1 + H + N
               /\ r.turns = 0 /\ r.squeezed /\ r.kept = n - (i - 1 - H - N - 1)
        BY <1>3
      <3> HIDE DEF r
      <3>2. r.squeezed \in BOOLEAN
        BY DEF r, Rung
      <3>3. \/ q.turns > 0 /\ r.turns = 0
            \/ ~q.squeezed /\ r.squeezed
            \/ /\ q.squeezed <=> r.squeezed
               /\ q.turns > 0 <=> r.turns > 0
               /\ q.kept > r.kept \/ (q.kept = r.kept /\ q.turns > r.turns)
        BY <1>2, <2>3, <3>2, BetterMeans DEF r
      <3> QED  BY <1>1, <1>2, <1>5, <2>1, <3>1, <3>3
    <2> QED  BY <2>1, <2>2, <2>3
  <1>6. CASE q.squeezed /\ n > 0 /\ q.turns # Smaller(h, 1)
    <2> DEFINE j == 1 + H + N + 1 + n - q.kept
    <2>0. q.turns = 0 /\ h # 0
      BY <1>1, <1>2, <1>6
    <2>1. /\ j \in 1 .. Rungs(h, n) /\ ~(j <= 1 + H) /\ ~(j <= 1 + H + N)
          /\ n - (j - 1 - H - N - 1) = q.kept
      BY <1>1, <1>2, <1>6, <2>0
    <2>2. Rung(h, n, j) = q
      BY <1>2, <1>6, <2>0, <2>1 DEF Rung, H, N
    <2>3. ASSUME NEW i \in 1 .. Rungs(h, n), Better(q, Rung(h, n, i))
          PROVE  j \in 1 .. i - 1
      <3> DEFINE r == Rung(h, n, i)
      <3>1. \/ i <= 1 + H /\ r.turns = h - (i - 1) /\ ~r.squeezed /\ r.kept = n
            \/ /\ i > 1 + H /\ i <= 1 + H + N
               /\ r.turns = Smaller(h, 1) /\ r.squeezed /\ r.kept = n - (i - 1 - H - 1)
            \/ /\ i > 1 + H + N
               /\ r.turns = 0 /\ r.squeezed /\ r.kept = n - (i - 1 - H - N - 1)
        BY <1>3
      <3> HIDE DEF r
      <3>2. r.squeezed \in BOOLEAN
        BY DEF r, Rung
      <3>3. \/ q.turns > 0 /\ r.turns = 0
            \/ ~q.squeezed /\ r.squeezed
            \/ /\ q.squeezed <=> r.squeezed
               /\ q.turns > 0 <=> r.turns > 0
               /\ q.kept > r.kept \/ (q.kept = r.kept /\ q.turns > r.turns)
        BY <1>2, <2>3, <3>2, BetterMeans DEF r
      <3> QED  BY <1>1, <1>2, <1>6, <2>0, <2>1, <3>1, <3>3
    <2> QED  BY <2>1, <2>2, <2>3
  <1>7. CASE q.squeezed /\ ~(n > 0)
    <2>1. ASSUME NEW i \in 1 .. Rungs(h, n), Better(q, Rung(h, n, i))
          PROVE  FALSE
      <3> DEFINE r == Rung(h, n, i)
      <3>1. \/ i <= 1 + H /\ r.turns = h - (i - 1) /\ ~r.squeezed /\ r.kept = n
            \/ /\ i > 1 + H /\ i <= 1 + H + N
               /\ r.turns = Smaller(h, 1) /\ r.squeezed /\ r.kept = n - (i - 1 - H - 1)
            \/ /\ i > 1 + H + N
               /\ r.turns = 0 /\ r.squeezed /\ r.kept = n - (i - 1 - H - N - 1)
        BY <1>3
      <3> HIDE DEF r
      <3>2. r.squeezed \in BOOLEAN
        BY DEF r, Rung
      <3>3. \/ q.turns > 0 /\ r.turns = 0
            \/ ~q.squeezed /\ r.squeezed
            \/ /\ q.squeezed <=> r.squeezed
               /\ q.turns > 0 <=> r.turns > 0
               /\ q.kept > r.kept \/ (q.kept = r.kept /\ q.turns > r.turns)
        BY <1>2, <2>1, <3>2, BetterMeans DEF r
      <3> QED  BY <1>1, <1>2, <1>7, <3>1, <3>3
    <2> QED  BY <1>7, <2>1
  <1> QED  BY <1>4, <1>5, <1>6, <1>7

\* What fits of the thread and the chunks: nothing, or the first rung that
\* does.
LEMMA FittedIs ==
  ASSUME NEW fixed, NEW turns, NEW costs, NEW squeezed, NEW budget,
         Len(turns) \in Nat, Len(costs) \in Nat
  PROVE  LET h == Len(turns)
             n == Len(costs)
             Fits(i) == budget > 0 /\ Cost(Rung(h, n, i), fixed, turns, costs, squeezed) <= budget
         IN  \/ /\ Fitted(fixed, turns, costs, squeezed, budget) = {}
                /\ \A i \in 1 .. Rungs(h, n) : ~Fits(i)
             \/ \E m \in 1 .. Rungs(h, n) :
                   /\ Fitted(fixed, turns, costs, squeezed, budget) = {Rung(h, n, m)}
                   /\ Rung(h, n, m) \in Prompt
                   /\ Fits(m) /\ \A i \in 1 .. m - 1 : ~Fits(i)
  <1> DEFINE h == Len(turns)
             n == Len(costs)
             rungs == Ladder(h, n)
             Fits(i) == budget > 0 /\ Cost(Rung(h, n, i), fixed, turns, costs, squeezed) <= budget
             fits == {i \in 1 .. Len(rungs) :
                        budget > 0 /\ Cost(rungs[i], fixed, turns, costs, squeezed) <= budget}
             fitted == Fitted(fixed, turns, costs, squeezed, budget)
  <1>1. /\ rungs \in Seq(Prompt) /\ Len(rungs) = Rungs(h, n)
        /\ \A i \in 1 .. Rungs(h, n) : rungs[i] = Rung(h, n, i)
    BY LadderIs
  <1>2. fitted = IF fits = {} THEN {} ELSE {rungs[CHOOSE i \in fits : \A j \in fits : i <= j]}
    BY DEF Fitted
  <1>3. Rungs(h, n) \in Nat
    BY <1>1, LenProperties
  <1> HIDE DEF rungs, fitted
  <1>4. \A i \in 1 .. Rungs(h, n) : i \in fits <=> Fits(i)
    BY <1>1
  <1>5. fits \subseteq 1 .. Rungs(h, n)
    BY <1>1
  <1> HIDE DEF fits, Fits, h, n
  <1>6. CASE fits = {}
    BY <1>2, <1>4, <1>6 DEF fitted, Fits, h, n
  <1>7. CASE fits # {}
    <2> DEFINE m == CHOOSE i \in fits : \A j \in fits : i <= j
    <2>1. m \in fits /\ \A j \in fits : m <= j
      <3>1. fits \subseteq Nat
        BY <1>3, <1>5
      <3> QED  BY <1>7, <3>1, LeastNatural
    <2>2. fitted = {rungs[m]}
      BY <1>2, <1>7
    <2> HIDE DEF m
    <2>3. m \in 1 .. Rungs(h, n) /\ Fits(m) /\ rungs[m] = Rung(h, n, m)
      BY <1>1, <1>4, <1>5, <2>1
    <2>4. Rung(h, n, m) \in Prompt
      BY <1>1, <2>3, ElementOfSeq
    <2>5. \A i \in 1 .. m - 1 : ~Fits(i)
      <3>1. \A i \in 1 .. m - 1 : i \in 1 .. Rungs(h, n) /\ ~(m <= i)
        BY <1>3, <2>3
      <3> QED  BY <1>4, <2>1, <3>1
    <2> QED  BY <2>2, <2>3, <2>4, <2>5 DEF fitted, Fits, h, n
  <1> QED  BY <1>6, <1>7

\* Of the prompts there are, the one that is chosen is the best that fits.
LEMMA PromptIsBest ==
  ASSUME NEW fixed, NEW turns, NEW costs, NEW squeezed, NEW budget,
         Len(turns) \in Nat, Len(costs) \in Nat
  PROVE  LET prompt == Fitted(fixed, turns, costs, squeezed, budget)
             fitting == {q \in Candidates(Len(turns), Len(costs)) :
                           budget > 0 /\ Cost(q, fixed, turns, costs, squeezed) <= budget}
         IN  /\ \A p \in prompt : /\ Cost(p, fixed, turns, costs, squeezed) <= budget
                                  /\ \A q \in fitting : ~Better(q, p)
             /\ prompt = {} /\ Len(costs) > 0 => fitting = {}
  <1> DEFINE h == Len(turns)
             n == Len(costs)
             Fits(i) == budget > 0 /\ Cost(Rung(h, n, i), fixed, turns, costs, squeezed) <= budget
             prompt == Fitted(fixed, turns, costs, squeezed, budget)
             fitting == {q \in Candidates(h, n) :
                           budget > 0 /\ Cost(q, fixed, turns, costs, squeezed) <= budget}
  <1>1. \/ prompt = {} /\ \A i \in 1 .. Rungs(h, n) : ~Fits(i)
        \/ \E m \in 1 .. Rungs(h, n) :
              prompt = {Rung(h, n, m)} /\ Fits(m) /\ \A i \in 1 .. m - 1 : ~Fits(i)
    <2> HIDE DEF prompt
    <2> QED  BY FittedIs DEF prompt
  <1>2. \A q \in fitting : /\ q \in Candidates(h, n)
                           /\ \A j : Rung(h, n, j) = q => Fits(j)
    OBVIOUS
  <1>3. \A m : Fits(m) => Cost(Rung(h, n, m), fixed, turns, costs, squeezed) <= budget
    OBVIOUS
  <1>4. h \in Nat /\ n \in Nat
    OBVIOUS
  <1> HIDE DEF prompt, fitting, Fits, h, n
  <1>5. CASE prompt = {} /\ \A i \in 1 .. Rungs(h, n) : ~Fits(i)
    <2>1. n > 0 => fitting = {}
      BY <1>2, <1>4, <1>5, BetterIsTriedFirst
    <2> QED  BY <1>5, <2>1 DEF prompt, fitting, h, n
  <1>6. ASSUME NEW m \in 1 .. Rungs(h, n), prompt = {Rung(h, n, m)}, Fits(m),
               \A i \in 1 .. m - 1 : ~Fits(i)
        PROVE  /\ \A p \in prompt : /\ Cost(p, fixed, turns, costs, squeezed) <= budget
                                    /\ \A q \in fitting : ~Better(q, p)
               /\ prompt # {}
    <2>1. \A q \in fitting : ~Better(q, Rung(h, n, m))
      BY <1>2, <1>4, <1>6, BetterIsTriedFirst
    <2> QED  BY <1>3, <1>6, <2>1
  <1> QED  BY <1>1, <1>5, <1>6 DEF prompt, fitting, h, n

\* As many costs as chunks.
LEMMA CostsAre ==
  ASSUME NEW tokens, NEW picked, Len(picked) \in Nat
  PROVE  Len(Costs(tokens, picked)) = Len(picked)
  <1> DEFINE n == Len(picked)
  <1>1. Costs(tokens, picked) = [i \in 1 .. n |-> tokens[picked[i]]]
    BY DEF Costs
  <1>2. n \in Nat
    OBVIOUS
  <1> HIDE DEF n
  <1>3. Costs(tokens, picked) \in Seq({tokens[picked[i]] : i \in 1 .. n})
    BY <1>1, <1>2
  <1>4. DOMAIN Costs(tokens, picked) = 1 .. n
    BY <1>1
  <1> QED  BY <1>2, <1>3, <1>4, LenProperties DEF n

\* The prompt, if there is one, is one prompt.
LEMMA PromptIsPrompt ==
  ASSUME Chosen, NEW picked, Len(picked) \in Nat
  PROVE  PromptFor(picked) = {} \/ \E p \in Prompt : PromptFor(picked) = {p}
  <1>1. Len(opts.turns) \in Nat /\ Len(Costs(ChunkTokens, picked)) \in Nat
    BY PlannerAssumption, CostsAre, LenProperties DEF Chosen
  <1>2. CASE opts.window = 0
    <2>1. Whole(picked) \in Prompt
      BY <1>1 DEF Whole, Prompt
    <2> QED  BY <1>2, <2>1 DEF PromptFor
  <1>3. CASE opts.window # 0
    <2> DEFINE fitted == Fitted(opts.fixed, opts.turns, Costs(ChunkTokens, picked),
                                Costs(SqueezedTokens, picked), opts.window - opts.reserve)
    <2>1. fitted = {} \/ \E m : fitted = {Rung(Len(opts.turns), Len(Costs(ChunkTokens, picked)), m)}
                                /\ Rung(Len(opts.turns), Len(Costs(ChunkTokens, picked)), m) \in Prompt
      <3> HIDE DEF fitted
      <3> QED  BY <1>1, FittedIs DEF fitted
    <2>2. PromptFor(picked) = fitted
      BY <1>3 DEF PromptFor
    <2> HIDE DEF fitted
    <2> QED  BY <2>1, <2>2
  <1> QED  BY <1>2, <1>3

\* What the template's budget lets through is a number of chunks.
LEMMA TrimmedIsNat ==
  ASSUME NEW costs, Len(costs) \in Nat, NEW budget
  PROVE  Trimmed(costs, budget) \in Nat
  <1> DEFINE over == {i \in 2 .. Len(costs) : Total(costs, 1, i) > budget}
  <1>1. over \subseteq Nat \ {0}
    OBVIOUS
  <1>2. Trimmed(costs, budget) = IF budget <= 0 \/ over = {} THEN Len(costs)
                                 ELSE (CHOOSE i \in over : \A j \in over : i <= j) - 1
    BY DEF Trimmed
  <1> HIDE DEF over
  <1>3. over # {} => (CHOOSE i \in over : \A j \in over : i <= j) \in Nat \ {0}
    BY <1>1, LeastNatural
  <1> QED  BY <1>2, <1>3

\* The chunks that are taken from what was retrieved.
LEMMA BudgetedIs ==
  ASSUME Chosen, Rows, NEW lists \in Seq(Seq(1 .. nextChunk - 1)), ask.lists = lists,
         \A l \in 1 .. Len(lists) : Listed(lists[l])
  PROVE  Listed(Budgeted(Retrieved))
  <1> DEFINE n == nextChunk - 1
  <1>1. n \in Nat
    BY SearchAssumption DEF Rows
  <1>2. Listed(Retrieved)
    <2>1. CASE Len(lists) = 1
      BY <2>1 DEF Retrieved
    <2>2. CASE Len(lists) # 1
      <3>1. FuseRRF(lists) \in Seq(1 .. n) /\ IsInjective(FuseRRF(lists))
        BY <1>1, FusedIs
      <3>2. opts.topK \in Nat
        BY PlannerAssumption DEF Chosen
      <3>3. First(opts.topK, FuseRRF(lists)) \in Seq(1 .. n) /\ IsInjective(First(opts.topK, FuseRRF(lists)))
        BY <3>1, <3>2, FirstIs
      <3> QED  BY <2>2, <3>3 DEF Retrieved, Listed
    <2> QED  BY <2>1, <2>2
  <1>3. Trimmed(Costs(ChunkTokens, Retrieved), opts.maxTokens) \in Nat
    <2>1. Len(Retrieved) \in Nat
      BY <1>2, LenProperties DEF Listed
    <2>2. Len(Costs(ChunkTokens, Retrieved)) \in Nat
      BY <2>1, CostsAre
    <2> QED  BY <2>2, TrimmedIsNat
  <1> QED  BY <1>2, <1>3, FirstIs DEF Budgeted, Listed

\* The ask runs in its command, plans before it searches, and starts a search
\* only for a query that has none yet.
InTurn ==
    /\ command = "opening" => search.at = "idle"
    /\ ask.at # "idle" => command \in {"ask", "ended"}
    /\ ask.at = "idle" => ask = NoAsk
    /\ ask.at = "plan" => ask = [NoAsk EXCEPT !.at = "plan"] /\ search.at = "idle"
    /\ ask.at = "retrieve" /\ search.at # "idle" => Len(ask.lists) < Len(ask.queries)

\* A list for each query searched so far.
ListsInv ==
    /\ ask.queries \in Seq(Query)
    /\ ask.lists \in Seq(Seq(1 .. nextChunk - 1))
    /\ \A l \in 1 .. Len(ask.lists) : Listed(ask.lists[l])
    /\ Len(ask.lists) <= Len(ask.queries)

\* The prompt is what fits of the chunks, also when that is nothing.
PromptInv ==
    /\ ask.at \in {"idle", "plan", "retrieve", "answer", "finish", "ended"}
    /\ ask.heard \in BOOLEAN
    /\ ask.outcome \in {"none", "answered", "recorded", "no context", "overflow", "error"}
    /\ Listed(ask.chunks)
    /\ ask.prompt = {} \/ ask.prompt = PromptFor(ask.chunks)
    /\ ask.outcome = "overflow" => ask.at = "ended" /\ PromptFor(ask.chunks) = {}

KInv == InTurn /\ ListsInv /\ PromptInv

\* An ask that stands still: its command may end, its next search may start.
LEMMA MeanwhileMoves ==
  ASSUME InTurn, [Next]_vars, ask' = ask
  PROVE  /\ ask.at # "idle" => nextChunk' = nextChunk /\ opts' = opts
         /\ ask.at # "idle" => command' \in {"ask", "ended"}
         /\ command' = "opening" => search'.at = "idle"
         /\ ask.at = "plan" => search'.at = "idle"
         /\ ask.at = "retrieve" /\ search.at = "idle" /\ search'.at # "idle" => ~Searched
  <1>1. CASE Opening
    BY <1>1 DEF Opening, InTurn, asking, searching
  <1>2. CASE BeginAsk \/ BeginSearch \/ BeginSplit \/ BeginEval
    <2>1. command = "opening" /\ command' # "opening" /\ ask.at = "idle"
      BY <1>2 DEF BeginAsk, BeginSearch, BeginSplit, BeginEval, Begin, InTurn
    <2> QED  BY <2>1 DEF InTurn
  <1>3. CASE End
    BY <1>3 DEF End, Over, InTurn, asking, searching
  <1>4. CASE Asking
    <2>1. command' = command /\ command = "ask"
      BY <1>4 DEF Asking, Quiet
    <2>2. CASE RetrieveNext
      <3>1. nextChunk' = nextChunk /\ opts' = opts /\ ask.at = "retrieve" /\ ~Searched
        BY <2>2 DEF RetrieveNext, StartSearch
      <3> QED  BY <2>1, <3>1
    <2>3. CASE TakeResults
      <3>1. nextChunk' = nextChunk /\ opts' = opts /\ search'.at = "idle"
        BY <2>3 DEF TakeResults, NoSearch
      <3> QED  BY <2>1, <3>1
    <2> QED
      BY <1>4, <2>1, <2>2, <2>3
      DEF Asking, AskStep, PlanQueries, PlanReady, AskModel, TakeAnswer, FinishAnswer, searching, InTurn
  <1>5. CASE Searching
    <2>1. command' = command /\ command \in {"ask", "search"} /\ opts' = opts
      BY <1>5 DEF Searching, Quiet, asking
    <2>2. nextChunk' = nextChunk /\ (search.at = "idle" => search' = search)
      BY <1>5 DEF Searching, SearchStep, Embedded, RankVector, HydrateVector, KeywordLeg, Fuse, searching
    <2> QED  BY <2>1, <2>2 DEF InTurn
  <1>6. CASE SearchInterrupted
    <2>1. command' = command /\ opts' = opts
      BY <1>6 DEF SearchInterrupted, Quiet, asking
    <2>2. nextChunk' = nextChunk /\ (search.at = "idle" => search' = search)
      BY <1>6 DEF SearchInterrupted, CancelSearch, searching
    <2> QED  BY <2>1, <2>2 DEF InTurn
  <1>7. CASE OtherProcesses
    <2>1. command = "search" /\ command' = command
      BY <1>7 DEF OtherProcesses, Quiet
    <2> QED  BY <2>1 DEF InTurn
  <1>8. CASE UNCHANGED <<opts, searching, command>>
    BY <1>8 DEF searching, InTurn
  <1> QED
    BY <1>1, <1>2, <1>3, <1>4, <1>5, <1>6, <1>7, <1>8
    DEF Next, vars, asking, Splitting, Evaluating, PressCtrlC, Answering, TimeOut, Quiet

\* The steps that move an ask.
LEMMA AskMoves ==
  ASSUME [Next]_vars
  PROVE  \/ ask' = ask
         \/ BeginAsk
         \/ /\ command = "ask" /\ command' = command
            /\ PlanReady \/ TakeResults \/ AskModel \/ TakeAnswer \/ FinishAnswer
  BY DEF Next, vars, asking, Opening, BeginSearch, BeginSplit, BeginEval, End, Asking, AskStep, PlanQueries,
         RetrieveNext, Searching, Splitting, Evaluating, PressCtrlC, SearchInterrupted, OtherProcesses, Answering,
         TimeOut, Quiet

\* The corpus stays, and so does the ask's choice: lists stay lists, and a
\* prompt the prompt.
LEMMA SamePrompt ==
  ASSUME nextChunk' = nextChunk, opts' = opts
  PROVE  /\ \A s : Listed(s)' <=> Listed(s)
         /\ \A s : PromptFor(s)' = PromptFor(s)
  BY DEF Listed, PromptFor, Whole

\* Nothing to search for, and nothing found.
LEMMA NothingYet ==
  ASSUME NEW queries, NEW lists, queries = <<>>, lists = <<>>, NEW n
  PROVE  /\ queries \in Seq(Query) /\ lists \in Seq(Seq(1 .. n))
         /\ Len(lists) <= Len(queries) /\ 1 .. Len(lists) = {}
  BY EmptySeq

LEMMA NoAskKeeps ==
  ASSUME ask.at = "idle" \/ ask.at = "plan", ask = [NoAsk EXCEPT !.at = ask.at], nextChunk \in Nat
  PROVE  ListsInv /\ PromptInv
  <1>1. /\ ask.queries = <<>> /\ ask.lists = <<>> /\ ask.chunks = <<>> /\ ask.prompt = {}
        /\ ask.heard = FALSE /\ ask.outcome = "none"
    BY DEF NoAsk
  <1>2. ListsInv
    BY <1>1, NothingYet DEF ListsInv
  <1> QED  BY <1>1, <1>2, NothingListed DEF PromptInv

\* The ask stands still.
LEMMA MeanwhileKeeps ==
  ASSUME Shape, XInv, KInv, [Next]_vars, ask' = ask, nextChunk' \in Nat
  PROVE  KInv'
  <1>1. CASE ask.at = "idle"
    <2>1. ask = NoAsk /\ ask' = [NoAsk EXCEPT !.at = ask'.at] /\ ask'.at = "idle"
      BY <1>1 DEF KInv, InTurn, NoAsk
    <2>2. InTurn'
      BY <1>1, <2>1, MeanwhileMoves DEF KInv, InTurn
    <2>3. ListsInv' /\ PromptInv'
      <3>1. (ask.at = "idle" /\ ask = [NoAsk EXCEPT !.at = ask.at])'
        BY <2>1
      <3>2. ask'.queries = <<>> /\ ask'.lists = <<>> /\ ask'.chunks = <<>> /\ ask'.prompt = {}
            /\ ask'.heard = FALSE /\ ask'.outcome = "none"
        BY <2>1 DEF NoAsk
      <3>3. ListsInv'
        BY <3>2, NothingYet DEF ListsInv
      <3>4. Listed(<<>>)'
        BY EmptySeq DEF Listed, IsInjective
      <3> QED  BY <2>1, <3>2, <3>3, <3>4 DEF PromptInv
    <2> QED  BY <2>2, <2>3 DEF KInv
  <1>2. CASE ask.at # "idle"
    <2>1. /\ nextChunk' = nextChunk /\ opts' = opts
          /\ command' \in {"ask", "ended"}
          /\ ask.at = "plan" => search'.at = "idle"
          /\ ask.at = "retrieve" /\ search.at = "idle" /\ search'.at # "idle" => ~Searched
      BY <1>2, MeanwhileMoves DEF KInv
    <2>2. Len(ask.lists) \in Nat /\ Len(ask.queries) \in Nat /\ Len(ask.lists) <= Len(ask.queries)
      BY LenProperties DEF KInv, ListsInv
    <2>3. ask.at = "retrieve" /\ search'.at # "idle" => Len(ask.lists) < Len(ask.queries)
      BY <2>1, <2>2 DEF KInv, InTurn, Searched
    <2>4. InTurn'
      BY <1>2, <2>1, <2>3 DEF KInv, InTurn
    <2>5. ListsInv' /\ PromptInv'
      BY <2>1, SamePrompt DEF KInv, ListsInv, PromptInv
    <2> QED  BY <2>4, <2>5 DEF KInv
  <1> QED  BY <1>1, <1>2

\* A search that found something: one list more.
LEMMA TakeResultsKeeps ==
  ASSUME Shape, XInv, KInv, TakeResults, command = "ask", command' = command
  PROVE  KInv'
  <1>1. nextChunk' = nextChunk /\ opts' = opts /\ search'.at = "idle" /\ ask.at = "retrieve" /\ search.at # "idle"
    BY DEF TakeResults, NoSearch
  <1>2. CASE ask' = [ask EXCEPT !.lists = Append(@, search.found)]
    <2>1. /\ ask'.at = "retrieve" /\ ask'.lists = Append(ask.lists, search.found)
          /\ UNCHANGED <<ask.queries, ask.chunks, ask.prompt, ask.heard, ask.outcome>>
      BY <1>1, <1>2 DEF Shape
    <2>2. InTurn'
      BY <1>1, <2>1 DEF InTurn
    <2> DEFINE T == Seq(1 .. nextChunk - 1)
               n == Len(ask.lists)
               more == Append(ask.lists, search.found)
    <2>3. ask.lists \in Seq(T) /\ search.found \in T /\ Listed(search.found)
      BY DEF KInv, ListsInv, XInv, Results, Listed
    <2>4. n \in Nat /\ Len(ask.queries) \in Nat /\ n < Len(ask.queries)
      BY <1>1, LenProperties DEF KInv, ListsInv, InTurn
    <2> HIDE DEF T
    <2>5. /\ more \in Seq(T) /\ Len(more) = n + 1
          /\ \A i \in 1 .. n : more[i] = ask.lists[i]
          /\ more[n + 1] = search.found
      BY <2>3, AppendProperties
    <2>6. \A l \in 1 .. Len(ask.lists) : Listed(ask.lists[l])
      BY DEF KInv, ListsInv
    <2> HIDE DEF more, n
    <2>7. \A l \in 1 .. n + 1 : Listed(more[l])
      <3>1. \A l \in 1 .. n + 1 : l \in 1 .. n \/ l = n + 1
        BY <2>4
      <3> QED  BY <2>3, <2>5, <2>6, <3>1 DEF n
    <2>8. ask'.lists = more
      BY <2>1 DEF more
    <2>9. n + 1 <= Len(ask.queries)
      BY <2>4
    <2>10. ListsInv'
      BY <1>1, <2>1, <2>5, <2>7, <2>8, <2>9, SamePrompt DEF KInv, ListsInv, T
    <2>11. PromptInv'
      BY <1>1, <2>1, SamePrompt DEF KInv, PromptInv
    <2> QED  BY <2>2, <2>10, <2>11 DEF KInv
  <1>3. CASE Return("error")
    <2>1. /\ ask'.at = "ended" /\ ask'.outcome = "error"
          /\ UNCHANGED <<ask.queries, ask.lists, ask.chunks, ask.prompt, ask.heard>>
      BY <1>3 DEF Return, Shape
    <2>2. InTurn'
      BY <1>1, <2>1 DEF InTurn
    <2>3. ListsInv' /\ PromptInv'
      BY <1>1, <2>1, SamePrompt DEF KInv, ListsInv, PromptInv
    <2> QED  BY <2>2, <2>3 DEF KInv
  <1> QED  BY <1>2, <1>3 DEF TakeResults

\* What is retrieved is cut to its budget and made a prompt of.
LEMMA AskModelKeeps ==
  ASSUME Chosen, Shape, XInv, KInv, AskModel, command = "ask", command' = command
  PROVE  KInv'
  <1>1. nextChunk' = nextChunk /\ opts' = opts /\ ask.at = "retrieve"
    BY DEF AskModel, searching
  <1>2. Listed(Budgeted(Retrieved))
    BY BudgetedIs DEF XInv, KInv, ListsInv
  <1>3. PICK picked, prompt : picked = Budgeted(Retrieved) /\ prompt = PromptFor(picked)
    OBVIOUS
  <1> DEFINE Made(at, outcome) == [at |-> at, queries |-> <<>>, lists |-> <<>>, chunks |-> picked,
                                   prompt |-> prompt, heard |-> FALSE, outcome |-> outcome]
             ready == [NoAsk EXCEPT !.chunks = picked, !.prompt = prompt]
  <1>4. PICK at \in {"answer", "ended"}, outcome \in {"none", "no context", "overflow"} :
            ask' = Made(at, outcome) /\ (outcome = "overflow" => at = "ended" /\ prompt = {})
    <2>1. \/ ask' = [ready EXCEPT !.at = "ended", !.outcome = "no context"]
          \/ ask' = [ready EXCEPT !.at = "ended", !.outcome = "overflow"] /\ prompt = {}
          \/ ask' = [ready EXCEPT !.at = "answer"]
      BY <1>3 DEF AskModel
    <2>2. ask' = [ready EXCEPT !.at = "ended", !.outcome = "no context"] => ask' = Made("ended", "no context")
      BY DEF NoAsk
    <2>3. ask' = [ready EXCEPT !.at = "ended", !.outcome = "overflow"] => ask' = Made("ended", "overflow")
      BY DEF NoAsk
    <2>4. ask' = [ready EXCEPT !.at = "answer"] => ask' = Made("answer", "none")
      BY DEF NoAsk
    <2> HIDE DEF ready, Made
    <2> QED  BY <2>1, <2>2, <2>3, <2>4
  <1>5. /\ ask'.at = at /\ ask'.outcome = outcome /\ ask'.chunks = picked /\ ask'.prompt = prompt
        /\ ask'.queries = <<>> /\ ask'.lists = <<>> /\ ask'.heard = FALSE
    BY <1>4
  <1>6. InTurn'
    BY <1>1, <1>5 DEF InTurn
  <1>7. ListsInv'
    BY <1>5, NothingYet DEF ListsInv
  <1>8. PromptInv'
    BY <1>1, <1>2, <1>3, <1>4, <1>5, SamePrompt DEF PromptInv
  <1> QED  BY <1>6, <1>7, <1>8 DEF KInv

\* Tokens and the end of the ask leave its prompt alone.
LEMMA AnswerKeeps ==
  ASSUME Shape, KInv, TakeAnswer \/ FinishAnswer, command = "ask", command' = command
  PROVE  KInv'
  <1>1. nextChunk' = nextChunk /\ opts' = opts /\ ask.at \in {"answer", "finish"}
    BY DEF TakeAnswer, FinishAnswer, searching
  <1>2. /\ ask'.at \in {"answer", "finish", "ended"}
        /\ ask'.outcome = ask.outcome \/ ask'.outcome \in {"answered", "recorded", "error"}
        /\ ask'.outcome = "overflow" => ask.outcome = "overflow" /\ FALSE
        /\ ask'.heard \in BOOLEAN
        /\ UNCHANGED <<ask.queries, ask.lists, ask.chunks, ask.prompt>>
    <2>1. ask.outcome # "overflow" /\ ask.heard \in BOOLEAN
      BY <1>1 DEF KInv, PromptInv
    <2>2. CASE TakeAnswer
      <3>1. \/ ask' = [ask EXCEPT !.at = "ended", !.outcome = "error"]
            \/ ask' = [ask EXCEPT !.at = "finish"]
            \/ ask' = [ask EXCEPT !.heard = @ \/ call["answer"].token = "text"]
        BY <2>2 DEF TakeAnswer, Return
      <3>2. (ask.heard \/ call["answer"].token = "text") \in BOOLEAN
        OBVIOUS
      <3> QED  BY <1>1, <2>1, <3>1, <3>2 DEF Shape
    <2>3. CASE FinishAnswer
      <3>1. \E outcome \in {"answered", "recorded", "error"} :
                ask' = [ask EXCEPT !.at = "ended", !.outcome = outcome]
        BY <2>3 DEF FinishAnswer, Return
      <3> QED  BY <2>1, <3>1 DEF Shape
    <2> QED  BY <2>2, <2>3
  <1>3. InTurn'
    BY <1>1, <1>2 DEF InTurn
  <1>4. ListsInv' /\ PromptInv'
    BY <1>1, <1>2, SamePrompt DEF KInv, ListsInv, PromptInv
  <1> QED  BY <1>3, <1>4 DEF KInv

\* An ask begins: nothing is retrieved yet.
LEMMA AskBegins ==
  ASSUME KInv, BeginAsk, nextChunk \in Nat
  PROVE  KInv'
  <1>1. /\ ask = NoAsk /\ ask' = [NoAsk EXCEPT !.at = "plan"] /\ command' = "ask"
        /\ nextChunk' = nextChunk /\ search' = search /\ search.at = "idle"
    BY DEF BeginAsk, Begin, StartAsk, KInv, InTurn, searching
  <1>2. /\ ask'.at = "plan" /\ ask'.queries = <<>> /\ ask'.lists = <<>> /\ ask'.chunks = <<>>
        /\ ask'.prompt = {} /\ ask'.heard = FALSE /\ ask'.outcome = "none"
    BY <1>1 DEF NoAsk
  <1>3. InTurn'
    BY <1>1, <1>2 DEF InTurn
  <1>4. ListsInv'
    BY <1>2, NothingYet DEF ListsInv
  <1>5. Listed(<<>>)'
    BY EmptySeq DEF Listed, IsInjective
  <1> QED  BY <1>2, <1>3, <1>4, <1>5 DEF KInv, PromptInv

\* The plan is ready: its queries are searched from the first.
LEMMA PlanReadyKeeps ==
  ASSUME Chosen, Shape, PInv, KInv, PlanReady, command = "ask", command' = command
  PROVE  KInv'
  <1>1. /\ plan.at = "planned" /\ ask.at = "plan" /\ nextChunk' = nextChunk /\ opts' = opts
        /\ search' = search /\ search.at = "idle" /\ ask = [NoAsk EXCEPT !.at = "plan"]
    BY DEF PlanReady, KInv, InTurn, searching
  <1>2. PICK queries : queries = NonBlank(Usable(plan.queries)) /\ queries \in Seq(Query)
    BY <1>1, GoodIsUsable DEF PInv
  <1>3. ask' = [ask EXCEPT !.at = "retrieve", !.queries = queries]
    BY <1>2 DEF PlanReady
  <1>4. /\ ask'.at = "retrieve" /\ ask'.queries = queries /\ ask'.lists = <<>> /\ ask'.chunks = <<>>
        /\ ask'.prompt = {} /\ ask'.heard = FALSE /\ ask'.outcome = "none"
    BY <1>1, <1>3 DEF NoAsk
  <1>5. InTurn'
    BY <1>1, <1>4 DEF InTurn
  <1>6. /\ <<>> \in Seq(Seq(1 .. nextChunk' - 1)) /\ Len(<<>>) = 0 /\ 1 .. Len(<<>>) = {}
        /\ Len(queries) \in Nat
    BY <1>2, EmptySeq, LenProperties
  <1>7. ListsInv'
    BY <1>2, <1>4, <1>6 DEF ListsInv
  <1>8. Listed(<<>>)'
    BY EmptySeq DEF Listed, IsInjective
  <1>9. PromptInv'
    BY <1>4, <1>8 DEF PromptInv
  <1> QED  BY <1>5, <1>7, <1>9 DEF KInv

\* Whatever is planned, found and answered, the strengthened invariant of the
\* ask's retrieval and its prompt holds.
THEOREM PromptInvariance == CommandSpec => []KInv
  <1>1. Init => KInv
    <2> SUFFICES ASSUME Init PROVE KInv
      OBVIOUS
    <2>1. ask = NoAsk /\ search = NoSearch /\ XInv
      BY SearchInitInv DEF Init, AskInit, SearchInit
    <2>2. nextChunk \in Nat
      BY <2>1, SearchAssumption DEF XInv, Rows
    <2>3. ListsInv /\ PromptInv
      <3>1. ask.at = "idle" /\ ask = [NoAsk EXCEPT !.at = ask.at]
        BY <2>1 DEF NoAsk
      <3> QED  BY <2>2, <3>1, NoAskKeeps
    <2>4. InTurn
      BY <2>1 DEF InTurn, NoAsk, NoSearch
    <2> QED  BY <2>3, <2>4 DEF KInv
  <1>2. XInv => nextChunk \in Nat
    BY SearchAssumption DEF XInv, Rows
  <1>3. Chosen /\ Shape /\ PInv /\ XInv /\ XInv' /\ KInv /\ [Next]_vars => KInv'
    <2> SUFFICES ASSUME Chosen, Shape, PInv, XInv, XInv', KInv, [Next]_vars PROVE KInv'
      OBVIOUS
    <2>1. nextChunk \in Nat /\ nextChunk' \in Nat
      BY SearchAssumption DEF XInv, Rows
    <2> QED
      BY <2>1, AskMoves, MeanwhileKeeps, AskBegins, PlanReadyKeeps, TakeResultsKeeps, AskModelKeeps, AnswerKeeps
  <1>4. CommandSpec => []Shape
    BY AnswerInvariance, PTL DEF AInv
  <1> QED  BY <1>1, <1>3, <1>4, ChosenAlways, PlanInvariance, SearchInvariance, PTL DEF CommandSpec

\* Of the prompts there are, the one sent fits the window and none that fits
\* is better; and where something was retrieved, an ask fails for its size
\* only if none fits: for every thread, chunks, costs and window
\* (ask.go:424-437).
THEOREM FitIsPreferredAlways == CommandSpec => []FitIsPreferred
  <1>1. Chosen /\ KInv => FitIsPreferred
    <2> SUFFICES ASSUME Chosen, KInv, opts.window > 0
                 PROVE  LET cost(p) == Cost(p, opts.fixed, opts.turns, Costs(ChunkTokens, ask.chunks),
                                            Costs(SqueezedTokens, ask.chunks))
                            budget == opts.window - opts.reserve
                            fitting == {p \in Candidates(Len(opts.turns), Len(ask.chunks)) :
                                           budget > 0 /\ cost(p) <= budget}
                        IN  /\ \A p \in ask.prompt : cost(p) <= budget /\ \A q \in fitting : ~Better(q, p)
                            /\ ask.outcome = "overflow" /\ ask.chunks # <<>> => fitting = {}
      BY DEF FitIsPreferred
    <2>1. Len(opts.turns) \in Nat /\ Len(ask.chunks) \in Nat /\ (ask.chunks # <<>> => Len(ask.chunks) > 0)
      <3>1. opts.turns \in Seq(Nat)
        BY PlannerAssumption DEF Chosen
      <3>2. ask.chunks \in Seq(1 .. nextChunk - 1)
        BY DEF KInv, PromptInv, Listed
      <3> QED  BY <3>1, <3>2, EmptySeq, LenProperties
    <2>2. /\ Len(Costs(ChunkTokens, ask.chunks)) = Len(ask.chunks)
          /\ Len(Costs(SqueezedTokens, ask.chunks)) = Len(ask.chunks)
      BY <2>1, CostsAre
    <2> DEFINE prompt == Fitted(opts.fixed, opts.turns, Costs(ChunkTokens, ask.chunks),
                                Costs(SqueezedTokens, ask.chunks), opts.window - opts.reserve)
               cost(p) == Cost(p, opts.fixed, opts.turns, Costs(ChunkTokens, ask.chunks),
                               Costs(SqueezedTokens, ask.chunks))
               budget == opts.window - opts.reserve
               fitting == {p \in Candidates(Len(opts.turns), Len(ask.chunks)) :
                              budget > 0 /\ cost(p) <= budget}
    <2>3. /\ \A p \in prompt : cost(p) <= budget /\ \A q \in fitting : ~Better(q, p)
          /\ prompt = {} /\ Len(ask.chunks) > 0 => fitting = {}
      BY <2>1, <2>2, PromptIsBest
    <2>4. PromptFor(ask.chunks) = prompt
      <3>1. opts.window # 0
        <4>1. opts.window \in Nat
          BY PlannerAssumption DEF Chosen
        <4> QED  BY <4>1
      <3> QED  BY <3>1 DEF PromptFor
    <2>5. /\ ask.prompt = {} \/ ask.prompt = prompt
          /\ ask.outcome = "overflow" => prompt = {}
      BY <2>4 DEF KInv, PromptInv
    <2> HIDE DEF prompt, cost, budget, fitting
    <2>6. /\ \A p \in ask.prompt : cost(p) <= budget /\ \A q \in fitting : ~Better(q, p)
          /\ ask.outcome = "overflow" /\ ask.chunks # <<>> => fitting = {}
      BY <2>1, <2>3, <2>4, <2>5
    <2> QED  BY <2>6 DEF cost, budget, fitting
  <1> QED  BY <1>1, ChosenAlways, PromptInvariance, PTL

-----------------------------------------------------------------------------
(* What a ranked list scores: any labels, any discounts that fall by rank *)

\* A sum is reached place by place.
Part(s, S, i) == IF i \in S THEN s[i] ELSE 0
SumsUp(f, s, S) ==
    /\ f \in [0 .. Len(s) -> Int]
    /\ f[0] = 0
    /\ \A i \in 1 .. Len(s) : f[i] = f[i - 1] + Part(s, S, i)
    /\ SumOver(s, S) = f[Len(s)]

\* SumOver is such a sum, whatever places are added.
LEMMA SumIs ==
  ASSUME NEW s \in Seq(Int), NEW S
  PROVE  \E f : SumsUp(f, s, S)
  <1> DEFINE N == Len(s)
             part == [i \in 1 .. N |-> IF i \in S THEN s[i] ELSE 0]
             step == [p \in Int \X (1 .. N) |-> p[1] + part[p[2]]]
             Adds(g) == g = [n \in 0 .. N |->
                                IF n = 0 THEN 0 ELSE g[n - 1] + IF n \in S THEN s[n] ELSE 0]
             upto == CHOOSE g : Adds(g)
  <1>1. N \in Nat /\ \A i \in 1 .. N : s[i] \in Int
    BY ElementOfSeq, LenProperties
  <1>2. \A i \in 1 .. N : part[i] \in Int /\ part[i] = IF i \in S THEN s[i] ELSE 0
    BY <1>1
  <1>3. \A g : Adds(g) <=> g = [n \in 0 .. N |-> IF n = 0 THEN 0 ELSE g[n - 1] + part[n]]
    <2>1. \A n \in 0 .. N : n # 0 => n \in 1 .. N
      BY <1>1
    <2> HIDE DEF part, N
    <2> QED  BY <1>2, <2>1
  <1> HIDE DEF part, N, Adds
  <1>4. step \in [Int \X (1 .. N) -> Int] /\ \A x \in Int, i \in 1 .. N : step[x, i] = x + part[i]
    <2>1. \A p \in Int \X (1 .. N) : p[1] \in Int /\ p[2] \in 1 .. N
      OBVIOUS
    <2>2. \A p \in Int \X (1 .. N) : p[1] + part[p[2]] \in Int
      BY <1>2, <2>1
    <2>3. \A x \in Int, i \in 1 .. N :
             <<x, i>> \in Int \X (1 .. N) /\ <<x, i>>[1] = x /\ <<x, i>>[2] = i
      OBVIOUS
    <2> QED  BY <2>2, <2>3
  <1> HIDE DEF step
  <1>5. PICK f \in [0 .. N -> Int] : Follows(f, 0, N, 0, step)
    <2>1. N \in Int /\ 0 <= N /\ 0 \in Int /\ 0 + 1 = 1
      BY <1>1
    <2>2. step \in [Int \X (0 + 1 .. N) -> Int]
      BY <1>4, <2>1
    <2> QED  BY <2>1, <2>2, RecursionExists
  <1>6. Adds(f)
    <2>1. \A i \in 0 .. N : i # 0 => i \in 1 .. N /\ i - 1 \in 0 .. N
      BY <1>1
    <2>2. \A i \in 0 .. N : f[i] = IF i = 0 THEN 0 ELSE f[i - 1] + part[i]
      BY <1>4, <1>5, <2>1 DEF Follows
    <2> QED  BY <1>3, <2>2
  <1>7. Adds(upto)
    BY <1>6
  <1>8. SumOver(s, S) = upto[N]
    BY DEF SumOver, upto, Adds, N
  <1> HIDE DEF upto
  <1>9. upto[0] = 0 /\ \A i \in 1 .. N : upto[i] = upto[i - 1] + part[i]
    <2>1. upto = [n \in 0 .. N |-> IF n = 0 THEN 0 ELSE upto[n - 1] + part[n]]
      BY <1>3, <1>7
    <2>2. 0 \in 0 .. N /\ \A i \in 1 .. N : i \in 0 .. N /\ i # 0
      BY <1>1
    <2> QED  BY <2>1, <2>2
  <1>10. upto \in [0 .. N -> Int]
    <2>1. \A i \in 1 .. N : upto[i - 1] \in Int => upto[i] \in Int
      BY <1>2, <1>9
    <2>2. upto[0] \in Int
      BY <1>9
    <2>3. \A i \in 0 .. N : upto[i] \in Int
      BY <1>1, <2>1, <2>2, RecursionIsInteger
    <2> QED  BY <1>3, <1>7, <2>3
  <1> QED  BY <1>2, <1>8, <1>9, <1>10 DEF N, SumsUp, Part

\* One more place adds what is there.
LEMMA SumOfOneMore ==
  ASSUME NEW s \in Seq(Int), NEW S, NEW x \in 1 .. Len(s), x \notin S
  PROVE  SumOver(s, S \cup {x}) = SumOver(s, S) + s[x]
  <1> DEFINE N == Len(s)
             U == S \cup {x}
  <1>1. N \in Nat /\ s[x] \in Int /\ \A i \in 1 .. N : s[i] \in Int
    BY ElementOfSeq, LenProperties
  <1>2. PICK f : SumsUp(f, s, S)
    BY SumIs
  <1>3. PICK g : SumsUp(g, s, U)
    BY SumIs
  <1>4. \A i \in 1 .. N : Part(s, S, i) \in Int /\ Part(s, U, i) \in Int
    BY <1>1 DEF Part
  <1>5. Part(s, S, x) = 0 /\ Part(s, U, x) = s[x] /\ \A i \in 1 .. N : i # x => Part(s, U, i) = Part(s, S, i)
    BY DEF Part
  <1>6. /\ f \in [0 .. N -> Int] /\ f[0] = 0 /\ \A i \in 1 .. N : f[i] = f[i - 1] + Part(s, S, i)
        /\ g \in [0 .. N -> Int] /\ g[0] = 0 /\ \A i \in 1 .. N : g[i] = g[i - 1] + Part(s, U, i)
        /\ SumOver(s, S) = f[N] /\ SumOver(s, U) = g[N]
    BY <1>2, <1>3 DEF SumsUp
  <1>7. x \in 1 .. N
    OBVIOUS
  <1> HIDE DEF U, N
  <1> DEFINE Due(i) == IF x <= i THEN s[x] ELSE 0
             Same == {i \in 0 .. N : g[i] = f[i] + Due(i)}
  <1>8. 0 \in Same
    BY <1>1, <1>6, <1>7
  <1>9. ASSUME NEW i \in 1 .. N, i - 1 \in Same
        PROVE  i \in Same
    <2>1. /\ i \in Int /\ i \in 0 .. N /\ i - 1 \in 0 .. N /\ x \in Int
          /\ f[i - 1] \in Int /\ f[i] \in Int /\ g[i] \in Int /\ g[i - 1] \in Int
      BY SMTT(20), <1>1, <1>6, <1>7
    <2>2. g[i - 1] = f[i - 1] + Due(i - 1)
      BY <1>9
    <2>3. g[i] = f[i] + Due(i)
      <3>1. CASE i = x
        <4>1. Due(i - 1) = 0 /\ Due(i) = s[x]
          BY <2>1, <3>1
        <4>2. g[i] = g[i - 1] + s[x] /\ f[i] = f[i - 1] + 0
          BY <1>5, <1>6, <3>1
        <4> QED  BY <1>1, <2>1, <2>2, <4>1, <4>2
      <3>2. CASE i # x
        <4>1. Due(i - 1) = Due(i) /\ Due(i) \in Int
          BY <1>1, <2>1, <3>2
        <4>2. g[i] = g[i - 1] + Part(s, S, i) /\ f[i] = f[i - 1] + Part(s, S, i) /\ Part(s, S, i) \in Int
          BY <1>4, <1>5, <1>6, <3>2
        <4> HIDE DEF Due
        <4> QED  BY <2>1, <2>2, <4>1, <4>2
      <3> QED  BY <3>1, <3>2
    <2> QED  BY <2>1, <2>3
  <1> HIDE DEF Same
  <1>10. \A i \in 0 .. N : i \in Same
    BY <1>1, <1>8, <1>9, FromZeroOn
  <1>11. g[N] = f[N] + Due(N)
    BY <1>1, <1>10 DEF Same
  <1>12. Due(N) = s[x]
    BY <1>7
  <1> QED  BY <1>6, <1>11, <1>12 DEF U

\* Naturals are integers.
LEMMA SeqOfNat ==
  ASSUME NEW s \in Seq(Nat)
  PROVE  Len(s) \in Nat /\ s \in Seq(Int) /\ \A i \in 1 .. Len(s) : s[i] \in Nat
  <1> DEFINE N == Len(s)
  <1>1. Nat \subseteq Int /\ \A i \in 1 .. N : s[i] \in Nat /\ s[i] \in Int
    BY ElementOfSeq
  <1>2. s = [i \in 1 .. N |-> s[i]] /\ N \in Nat
    BY LenProperties
  <1>3. s \in [1 .. N -> Int]
    BY <1>1, <1>2
  <1> QED  BY <1>1, <1>2, <1>3, IsASeq

\* A sum of naturals is one, of nothing it is 0, and it grows with the places.
LEMMA SumGrows ==
  ASSUME NEW s \in Seq(Nat), NEW S, NEW U, S \subseteq U
  PROVE  /\ SumOver(s, S) \in Nat /\ SumOver(s, U) \in Nat
         /\ SumOver(s, S) <= SumOver(s, U)
         /\ (\A i \in 1 .. Len(s) : i \in S => s[i] = 0) => SumOver(s, S) = 0
  <1> DEFINE N == Len(s)
  <1>1. N \in Nat /\ s \in Seq(Int) /\ \A i \in 1 .. N : s[i] \in Nat
    BY SeqOfNat
  <1>2. PICK f : SumsUp(f, s, S)
    BY <1>1, SumIs
  <1>3. PICK g : SumsUp(g, s, U)
    BY <1>1, SumIs
  <1>4. \A i \in 1 .. N : /\ i - 1 \in 0 .. N /\ i \in 0 .. N
                          /\ Part(s, S, i) \in Nat /\ Part(s, U, i) \in Nat
                          /\ Part(s, S, i) <= Part(s, U, i)
    BY <1>1 DEF Part
  <1>5. (\A i \in 1 .. N : i \in S => s[i] = 0) => \A i \in 1 .. N : Part(s, S, i) = 0
    BY DEF Part
  <1>6. /\ f \in [0 .. N -> Int] /\ f[0] = 0 /\ \A i \in 1 .. N : f[i] = f[i - 1] + Part(s, S, i)
        /\ g \in [0 .. N -> Int] /\ g[0] = 0 /\ \A i \in 1 .. N : g[i] = g[i - 1] + Part(s, U, i)
        /\ SumOver(s, S) = f[N] /\ SumOver(s, U) = g[N]
    BY <1>2, <1>3 DEF SumsUp
  <1> HIDE DEF N
  <1> DEFINE Below == {i \in 0 .. N : 0 <= f[i] /\ f[i] <= g[i]}
             Null == {i \in 0 .. N : f[i] = 0}
  <1>7. N \in Below
    <2>1. 0 \in Below
      BY <1>1, <1>6
    <2>2. ASSUME NEW i \in 1 .. N, i - 1 \in Below
          PROVE  i \in Below
      <3>1. f[i - 1] \in Int /\ g[i - 1] \in Int /\ 0 <= f[i - 1] /\ f[i - 1] <= g[i - 1]
        BY <1>4, <1>6, <2>2
      <3>2. f[i] = f[i - 1] + Part(s, S, i) /\ g[i] = g[i - 1] + Part(s, U, i)
        BY <1>6
      <3>3. Part(s, S, i) \in Nat /\ Part(s, U, i) \in Nat /\ Part(s, S, i) <= Part(s, U, i) /\ i \in 0 .. N
        BY <1>4
      <3>4. 0 <= f[i] /\ f[i] <= g[i]
        BY <3>1, <3>2, <3>3
      <3> QED  BY <3>3, <3>4
    <2> HIDE DEF Below
    <2>3. \A i \in 0 .. N : i \in Below
      BY <1>1, <2>1, <2>2, FromZeroOn
    <2> QED  BY <1>1, <2>3
  <1>8. ASSUME \A i \in 1 .. N : Part(s, S, i) = 0
        PROVE  f[N] = 0
    <2>1. 0 \in Null
      BY <1>1, <1>6
    <2>2. ASSUME NEW i \in 1 .. N, i - 1 \in Null
          PROVE  i \in Null
      <3>1. f[i - 1] = 0 /\ i \in 0 .. N
        BY <1>4, <2>2
      <3>2. f[i] = f[i - 1] + 0
        BY <1>6, <1>8
      <3> QED  BY <3>1, <3>2
    <2> HIDE DEF Null
    <2>3. \A i \in 0 .. N : i \in Null
      BY <1>1, <2>1, <2>2, FromZeroOn
    <2> QED  BY <1>1, <2>3 DEF Null
  <1>9. f[N] \in Nat /\ g[N] \in Nat /\ f[N] <= g[N]
    BY <1>1, <1>6, <1>7
  <1> QED  BY <1>5, <1>6, <1>8, <1>9 DEF N

\* One time more.
LEMMA OneMoreTime ==
  ASSUME NEW a \in Int, NEW k \in Int
  PROVE  a * k \in Int /\ a * (k + 1) = a * k + a
  OBVIOUS

\* What is at least so much at each of some places adds up to that many times
\* as much.
LEMMA SumIsAtLeast ==
  ASSUME NEW s \in Seq(Nat), NEW C, C \subseteq 1 .. Len(s), NEW least \in Nat,
         \A i \in C : least <= s[i]
  PROVE  /\ IsFiniteSet(C) /\ Cardinality(C) \in Nat
         /\ least * Cardinality(C) <= SumOver(s, 1 .. Len(s))
  <1> DEFINE N == Len(s)
             Upto(k) == C \cap (1 .. k)
             Enough == {k \in 0 .. N : least * Cardinality(Upto(k)) <= SumOver(s, Upto(k))}
  <1>1. N \in Nat /\ s \in Seq(Int) /\ \A i \in 1 .. N : s[i] \in Nat
    BY SeqOfNat
  <1>2. \A P : SumOver(s, P) \in Nat
    BY SumGrows
  <1>3. ASSUME NEW P, P \subseteq C
        PROVE  IsFiniteSet(P) /\ Cardinality(P) \in Nat
    <2>1. IsFiniteSet(1 .. N) /\ P \subseteq 1 .. N
      BY <1>1, <1>3, FS_Interval
    <2> QED  BY <2>1, FS_Subset, FS_CardinalityType
  <1>4. 0 \in Enough
    <2>1. Upto(0) = {} /\ Cardinality({}) = 0
      BY FS_EmptySet
    <2>2. least * 0 = 0
      OBVIOUS
    <2> QED  BY <1>1, <1>2, <2>1, <2>2
  <1>5. ASSUME NEW k \in 1 .. N, k - 1 \in Enough
        PROVE  k \in Enough
    <2>1. least * Cardinality(Upto(k - 1)) <= SumOver(s, Upto(k - 1))
      BY <1>5
    <2>2. k \in 0 .. N
      BY <1>1
    <2>3. CASE k \notin C
      <3>1. Upto(k) = Upto(k - 1)
        BY <1>1, <2>3
      <3> QED  BY <2>1, <2>2, <3>1
    <2>4. CASE k \in C
      <3> DEFINE P == Upto(k - 1)
      <3>1. Upto(k) = P \cup {k} /\ k \notin P /\ P \subseteq C
        BY <1>1, <2>4
      <3>2. Cardinality(Upto(k)) = Cardinality(P) + 1 /\ Cardinality(P) \in Nat
        BY <1>3, <3>1, FS_AddElement
      <3>3. SumOver(s, Upto(k)) = SumOver(s, P) + s[k]
        BY <1>1, <3>1, SumOfOneMore
      <3>4. least * Cardinality(Upto(k)) = least * Cardinality(P) + least /\ least * Cardinality(P) \in Int
        BY <3>2, OneMoreTime
      <3>5. SumOver(s, P) \in Nat /\ s[k] \in Nat /\ least <= s[k]
        BY <1>1, <1>2, <2>4
      <3> HIDE DEF P, Upto
      <3>6. least * Cardinality(Upto(k)) <= SumOver(s, Upto(k))
        BY <2>1, <3>3, <3>4, <3>5 DEF P
      <3> QED  BY <2>2, <3>6
    <2> QED  BY <2>3, <2>4
  <1> HIDE DEF Enough
  <1>6. \A k \in 0 .. N : k \in Enough
    BY <1>1, <1>4, <1>5, FromZeroOn
  <1>7. least * Cardinality(Upto(N)) <= SumOver(s, Upto(N))
    BY <1>1, <1>6 DEF Enough
  <1>8. Upto(N) = C
    OBVIOUS
  <1>9. SumOver(s, C) <= SumOver(s, 1 .. N)
    BY SumGrows
  <1>10. least * Cardinality(C) \in Int
    BY <1>3
  <1> HIDE DEF Upto, N
  <1> QED  BY <1>2, <1>3, <1>7, <1>8, <1>9, <1>10 DEF N

\* The sum over the first places, one place on.
LEMMA SumOfNext ==
  ASSUME NEW s \in Seq(Nat), NEW k \in 0 .. Len(s) - 1
  PROVE  SumOver(s, 1 .. k + 1) = SumOver(s, 1 .. k) + s[k + 1]
  <1>1. Len(s) \in Nat /\ s \in Seq(Int)
    BY SeqOfNat
  <1>2. k + 1 \in 1 .. Len(s) /\ k + 1 \notin 1 .. k /\ 1 .. k + 1 = (1 .. k) \cup {k + 1}
    BY <1>1
  <1> DEFINE S == 1 .. k
             x == k + 1
  <1>3. x \in 1 .. Len(s) /\ x \notin S
    BY <1>2
  <1> HIDE DEF S, x
  <1>4. SumOver(s, S \cup {x}) = SumOver(s, S) + s[x]
    BY <1>1, <1>3, SumOfOneMore
  <1> QED  BY <1>2, <1>4 DEF S, x

\* s lists what gains holds, the most first.
Descending(s, gains, best) ==
    /\ s \in Seq(Nat) /\ gains \in Seq(Nat) /\ Len(s) = Len(gains)
    /\ best \in [1 .. Len(gains) -> 1 .. Len(gains)]
    /\ \A x \in 1 .. Len(gains) : \E n \in 1 .. Len(gains) : best[n] = x
    /\ \A m, n \in 1 .. Len(gains) : m < n => best[m] # best[n] /\ s[n] <= s[m]
    /\ \A n \in 1 .. Len(gains) : s[n] = gains[best[n]]

\* No choice of places gains more than as many of the best.
LEMMA BestIsMost ==
  ASSUME NEW s, NEW gains, NEW best, Descending(s, gains, best),
         NEW C, C \subseteq 1 .. Len(gains)
  PROVE  /\ Cardinality(C) \in 0 .. Len(gains)
         /\ SumOver(gains, C) <= SumOver(s, 1 .. Cardinality(C))
  <1> DEFINE N == Len(gains)
             Taken(k) == C \cap {best[i] : i \in 1 .. k}
             Below == {k \in 0 .. N :
                         /\ Cardinality(Taken(k)) <= k
                         /\ SumOver(gains, Taken(k)) <= SumOver(s, 1 .. Cardinality(Taken(k)))}
  <1>1. /\ N \in Nat /\ gains \in Seq(Int) /\ gains \in Seq(Nat) /\ s \in Seq(Nat) /\ Len(s) = N
        /\ \A i \in 1 .. N : gains[i] \in Nat /\ s[i] \in Nat
    BY SeqOfNat DEF Descending
  <1>2. \A P : SumOver(gains, P) \in Nat /\ SumOver(s, P) \in Nat /\ SumOver(gains, {}) = 0
    BY <1>1, SumGrows
  <1>3. ASSUME NEW P, P \subseteq C
        PROVE  IsFiniteSet(P) /\ Cardinality(P) \in Nat
    <2>1. IsFiniteSet(1 .. N) /\ P \subseteq 1 .. N
      BY <1>1, <1>3, FS_Interval
    <2> QED  BY <2>1, FS_Subset, FS_CardinalityType
  <1>4. 0 \in Below
    <2>1. Taken(0) = {} /\ Cardinality({}) = 0
      BY FS_EmptySet
    <2>2. SumOver(s, 1 .. 0) \in Nat /\ SumOver(gains, {}) = 0
      BY <1>2
    <2>3. Cardinality(Taken(0)) = 0 /\ SumOver(gains, Taken(0)) = 0
      BY <2>1, <2>2
    <2> HIDE DEF Taken
    <2>4. Cardinality(Taken(0)) <= 0 /\ SumOver(gains, Taken(0)) <= SumOver(s, 1 .. Cardinality(Taken(0)))
      BY <2>2, <2>3
    <2>5. 0 \in 0 .. N
      BY <1>1
    <2> QED  BY <2>4, <2>5
  <1>5. ASSUME NEW k \in 1 .. N, k - 1 \in Below
        PROVE  k \in Below
    <2> DEFINE P == Taken(k - 1)
               x == best[k]
               q == Cardinality(P)
    <2>1. q \in Nat /\ q <= k - 1 /\ SumOver(gains, P) <= SumOver(s, 1 .. q) /\ k \in 0 .. N
      BY <1>1, <1>3, <1>5
    <2>2. x \in 1 .. N /\ {best[i] : i \in 1 .. k} = {best[i] : i \in 1 .. k - 1} \cup {x}
      <3>1. 1 .. k = (1 .. k - 1) \cup {k}
        BY <1>1
      <3>2. {best[i] : i \in (1 .. k - 1) \cup {k}} = {best[i] : i \in 1 .. k - 1} \cup {x}
        OBVIOUS
      <3> QED  BY <3>1, <3>2 DEF Descending
    <2>3. CASE x \notin C
      <3>1. Taken(k) = P
        BY <2>2, <2>3
      <3> HIDE DEF Taken, P, x
      <3> QED  BY <1>1, <2>1, <3>1
    <2>4. CASE x \in C
      <3>1. x \notin P
        <4>1. ASSUME NEW i \in 1 .. k - 1
              PROVE  best[i] # x
          BY <1>1 DEF Descending
        <4> QED  BY <4>1
      <3>2. Taken(k) = P \cup {x} /\ P \subseteq C
        BY <2>2, <2>4
      <3>3. Cardinality(Taken(k)) = q + 1
        BY <1>3, <3>1, <3>2, FS_AddElement
      <3>4. SumOver(gains, Taken(k)) = SumOver(gains, P) + gains[x]
        BY <1>1, <2>2, <3>1, <3>2, SumOfOneMore
      <3>5. q \in 0 .. Len(s) - 1 /\ q + 1 \in 1 .. N
        BY <1>1, <2>1
      <3>6. SumOver(s, 1 .. q + 1) = SumOver(s, 1 .. q) + s[q + 1]
        BY <1>1, <3>5, SumOfNext
      <3>7. gains[x] = s[k] /\ s[k] <= s[q + 1]
        <4>1. q + 1 = k \/ q + 1 < k
          BY <1>1, <2>1
        <4>2. gains[x] = s[k]
          BY DEF Descending
        <4>3. CASE q + 1 = k
          BY <1>1, <4>2, <4>3
        <4>4. CASE q + 1 < k
          <5>1. s[k] <= s[q + 1]
            BY <3>5, <4>4 DEF Descending
          <5> QED  BY <4>2, <5>1
        <4> QED  BY <4>1, <4>3, <4>4
      <3>8. gains[x] \in Nat /\ s[q + 1] \in Nat /\ SumOver(gains, P) \in Nat /\ SumOver(s, 1 .. q) \in Nat
        BY <1>1, <1>2, <2>2, <3>5
      <3> HIDE DEF Taken, P, x, q
      <3>9. SumOver(gains, Taken(k)) <= SumOver(s, 1 .. q + 1) /\ q + 1 <= k
        BY <2>1, <3>4, <3>6, <3>7, <3>8
      <3> QED  BY <1>1, <2>1, <3>3, <3>9
    <2> QED  BY <2>3, <2>4
  <1> HIDE DEF Below
  <1>6. \A k \in 0 .. N : k \in Below
    BY <1>1, <1>4, <1>5, FromZeroOn
  <1>7. N \in Below
    BY <1>1, <1>6
  <1>8. Taken(N) = C
    <2>1. \A x \in C : \E n \in 1 .. N : best[n] = x
      BY DEF Descending
    <2> QED  BY <2>1
  <1>9. Cardinality(C) <= N /\ SumOver(gains, C) <= SumOver(s, 1 .. Cardinality(C))
    <2> HIDE DEF Taken
    <2> QED  BY <1>7, <1>8 DEF Below
  <1> QED  BY <1>1, <1>3, <1>9

\* Abel's: what is ahead in gains is ahead in gains that are discounted more
\* and more.
LEMMA AheadStays ==
  ASSUME NEW W \in Int, NEW V \in Int, V <= W, NEW A \in Nat, NEW B \in Int, W * A <= B,
         NEW t \in Int, NEW g \in Int
  PROVE  V * ((A + t) - g) <= (B + V * t) - V * g
  <1>1. (W - V) * A >= 0
    <2>1. W - V \in Nat
      OBVIOUS
    <2> DEFINE d == W - V
    <2> HIDE DEF d
    <2>2. d \in Nat => d * A >= 0
      OBVIOUS
    <2> QED  BY <2>1, <2>2 DEF d
  <1>2. (W - V) * A = W * A - V * A
    OBVIOUS
  <1>3. V * ((A + t) - g) = (V * A + V * t) - V * g
    OBVIOUS
  <1>4. V * A \in Int /\ W * A \in Int /\ V * t \in Int /\ V * g \in Int
    OBVIOUS
  <1> QED  BY <1>1, <1>2, <1>3, <1>4

\* C[r] is what is credited up to rank r, one place at most of 1 .. n at each.
Credits(C, n, m) ==
    /\ C[0] = {}
    /\ \A r \in 1 .. m : \/ C[r] = C[r - 1]
                         \/ \E x \in 1 .. n : x \notin C[r - 1] /\ C[r] = C[r - 1] \cup {x}

\* By rank r at most r are credited.
LEMMA CreditsAre ==
  ASSUME NEW n \in Nat, NEW m \in Nat, NEW C, Credits(C, n, m)
  PROVE  \A r \in 0 .. m : /\ C[r] \subseteq 1 .. n
                           /\ IsFiniteSet(C[r]) /\ Cardinality(C[r]) \in 0 .. r
  <1> DEFINE S == {r \in 0 .. m : /\ C[r] \subseteq 1 .. n
                                  /\ IsFiniteSet(C[r]) /\ Cardinality(C[r]) \in 0 .. r}
  <1>1. 0 \in S
    <2>1. C[0] = {} /\ Cardinality({}) = 0 /\ IsFiniteSet({})
      BY FS_EmptySet DEF Credits
    <2>2. 0 \in 0 .. m /\ 0 \in 0 .. 0
      OBVIOUS
    <2> QED  BY <2>1, <2>2
  <1>2. ASSUME NEW r \in 1 .. m, r - 1 \in S
        PROVE  r \in S
    <2>1. /\ C[r - 1] \subseteq 1 .. n /\ IsFiniteSet(C[r - 1])
          /\ Cardinality(C[r - 1]) \in 0 .. r - 1 /\ r \in 0 .. m /\ r \in Nat
      BY <1>2
    <2>2. CASE C[r] = C[r - 1]
      <3>1. Cardinality(C[r - 1]) \in 0 .. r
        BY <2>1
      <3> QED  BY <2>1, <2>2, <3>1
    <2>3. ASSUME NEW x \in 1 .. n, x \notin C[r - 1], C[r] = C[r - 1] \cup {x}
          PROVE  r \in S
      <3>1. IsFiniteSet(C[r]) /\ Cardinality(C[r]) = Cardinality(C[r - 1]) + 1
        BY <2>1, <2>3, FS_AddElement
      <3>2. Cardinality(C[r]) \in 0 .. r
        BY <2>1, <3>1
      <3>3. C[r] \subseteq 1 .. n
        BY <2>1, <2>3
      <3> QED  BY <2>1, <3>1, <3>2, <3>3
    <2> QED  BY <2>2, <2>3 DEF Credits
  <1> HIDE DEF S
  <1>3. \A r \in 0 .. m : r \in S
    BY <1>1, <1>2, FromZeroOn
  <1> QED  BY <1>3 DEF S

\* The gains of what is credited, discounted by rank, are at most those of the
\* best, to any depth that the ranks do not pass.
LEMMA DiscountedIsMost ==
  ASSUME NEW s, NEW gains, NEW best, Descending(s, gains, best),
         NEW D \in Seq(Nat), NEW m \in 0 .. Len(D), Len(gains) <= Len(D),
         \A i, j \in 1 .. Len(D) : i <= j => D[j] <= D[i],
         NEW C, Credits(C, Len(gains), m),
         NEW earned \in Seq(Nat), Len(earned) = m,
         \A r \in 1 .. m : earned[r] = D[r] * (SumOver(gains, C[r]) - SumOver(gains, C[r - 1])),
         NEW top \in Seq(Nat), Len(top) = Len(gains),
         \A j \in 1 .. Len(gains) : top[j] = D[j] * s[j],
         NEW depth \in 0 .. Len(gains), depth < Len(gains) => m <= depth
  PROVE  SumOver(earned, 1 .. m) <= SumOver(top, 1 .. depth)
  <1> DEFINE n == Len(gains)
             F(r) == IF r < n THEN r ELSE n
             W(r) == IF r = 0 THEN D[1] ELSE D[r]
             A(r) == SumOver(s, 1 .. F(r)) - SumOver(gains, C[r])
             B(r) == SumOver(top, 1 .. F(r)) - SumOver(earned, 1 .. r)
             Ahead == {r \in 0 .. m : W(r) * A(r) <= B(r)}
  <1>1. /\ n \in Nat /\ m \in Nat /\ gains \in Seq(Nat) /\ s \in Seq(Nat) /\ Len(s) = n
        /\ \A j \in 1 .. n : s[j] \in Nat
        /\ Len(D) \in Nat /\ \A i \in 1 .. Len(D) : D[i] \in Nat
    BY SeqOfNat DEF Descending
  <1>2. \A P : /\ SumOver(gains, P) \in Nat /\ SumOver(s, P) \in Nat
               /\ SumOver(earned, P) \in Nat /\ SumOver(top, P) \in Nat
               /\ SumOver(gains, {}) = 0 /\ SumOver(s, {}) = 0
               /\ SumOver(earned, {}) = 0 /\ SumOver(top, {}) = 0
    BY <1>1, SumGrows
  <1>3. \A r \in 0 .. m : C[r] \subseteq 1 .. n /\ Cardinality(C[r]) \in 0 .. r
    BY <1>1, CreditsAre
  <1>4. ASSUME NEW r \in 0 .. m
        PROVE  A(r) \in Nat /\ B(r) \in Int /\ F(r) \in 0 .. n
    <2>1. F(r) \in 0 .. n
      BY <1>1
    <2>2. Cardinality(C[r]) \in 0 .. n /\ SumOver(gains, C[r]) <= SumOver(s, 1 .. Cardinality(C[r]))
      BY <1>3, BestIsMost
    <2>3. 1 .. Cardinality(C[r]) \subseteq 1 .. F(r)
      <3>1. \A k \in 0 .. n : k \in 0 .. r => k <= F(r)
        BY <1>1
      <3>2. Cardinality(C[r]) \in 0 .. n /\ Cardinality(C[r]) \in 0 .. r
        BY <1>3, <2>2
      <3> HIDE DEF F
      <3>3. Cardinality(C[r]) <= F(r)
        BY <3>1, <3>2
      <3> QED  BY <2>1, <3>2, <3>3
    <2>4. SumOver(s, 1 .. Cardinality(C[r])) <= SumOver(s, 1 .. F(r))
      BY <1>1, <2>3, SumGrows
    <2>5. /\ SumOver(gains, C[r]) \in Nat /\ SumOver(s, 1 .. F(r)) \in Nat
          /\ SumOver(s, 1 .. Cardinality(C[r])) \in Nat
          /\ SumOver(top, 1 .. F(r)) \in Nat /\ SumOver(earned, 1 .. r) \in Nat
      BY <1>2
    <2> HIDE DEF F
    <2> QED  BY SMTT(20), <2>1, <2>2, <2>4, <2>5
  <1>5. CASE m = 0
    <2>1. 1 .. m = {}
      BY <1>5
    <2>2. SumOver(earned, 1 .. m) = 0
      BY <1>2, <2>1
    <2> QED  BY <1>2, <2>2
  <1>6. CASE m # 0
    <2>1. 1 \in 1 .. Len(D) /\ \A r \in 0 .. m : W(r) \in Nat
      BY <1>1, <1>6
    <2>2. 0 \in Ahead
      <3>1. F(0) = 0 /\ 1 .. 0 = {} /\ C[0] = {}
        BY <1>1 DEF Credits
      <3>2. SumOver(s, 1 .. F(0)) = 0 /\ SumOver(gains, C[0]) = 0 /\ SumOver(top, 1 .. F(0)) = 0
            /\ SumOver(earned, 1 .. 0) = 0
        BY <1>2, <3>1
      <3>3. A(0) = 0 /\ B(0) = 0 /\ W(0) \in Int /\ 0 \in 0 .. m
        BY SMTT(20), <1>1, <2>1, <3>2
      <3> HIDE DEF A, B, W
      <3> QED  BY <3>3
    <2>3. ASSUME NEW r \in 1 .. m, r - 1 \in Ahead
          PROVE  r \in Ahead
      <3> DEFINE t == IF r <= n THEN s[r] ELSE 0
                 g == SumOver(gains, C[r]) - SumOver(gains, C[r - 1])
                 p == r - 1
      <3>1. p \in 0 .. m /\ r \in 0 .. m /\ p + 1 = r
        BY <1>1
      <3>2. t \in Nat /\ g \in Int
        <4>1. SumOver(gains, C[r]) \in Nat /\ SumOver(gains, C[p]) \in Nat
          BY <1>2
        <4> QED  BY <1>1, <3>1, <4>1
      <3>3. W(r) \in Nat /\ W(p) \in Nat /\ W(r) <= W(p) /\ W(r) = D[r]
        <4>1. r \in 1 .. Len(D) /\ r # 0 /\ W(r) = D[r]
          BY <1>1
        <4>2. CASE p = 0
          <5>1. W(p) = D[1] /\ r = 1
            BY <3>1, <4>2
          <5>2. D[1] \in Nat
            BY <1>1, <2>1
          <5> HIDE DEF W
          <5> QED  BY <4>1, <5>1, <5>2
        <4>3. CASE p # 0
          <5>1. W(p) = D[p] /\ p \in 1 .. Len(D) /\ p <= r
            BY <1>1, <3>1, <4>3
          <5>2. D[r] <= D[p] /\ D[r] \in Nat /\ D[p] \in Nat
            BY <1>1, <4>1, <5>1
          <5> HIDE DEF W
          <5> QED  BY <4>1, <5>1, <5>2
        <4> QED  BY <4>2, <4>3
      <3>4. SumOver(earned, 1 .. r) = SumOver(earned, 1 .. p) + W(r) * g
        <4>1. p \in 0 .. Len(earned) - 1
          BY <3>1
        <4>2. SumOver(earned, 1 .. r) = SumOver(earned, 1 .. p) + earned[r]
          BY <3>1, <4>1, SumOfNext
        <4> QED  BY <3>3, <4>2
      <3>5. /\ SumOver(s, 1 .. F(r)) = SumOver(s, 1 .. F(p)) + t
            /\ SumOver(top, 1 .. F(r)) = SumOver(top, 1 .. F(p)) + W(r) * t
        <4>1. CASE r <= n
          <5>1. F(r) = r /\ F(p) = p /\ t = s[r] /\ p \in 0 .. n - 1
            <6>1. p < n /\ p \in Nat /\ (~(r < n) => r = n)
              <7>1. r \in Nat /\ n \in Nat /\ r <= n /\ r >= 1
                BY <1>1, <4>1
              <7> HIDE DEF n
              <7> QED  BY <7>1
            <6>2. F(r) = r
              BY <6>1
            <6>3. F(p) = p
              BY <6>1
            <6> QED  BY <1>1, <4>1, <6>1, <6>2, <6>3
          <5>2. SumOver(s, 1 .. r) = SumOver(s, 1 .. p) + s[r]
            BY <1>1, <3>1, <5>1, SumOfNext
          <5>3. SumOver(top, 1 .. r) = SumOver(top, 1 .. p) + top[r]
            BY <1>1, <3>1, <5>1, SumOfNext
          <5>4. top[r] = W(r) * s[r]
            BY <1>1, <3>1, <3>3, <4>1
          <5> QED  BY <5>1, <5>2, <5>3, <5>4
        <4>2. CASE ~(r <= n)
          <5>1. F(r) = n /\ F(p) = n /\ t = 0
            <6>1. ~(r < n) /\ ~(p < n)
              BY <1>1, <3>1, <4>2
            <6> QED  BY <4>2, <6>1
          <5>2. SumOver(s, 1 .. n) \in Nat /\ SumOver(top, 1 .. n) \in Nat
            BY <1>2
          <5>3. W(r) * 0 = 0
            <6> HIDE DEF W
            <6> QED  BY <3>3
          <5> HIDE DEF F, W, t, n
          <5> QED  BY <5>1, <5>2, <5>3
        <4> QED  BY <4>1, <4>2
      <3>6. A(r) = (A(p) + t) - g /\ B(r) = (B(p) + W(r) * t) - W(r) * g
        <4>1. /\ SumOver(s, 1 .. F(r)) \in Nat /\ SumOver(s, 1 .. F(p)) \in Nat
              /\ SumOver(top, 1 .. F(r)) \in Nat /\ SumOver(top, 1 .. F(p)) \in Nat
              /\ SumOver(earned, 1 .. r) \in Nat /\ SumOver(earned, 1 .. p) \in Nat
              /\ SumOver(gains, C[r]) \in Nat /\ SumOver(gains, C[p]) \in Nat
          BY <1>2
        <4>2. W(r) * t \in Int /\ W(r) * g \in Int
          <5> HIDE DEF W, t, g
          <5> QED  BY SMTT(20), <3>2, <3>3
        <4>3. g = SumOver(gains, C[r]) - SumOver(gains, C[p])
          OBVIOUS
        <4>4. /\ A(r) = SumOver(s, 1 .. F(r)) - SumOver(gains, C[r])
              /\ A(p) = SumOver(s, 1 .. F(p)) - SumOver(gains, C[p])
              /\ B(r) = SumOver(top, 1 .. F(r)) - SumOver(earned, 1 .. r)
              /\ B(p) = SumOver(top, 1 .. F(p)) - SumOver(earned, 1 .. p)
          OBVIOUS
        <4> HIDE DEF F, W, t, g, A, B, p
        <4>5. A(r) = (A(p) + t) - g
          <5> DEFINE a == SumOver(s, 1 .. F(r))
                     b == SumOver(s, 1 .. F(p))
                     c == SumOver(gains, C[r])
                     d == SumOver(gains, C[p])
          <5>1. a \in Nat /\ b \in Nat /\ c \in Nat /\ d \in Nat /\ t \in Int
            BY <3>2, <4>1
          <5>2. a = b + t /\ g = c - d /\ A(r) = a - c /\ A(p) = b - d
            BY <3>5, <4>3, <4>4
          <5> HIDE DEF a, b, c, d
          <5> QED  BY <5>1, <5>2
        <4>6. B(r) = (B(p) + W(r) * t) - W(r) * g
          BY SMTT(20), <3>4, <3>5, <4>1, <4>2, <4>4
        <4> QED  BY <4>5, <4>6
      <3>7. A(p) \in Nat /\ B(p) \in Int /\ W(p) * A(p) <= B(p)
        BY <1>4, <2>3, <3>1
      <3> HIDE DEF A, B, W, t, g, p
      <3>8. W(r) * ((A(p) + t) - g) <= (B(p) + W(r) * t) - W(r) * g
        <4>1. t \in Int /\ g \in Int /\ W(r) \in Int /\ W(p) \in Int
          BY <3>2, <3>3
        <4> QED  BY <3>3, <3>7, <4>1, AheadStays
      <3>9. W(r) * A(r) <= B(r)
        BY <3>6, <3>8
      <3> QED  BY <3>1, <3>9
    <2> HIDE DEF Ahead
    <2>4. \A r \in 0 .. m : r \in Ahead
      BY <1>1, <2>2, <2>3, FromZeroOn
    <2>5. W(m) * A(m) <= B(m) /\ m \in 0 .. m
      BY <1>1, <2>4 DEF Ahead
    <2>6. 0 <= W(m) * A(m)
      <3>1. W(m) \in Nat /\ A(m) \in Nat
        BY <1>4, <2>1, <2>5
      <3> HIDE DEF W, A
      <3> QED  BY <3>1
    <2>7. SumOver(top, 1 .. F(m)) <= SumOver(top, 1 .. depth)
      <3>1. 1 .. F(m) \subseteq 1 .. depth
        BY <1>1
      <3> QED  BY <3>1, SumGrows
    <2>8. /\ SumOver(top, 1 .. F(m)) \in Nat /\ SumOver(top, 1 .. depth) \in Nat
          /\ SumOver(earned, 1 .. m) \in Nat /\ W(m) * A(m) \in Int
      <3>1. W(m) \in Nat /\ A(m) \in Nat
        BY <1>4, <2>1, <2>5
      <3> HIDE DEF W, A
      <3> QED  BY <1>2, <3>1
    <2> HIDE DEF W, A, F
    <2> QED  BY <2>5, <2>6, <2>7, <2>8
  <1> QED  BY <1>5, <1>6

\* A higher grade gains at least as much.
LEMMA GainGrows ==
  ASSUME NEW g \in Nat, NEW h \in Nat, g <= h
  PROVE  Gain(g) \in Nat /\ Gain(g) <= Gain(h)
  <1> DEFINE Doubles(p, n) == p = [i \in 0 .. n |-> IF i = 0 THEN 1 ELSE 2 * p[i - 1]]
             Power(n) == CHOOSE p : Doubles(p, n)
  <1>1. ASSUME NEW n \in Nat
        PROVE  /\ Gain(n) = Power(n)[n] - 1
               /\ Power(n)[0] = 1
               /\ \A i \in 1 .. n : Power(n)[i] = 2 * Power(n)[i - 1]
    <2> DEFINE step == [p \in Int \X (1 .. n) |-> 2 * p[1]]
    <2>1. step \in [Int \X (1 .. n) -> Int] /\ \A x \in Int, i \in 1 .. n : step[x, i] = 2 * x
      <3>1. \A p \in Int \X (1 .. n) : p[1] \in Int
        OBVIOUS
      <3>2. \A p \in Int \X (1 .. n) : 2 * p[1] \in Int
        BY <3>1
      <3>3. \A x \in Int, i \in 1 .. n : <<x, i>> \in Int \X (1 .. n) /\ <<x, i>>[1] = x
        OBVIOUS
      <3> QED  BY <3>2, <3>3
    <2> HIDE DEF step
    <2>2. PICK f \in [0 .. n -> Int] : Follows(f, 0, n, 1, step)
      <3>1. n \in Int /\ 0 <= n /\ 0 \in Int /\ 1 \in Int /\ 0 + 1 = 1
        OBVIOUS
      <3>2. step \in [Int \X (0 + 1 .. n) -> Int]
        BY <2>1, <3>1
      <3> QED  BY <3>1, <3>2, RecursionExists
    <2>3. Doubles(f, n)
      <3>1. \A i \in 0 .. n : i # 0 => i \in 1 .. n /\ i - 1 \in 0 .. n
        OBVIOUS
      <3>2. \A i \in 0 .. n : f[i] = IF i = 0 THEN 1 ELSE 2 * f[i - 1]
        BY <2>1, <2>2, <3>1 DEF Follows
      <3> QED  BY <3>2
    <2>4. Doubles(Power(n), n)
      <3> HIDE DEF Doubles
      <3> QED  BY <2>3
    <2>5. Gain(n) = Power(n)[n] - 1
      BY DEF Gain
    <2> HIDE DEF Power
    <2>6. 0 \in 0 .. n /\ \A i \in 1 .. n : i \in 0 .. n /\ i # 0
      OBVIOUS
    <2> QED  BY <2>4, <2>5, <2>6
  <1> HIDE DEF Power, Doubles
  <1>2. ASSUME NEW n \in Nat
        PROVE  \A i \in 0 .. n : Power(n)[i] \in Nat \ {0}
    <2> DEFINE S == {i \in 0 .. n : Power(n)[i] \in Nat \ {0}}
    <2>1. 0 \in S
      BY <1>1
    <2>2. ASSUME NEW i \in 1 .. n, i - 1 \in S
          PROVE  i \in S
      <3>1. Power(n)[i - 1] \in Nat \ {0} /\ i \in 0 .. n
        BY <2>2
      <3>2. Power(n)[i] = 2 * Power(n)[i - 1]
        BY <1>1
      <3> QED  BY <3>1, <3>2
    <2> HIDE DEF S
    <2>3. \A i \in 0 .. n : i \in S
      BY <2>1, <2>2, FromZeroOn
    <2> QED  BY <2>3 DEF S
  <1>3. \A i \in 0 .. g : Power(g)[i] = Power(h)[i]
    <2> DEFINE S == {i \in 0 .. g : Power(g)[i] = Power(h)[i]}
    <2>1. 0 \in S
      BY <1>1
    <2>2. ASSUME NEW i \in 1 .. g, i - 1 \in S
          PROVE  i \in S
      <3>1. Power(g)[i - 1] = Power(h)[i - 1] /\ i \in 0 .. g /\ i \in 1 .. h
        BY <2>2
      <3> QED  BY <1>1, <3>1
    <2> HIDE DEF S
    <2>3. \A i \in 0 .. g : i \in S
      BY <2>1, <2>2, FromZeroOn
    <2> QED  BY <2>3 DEF S
  <1> DEFINE f == [i \in 0 .. h |-> Power(h)[i]]
  <1>4. \A i, j \in 0 .. h : i <= j => f[i] <= f[j]
    <2>1. f \in [0 .. h -> Int] /\ 0 \in Int /\ h \in Int
      BY <1>2
    <2>2. \A i \in 0 + 1 .. h : f[i - 1] <= f[i]
      <3>1. ASSUME NEW i \in 1 .. h
            PROVE  f[i - 1] <= f[i]
        <4>1. i \in 0 .. h /\ i - 1 \in 0 .. h
          OBVIOUS
        <4>2. f[i] = 2 * f[i - 1] /\ f[i - 1] \in Nat
          BY <1>1, <1>2, <4>1
        <4> HIDE DEF f
        <4> QED  BY <4>2
      <3> QED  BY <3>1
    <2> HIDE DEF f
    <2> QED  BY <2>1, <2>2, NeverDown
  <1>5. g \in 0 .. g /\ g \in 0 .. h /\ h \in 0 .. h
    OBVIOUS
  <1>6. Power(g)[g] = Power(h)[g] /\ Power(h)[g] <= Power(h)[h]
    BY <1>3, <1>4, <1>5
  <1>7. Power(g)[g] \in Nat \ {0} /\ Power(h)[h] \in Nat \ {0}
    BY <1>2, <1>5
  <1> QED  BY <1>1, <1>6, <1>7

Graded(labels) == labels \in Seq(EvalLabel)

\* Every label has a grade and a gain (metrics.go:127-139).
LEMMA GainsAre ==
  ASSUME NEW labels, Graded(labels)
  PROVE  /\ Len(labels) \in Nat
         /\ \A i \in 1 .. Len(labels) : Grade(labels[i]) \in Nat
         /\ Gains(labels) \in Seq(Nat) /\ Len(Gains(labels)) = Len(labels)
         /\ \A i \in 1 .. Len(labels) : Gains(labels)[i] = Gain(Grade(labels[i]))
  <1> DEFINE n == Len(labels)
  <1>1. n \in Nat /\ \A i \in 1 .. n : labels[i].grade \in Int
    <2>1. n \in Nat /\ \A i \in 1 .. n : labels[i] \in EvalLabel
      BY ElementOfSeq, LenProperties DEF Graded
    <2> QED  BY <2>1 DEF EvalLabel
  <1>2. \A i \in 1 .. n : Grade(labels[i]) \in Nat
    BY <1>1 DEF Grade
  <1>3. Gains(labels) = [i \in 1 .. n |-> Gain(Grade(labels[i]))]
    BY DEF Gains
  <1>4. \A i \in 1 .. n : Gain(Grade(labels[i])) \in Nat
    <2>1. \A g \in Nat : g <= g
      OBVIOUS
    <2> QED  BY <1>2, <2>1, GainGrows
  <1>5. Gains(labels) \in [1 .. n -> Nat]
    BY <1>3, <1>4
  <1>6. Gains(labels) \in Seq(Nat)
    BY <1>1, <1>5, IsASeq
  <1> QED  BY <1>1, <1>2, <1>3, <1>5, <1>6, LenProperties

\* Any labels can be put in the order of their credit (metrics.go:64-76).
LEMMA BeatsOrders ==
  ASSUME NEW labels, Graded(labels)
  PROVE  LET all == 1 .. Len(labels)
         IN  Orders({p \in all \X all : Beats(labels, p[1], p[2])}, all)
  <1> DEFINE all == 1 .. Len(labels)
             before == {p \in all \X all : Beats(labels, p[1], p[2])}
  <1>1. \A x, y \in all : <<x, y>> \in before <=> Beats(labels, x, y)
    OBVIOUS
  <1>2. \A x \in all : x \in Int /\ Grade(labels[x]) \in Int
    BY GainsAre
  <1> HIDE DEF before, all
  <1> QED  BY <1>1, <1>2 DEF Orders, Beats, all, before

\* The gains of the labels, in descending order.
LEMMA SortedIs ==
  ASSUME NEW labels, Graded(labels)
  PROVE  \E best : Descending(SortedGains(labels), Gains(labels), best)
  <1> DEFINE n == Len(labels)
             all == 1 .. n
             before == {p \in all \X all : Beats(labels, p[1], p[2])}
             best == Ordered(all, before)
             s == SortedGains(labels)
             gains == Gains(labels)
  <1>1. /\ n \in Nat /\ gains \in Seq(Nat) /\ Len(gains) = n
        /\ \A i \in all : Grade(labels[i]) \in Nat /\ gains[i] = Gain(Grade(labels[i])) /\ gains[i] \in Nat
    <2>1. /\ n \in Nat /\ gains \in Seq(Nat) /\ Len(gains) = n
          /\ \A i \in all : Grade(labels[i]) \in Nat /\ gains[i] = Gain(Grade(labels[i]))
      BY GainsAre
    <2> HIDE DEF gains
    <2>2. \A i \in all : gains[i] \in Nat
      BY <2>1, ElementOfSeq
    <2> QED  BY <2>1, <2>2
  <1>2. IsFiniteSet(all) /\ Cardinality(all) = n
    <2>1. n \in Nat
      BY <1>1
    <2> HIDE DEF n
    <2> QED  BY <2>1, FS_Interval
  <1>3. Orders(before, all)
    BY BeatsOrders
  <1>4. s = [k \in all |-> gains[best[k]]]
    BY DEF SortedGains
  <1>5. \A x, y \in all : <<x, y>> \in before => Beats(labels, x, y) /\ x # y
    <2>1. \A x, y \in all : <<x, y>> \in before => Beats(labels, x, y)
      OBVIOUS
    <2> HIDE DEF before
    <2> QED  BY <1>3, <2>1 DEF Orders
  <1> HIDE DEF before, gains, s
  <1>6. /\ best \in [all -> all]
        /\ \A x \in all : \E k \in all : best[k] = x
        /\ \A j, k \in all : j < k => <<best[j], best[k]>> \in before
    BY <1>2, <1>3, OrderedIs
  <1> HIDE DEF best
  <1>7. \A k \in all : best[k] \in all /\ s[k] = gains[best[k]] /\ s[k] \in Nat
    BY <1>1, <1>4, <1>6
  <1>8. s \in Seq(Nat) /\ Len(s) = n
    <2>1. s \in [1 .. n -> Nat]
      BY <1>4, <1>7
    <2>2. s \in Seq(Nat)
      BY <1>1, <2>1, IsASeq
    <2> QED  BY <1>1, <2>1, <2>2, LenProperties
  <1>9. ASSUME NEW j \in all, NEW k \in all, j < k
        PROVE  best[j] # best[k] /\ s[k] <= s[j]
    <2> DEFINE x == best[j]
               y == best[k]
    <2>1. x \in all /\ y \in all /\ x # y /\ Beats(labels, x, y)
      BY <1>5, <1>6, <1>9
    <2> HIDE DEF x, y
    <2>2. Grade(labels[y]) <= Grade(labels[x])
      BY <1>1, <2>1 DEF Beats
    <2>3. Gain(Grade(labels[y])) <= Gain(Grade(labels[x]))
      BY <1>1, <2>1, <2>2, GainGrows
    <2> QED  BY <1>1, <1>7, <2>1, <2>3 DEF x, y
  <1>10. Descending(s, gains, best)
    BY <1>1, <1>6, <1>7, <1>8, <1>9 DEF Descending
  <1> QED  BY <1>10 DEF s, gains

\* A passage is credited with one label at most, which it satisfies and which
\* no passage before it was credited with.
LEMMA CreditIs ==
  ASSUME NEW labels, Graded(labels), NEW credited, NEW passage
  PROVE  LET credit == Credit(labels, credited, passage)
         IN  \/ credit = {}
             \/ \E x \in 1 .. Len(labels) : /\ credit = {x} /\ x \notin credited
                                            /\ Satisfied(labels, passage) # {}
  <1> DEFINE credit == Credit(labels, credited, passage)
             left == Satisfied(labels, passage) \ credited
  <1>1. credit = {i \in left : \A j \in left \ {i} : Beats(labels, i, j)}
    BY DEF Credit
  <1>2. \A i \in left : i \in 1 .. Len(labels) /\ i \in Int /\ Grade(labels[i]) \in Int
    BY GainsAre DEF Satisfied
  <1> HIDE DEF credit
  <1>3. ASSUME NEW i \in credit, NEW j \in credit
        PROVE  i = j
    BY <1>1, <1>2 DEF Beats
  <1>4. ASSUME NEW x \in credit
        PROVE  credit = {x} /\ x \in 1 .. Len(labels) /\ x \notin credited /\ Satisfied(labels, passage) # {}
    BY <1>1, <1>2, <1>3
  <1> QED  BY <1>4 DEF credit

Fair(m) ==
    /\ m \in Metrics
    /\ m.dcg <= m.ideal
    /\ m.found <= m.relevant
    /\ m.hit => m.scored

\* No list scores more than the best there is, nor finds more labels than it
\* has relevant passages.
LEMMA ScoreIsFair ==
  ASSUME NEW list \in Seq(Passages), Len(list) <= Len(Discounts),
         NEW labels, Graded(labels), Len(labels) <= Len(Discounts), NEW k \in Int
  PROVE  Fair(Score(list, labels, k)) /\ Score(list, labels, k).scored
  <1> DEFINE cut == IF k <= 0 THEN Len(list) ELSE k
             results == SubSeq(list, 1, IF cut < Len(list) THEN cut ELSE Len(list))
             m == Len(results)
             n == Len(labels)
             gains == Gains(labels)
             relevant == {r \in 1 .. m : Satisfied(labels, results[r]) # {}}
             Marks(f) == f = [r \in 0 .. m |->
                 IF r = 0 THEN {} ELSE f[r - 1] \cup Credit(labels, f[r - 1], results[r])]
             credited == CHOOSE f : Marks(f)
             credit == [r \in 1 .. m |-> Credit(labels, credited[r - 1], results[r])]
             earned == [r \in 1 .. m |->
                 Discounts[r] * SumOver(gains, Credit(labels, credited[r - 1], results[r]))]
             depth == IF cut < n THEN cut ELSE n
             top == [j \in 1 .. n |-> Discounts[j] * SortedGains(labels)[j]]
  <1>1. /\ Len(list) \in Nat /\ n \in Nat /\ Len(Discounts) \in Nat /\ cut \in Nat
        /\ gains \in Seq(Nat) /\ Len(gains) = n /\ Discounts \in Seq(Nat)
        /\ \A i \in 1 .. Len(Discounts) : Discounts[i] \in Nat
        /\ n <= Len(Discounts)
    <2>1. Discounts \in Seq(Nat)
      BY EvalAssumption
    <2>2. Len(list) \in Nat /\ Len(Discounts) \in Nat /\ \A i \in 1 .. Len(Discounts) : Discounts[i] \in Nat
      BY <2>1, LenProperties, ElementOfSeq
    <2> QED  BY <2>1, <2>2, GainsAre
  <1>2. m \in 0 .. Len(Discounts) /\ m <= cut
    <2> DEFINE end == IF cut < Len(list) THEN cut ELSE Len(list)
    <2>1. end \in 0 .. Len(list) /\ end <= cut
      BY <1>1
    <2> HIDE DEF end, cut
    <2>2. Len(SubSeq(list, 1, end)) = end
      BY <1>1, <2>1, SubSeqProperties
    <2> QED  BY <1>1, <2>1, <2>2 DEF end
  <1>3. Score(list, labels, k) =
            [scored |-> TRUE, hit |-> relevant # {}, found |-> Cardinality(credited[m]),
             relevant |-> Cardinality(relevant), retrieved |-> m,
             dcg |-> SumOver(earned, 1 .. Len(earned)),
             ideal |-> IF SumOver(top, 1 .. depth) = 0 THEN 1 ELSE SumOver(top, 1 .. depth)]
    BY DEF Score, IdealDCG
  <1> HIDE DEF results, gains, m, n, cut
  <1>4. /\ credited[0] = {}
        /\ \A r \in 1 .. m : credited[r] = credited[r - 1] \cup credit[r]
    <2> DEFINE T == SUBSET (1 .. n)
               step == [p \in T \X (1 .. m) |-> p[1] \cup Credit(labels, p[1], results[p[2]])]
    <2>1. step \in [T \X (1 .. m) -> T]
          /\ \A x \in T, i \in 1 .. m : step[x, i] = x \cup Credit(labels, x, results[i])
      <3>1. \A x, passage : Credit(labels, x, passage) \subseteq 1 .. n
        BY DEF Credit, Satisfied, n
      <3>2. \A p \in T \X (1 .. m) : p[1] \in T /\ p[2] \in 1 .. m
        OBVIOUS
      <3>3. \A p \in T \X (1 .. m) : p[1] \cup Credit(labels, p[1], results[p[2]]) \in T
        BY <3>1, <3>2
      <3>4. \A x \in T, i \in 1 .. m : <<x, i>> \in T \X (1 .. m) /\ <<x, i>>[1] = x /\ <<x, i>>[2] = i
        OBVIOUS
      <3> HIDE DEF T
      <3> QED  BY <3>3, <3>4
    <2>2. {} \in T
      OBVIOUS
    <2> HIDE DEF step, T
    <2>3. PICK f \in [0 .. m -> T] : Follows(f, 0, m, {}, step)
      <3>1. m \in Int /\ 0 <= m /\ 0 \in Int /\ 0 + 1 = 1
        BY <1>2
      <3>2. step \in [T \X (0 + 1 .. m) -> T]
        BY <2>1, <3>1
      <3> QED  BY <2>2, <3>1, <3>2, RecursionOfType
    <2>4. Marks(f)
      <3>1. \A i \in 0 .. m : i # 0 => i \in 1 .. m /\ i - 1 \in 0 .. m
        BY <1>2
      <3>2. \A i \in 0 .. m : f[i] = IF i = 0 THEN {} ELSE f[i - 1] \cup Credit(labels, f[i - 1], results[i])
        BY <2>1, <2>3, <3>1 DEF Follows
      <3> QED  BY <2>3, <3>2
    <2>5. Marks(credited)
      <3> HIDE DEF Marks
      <3> QED  BY <2>4
    <2> HIDE DEF credited
    <2>6. 0 \in 0 .. m /\ \A i \in 1 .. m : i \in 0 .. m /\ i # 0
      BY <1>2
    <2> QED  BY <2>5, <2>6
  <1> HIDE DEF credited, Marks
  <1>5. ASSUME NEW r \in 1 .. m
        PROVE  \/ credit[r] = {}
               \/ \E x \in 1 .. n : /\ credit[r] = {x} /\ x \notin credited[r - 1] /\ r \in relevant
    BY CreditIs DEF n
  <1>6. Credits(credited, n, m)
    BY <1>4, <1>5 DEF Credits
  <1>7. /\ earned \in Seq(Nat) /\ Len(earned) = m
        /\ \A r \in 1 .. m : earned[r] = Discounts[r] * (SumOver(gains, credited[r]) - SumOver(gains, credited[r - 1]))
    <2>1. \A P : SumOver(gains, P) \in Nat /\ SumOver(gains, {}) = 0
      BY <1>1, SumGrows
    <2>2. \A r \in 1 .. m : earned[r] = Discounts[r] * SumOver(gains, credit[r])
      OBVIOUS
    <2> HIDE DEF credit
    <2>3. ASSUME NEW r \in 1 .. m
          PROVE  SumOver(gains, credit[r]) = SumOver(gains, credited[r]) - SumOver(gains, credited[r - 1])
      <3>1. CASE credit[r] = {}
        <4>1. credited[r] = credited[r - 1]
          BY <1>4, <3>1
        <4>2. SumOver(gains, credited[r]) \in Nat
          BY <2>1
        <4>3. SumOver(gains, credit[r]) = 0
          BY <2>1, <3>1
        <4> QED  BY <4>1, <4>2, <4>3
      <3>2. ASSUME NEW x \in 1 .. n, credit[r] = {x}, x \notin credited[r - 1]
            PROVE  SumOver(gains, credit[r]) = SumOver(gains, credited[r]) - SumOver(gains, credited[r - 1])
        <4>1. gains \in Seq(Int) /\ gains[x] \in Int /\ x \in 1 .. Len(gains)
          BY <1>1, SeqOfNat
        <4>2. SumOver(gains, credited[r - 1] \cup {x}) = SumOver(gains, credited[r - 1]) + gains[x]
          BY <3>2, <4>1, SumOfOneMore
        <4>3. SumOver(gains, {} \cup {x}) = SumOver(gains, {}) + gains[x]
          BY <4>1, SumOfOneMore
        <4>4. credited[r] = credited[r - 1] \cup {x} /\ credit[r] = {} \cup {x}
          BY <1>4, <3>2
        <4>5. SumOver(gains, {}) = 0 /\ SumOver(gains, credited[r - 1]) \in Nat
          BY <2>1
        <4>6. SumOver(gains, credit[r]) = gains[x]
          BY <4>1, <4>3, <4>4, <4>5
        <4>7. SumOver(gains, credited[r]) = SumOver(gains, credited[r - 1]) + gains[x]
          BY <4>2, <4>4
        <4> QED  BY <4>1, <4>5, <4>6, <4>7
      <3> QED  BY <1>5, <3>1, <3>2
    <2>4. \A r \in 1 .. m : Discounts[r] * SumOver(gains, credit[r]) \in Nat
      <3>1. \A r \in 1 .. m : Discounts[r] \in Nat
        BY <1>1, <1>2
      <3>2. \A a, b \in Nat : a * b \in Nat
        OBVIOUS
      <3> QED  BY <2>1, <3>1, <3>2
    <2>5. earned \in [1 .. m -> Nat]
      BY <2>2, <2>4
    <2> HIDE DEF earned
    <2>6. earned \in Seq(Nat) /\ Len(earned) = m
      BY <1>2, <2>5, IsASeq, LenProperties
    <2> QED  BY <2>2, <2>3, <2>6
  <1>8. PICK best : Descending(SortedGains(labels), gains, best)
    BY SortedIs DEF gains
  <1>9. top \in Seq(Nat) /\ Len(top) = n /\ \A j \in 1 .. n : top[j] = Discounts[j] * SortedGains(labels)[j]
    <2>1. \A j \in 1 .. n : SortedGains(labels)[j] \in Nat /\ Discounts[j] \in Nat
      <3>1. SortedGains(labels) \in Seq(Nat) /\ Len(SortedGains(labels)) = n
        BY <1>1, <1>8 DEF Descending
      <3>2. \A j \in 1 .. n : j \in 1 .. Len(Discounts)
        BY <1>1
      <3> QED  BY <1>1, <3>1, <3>2, ElementOfSeq
    <2>2. \A a, b \in Nat : a * b \in Nat
      OBVIOUS
    <2>3. top \in [1 .. n -> Nat]
      BY <2>1, <2>2
    <2> QED  BY <1>1, <2>3, IsASeq, LenProperties
  <1>10. depth \in 0 .. n /\ (depth < n => m <= depth)
    BY <1>1, <1>2
  <1> HIDE DEF earned, depth, top
  <1>11. SumOver(earned, 1 .. m) <= SumOver(top, 1 .. depth)
    <2>1. \A i, j \in 1 .. Len(Discounts) : i <= j => Discounts[j] <= Discounts[i]
      BY EvalAssumption
    <2> DEFINE s == SortedGains(labels)
    <2> HIDE DEF s
    <2>2. /\ Descending(s, gains, best) /\ Credits(credited, Len(gains), m)
          /\ m \in 0 .. Len(Discounts) /\ Len(gains) <= Len(Discounts)
          /\ Len(top) = Len(gains)
          /\ \A j \in 1 .. Len(gains) : top[j] = Discounts[j] * s[j]
          /\ depth \in 0 .. Len(gains) /\ (depth < Len(gains) => m <= depth)
      BY <1>1, <1>2, <1>6, <1>8, <1>9, <1>10 DEF s
    <2>3. Discounts \in Seq(Nat) /\ earned \in Seq(Nat) /\ top \in Seq(Nat)
      BY <1>1, <1>7, <1>9
    <2> QED  BY <1>7, <2>1, <2>2, <2>3, DiscountedIsMost
  <1>12. SumOver(earned, 1 .. m) \in Nat /\ SumOver(top, 1 .. depth) \in Nat
    BY <1>7, <1>9, SumGrows
  <1>13. IsFiniteSet(relevant) /\ Cardinality(relevant) \in Nat
    <2>1. IsFiniteSet(1 .. m) /\ relevant \subseteq 1 .. m
      BY <1>2, FS_Interval
    <2> QED  BY <2>1, FS_Subset, FS_CardinalityType
  <1> HIDE DEF credit
  <1>14. Cardinality(credited[m]) \in Nat /\ Cardinality(credited[m]) <= Cardinality(relevant)
    <2> DEFINE Before(r) == relevant \cap (1 .. r)
               S == {r \in 0 .. m : Cardinality(credited[r]) <= Cardinality(Before(r))}
    <2>1. \A r \in 0 .. m : IsFiniteSet(credited[r]) /\ Cardinality(credited[r]) \in Nat
      BY <1>1, <1>2, <1>6, CreditsAre
    <2>2. \A r \in 0 .. m : IsFiniteSet(Before(r)) /\ Cardinality(Before(r)) \in Nat
      BY <1>13, FS_Subset, FS_CardinalityType
    <2>3. 0 \in S
      <3>1. credited[0] = {} /\ Before(0) = {} /\ Cardinality({}) = 0 /\ 0 \in 0 .. m
        BY <1>2, <1>4, FS_EmptySet
      <3>2. Cardinality(credited[0]) = 0 /\ Cardinality(Before(0)) = 0
        BY <3>1
      <3>3. Cardinality(credited[0]) <= Cardinality(Before(0))
        <4>1. 0 <= 0
          OBVIOUS
        <4> QED  BY <3>2, <4>1
      <3> HIDE DEF Before
      <3> QED  BY <3>1, <3>3
    <2>4. ASSUME NEW r \in 1 .. m, r - 1 \in S
          PROVE  r \in S
      <3> DEFINE p == r - 1
      <3>1. /\ Cardinality(credited[p]) <= Cardinality(Before(p))
            /\ p \in 0 .. m /\ r \in 0 .. m /\ credited[r] = credited[p] \cup credit[r]
        BY <1>2, <1>4, <2>4
      <3>2. /\ Cardinality(credited[p]) \in Nat /\ Cardinality(credited[r]) \in Nat
            /\ Cardinality(Before(p)) \in Nat /\ Cardinality(Before(r)) \in Nat
        BY <2>1, <2>2, <3>1
      <3>3. CASE credit[r] = {}
        <4>1. credited[r] = credited[p] /\ Before(p) \subseteq Before(r)
          BY <1>2, <3>1, <3>3
        <4>2. Cardinality(Before(p)) <= Cardinality(Before(r))
          BY <2>2, <3>1, <4>1, FS_Subset
        <4> DEFINE a == Cardinality(credited[p])
                   b == Cardinality(Before(p))
                   c == Cardinality(Before(r))
        <4>3. a \in Nat /\ b \in Nat /\ c \in Nat /\ a <= b /\ b <= c /\ Cardinality(credited[r]) = a
          BY <3>1, <3>2, <4>1, <4>2
        <4> HIDE DEF a, b
        <4>4. Cardinality(credited[r]) <= c
          <5> HIDE DEF c
          <5> QED  BY <4>3
        <4> QED  BY <3>1, <4>4
      <3>4. ASSUME NEW x \in 1 .. n, credit[r] = {x}, x \notin credited[p], r \in relevant
            PROVE  r \in S
        <4>1. Cardinality(credited[r]) = Cardinality(credited[p]) + 1
          <5> DEFINE c == credited[p]
          <5>1. IsFiniteSet(c) /\ x \notin c /\ credited[r] = c \cup {x}
            BY <2>1, <3>1, <3>4
          <5> HIDE DEF c
          <5>2. Cardinality(credited[r]) = Cardinality(c) + 1
            BY <5>1, FS_AddElement
          <5> QED  BY <5>2 DEF c
        <4>2. Before(r) = Before(p) \cup {r} /\ r \notin Before(p)
          BY <1>2, <3>4
        <4>3. Cardinality(Before(r)) = Cardinality(Before(p)) + 1
          BY <2>2, <3>1, <4>2, FS_AddElement
        <4> HIDE DEF Before, p
        <4>4. Cardinality(credited[r]) <= Cardinality(Before(r))
          BY <3>1, <3>2, <4>1, <4>3
        <4> QED  BY <3>1, <4>4
      <3> QED  BY <1>5, <3>3, <3>4
    <2> HIDE DEF S
    <2>5. \A r \in 0 .. m : r \in S
      BY <1>2, <2>3, <2>4, FromZeroOn
    <2>6. m \in 0 .. m /\ Before(m) = relevant
      BY <1>2
    <2>7. Cardinality(credited[m]) <= Cardinality(Before(m))
      BY <2>5, <2>6 DEF S
    <2> HIDE DEF Before
    <2> QED  BY <2>1, <2>6, <2>7
  <1>15. m \in Nat /\ Len(earned) = m
    BY <1>2, <1>7
  <1> DEFINE best1 == SumOver(top, 1 .. depth)
             got == SumOver(earned, 1 .. m)
             found == Cardinality(credited[m])
             of == Cardinality(relevant)
             hit == relevant # {}
             most == IF best1 = 0 THEN 1 ELSE best1
  <1>16. /\ got \in Nat /\ most \in Nat /\ got <= most
         /\ found \in Nat /\ of \in Nat /\ found <= of /\ hit \in BOOLEAN
    BY <1>11, <1>12, <1>13, <1>14
  <1>17. Score(list, labels, k) = [scored |-> TRUE, hit |-> hit, found |-> found, relevant |-> of,
                                   retrieved |-> m, dcg |-> got, ideal |-> most]
    BY <1>3, <1>15
  <1> HIDE DEF hit, found, of, got, most
  <1> QED  BY <1>15, <1>16, <1>17 DEF Fair, Metrics

-----------------------------------------------------------------------------
(* The evaluation: any cases, lists and runs, wherever a call fails *)

Wanted(c) == evaluation.opts.only \in {0, c}
Worth(c) ==
    /\ RetrievalCounts(Cases[c]) \/ GenerationCounts(Cases[c])
    /\ evaluation.opts.gold => Cases[c].gold

\* A row is of a case, which it is scored and answered as is due, and has no
\* mark that nothing earned.
Sound(row) ==
    /\ row \in CaseResult /\ Fair(row.metrics)
    /\ row.case \in 1 .. Len(Cases)
    /\ row.metrics.scored <=> RetrievalCounts(Cases[row.case])
    /\ row.answered <=> GenerationCounts(Cases[row.case])
    /\ row.whole => row.answered
    /\ ~row.answered \/ Cases[row.case].includes = 0 => row.includes = 0
    /\ ~row.judged => row.score = 0

CasesOf(rows) == {rows[i].case : i \in 1 .. Len(rows)}

\* Of the cases before next those are done that are worth it, each once, and
\* the others are passed over.
Done(rows, skipped, next) ==
    /\ rows \in Seq(CaseResult)
    /\ \A i \in 1 .. Len(rows) : Sound(rows[i])
    /\ CasesOf(rows) = {c \in 1 .. next - 1 : Wanted(c) /\ Worth(c)}
    /\ skipped = {c \in 1 .. next - 1 : Wanted(c) /\ ~Worth(c)}
    /\ Len(rows) + Cardinality(skipped) = Cardinality({c \in 1 .. next - 1 : Wanted(c)})

InHand ==
    LET row == evaluation.row
    IN  /\ evaluation.next <= Len(Cases) /\ Wanted(evaluation.next) /\ Worth(evaluation.next)
        /\ row \in CaseResult /\ row.case = evaluation.next /\ ~row.judged /\ row.score = 0
        /\ evaluation.at \in {"retrieve", "answer"} =>
            ~row.answered /\ ~row.whole /\ row.includes = 0
        /\ evaluation.at \in {"answer", "judge"} =>
            /\ Fair(row.metrics) /\ (row.metrics.scored <=> RetrievalCounts(Case))
            /\ GenerationCounts(Case)
        /\ evaluation.at = "judge" => row.answered /\ (Case.includes = 0 => row.includes = 0)

Trusted(r) == Done(r.rows, r.skipped, Len(Cases) + 1) /\ HonestReport(r)

EvalShape ==
    evaluation = [at |-> evaluation.at, opts |-> evaluation.opts, next |-> evaluation.next,
                  row |-> evaluation.row, rows |-> evaluation.rows, skipped |-> evaluation.skipped,
                  reports |-> evaluation.reports]

EInv ==
    /\ EvalShape /\ EvalTypeOK
    /\ evaluation.at # "reported" => Done(evaluation.rows, evaluation.skipped, evaluation.next)
    /\ evaluation.at \in {"retrieve", "answer", "judge"} => InHand
    /\ \A r \in ToSet(evaluation.reports) : Trusted(r)

\* An evaluation is as it was, begins, or takes a step.
LEMMA EvalMoves ==
    ASSUME [Next]_vars
    PROVE  UNCHANGED evaluation \/ StartEval \/ EvalStep
  BY DEF Next, vars, Opening, BeginAsk, BeginSearch, BeginSplit, BeginEval, Begin, End, Asking, Searching, Splitting,
         Evaluating, PressCtrlC, SearchInterrupted, OtherProcesses, Answering, TimeOut, Quiet

\* What a user may run.
LEMMA OptionsAre ==
    ASSUME NEW e \in Evaluations
    PROVE  /\ e \in EvalOptions /\ Len(e.cases) \in Nat
           /\ \A c \in 1 .. Len(e.cases) :
                /\ e.cases[c] \in EvalCase
                /\ Graded(e.cases[c].labels) /\ Len(e.cases[c].labels) <= Len(Discounts)
  <1>1. e \in EvalOptions
    BY EvalAssumption
  <1>2. e.cases \in Seq(EvalCase)
    BY <1>1 DEF EvalOptions
  <1>3. Len(e.cases) \in Nat /\ \A c \in 1 .. Len(e.cases) : e.cases[c] \in EvalCase
    BY <1>2, ElementOfSeq, LenProperties
  <1>4. \A c \in 1 .. Len(e.cases) : Graded(e.cases[c].labels)
    BY <1>3 DEF EvalCase, Graded
  <1> QED  BY <1>1, <1>3, <1>4, EvalAssumption

\* What is said of rows and reports is said of the options only.
LEMMA SameOptions ==
    ASSUME evaluation'.opts = evaluation.opts
    PROVE  /\ \A c : Wanted(c)' = Wanted(c) /\ Worth(c)' = Worth(c)
           /\ \A rows, skipped, next : Done(rows, skipped, next)' = Done(rows, skipped, next)
           /\ \A r : Trusted(r)' = Trusted(r)
  <1>1. Cases' = Cases /\ \A c : RetrievalCounts(c)' = RetrievalCounts(c) /\ GenerationCounts(c)' = GenerationCounts(c)
    BY DEF Cases, RetrievalCounts, GenerationCounts, ScoresRetrieval, ScoresGeneration, ScorableAnswer
  <1>2. \A c : Wanted(c)' = Wanted(c) /\ Worth(c)' = Worth(c)
    BY <1>1 DEF Wanted, Worth
  <1>3. \A row : Sound(row)' = Sound(row)
    BY <1>1 DEF Sound
  <1>4. \A rows, skipped, next : Done(rows, skipped, next)' = Done(rows, skipped, next)
    BY <1>1, <1>2, <1>3 DEF Done
  <1>5. \A r : HonestReport(r)' = HonestReport(r)
    BY <1>1 DEF HonestReport
  <1> QED  BY <1>1, <1>2, <1>4, <1>5 DEF Trusted

\* Nothing is done before the first case.
LEMMA NothingDone == Done(<<>>, {}, 1)
  <1>1. <<>> \in Seq(CaseResult) /\ Len(<<>>) = 0
    BY EmptySeq
  <1>2. 1 .. 0 = {} /\ Cardinality({}) = 0 /\ 1 - 1 = 0
    BY FS_EmptySet
  <1>3. CasesOf(<<>>) = {}
    BY <1>1, <1>2 DEF CasesOf
  <1> QED  BY <1>1, <1>2, <1>3 DEF Done

\* The next case is a row more, or one that is passed over, or is not asked for.
LEMMA DoneMore ==
    ASSUME NEW rows, NEW skipped, NEW next \in Nat \ {0}, Done(rows, skipped, next)
    PROVE  /\ ~Wanted(next) => Done(rows, skipped, next + 1)
           /\ Wanted(next) /\ ~Worth(next) => Done(rows, skipped \cup {next}, next + 1)
           /\ \A row : Wanted(next) /\ Worth(next) /\ Sound(row) /\ row.case = next
                         => Done(Append(rows, row), skipped, next + 1)
  <1> DEFINE before == 1 .. next - 1
             Those(p) == {c \in before : Wanted(c)}
             asked == {c \in before : Wanted(c)}
             worth == {c \in before : Wanted(c) /\ Worth(c)}
  <1>1. 1 .. (next + 1) - 1 = before \cup {next} /\ next \notin before /\ IsFiniteSet(before)
    BY FS_Interval
  <1>2. /\ rows \in Seq(CaseResult) /\ Len(rows) \in Nat
        /\ \A i \in 1 .. Len(rows) : Sound(rows[i])
        /\ CasesOf(rows) = worth
        /\ skipped = {c \in before : Wanted(c) /\ ~Worth(c)}
        /\ Len(rows) + Cardinality(skipped) = Cardinality(asked)
    BY LenProperties DEF Done
  <1>3. /\ IsFiniteSet(asked) /\ Cardinality(asked) \in Nat
        /\ IsFiniteSet(skipped) /\ Cardinality(skipped) \in Nat
    <2>1. asked \subseteq before /\ skipped \subseteq before
      BY <1>2
    <2> QED  BY <1>1, <2>1, FS_Subset, FS_CardinalityType
  <1>4. /\ {c \in before \cup {next} : Wanted(c)} = IF Wanted(next) THEN asked \cup {next} ELSE asked
        /\ {c \in before \cup {next} : Wanted(c) /\ Worth(c)} =
               IF Wanted(next) /\ Worth(next) THEN worth \cup {next} ELSE worth
        /\ {c \in before \cup {next} : Wanted(c) /\ ~Worth(c)} =
               IF Wanted(next) /\ ~Worth(next) THEN skipped \cup {next} ELSE skipped
        /\ next \notin asked /\ next \notin skipped
    BY <1>1, <1>2
  <1>5. /\ Cardinality(asked \cup {next}) = Cardinality(asked) + 1
        /\ Cardinality(skipped \cup {next}) = Cardinality(skipped) + 1
    BY <1>3, <1>4, FS_AddElement
  <1> HIDE DEF before, asked, worth
  <1>6. ~Wanted(next) => Done(rows, skipped, next + 1)
    BY <1>1, <1>2, <1>4 DEF Done
  <1>7. Wanted(next) /\ ~Worth(next) => Done(rows, skipped \cup {next}, next + 1)
    <2> SUFFICES ASSUME Wanted(next), ~Worth(next)
                 PROVE  Done(rows, skipped \cup {next}, next + 1)
      OBVIOUS
    <2>1. Len(rows) + Cardinality(skipped \cup {next}) = Cardinality(asked \cup {next})
      BY <1>2, <1>3, <1>5
    <2> QED  BY <1>1, <1>2, <1>4, <2>1 DEF Done
  <1>8. ASSUME NEW row, Wanted(next), Worth(next), Sound(row), row.case = next
        PROVE  Done(Append(rows, row), skipped, next + 1)
    <2> DEFINE more == Append(rows, row)
    <2>1. row \in CaseResult
      BY <1>8 DEF Sound
    <2>2. /\ more \in Seq(CaseResult) /\ Len(more) = Len(rows) + 1
          /\ \A i \in 1 .. Len(rows) : more[i] = rows[i]
          /\ more[Len(rows) + 1] = row
      BY <1>2, <2>1, AppendProperties
    <2> HIDE DEF more
    <2>3. 1 .. Len(more) = (1 .. Len(rows)) \cup {Len(rows) + 1}
      BY <1>2, <2>2
    <2>4. \A i \in 1 .. Len(more) : Sound(more[i])
      BY <1>2, <1>8, <2>2, <2>3
    <2>5. CasesOf(more) = worth \cup {next}
      BY <1>2, <1>8, <2>2, <2>3 DEF CasesOf
    <2>6. Len(more) + Cardinality(skipped) = Cardinality(asked \cup {next})
      BY <1>2, <1>3, <1>5, <2>2
    <2> QED  BY <1>1, <1>2, <1>4, <1>8, <2>2, <2>4, <2>5, <2>6 DEF Done, more
  <1> QED  BY <1>6, <1>7, <1>8

\* What is marked is a sequence of naturals.
LEMMA MarksAre ==
    ASSUME NEW n \in Nat, NEW f \in [1 .. n -> Nat]
    PROVE  f \in Seq(Nat) /\ Len(f) = n
  BY IsASeq, LenProperties

\* A rate over what is all that earned it: none, or so much each at least.
LEMMA RateIs ==
    ASSUME NEW marks \in Seq(Nat), NEW counted, counted \subseteq 1 .. Len(marks),
           \A i \in (1 .. Len(marks)) \ counted : marks[i] = 0
    PROVE  /\ Rate(marks, counted) \in Average
           /\ Rate(marks, counted).over = 0 => Rate(marks, counted).total = 0
           /\ \A least \in Nat : (\A i \in counted : least <= marks[i]) =>
                  least * Rate(marks, counted).over <= Rate(marks, counted).total
  <1> DEFINE total == SumOver(marks, DOMAIN marks)
             over == Cardinality(counted)
  <1>1. Len(marks) \in Nat /\ DOMAIN marks = 1 .. Len(marks)
    BY LenProperties
  <1>2. Rate(marks, counted) = [total |-> total, over |-> over]
    BY DEF Rate
  <1>3. total \in Nat /\ ((\A i \in 1 .. Len(marks) : marks[i] = 0) => total = 0)
    BY <1>1, SumGrows
  <1>4. IsFiniteSet(counted) /\ over \in Nat
    <2>1. IsFiniteSet(1 .. Len(marks))
      BY <1>1, FS_Interval
    <2> QED  BY <2>1, FS_Subset, FS_CardinalityType
  <1>5. over = 0 => total = 0
    <2>1. over = 0 => counted = {}
      BY <1>4, FS_EmptySet
    <2> QED  BY <1>3, <2>1
  <1>6. ASSUME NEW least \in Nat, \A i \in counted : least <= marks[i]
        PROVE  least * over <= total
    BY <1>1, <1>6, SumIsAtLeast
  <1> HIDE DEF total, over
  <1> QED  BY <1>2, <1>3, <1>4, <1>5, <1>6 DEF Average

\* The report of a run that is over.
LEMMA ReportIs ==
    ASSUME evaluation.opts \in Evaluations, NEW rows, NEW skipped,
           Done(rows, skipped, Len(Cases) + 1)
    PROVE  NewReport(rows, skipped) \in Report /\ Trusted(NewReport(rows, skipped))
  <1> DEFINE r == NewReport(rows, skipped)
             all == 1 .. Len(rows)
             asked == {i \in all : rows[i].answered /\ Cases[rows[i].case].includes > 0}
             hits == [i \in all |-> IF rows[i].metrics.hit THEN 1 ELSE 0]
             found == [i \in all |-> rows[i].includes]
             scores == [i \in all |-> rows[i].score]
             scored == {i \in all : rows[i].metrics.scored}
             judged == {i \in all : rows[i].judged}
             degraded == Cardinality({i \in all : rows[i].degraded})
  <1>1. Len(Cases) \in Nat /\ (Len(Cases) + 1) - 1 = Len(Cases)
        /\ \A c \in 1 .. Len(Cases) : Cases[c].includes \in Nat
    <2>1. Len(Cases) \in Nat /\ \A c \in 1 .. Len(Cases) : Cases[c] \in EvalCase
      BY OptionsAre DEF Cases
    <2> QED  BY <2>1 DEF EvalCase
  <1>2. /\ rows \in Seq(CaseResult) /\ Len(rows) \in Nat
        /\ CasesOf(rows) = {c \in 1 .. Len(Cases) : Wanted(c) /\ Worth(c)}
        /\ skipped = {c \in 1 .. Len(Cases) : Wanted(c) /\ ~Worth(c)}
        /\ Len(rows) + Cardinality(skipped) = Cardinality({c \in 1 .. Len(Cases) : Wanted(c)})
    BY <1>1, LenProperties DEF Done
  <1>3. \A i \in all : Sound(rows[i])
    BY DEF Done
  <1>4. ASSUME NEW i \in all
        PROVE  /\ rows[i].includes \in Nat /\ rows[i].score \in Nat
               /\ rows[i].metrics.hit => rows[i].metrics.scored
               /\ ~(i \in asked) => rows[i].includes = 0
               /\ ~rows[i].judged => rows[i].score = 0
    <2>1. Sound(rows[i])
      BY <1>3
    <2>2. rows[i].includes \in Nat /\ rows[i].score \in Nat
      BY <2>1 DEF Sound, CaseResult, JudgeScale
    <2>3. Cases[rows[i].case].includes \in Nat
      BY <1>1, <2>1 DEF Sound
    <2> QED  BY <2>1, <2>2, <2>3 DEF Sound, Fair
  <1>5. r = [rows |-> rows, skipped |-> skipped, hit |-> Rate(hits, scored), includes |-> Rate(found, asked),
             correctness |-> Rate(scores, judged), degraded |-> degraded]
    BY DEF NewReport, Marked
  <1>6. /\ hits \in Seq(Nat) /\ Len(hits) = Len(rows)
        /\ found \in Seq(Nat) /\ Len(found) = Len(rows)
        /\ scores \in Seq(Nat) /\ Len(scores) = Len(rows)
    <2>1. \A i \in all : hits[i] \in Nat /\ found[i] \in Nat /\ scores[i] \in Nat
      BY <1>4
    <2>2. hits \in [all -> Nat] /\ found \in [all -> Nat] /\ scores \in [all -> Nat]
      BY <2>1
    <2> HIDE DEF hits, found, scores
    <2> QED  BY <1>2, <2>2, MarksAre
  <1>7. /\ Rate(hits, scored) \in Average /\ (Rate(hits, scored).over = 0 => Rate(hits, scored).total = 0)
    <2>1. scored \subseteq 1 .. Len(hits) /\ \A i \in (1 .. Len(hits)) \ scored : hits[i] = 0
      BY <1>4, <1>6
    <2> HIDE DEF hits, scored
    <2> QED  BY <1>6, <2>1, RateIs
  <1>8. /\ Rate(found, asked) \in Average /\ (Rate(found, asked).over = 0 => Rate(found, asked).total = 0)
    <2>1. asked \subseteq 1 .. Len(found) /\ \A i \in (1 .. Len(found)) \ asked : found[i] = 0
      BY <1>4, <1>6
    <2> HIDE DEF found, asked
    <2> QED  BY <1>6, <2>1, RateIs
  <1>9. /\ Rate(scores, judged) \in Average
        /\ Rate(scores, judged).over = 0 => Rate(scores, judged).total = 0
        /\ \A least \in Nat : (\A i \in judged : least <= rows[i].score) =>
               least * Rate(scores, judged).over <= Rate(scores, judged).total
    <2>1. judged \subseteq 1 .. Len(scores) /\ \A i \in (1 .. Len(scores)) \ judged : scores[i] = 0
      BY <1>4, <1>6
    <2>2. \A i \in judged : scores[i] = rows[i].score
      OBVIOUS
    <2> HIDE DEF scores, judged
    <2> QED  BY <1>6, <2>1, <2>2, RateIs
  <1>10. degraded \in Nat
    <2>1. IsFiniteSet(all) /\ {i \in all : rows[i].degraded} \subseteq all
      BY <1>2, FS_Interval
    <2> QED  BY <2>1, FS_Subset, FS_CardinalityType
  <1> HIDE DEF hits, found, scores, scored, asked, degraded
  <1>11. r \in Report
    <2>1. skipped \subseteq Nat
      BY <1>2
    <2> DEFINE h == Rate(hits, scored)
               f == Rate(found, asked)
               s == Rate(scores, judged)
    <2>2. h \in Average /\ f \in Average /\ s \in Average
      BY <1>7, <1>8, <1>9
    <2>3. r = [rows |-> rows, skipped |-> skipped, hit |-> h, includes |-> f, correctness |-> s,
               degraded |-> degraded]
      BY <1>5
    <2> HIDE DEF r, h, f, s
    <2> QED  BY <1>2, <1>10, <2>1, <2>2, <2>3 DEF Report
  <1>12. ToSet(rows) = {rows[i] : i \in all}
    BY <1>2, LenProperties DEF ToSet
  <1>13. {row.case : row \in ToSet(rows)} = CasesOf(rows)
    BY <1>12 DEF CasesOf
  <1>14. {row.case : row \in ToSet(rows)} \cup skipped = {c \in 1 .. Len(Cases) : evaluation.opts.only \in {0, c}}
    BY <1>2, <1>13 DEF Wanted
  <1>15. HonestReport(r)
    <2> DEFINE done == {row.case : row \in ToSet(rows)}
    <2>1. \A row \in ToSet(rows) :
            /\ row.metrics.scored <=> RetrievalCounts(Cases[row.case])
            /\ row.answered <=> GenerationCounts(Cases[row.case])
            /\ row.whole => row.answered
            /\ row.metrics.dcg <= row.metrics.ideal
            /\ row.metrics.found <= row.metrics.relevant
      BY <1>3, <1>12 DEF Sound, Fair
    <2>2. Len(rows) + Cardinality(skipped) = Cardinality(done \cup skipped)
      BY <1>2, <1>14 DEF Wanted
    <2>3. ASSUME NEW least \in 0 .. JudgeScale, \A row \in ToSet(rows) : row.judged => row.score >= least
          PROVE  Rate(scores, judged).total >= least * Rate(scores, judged).over
      <3>1. \A i \in judged : rows[i].score \in Nat /\ rows[i].score >= least
        BY <1>4, <1>12, <2>3
      <3>2. \A i \in judged : least <= rows[i].score
        BY <3>1
      <3>3. least \in Nat
        BY DEF JudgeScale
      <3>4. least * Rate(scores, judged).over <= Rate(scores, judged).total
        BY <1>9, <3>2, <3>3
      <3> DEFINE bound == least * Rate(scores, judged).over
                 total == Rate(scores, judged).total
      <3>5. bound \in Int /\ total \in Int
        <4>1. Rate(scores, judged).over \in Nat /\ total \in Nat
          BY <1>9 DEF Average
        <4> QED  BY <3>3, <4>1
      <3>6. bound <= total => total >= bound
        <4> HIDE DEF bound, total
        <4> QED  BY <3>5
      <3> QED  BY <3>4, <3>6
    <2>4. r.rows = rows /\ r.skipped = skipped /\ r.hit = Rate(hits, scored) /\ r.includes = Rate(found, asked)
          /\ r.correctness = Rate(scores, judged)
      BY <1>5
    <2> HIDE DEF r, judged, done
    <2> QED  BY <1>7, <1>8, <1>9, <1>14, <2>1, <2>2, <2>3, <2>4 DEF HonestReport, done
  <1>16. Done(r.rows, r.skipped, Len(Cases) + 1)
    BY <1>5
  <1> QED  BY <1>11, <1>15, <1>16 DEF Trusted

EvalAts == {"idle", "case", "retrieve", "answer", "judge", "reported", "failed"}

\* A step that changes neither the options nor the reports.
LEMMA EvalKeeps ==
    ASSUME EInv, NEW at \in EvalAts \ {"reported"}, NEW next \in 1 .. Len(Cases) + 1, NEW row, NEW rows, NEW skipped,
           evaluation' = [at |-> at, opts |-> evaluation.opts, next |-> next, row |-> row, rows |-> rows,
                          skipped |-> skipped, reports |-> evaluation.reports],
           Done(rows, skipped, next),
           at \in {"retrieve", "answer", "judge"} => InHand' /\ row \in CaseResult
    PROVE  EInv'
  <1>1. /\ evaluation'.at = at /\ evaluation'.opts = evaluation.opts /\ evaluation'.next = next
        /\ evaluation'.row = row /\ evaluation'.rows = rows /\ evaluation'.skipped = skipped
        /\ evaluation'.reports = evaluation.reports
    OBVIOUS
  <1>2. EvalShape'
    BY <1>1 DEF EvalShape
  <1>3. Done(rows, skipped, next)' /\ \A r : Trusted(r)' = Trusted(r)
    BY <1>1, SameOptions
  <1>4. skipped \subseteq Nat
    <2>1. skipped \subseteq 1 .. next - 1
      BY DEF Done
    <2>2. 1 .. next - 1 \subseteq Nat
      OBVIOUS
    <2> QED  BY <2>1, <2>2
  <1>5. EvalTypeOK'
    BY <1>1, <1>4 DEF EInv, EvalTypeOK, EvalAts, Cases, Done
  <1> QED  BY <1>1, <1>2, <1>3, <1>5 DEF EInv

\* The next case, and whether it is wanted and worth it.
LEMMA NextCase ==
    ASSUME EInv
    PROVE  /\ evaluation.opts \in Evaluations /\ Len(Cases) \in Nat
           /\ evaluation.next \in 1 .. Len(Cases) + 1 /\ evaluation.next \in Nat \ {0}
           /\ evaluation.next <= Len(Cases) =>
                /\ evaluation.next + 1 \in 1 .. Len(Cases) + 1
                /\ evaluation.next \in 1 .. Len(Cases)
                /\ Case \in EvalCase /\ Graded(Case.labels) /\ Len(Case.labels) <= Len(Discounts)
           /\ LeftOut <=> ~Wanted(evaluation.next)
           /\ NothingToScore <=> ~Worth(evaluation.next)
  <1>1. evaluation.opts \in Evaluations /\ evaluation.next \in 1 .. Len(Cases) + 1
    BY DEF EInv, EvalTypeOK, Cases
  <1>2. Len(Cases) \in Nat
    BY <1>1, OptionsAre DEF Cases
  <1>3. evaluation.next \in Nat \ {0}
    BY <1>1, <1>2
  <1>4. evaluation.next <= Len(Cases) =>
           evaluation.next + 1 \in 1 .. Len(Cases) + 1 /\ evaluation.next \in 1 .. Len(Cases)
    BY <1>2, <1>3
  <1>5. evaluation.next <= Len(Cases) => Case \in EvalCase /\ Graded(Case.labels) /\ Len(Case.labels) <= Len(Discounts)
    BY <1>1, <1>4, OptionsAre DEF Case, Cases
  <1> QED  BY <1>1, <1>2, <1>3, <1>4, <1>5 DEF LeftOut, NothingToScore, Wanted, Worth, Case

\* The cases that are not asked for, or not worth it, are passed over (eval.go:108-134).
LEMMA PassOverStep == ASSUME EInv, PassOver PROVE EInv'
  <1> DEFINE next == evaluation.next
             skipped == IF LeftOut THEN evaluation.skipped ELSE evaluation.skipped \cup {next}
  <1>1. /\ evaluation.at = "case" /\ next <= Len(Cases) /\ (LeftOut \/ NothingToScore)
        /\ evaluation' = [evaluation EXCEPT !.next = next + 1, !.skipped = skipped]
    BY DEF PassOver, More
  <1>2. Done(evaluation.rows, skipped, next + 1)
    BY <1>1, NextCase, DoneMore DEF EInv
  <1>3. next + 1 \in 1 .. Len(Cases) + 1
    BY <1>1, NextCase
  <1> HIDE DEF skipped, next
  <1>4. evaluation' = [at |-> "case", opts |-> evaluation.opts, next |-> next + 1, row |-> evaluation.row,
                       rows |-> evaluation.rows, skipped |-> skipped, reports |-> evaluation.reports]
    BY <1>1 DEF EInv, EvalShape
  <1> QED  BY <1>2, <1>3, <1>4, EvalKeeps DEF EvalAts

\* The row a case begins with.
LEMMA NewRowIs == ASSUME EInv PROVE NewRow \in CaseResult
  <1>1. NotScored \in Metrics /\ 0 \in Nat /\ 0 \in 0 .. JudgeScale /\ evaluation.next \in Nat
    BY NextCase DEF NotScored, Metrics, JudgeScale
  <1> QED  BY <1>1 DEF NewRow, CaseResult

\* A case begins with its plan, degraded or not, or ends the run.
LEMMA PlanCaseStep == ASSUME EInv, PlanCase PROVE EInv'
  <1>1. /\ evaluation.at = "case" /\ evaluation.next <= Len(Cases) /\ ~LeftOut /\ ~NothingToScore
        /\ \/ \E row \in {NewRow, [NewRow EXCEPT !.degraded = TRUE]} :
                evaluation' = [evaluation EXCEPT !.at = "retrieve", !.row = row]
           \/ evaluation' = [evaluation EXCEPT !.at = "failed"]
    BY DEF PlanCase, More
  <1>2. Done(evaluation.rows, evaluation.skipped, evaluation.next) /\ evaluation.next \in 1 .. Len(Cases) + 1
    BY <1>1, NextCase DEF EInv
  <1>3. ASSUME NEW row \in {NewRow, [NewRow EXCEPT !.degraded = TRUE]},
               evaluation' = [evaluation EXCEPT !.at = "retrieve", !.row = row]
        PROVE  EInv'
    <2>1. /\ row \in CaseResult /\ row.case = evaluation.next /\ ~row.judged /\ row.score = 0
          /\ ~row.answered /\ ~row.whole /\ row.includes = 0
      <3>1. row \in CaseResult
        BY <1>3, NewRowIs DEF CaseResult
      <3> QED  BY <1>3, <3>1 DEF NewRow
    <2>2. evaluation' = [at |-> "retrieve", opts |-> evaluation.opts, next |-> evaluation.next, row |-> row,
                         rows |-> evaluation.rows, skipped |-> evaluation.skipped, reports |-> evaluation.reports]
      BY <1>3 DEF EInv, EvalShape
    <2>3. InHand'
      <3>1. Wanted(evaluation.next)' /\ Worth(evaluation.next)' /\ Cases' = Cases
        BY <1>1, <2>2, NextCase, SameOptions DEF Cases
      <3> QED  BY <1>1, <2>1, <2>2, <3>1 DEF InHand
    <2> QED  BY <1>2, <2>1, <2>2, <2>3, EvalKeeps DEF EvalAts
  <1>4. CASE evaluation' = [evaluation EXCEPT !.at = "failed"]
    <2>1. evaluation' = [at |-> "failed", opts |-> evaluation.opts, next |-> evaluation.next, row |-> evaluation.row,
                         rows |-> evaluation.rows, skipped |-> evaluation.skipped, reports |-> evaluation.reports]
      BY <1>4 DEF EInv, EvalShape
    <2> QED  BY <1>2, <2>1, EvalKeeps DEF EvalAts
  <1> QED  BY <1>1, <1>3, <1>4

\* A failure ends the run, and leaves what it did.
LEMMA FailCaseStep == ASSUME EInv, FailCase PROVE EInv'
  <1>1. evaluation' = [at |-> "failed", opts |-> evaluation.opts, next |-> evaluation.next, row |-> evaluation.row,
                       rows |-> evaluation.rows, skipped |-> evaluation.skipped, reports |-> evaluation.reports]
    BY DEF FailCase, EInv, EvalShape
  <1>2. Done(evaluation.rows, evaluation.skipped, evaluation.next) /\ evaluation.next \in 1 .. Len(Cases) + 1
    BY NextCase DEF EInv, FailCase
  <1> QED  BY <1>1, <1>2, EvalKeeps DEF EvalAts

\* A sound row of the case in hand is kept.
LEMMA KeepStep ==
    ASSUME EInv, evaluation.at \in {"retrieve", "answer", "judge"}, NEW row, Sound(row), row.case = evaluation.next,
           evaluation' = Keep(row)
    PROVE  EInv'
  <1> DEFINE next == evaluation.next
             rows == Append(evaluation.rows, row)
  <1>1. InHand /\ Done(evaluation.rows, evaluation.skipped, next)
    BY DEF EInv
  <1>2. Done(rows, evaluation.skipped, next + 1) /\ next + 1 \in 1 .. Len(Cases) + 1
    BY <1>1, NextCase, DoneMore DEF InHand
  <1>3. evaluation' = [at |-> "case", opts |-> evaluation.opts, next |-> next + 1, row |-> <<>>,
                       rows |-> rows, skipped |-> evaluation.skipped, reports |-> evaluation.reports]
    BY DEF Keep, EInv, EvalShape
  <1> HIDE DEF rows, next
  <1> QED  BY <1>2, <1>3, EvalKeeps DEF EvalAts

\* Whatever is retrieved has no more ranks than there are discounts.
LEMMA ListsAreScored ==
    ASSUME NEW list \in RankedLists \cup {<<>>}
    PROVE  list \in Seq(Passages) /\ Len(list) <= Len(Discounts)
  <1>1. CASE list \in RankedLists
    BY <1>1, EvalAssumption
  <1>2. CASE list = <<>>
    <2>1. Len(Discounts) \in Nat
      BY EvalAssumption, LenProperties
    <2>2. <<>> \in Seq(Passages) /\ Len(<<>>) = 0
      BY EmptySeq
    <2> QED  BY <1>2, <2>1, <2>2
  <1> QED  BY <1>1, <1>2

\* A list is scored if its labels count, and the row kept if no answer does.
LEMMA RetrieveCaseStep == ASSUME EInv, RetrieveCase PROVE EInv'
  <1>1. PICK list \in RankedLists \cup {<<>>} :
            LET row == [evaluation.row EXCEPT !.metrics =
                    IF RetrievalCounts(Case) THEN Score(list, Case.labels, evaluation.opts.topK)
                    ELSE NotScored]
            IN  evaluation' = IF GenerationCounts(Case)
                              THEN [evaluation EXCEPT !.at = "answer", !.row = row]
                              ELSE Keep(row)
    BY DEF RetrieveCase
  <1> DEFINE m == IF RetrievalCounts(Case) THEN Score(list, Case.labels, evaluation.opts.topK) ELSE NotScored
             row == [evaluation.row EXCEPT !.metrics = m]
  <1>2. evaluation.at = "retrieve" /\ InHand
    BY DEF RetrieveCase, EInv
  <1>3. Fair(m) /\ (m.scored <=> RetrievalCounts(Case))
    <2>1. CASE RetrievalCounts(Case)
      <3>1. evaluation.opts.topK \in Int
        BY NextCase, OptionsAre DEF EvalOptions
      <3>2. Graded(Case.labels) /\ Len(Case.labels) <= Len(Discounts)
        BY <1>2, NextCase DEF InHand
      <3>3. list \in Seq(Passages) /\ Len(list) <= Len(Discounts)
        BY ListsAreScored
      <3> QED  BY <2>1, <3>1, <3>2, <3>3, ScoreIsFair
    <2>2. CASE ~RetrievalCounts(Case)
      BY <2>2 DEF NotScored, Fair, Metrics
    <2> QED  BY <2>1, <2>2
  <1> HIDE DEF m
  <1>4. /\ row \in CaseResult /\ row.case = evaluation.next /\ ~row.judged /\ row.score = 0
        /\ ~row.answered /\ ~row.whole /\ row.includes = 0 /\ row.metrics = m
    BY <1>2, <1>3 DEF InHand, CaseResult, Fair
  <1>5. evaluation' = IF GenerationCounts(Case) THEN [evaluation EXCEPT !.at = "answer", !.row = row] ELSE Keep(row)
    BY <1>1 DEF m
  <1> HIDE DEF row
  <1>6. CASE GenerationCounts(Case)
    <2>1. evaluation' = [at |-> "answer", opts |-> evaluation.opts, next |-> evaluation.next, row |-> row,
                         rows |-> evaluation.rows, skipped |-> evaluation.skipped, reports |-> evaluation.reports]
      BY <1>5, <1>6 DEF EInv, EvalShape
    <2>2. InHand'
      <3>1. /\ Wanted(evaluation.next)' /\ Worth(evaluation.next)' /\ Cases' = Cases /\ Case' = Case
            /\ RetrievalCounts(Case)' = RetrievalCounts(Case) /\ GenerationCounts(Case)' = GenerationCounts(Case)
        BY <1>2, <2>1, SameOptions
        DEF InHand, Cases, Case, RetrievalCounts, GenerationCounts, ScoresRetrieval, ScoresGeneration, ScorableAnswer
      <3> QED  BY <1>2, <1>3, <1>4, <1>6, <2>1, <3>1 DEF InHand
    <2>3. Done(evaluation.rows, evaluation.skipped, evaluation.next) /\ evaluation.next \in 1 .. Len(Cases) + 1
      BY <1>2, NextCase DEF EInv
    <2> QED  BY <1>4, <2>1, <2>2, <2>3, EvalKeeps DEF EvalAts
  <1>7. CASE ~GenerationCounts(Case)
    <2>1. evaluation.next \in 1 .. Len(Cases)
      BY <1>2, NextCase DEF InHand
    <2>2. Sound(row)
      BY <1>3, <1>4, <1>7, <2>1 DEF Sound, Case
    <2> QED  BY <1>2, <1>4, <1>5, <1>7, <2>2, KeepStep
  <1> QED  BY <1>6, <1>7

\* An answer is marked for what it includes, and kept if it is not judged.
LEMMA AnswerCaseStep == ASSUME EInv, AnswerCase PROVE EInv'
  <1>1. evaluation.at = "answer" /\ InHand /\ Case.includes \in Nat /\ evaluation.next \in 1 .. Len(Cases)
    <2>1. evaluation.at = "answer" /\ InHand
      BY DEF AnswerCase, EInv
    <2>2. Case \in EvalCase /\ evaluation.next \in 1 .. Len(Cases)
      BY <2>1, NextCase DEF InHand
    <2> QED  BY <2>1, <2>2 DEF EvalCase
  <1>2. PICK whole \in BOOLEAN, found \in 0 .. Case.includes :
            LET row == [evaluation.row EXCEPT
                    !.answered = TRUE, !.whole = whole,
                    !.includes = IF Case.includes = 0 THEN 0 ELSE (100 * found) \div Case.includes]
            IN  evaluation' = IF evaluation.opts.judge
                              THEN [evaluation EXCEPT !.at = "judge", !.row = row]
                              ELSE Keep(row)
    BY DEF AnswerCase
  <1> DEFINE share == IF Case.includes = 0 THEN 0 ELSE (100 * found) \div Case.includes
             row == [evaluation.row EXCEPT !.answered = TRUE, !.whole = whole, !.includes = share]
  <1>3. share \in Nat /\ (Case.includes = 0 => share = 0)
    <2> DEFINE a == 100 * found
               b == Case.includes
    <2>1. a \in Nat /\ b \in Nat
      BY <1>1
    <2> HIDE DEF a, b
    <2>2. b # 0 => a \div b \in Nat
      BY <2>1
    <2> QED  BY <2>2 DEF a, b
  <1>4. /\ row \in CaseResult /\ row.case = evaluation.next /\ ~row.judged /\ row.score = 0
        /\ row.answered /\ row.includes = share /\ row.metrics = evaluation.row.metrics
    <2> HIDE DEF share
    <2> QED  BY <1>1, <1>3 DEF InHand, CaseResult
  <1>5. evaluation' = IF evaluation.opts.judge THEN [evaluation EXCEPT !.at = "judge", !.row = row] ELSE Keep(row)
    BY <1>2
  <1> HIDE DEF row, share
  <1>6. CASE evaluation.opts.judge
    <2>1. evaluation' = [at |-> "judge", opts |-> evaluation.opts, next |-> evaluation.next, row |-> row,
                         rows |-> evaluation.rows, skipped |-> evaluation.skipped, reports |-> evaluation.reports]
      BY <1>5, <1>6 DEF EInv, EvalShape
    <2>2. InHand'
      <3>1. /\ Wanted(evaluation.next)' /\ Worth(evaluation.next)' /\ Cases' = Cases /\ Case' = Case
            /\ RetrievalCounts(Case)' = RetrievalCounts(Case) /\ GenerationCounts(Case)' = GenerationCounts(Case)
        BY <1>1, <2>1, SameOptions
        DEF InHand, Cases, Case, RetrievalCounts, GenerationCounts, ScoresRetrieval, ScoresGeneration, ScorableAnswer
      <3> QED  BY <1>1, <1>3, <1>4, <2>1, <3>1 DEF InHand
    <2>3. Done(evaluation.rows, evaluation.skipped, evaluation.next) /\ evaluation.next \in 1 .. Len(Cases) + 1
      BY <1>1, NextCase DEF EInv
    <2> QED  BY <1>4, <2>1, <2>2, <2>3, EvalKeeps DEF EvalAts
  <1>7. CASE ~evaluation.opts.judge
    <2>1. Sound(row)
      BY <1>1, <1>3, <1>4 DEF Sound, Case, InHand
    <2> QED  BY <1>1, <1>4, <1>5, <1>7, <2>1, KeepStep
  <1> QED  BY <1>6, <1>7

\* A verdict is a mark, and an outage of the judge none (eval.go:326-352).
LEMMA JudgeCaseStep == ASSUME EInv, JudgeCase PROVE EInv'
  <1>1. evaluation.at = "judge" /\ InHand
    BY DEF JudgeCase, EInv
  <1>2. evaluation.next \in 1 .. Len(Cases)
    BY <1>1, NextCase DEF InHand
  <1>3. CASE evaluation' = Keep(evaluation.row)
    <2>1. Sound(evaluation.row) /\ evaluation.row.case = evaluation.next
      BY <1>1, <1>2 DEF Sound, InHand, Case
    <2> QED  BY <1>1, <1>3, <2>1, KeepStep
  <1>4. ASSUME NEW score \in 0 .. JudgeScale,
               evaluation' = Keep([evaluation.row EXCEPT !.judged = TRUE, !.score = score])
        PROVE  EInv'
    <2> DEFINE row == [evaluation.row EXCEPT !.judged = TRUE, !.score = score]
    <2>1. /\ row \in CaseResult /\ row.case = evaluation.next /\ row.judged /\ row.answered
          /\ row.includes = evaluation.row.includes /\ row.metrics = evaluation.row.metrics
      BY <1>1 DEF InHand, CaseResult
    <2> HIDE DEF row
    <2>2. Sound(row)
      BY <1>1, <1>2, <2>1 DEF Sound, InHand, Case
    <2> QED  BY <1>1, <1>4, <2>1, <2>2, KeepStep DEF row
  <1> QED  BY <1>3, <1>4 DEF JudgeCase

\* A run that is over is reported, and the next begins with nothing done.
LEMMA FinishRunStep == ASSUME EInv, FinishRun PROVE EInv'
  <1> DEFINE report == NewReport(evaluation.rows, evaluation.skipped)
             reports == Append(evaluation.reports, report)
             at == IF Len(reports) < evaluation.opts.repeat THEN "case" ELSE "reported"
  <1>1. /\ evaluation.at = "case" /\ ~(evaluation.next <= Len(Cases))
        /\ evaluation' = [NoRun EXCEPT !.opts = evaluation.opts, !.reports = reports, !.at = at]
    BY DEF FinishRun, More
  <1>2. evaluation.next = Len(Cases) + 1
    <2>1. Len(Cases) \in Nat /\ evaluation.next \in 1 .. Len(Cases) + 1
      BY NextCase
    <2> QED  BY <1>1, <2>1
  <1>3. Done(evaluation.rows, evaluation.skipped, Len(Cases) + 1)
    BY <1>1, <1>2 DEF EInv
  <1>4. report \in Report /\ Trusted(report)
    BY <1>3, NextCase, ReportIs
  <1> HIDE DEF report
  <1>5. evaluation.reports \in Seq(Report) /\ \A r \in ToSet(evaluation.reports) : Trusted(r)
    BY DEF EInv, EvalTypeOK
  <1>6. reports \in Seq(Report) /\ \A r \in ToSet(reports) : Trusted(r)
    <2> DEFINE old == evaluation.reports
               n == Len(old)
    <2>1. /\ n \in Nat /\ reports \in Seq(Report) /\ Len(reports) = n + 1
          /\ \A i \in 1 .. n : reports[i] = old[i]
          /\ reports[n + 1] = report
      BY <1>4, <1>5, AppendProperties, LenProperties
    <2>2. DOMAIN reports = 1 .. n + 1 /\ DOMAIN old = 1 .. n
      BY <1>5, <2>1, LenProperties
    <2> HIDE DEF reports
    <2>3. 1 .. n + 1 = (1 .. n) \cup {n + 1}
      BY <2>1
    <2>4. \A i \in 1 .. n : old[i] \in ToSet(old)
      BY <2>2 DEF ToSet
    <2>5. \A i \in 1 .. n + 1 : Trusted(reports[i])
      BY <1>4, <1>5, <2>1, <2>3, <2>4
    <2> QED  BY <2>1, <2>2, <2>5 DEF ToSet
  <1> HIDE DEF reports
  <1>7. evaluation' = [at |-> at, opts |-> evaluation.opts, next |-> 1, row |-> <<>>,
                       rows |-> <<>>, skipped |-> {}, reports |-> reports]
    BY <1>1 DEF NoRun
  <1>8. at \in {"case", "reported"}
    OBVIOUS
  <1> HIDE DEF at
  <1>9. /\ evaluation'.at = at /\ evaluation'.opts = evaluation.opts /\ evaluation'.next = 1
        /\ evaluation'.row = <<>> /\ evaluation'.rows = <<>> /\ evaluation'.skipped = {}
        /\ evaluation'.reports = reports
    BY <1>7
  <1>10. EvalShape'
    BY <1>7, <1>9 DEF EvalShape
  <1>11. Done(<<>>, {}, 1)' /\ \A r : Trusted(r)' = Trusted(r)
    BY <1>9, NothingDone, SameOptions
  <1>12. EvalTypeOK'
    <2>1. evaluation.opts \in Evaluations /\ Len(Cases) \in Nat /\ <<>> \in Seq(CaseResult)
      BY NextCase, EmptySeq
    <2>2. 1 \in 1 .. Len(Cases) + 1
      BY <2>1
    <2> QED  BY <1>6, <1>8, <1>9, <2>1, <2>2 DEF EvalTypeOK, Cases
  <1> QED  BY <1>6, <1>8, <1>9, <1>10, <1>11, <1>12 DEF EInv

\* A run that has not begun, whatever its options.
Fresh ==
    \E at \in {"idle", "failed", "case"}, options \in Evaluations :
        evaluation = [at |-> at, opts |-> options, next |-> 1, row |-> <<>>,
                      rows |-> <<>>, skipped |-> {}, reports |-> <<>>]

\* A run that has not begun has done nothing.
LEMMA FreshKeeps == Fresh => EInv
  <1> SUFFICES ASSUME NEW at \in {"idle", "failed", "case"}, NEW options \in Evaluations,
                      evaluation = [at |-> at, opts |-> options, next |-> 1, row |-> <<>>,
                                    rows |-> <<>>, skipped |-> {}, reports |-> <<>>]
               PROVE  EInv
    BY DEF Fresh
  <1>1. /\ evaluation.at = at /\ evaluation.opts = options /\ evaluation.next = 1
        /\ evaluation.rows = <<>> /\ evaluation.skipped = {} /\ evaluation.reports = <<>>
    OBVIOUS
  <1>2. EvalShape
    BY <1>1 DEF EvalShape
  <1>3. <<>> \in Seq(CaseResult) /\ <<>> \in Seq(Report) /\ ToSet(<<>>) = {}
    BY EmptySeq DEF ToSet
  <1>4. Len(options.cases) \in Nat
    BY OptionsAre
  <1>5. EvalTypeOK
    <2>1. 1 \in 1 .. Len(options.cases) + 1
      BY <1>4
    <2> QED  BY <1>1, <1>3, <2>1 DEF EvalTypeOK
  <1> QED  BY <1>1, <1>2, <1>3, <1>5, NothingDone DEF EInv

\* No run has begun.
LEMMA EvalInitInv == EvalInit => EInv
  <1> SUFFICES ASSUME EvalInit PROVE EInv
    OBVIOUS
  <1> DEFINE options == CHOOSE e \in Evaluations : TRUE
  <1>1. options \in Evaluations
    BY EvalAssumption
  <1>2. evaluation = [at |-> "idle", opts |-> options, next |-> 1, row |-> <<>>,
                      rows |-> <<>>, skipped |-> {}, reports |-> <<>>]
    BY DEF EvalInit, NoRun
  <1> HIDE DEF options
  <1> QED  BY <1>1, <1>2, FreshKeeps DEF Fresh

\* The same of the next state.
LEMMA FreshNext == Fresh' => EInv'
  BY FreshKeeps, PTL

\* A run begins, unless nothing can be scored.
LEMMA StartEvalStep == ASSUME StartEval PROVE EInv'
  <1>1. PICK options \in Evaluations :
            evaluation' = [NoRun EXCEPT !.opts = options, !.at = IF Unscorable(options) THEN "failed" ELSE "case"]
    BY DEF StartEval
  <1> DEFINE at == IF Unscorable(options) THEN "failed" ELSE "case"
  <1>2. evaluation' = [at |-> at, opts |-> options, next |-> 1, row |-> <<>>,
                       rows |-> <<>>, skipped |-> {}, reports |-> <<>>]
    BY <1>1 DEF NoRun
  <1>3. at \in {"idle", "failed", "case"}
    OBVIOUS
  <1> HIDE DEF at
  <1> QED  BY <1>2, <1>3, FreshNext DEF Fresh

\* Whatever is planned, retrieved, answered and judged, fails or is
\* interrupted, the strengthened invariant of the evaluation holds.
THEOREM EvalInvariance == CommandSpec => []EInv
  <1>1. Init => EInv
    BY EvalInitInv DEF Init
  <1>2. EInv /\ [Next]_vars => EInv'
    <2> SUFFICES ASSUME EInv, [Next]_vars PROVE EInv'
      OBVIOUS
    <2>1. CASE UNCHANGED evaluation
      <3>1. Cases' = Cases /\ Case' = Case /\ (InHand => InHand')
        BY <2>1
        DEF Cases, Case, InHand, Wanted, Worth, RetrievalCounts, GenerationCounts, ScoresRetrieval, ScoresGeneration,
            ScorableAnswer
      <3>2. /\ \A rows, skipped, next : Done(rows, skipped, next)' = Done(rows, skipped, next)
            /\ \A r : Trusted(r)' = Trusted(r)
        BY <2>1, SameOptions
      <3> QED  BY <2>1, <3>1, <3>2 DEF EInv, EvalShape, EvalTypeOK
    <2> QED
      BY <2>1, EvalMoves, StartEvalStep, PassOverStep, PlanCaseStep, RetrieveCaseStep, AnswerCaseStep, JudgeCaseStep,
         FailCaseStep, FinishRunStep
      DEF EvalStep
  <1> QED  BY <1>1, <1>2, PTL DEF CommandSpec

\* What runs have in common: the cases that were worth it, so any of them can
\* be compared in all.
LEMMA SpreadsAreHonest ==
    ASSUME EInv, Len(evaluation.reports) > 1
    PROVE  HonestSpreads(evaluation.reports)
  <1> DEFINE R == evaluation.reports
             kept == {c \in 1 .. Len(Cases) : Wanted(c) /\ Worth(c)}
             Complete(c) == \A r \in ToSet(R) : \E row \in ToSet(r.rows) : row.case = c
             scored == {c \in 1 .. Len(Cases) : Complete(c) /\ RowOf(R[1], c).metrics.scored}
             judged == {c \in scored : \A r \in ToSet(R) : RowOf(r, c).judged}
             spreads == CaseSpreads(R)
             wanted == {row.case : row \in {q \in ToSet(R[1].rows) : q.metrics.scored}}
  <1>1. R \in Seq(Report) /\ \A r \in ToSet(R) : Trusted(r)
    BY DEF EInv, EvalTypeOK
  <1>2. R[1] \in ToSet(R)
    BY <1>1, LenProperties DEF ToSet
  <1>3. Len(Cases) \in Nat /\ (Len(Cases) + 1) - 1 = Len(Cases)
    BY NextCase
  <1>4. ASSUME NEW r \in ToSet(R)
        PROVE  /\ \A row \in ToSet(r.rows) : Sound(row) /\ row.case \in kept
               /\ \A c \in kept : \E row \in ToSet(r.rows) : row.case = c
    <2>1. /\ r.rows \in Seq(CaseResult)
          /\ \A i \in 1 .. Len(r.rows) : Sound(r.rows[i])
          /\ CasesOf(r.rows) = kept
      BY <1>1, <1>3 DEF Trusted, Done
    <2>2. ToSet(r.rows) = {r.rows[i] : i \in 1 .. Len(r.rows)}
      BY <2>1, LenProperties DEF ToSet
    <2> QED  BY <2>1, <2>2 DEF CasesOf
  <1> HIDE DEF kept
  <1>5. ASSUME NEW r \in ToSet(R), NEW c, \E row \in ToSet(r.rows) : row.case = c
        PROVE  RowOf(r, c) \in ToSet(r.rows) /\ RowOf(r, c).case = c
    BY <1>5 DEF RowOf
  <1>6. spreads = [c \in scored |-> IF c \in judged THEN [i \in 1 .. Len(R) |-> RowOf(R[i], c).score] ELSE <<>>]
    BY DEF CaseSpreads
  <1>7. \A c \in scored : Complete(c)
    OBVIOUS
  <1>8. scored = wanted
    <2>1. ASSUME NEW c \in scored
          PROVE  c \in wanted
      <3>1. RowOf(R[1], c) \in ToSet(R[1].rows) /\ RowOf(R[1], c).case = c
        BY <1>2, <1>5, <1>7
      <3> QED  BY <3>1
    <2>2. ASSUME NEW row \in ToSet(R[1].rows), row.metrics.scored
          PROVE  row.case \in scored
      <3> DEFINE c == row.case
      <3>1. Sound(row) /\ c \in kept
        BY <1>2, <1>4
      <3>2. Complete(c)
        BY <1>4, <3>1
      <3>3. RowOf(R[1], c) \in ToSet(R[1].rows) /\ RowOf(R[1], c).case = c
        BY <1>2, <1>5, <3>2
      <3>4. Sound(RowOf(R[1], c))
        BY <1>2, <1>4, <3>3
      <3>5. RowOf(R[1], c).metrics.scored
        BY <2>2, <3>1, <3>3, <3>4 DEF Sound
      <3>6. c \in 1 .. Len(Cases)
        BY <3>1 DEF Sound
      <3> QED  BY <3>2, <3>5, <3>6
    <2> HIDE DEF scored
    <2> QED  BY <2>1, <2>2
  <1>9. ASSUME NEW c \in scored, spreads[c] # <<>>, NEW r \in ToSet(R)
        PROVE  \E row \in ToSet(r.rows) : row.case = c /\ row.judged
    <2>1. c \in judged
      <3> HIDE DEF judged, scored
      <3> QED  BY <1>6, <1>9
    <2>2. RowOf(r, c) \in ToSet(r.rows) /\ RowOf(r, c).case = c
      BY <1>5, <1>7
    <2> QED  BY <2>1, <2>2
  <1>10. DOMAIN spreads = scored
    BY <1>6
  <1> HIDE DEF scored, spreads, wanted
  <1> QED  BY <1>8, <1>9, <1>10 DEF HonestSpreads, spreads, wanted

\* What an evaluation reports can be believed, whatever the label set, the
\* lists that are retrieved and the discounts of their ranks, however many
\* runs there are and wherever an answer or a verdict fails: the report covers
\* the cases and scores each where it can, no score beats the best there is,
\* an outage of the judge lowers no rate, and verdicts are compared only where
\* every run has one (eval.go:85-189, 326-352, metrics.go:43-125, report.go:151-195,
\* spread.go:234-276).
THEOREM ReportIsHonestAlways == CommandSpec => []ReportIsHonest
  <1>1. EInv => ReportIsHonest
    BY SpreadsAreHonest DEF ReportIsHonest, EInv, Trusted
  <1> QED  BY <1>1, EvalInvariance, PTL

-----------------------------------------------------------------------------
(* The types of all of it *)

CommandIsNamed == command \in {"opening", "ask", "search", "split", "eval", "ended"}

LEMMA CommandIsNamedAlways == CommandSpec => []CommandIsNamed
  <1>1. Init => CommandIsNamed
    BY DEF Init, CommandIsNamed
  <1>2. CommandIsNamed /\ [Next]_vars => CommandIsNamed'
    BY DEF CommandIsNamed, Next, vars, Opening, BeginAsk, BeginSearch, BeginSplit, BeginEval, Begin, End, Asking,
           Searching, Splitting, Evaluating, PressCtrlC, SearchInterrupted, OtherProcesses, Answering, TimeOut,
           Quiet
  <1> QED  BY <1>1, <1>2, PTL DEF CommandSpec

\* The ask, its plan, its prompt and its calls are what they are declared to
\* be, as are the search, its request, the open, the evaluation and the
\* command: for any corpus, models, windows, waits, migrations and label sets
\* (ask.go:150-260, internal/search/search.go, internal/embed/retry.go,
\* internal/storage/migrate.go, internal/cli/eval.go:85-189).
THEOREM CommandTypeCorrect == CommandSpec => []CommandTypeOK
  <1>1. Chosen /\ AInv /\ PInv /\ KInv => AskTypeOK
    <2> SUFFICES ASSUME Chosen, AInv, PInv, KInv PROVE AskTypeOK
      OBVIOUS
    <2>1. StreamTypeOK
      BY DEF AInv, Shape, StreamTypeOK
    <2>2. ask.prompt \subseteq Prompt /\ Cardinality(ask.prompt) <= 1
      <3>1. Len(ask.chunks) \in Nat
        BY LenProperties DEF KInv, PromptInv, Listed
      <3>2. ask.prompt = {} \/ \E p \in Prompt : ask.prompt = {p}
        BY <3>1, PromptIsPrompt DEF KInv, PromptInv
      <3>3. CASE ask.prompt = {}
        BY <3>3, FS_EmptySet
      <3>4. ASSUME NEW p \in Prompt, ask.prompt = {p}
            PROVE  ask.prompt \subseteq Prompt /\ Cardinality(ask.prompt) <= 1
        <4>1. Cardinality(ask.prompt) = 1
          BY <3>4, FS_Singleton
        <4>2. 1 <= 1
          OBVIOUS
        <4> QED  BY <3>4, <4>1, <4>2
      <3> QED  BY <3>2, <3>3, <3>4
    <2>3. IsInjective(ask.chunks) /\ Len(ask.lists) <= Len(ask.queries)
      BY DEF KInv, PromptInv, ListsInv, Listed
    <2> QED  BY <2>1, <2>2, <2>3 DEF Chosen, PInv, KInv, PromptInv, AskTypeOK
  <1>2. XInv => SearchTypeOK
    <2> SUFFICES ASSUME XInv PROVE SearchTypeOK
      OBVIOUS
    <2>1. ASSUME NEW s, Listed(s)
          PROVE  IsInjective(s) /\ ToSet(s) \subseteq 1 .. nextChunk - 1
      <3>1. \A i \in DOMAIN s : s[i] \in 1 .. nextChunk - 1
        BY <2>1, ElementOfSeq, LenProperties DEF Listed
      <3> QED  BY <2>1, <3>1 DEF Listed, ToSet
    <2>2. \A leg \in {search.ranked, search.vector, search.keyword, search.found} :
              IsInjective(leg) /\ ToSet(leg) \subseteq 1 .. nextChunk - 1
      BY <2>1 DEF XInv, Results
    <2> QED  BY <2>2 DEF XInv, Rows, SearchTypeOK
  <1>3. RInv => RetryTypeOK
    BY DEF RInv
  <1>4. MInv => MigrateTypeOK
    BY DEF MInv
  <1>5. EInv => EvalTypeOK
    BY DEF EInv
  <1>6. AskTypeOK /\ SearchTypeOK /\ RetryTypeOK /\ MigrateTypeOK /\ EvalTypeOK /\ CommandIsNamed => CommandTypeOK
    BY DEF CommandTypeOK, CommandIsNamed
  <1> QED
    BY <1>1, <1>2, <1>3, <1>4, <1>5, <1>6, ChosenAlways, AnswerInvariance, PlanInvariance, PromptInvariance,
       SearchInvariance, RetryInvariance, MigrateInvariance, EvalInvariance, CommandIsNamedAlways, PTL
=============================================================================
