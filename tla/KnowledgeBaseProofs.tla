------------------------- MODULE KnowledgeBaseProofs -------------------------
(***************************************************************************)
(* Proofs about KnowledgeBase for any number of commands running at once,  *)
(* any paths and contents, and every fault of the model.                   *)
(***************************************************************************)
EXTENDS KnowledgeBase, TLAPS

\* What the next step of a command and its locals have to do with each other.
Fits(step, j) ==
    /\ step \notin {"idle", "next"} => j.path \in Paths
    /\ step \in {"archive", "rename", "guard", "create", "commit"} => j.cmd = "ingest"
    /\ step \in {"next", "setraw"} => j.cmd = "reindex"
    /\ step \in {"delrow", "delcache"} => j.cmd = "delete"
    /\ step \notin {"idle", "next", "delrow", "delcache"}
           => j.cmd \in {"ingest", "preprocess", "reindex"}
    /\ step \in {"replace", "meta"} => j.cmd # "preprocess"
    /\ step = "create" => j.id = 0
    /\ j.cmd \in {"ingest", "preprocess"} => j.sha # None
    /\ step = "rename" => j.tmp # None
    /\ step \in {"setraw", "text"} /\ j.src = "raw" => j.raw # None
    /\ step \in {"write", "caching", "guard", "create", "replace"} => Present(j.text)
    /\ step = "setraw" /\ j.src = "cache" => Present(j.text)
    /\ step \in {"text", "write", "caching"} /\ j.cmd \notin {"ingest", "preprocess"} => j.id # 0

JobsFit == \A c \in Procs : Fits(pc[c], job[c])

\* Every id a row, a command or a command's list holds has been issued.
IdsIssued ==
    /\ \A p \in Paths : docs[p].id < nextId
    /\ \A c \in Procs : job[c].id < nextId
    /\ \A c \in Procs : \A d \in job[c].todo : d.id \in 1 .. nextId - 1

Shape == TypeOK /\ JobsFit /\ IdsIssued

\* A command that is past replacing the chunks of a row that is still there
\* finds the chunks there.
ChunksBehind ==
    \A c \in Procs : pc[c] \in {"meta", "commit"} /\ Alive(c)
        => Present(docs[job[c].path].text)

\* The archived copies commands know of are there.
Known(j, archive) ==
    /\ j.raw # None => Present(archive[j.raw])
    /\ \A d \in j.todo : d.raw # None => Present(archive[d.raw])

CopiesKnown == \A c \in Procs : Known(job[c], raw)

IInv ==
    /\ Shape
    /\ ChunksBehind
    /\ CopiesKnown
    /\ RecordedMeansStored
    /\ ArchiveIsWhole
    /\ ArchivedBeforeIndexed

-----------------------------------------------------------------------------
(* The shape of the state *)

\* A command may go on to `step' with locals j when n ids are issued.
Ready(step, j, n) ==
    /\ step \in Step
    /\ j \in Job
    /\ Fits(step, j)
    /\ j.id < n
    /\ \A d \in j.todo : d.id \in 1 .. n - 1
    /\ RowStep(step) => j.id # 0

LEMMA InitShape == Init => Shape
  <1> SUFFICES ASSUME Init PROVE Shape
    OBVIOUS
  <1> USE StoreAssumption DEF Init
  <1>1. TypeOK
    BY DEF TypeOK, Name, Copy, NoCopy, Row, NoRow, Step, RowStep, Job, NoJob, Loaded
  <1>2. JobsFit
    BY DEF JobsFit, Fits, NoJob
  <1>3. IdsIssued
    BY DEF IdsIssued, NoRow, NoJob
  <1> QED  BY <1>1, <1>2, <1>3 DEF Shape

\* A command that moves to a step it is ready for keeps the shape, when the
\* rest of the state does.
LEMMA Move ==
  ASSUME Shape, NEW c \in Procs, NEW to, NEW j, Goto(c, to, j),
         nextId' \in Nat, nextId <= nextId', Ready(to, j, nextId'),
         file' \in [Paths -> Name], seen' \subseteq Contents, config' \in Dims,
         raw' \in [Contents -> Copy], cache' \in [Contents -> Copy],
         older' \in [Contents -> Copy], docs' \in [Paths -> Row],
         \A p \in Paths : docs'[p].id < nextId'
  PROVE  Shape'
  <1>1. /\ pc' \in [Procs -> Step]
        /\ job' \in [Procs -> Job]
        /\ pc'[c] = to /\ job'[c] = j
        /\ \A o \in Procs \ {c} : pc'[o] = pc[o] /\ job'[o] = job[o]
    BY DEF Shape, TypeOK, Goto, Ready
  <1>2. JobsFit'
    BY <1>1 DEF Shape, JobsFit, Ready, Fits
  <1>3. IdsIssued'
    <2>1. \A o \in Procs : job'[o].id < nextId'
      BY <1>1 DEF Shape, TypeOK, IdsIssued, Ready, Job
    <2>2. \A o \in Procs : \A d \in job'[o].todo : d.id \in 1 .. nextId' - 1
      BY <1>1 DEF Shape, TypeOK, IdsIssued, Ready, Job
    <2> QED  BY <2>1, <2>2 DEF IdsIssued
  <1>4. \A o \in Procs : RowStep(pc'[o]) => job'[o].id \in 1 .. nextId' - 1
    BY <1>1 DEF Shape, TypeOK, IdsIssued, Ready, Job
  <1>5. TypeOK'
    BY <1>1, <1>4 DEF Shape, TypeOK
  <1> QED  BY <1>2, <1>3, <1>5 DEF Shape

\* The locals of a command whose shape is right.
LEMMA Locals ==
  ASSUME Shape, NEW c \in Procs
  PROVE  /\ pc[c] \in Step /\ job[c] \in Job /\ Fits(pc[c], job[c])
         /\ job[c].id < nextId
         /\ \A d \in job[c].todo : d.id \in 1 .. nextId - 1
         /\ RowStep(pc[c]) => job[c].id # 0
  BY DEF Shape, TypeOK, JobsFit, IdsIssued

LEMMA EndReady ==
  ASSUME NEW n \in Nat, 0 < n
  PROVE  Ready("idle", NoJob, n)
  BY StoreAssumption DEF Ready, Fits, Step, RowStep, Job, NoJob, Name, Copy, NoCopy, Loaded

\* An error return is always possible.
LEMMA GiveUpShape ==
  ASSUME Shape, NEW c \in Procs, GiveUp(c), UNCHANGED <<user, disk, db>>
  PROVE  Shape'
  <1>0. nextId \in Nat /\ 0 < nextId
    BY DEF Shape, TypeOK
  <1>1. CASE job[c].cmd = "reindex"
    <2> DEFINE j == [job[c] EXCEPT !.clean = FALSE]
    <2>1. Goto(c, "next", j)
      BY <1>1 DEF GiveUp
    <2>2. /\ j \in Job /\ j.id = job[c].id /\ j.todo = job[c].todo /\ j.cmd = job[c].cmd
          /\ j.sha = job[c].sha
      BY Locals DEF Job
    <2>3. Ready("next", j, nextId')
      BY <1>1, <2>2, Locals DEF Ready, Fits, Step, RowStep, db
    <2> QED  BY <1>0, <2>1, <2>3, Move DEF Shape, TypeOK, IdsIssued, user, disk, db
  <1>2. CASE job[c].cmd # "reindex"
    <2>1. Goto(c, "idle", NoJob)
      BY <1>2 DEF GiveUp, End
    <2> QED  BY <1>0, <2>1, EndReady, Move DEF Shape, TypeOK, IdsIssued, user, disk, db
  <1> QED  BY <1>1, <1>2

LEMMA Quiet ==
  ASSUME Shape, NEW c \in Procs, NEW to, NEW j, Goto(c, to, j),
         Ready(to, j, nextId), UNCHANGED <<user, disk, db>>
  PROVE  Shape'
  <1>1. nextId \in Nat
    BY DEF Shape, TypeOK
  <1> QED  BY <1>1, Move DEF Shape, TypeOK, IdsIssued, user, disk, db

LEMMA OnDisk ==
  ASSUME Shape, NEW c \in Procs, NEW to, NEW j, Goto(c, to, j),
         Ready(to, j, nextId), UNCHANGED <<user, db>>,
         raw' \in [Contents -> Copy], cache' \in [Contents -> Copy],
         older' \in [Contents -> Copy]
  PROVE  Shape'
  <1>1. nextId \in Nat
    BY DEF Shape, TypeOK
  <1> QED  BY <1>1, Move DEF Shape, TypeOK, IdsIssued, user, db

LEMMA InTable ==
  ASSUME Shape, NEW c \in Procs, NEW to, NEW j, Goto(c, to, j),
         Ready(to, j, nextId), UNCHANGED <<user, disk, nextId>>,
         docs' \in [Paths -> Row], \A p \in Paths : docs'[p].id < nextId
  PROVE  Shape'
  <1>1. nextId \in Nat
    BY DEF Shape, TypeOK
  <1> QED  BY <1>1, Move DEF Shape, TypeOK, IdsIssued, user, disk

LEMMA IdleReady == ASSUME Shape PROVE Ready("idle", NoJob, nextId)
  BY EndReady DEF Shape, TypeOK

LEMMA StartIngestShape ==
  ASSUME Shape, NEW c \in Procs, NEW p \in Paths, NEW noRaw, NEW force,
         StartIngest(c, p, noRaw, force)
  PROVE  Shape'
  <1> DEFINE to == IF Archive /\ ~noRaw THEN "archive" ELSE "text"
             j  == [NoJob EXCEPT !.cmd = "ingest", !.path = p, !.id = docs[p].id,
                                 !.sha = file[p], !.raw = docs[p].raw, !.dim = config]
  <1>1. Goto(c, to, j) /\ UNCHANGED <<user, disk, db>> /\ file[p] # None
    BY DEF StartIngest
  <1>2. j \in Job /\ j.todo = {} /\ j.id = docs[p].id /\ j.id < nextId
    BY DEF Shape, TypeOK, IdsIssued, Row, Job, NoJob, Name, Copy, NoCopy
  <1>3. Ready(to, j, nextId)
    BY <1>1, <1>2 DEF Ready, Fits, Step, RowStep, NoJob
  <1> QED  BY <1>1, <1>3, Quiet

LEMMA CopySourceShape ==
  ASSUME Shape, NEW c \in Procs, CopySourceToRaw(c)
  PROVE  Shape'
  <1>1. CASE AlreadyArchived(c)
    <2> DEFINE j == [job[c] EXCEPT !.raw = job[c].sha]
    <2>1. Goto(c, "text", j) /\ UNCHANGED <<user, disk, db>> /\ pc[c] = "archive"
      BY <1>1 DEF AlreadyArchived
    <2>2. Ready("text", j, nextId)
      BY <2>1, Locals DEF Ready, Fits, Step, RowStep, Job
    <2> QED  BY <2>1, <2>2, Quiet
  <1>2. CASE CopyToTemp(c)
    <2> DEFINE j == [job[c] EXCEPT !.tmp = file[job[c].path]]
    <2>1. /\ Goto(c, "rename", j) /\ UNCHANGED <<user, disk, db>> /\ pc[c] = "archive"
          /\ file[job[c].path] # None
      BY <1>2 DEF CopyToTemp
    <2>2. file[job[c].path] \in Name
      BY <2>1, Locals DEF Shape, TypeOK, Fits
    <2>3. Ready("rename", j, nextId)
      BY <2>1, <2>2, Locals DEF Ready, Fits, Step, RowStep, Job
    <2> QED  BY <2>1, <2>3, Quiet
  <1>3. CASE NoSourceToCopy(c)
    BY <1>3, IdleReady, Quiet DEF NoSourceToCopy, End
  <1>4. CASE RenameToRaw(c)
    <2> DEFINE j == [job[c] EXCEPT !.raw = job[c].sha]
    <2>1. /\ Goto(c, "text", j) /\ pc[c] = "rename" /\ UNCHANGED <<user, db, cache, older>>
          /\ raw' = [raw EXCEPT ![job[c].sha] = Whole(job[c].tmp)]
      BY <1>4 DEF RenameToRaw
    <2>2. Ready("text", j, nextId)
      BY <2>1, Locals DEF Ready, Fits, Step, RowStep, Job
    <2>3. Whole(job[c].tmp) \in Copy
      BY Locals DEF Job, Copy, Whole
    <2> QED  BY <2>1, <2>2, <2>3, OnDisk DEF Shape, TypeOK
  <1> QED  BY <1>1, <1>2, <1>3, <1>4 DEF CopySourceToRaw

\* A text step that has a source finds a stored copy there.
LEMMA SourceCopy ==
  ASSUME Shape, NEW c \in Procs, pc[c] = "text"
  PROVE  Source(c) \in Copy
  <1>1. CASE job[c].src = "raw"
    <2>1. job[c].raw \in Contents
      BY <1>1, Locals DEF Fits, Job, Name
    <2> QED  BY <1>1, <2>1 DEF Source, Shape, TypeOK
  <1>2. CASE job[c].src # "raw"
    <2>1. job[c].path \in Paths
      BY Locals DEF Fits
    <2> QED  BY <1>2, <2>1 DEF Source, Shape, TypeOK, Copy, Whole, NoCopy, Name
  <1> QED  BY <1>1, <1>2

LEMMA ReadOrExtractShape ==
  ASSUME Shape, NEW c \in Procs, ReadOrExtract(c)
  PROVE  Shape'
  <1>1. CASE CacheHit(c)
    <2> DEFINE j == [job[c] EXCEPT !.text = cache[job[c].sha]]
    <2>1. /\ Goto(c, "guard", j) /\ UNCHANGED <<user, disk, db>> /\ pc[c] = "text"
          /\ job[c].cmd = "ingest" /\ Present(cache[job[c].sha])
      BY <1>1 DEF CacheHit
    <2>2. cache[job[c].sha] \in Copy
      <3>1. job[c].sha \in Contents
        BY <2>1, Locals DEF Fits, Job, Name
      <3> QED  BY <3>1 DEF Shape, TypeOK
    <2>3. Ready("guard", j, nextId)
      BY <2>1, <2>2, Locals DEF Ready, Fits, Step, RowStep, Job
    <2> QED  BY <2>1, <2>3, Quiet
  <1>2. CASE Extract(c)
    <2> DEFINE to == IF job[c].sha = None THEN Embedded(c) ELSE "write"
               j  == [job[c] EXCEPT !.text = Source(c)]
    <2>1. /\ Goto(c, to, j) /\ UNCHANGED <<user, disk, db>> /\ pc[c] = "text"
          /\ Present(Source(c))
      BY <1>2 DEF Extract
    <2>2. Source(c) \in Copy
      BY <2>1, SourceCopy
    <2>3. j \in Job /\ j.text = Source(c)
      BY <2>2, Locals DEF Job
    <2>4. Ready(to, j, nextId)
      BY <2>1, <2>3, Locals DEF Ready, Fits, Step, RowStep, Embedded
    <2> QED  BY <2>1, <2>4, Quiet
  <1>3. CASE NoSourceToExtract(c)
    BY <1>3, GiveUpShape DEF NoSourceToExtract
  <1>4. CASE CreateCache(c)
    <2>1. /\ Goto(c, "caching", job[c]) /\ pc[c] = "write" /\ UNCHANGED <<user, db, raw, older>>
          /\ cache' = [cache EXCEPT ![job[c].sha] = Torn(job[c].text.of)]
      BY <1>4 DEF CreateCache
    <2>2. Ready("caching", job[c], nextId)
      BY <2>1, Locals DEF Ready, Fits, Step, RowStep
    <2>3. Torn(job[c].text.of) \in Copy
      BY Locals DEF Job, Copy, Torn
    <2> QED  BY <2>1, <2>2, <2>3, OnDisk DEF Shape, TypeOK
  <1>5. CASE FillCache(c)
    <2> DEFINE to == IF job[c].cmd = "preprocess" THEN "idle" ELSE Embedded(c)
               j  == IF job[c].cmd = "preprocess" THEN NoJob ELSE job[c]
    <2>1. /\ Goto(c, to, j) /\ pc[c] = "caching" /\ UNCHANGED <<user, db, raw, older>>
          /\ cache' = [cache EXCEPT ![job[c].sha] = job[c].text]
      BY <1>5 DEF FillCache, End
    <2>2. Ready(to, j, nextId)
      BY <2>1, Locals, IdleReady DEF Ready, Fits, Step, RowStep, Embedded
    <2>3. job[c].text \in Copy
      BY Locals DEF Job
    <2> QED  BY <2>1, <2>2, <2>3, OnDisk DEF Shape, TypeOK
  <1> QED  BY <1>1, <1>2, <1>3, <1>4, <1>5 DEF ReadOrExtract

LEMMA CheckDimensionShape ==
  ASSUME Shape, NEW c \in Procs, CheckDimension(c)
  PROVE  Shape'
  <1> DEFINE to == IF job[c].id = 0 THEN "create" ELSE "replace"
  <1>1. pc[c] = "guard" /\ UNCHANGED <<user, disk, db>>
    BY DEF CheckDimension
  <1>2. CASE Goto(c, to, job[c])
    <2>1. Ready(to, job[c], nextId)
      BY <1>1, Locals DEF Ready, Fits, Step, RowStep
    <2> QED  BY <1>1, <1>2, <2>1, Quiet
  <1>3. CASE GiveUp(c)
    BY <1>1, <1>3, GiveUpShape
  <1> QED  BY <1>2, <1>3 DEF CheckDimension

\* The rows stay rows when a command rewrites the one it works on.
LEMMA RowTyped ==
  ASSUME Shape, NEW c \in Procs, NEW r \in Row, r.id < nextId,
         docs' = [docs EXCEPT ![job[c].path] = r]
  PROVE  docs' \in [Paths -> Row] /\ \A p \in Paths : docs'[p].id < nextId
  BY DEF Shape, TypeOK, IdsIssued, Row

LEMMA CreateDocShape ==
  ASSUME Shape, NEW c \in Procs, CreateDoc(c)
  PROVE  Shape'
  <1>0. pc[c] = "create" /\ nextId \in Nat \ {0} /\ job[c].path \in Paths
    BY Locals DEF CreateDoc, Shape, TypeOK, Fits
  <1>1. CASE Exists(job[c].path)
    BY <1>1, GiveUpShape DEF CreateDoc
  <1>2. CASE ~Exists(job[c].path)
    <2> DEFINE j == [job[c] EXCEPT !.id = nextId]
               r == [NoRow EXCEPT !.id = nextId, !.raw = job[c].raw]
    <2>1. /\ Goto(c, "replace", j) /\ UNCHANGED <<user, disk>>
          /\ docs' = [docs EXCEPT ![job[c].path] = r] /\ nextId' = nextId + 1
      BY <1>2 DEF CreateDoc
    <2>2. r \in Row /\ r.id = nextId
      BY <1>0, Locals DEF Row, NoRow, Job, Name, Copy, NoCopy
    <2>3. docs' \in [Paths -> Row] /\ \A p \in Paths : docs'[p].id < nextId'
      BY <1>0, <2>1, <2>2 DEF Shape, TypeOK, IdsIssued, Row
    <2>4. j \in Job /\ j.id = nextId
      BY <1>0, Locals DEF Job
    <2>5. j.id < nextId' /\ j.id # 0
      BY <1>0, <2>1, <2>4
    <2>6. \A d \in j.todo : d.id \in 1 .. nextId' - 1
      BY <1>0, <2>1, Locals
    <2>7. Fits("replace", j)
      BY <1>0, Locals DEF Fits, Job
    <2>8. Ready("replace", j, nextId')
      BY <2>4, <2>5, <2>6, <2>7 DEF Ready, Step
    <2> QED  BY <1>0, <2>1, <2>3, <2>8, Move DEF Shape, TypeOK, user, disk
  <1> QED  BY <1>1, <1>2

LEMMA ReplaceShape ==
  ASSUME Shape, NEW c \in Procs, ReplaceForDocument(c)
  PROVE  Shape'
  <1>0. pc[c] = "replace"
    BY DEF ReplaceForDocument
  <1>1. CASE Alive(c)
    <2> DEFINE r == [docs[job[c].path] EXCEPT !.text = job[c].text, !.dim = NewDim(c)]
    <2>1. /\ Goto(c, "meta", job[c]) /\ UNCHANGED <<user, disk, nextId>>
          /\ docs' = [docs EXCEPT ![job[c].path].text = job[c].text,
                                  ![job[c].path].dim = NewDim(c)]
      BY <1>1 DEF ReplaceForDocument
    <2>2. docs[job[c].path] \in Row /\ docs[job[c].path].id < nextId
      BY <1>0, Locals DEF Shape, TypeOK, IdsIssued, Fits
    <2>3. r \in Row /\ r.id < nextId
      BY <2>2, Locals DEF Row, Job, NewDim
    <2>4. docs' = [docs EXCEPT ![job[c].path] = r]
      BY <2>1, <1>0, Locals DEF Shape, TypeOK, Fits
    <2>5. Ready("meta", job[c], nextId)
      BY <1>0, Locals DEF Ready, Fits, Step, RowStep
    <2> QED  BY <2>1, <2>3, <2>4, <2>5, RowTyped, InTable
  <1>2. CASE ~Alive(c)
    BY <1>2, GiveUpShape DEF ReplaceForDocument, db
  <1> QED  BY <1>1, <1>2

LEMMA MetadataShape ==
  ASSUME Shape, NEW c \in Procs, WriteAutoMetadata(c)
  PROVE  Shape'
  <1> DEFINE to == IF job[c].cmd = "ingest" THEN "commit" ELSE "next"
  <1>1. pc[c] = "meta" /\ UNCHANGED <<user, disk, db>>
    BY DEF WriteAutoMetadata
  <1>2. CASE Goto(c, to, job[c])
    <2>1. Ready(to, job[c], nextId)
      BY <1>1, Locals DEF Ready, Fits, Step, RowStep
    <2> QED  BY <1>1, <1>2, <2>1, Quiet
  <1>3. CASE GiveUp(c)
    BY <1>1, <1>3, GiveUpShape
  <1> QED  BY <1>2, <1>3 DEF WriteAutoMetadata

LEMMA CommitShape ==
  ASSUME Shape, NEW c \in Procs, CommitSHA(c)
  PROVE  Shape'
  <1>0. pc[c] = "commit" /\ Goto(c, "idle", NoJob) /\ UNCHANGED <<user, disk, nextId>>
    BY DEF CommitSHA, End
  <1>1. CASE Alive(c)
    <2> DEFINE r == [docs[job[c].path] EXCEPT !.sha = job[c].sha, !.raw = job[c].raw]
    <2>1. docs[job[c].path] \in Row /\ docs[job[c].path].id < nextId
      BY <1>0, Locals DEF Shape, TypeOK, IdsIssued, Fits
    <2>2. r \in Row /\ r.id < nextId
      BY <2>1, Locals DEF Row, Job
    <2>3. docs' = [docs EXCEPT ![job[c].path] = r]
      BY <1>1, <1>0, Locals DEF CommitSHA, Shape, TypeOK, Fits
    <2> QED  BY <1>0, <2>2, <2>3, RowTyped, IdleReady, InTable
  <1>2. CASE ~Alive(c)
    BY <1>0, <1>2, IdleReady, Quiet DEF CommitSHA, db
  <1> QED  BY <1>1, <1>2

LEMMA StartReindexShape ==
  ASSUME Shape, NEW c \in Procs, StartReindex(c)
  PROVE  Shape'
  <1> DEFINE list == {Load(p) : p \in {q \in Paths : Exists(q)}}
             j == [NoJob EXCEPT !.cmd = "reindex", !.dim = config, !.todo = list]
  <1>1. Goto(c, "next", j) /\ UNCHANGED <<user, disk, db>>
    BY DEF StartReindex
  <1>2. list \in SUBSET Loaded /\ \A d \in list : d.id \in 1 .. nextId - 1
    BY DEF Shape, TypeOK, IdsIssued, Row, Load, Loaded, Exists
  <1> HIDE DEF list
  <1>3. j \in Job /\ j.todo = list /\ j.id = 0 /\ j.cmd = "reindex"
    BY <1>2 DEF Shape, TypeOK, Job, NoJob, Name, Copy, NoCopy
  <1>4. Ready("next", j, nextId)
    BY <1>2, <1>3 DEF Ready, Fits, Step, RowStep, Shape, TypeOK
  <1> QED  BY <1>1, <1>4, Quiet

\* What ReindexDocument knows once it has located a document's text.
LEMMA TakeReady ==
  ASSUME Shape, NEW c \in Procs, NEW d \in job[c].todo,
         CachedText(d) \/ HasSource(d) \/ StaleText(d), job[c].cmd = "reindex"
  PROVE  LET j == Take(c, d)
             to == IF InArchive(d) /\ ArchivedName(d) # d.raw THEN "setraw" ELSE AfterLocate(j)
         IN  Ready(to, j, nextId)
  <1> DEFINE j == Take(c, d)
             to == IF InArchive(d) /\ ArchivedName(d) # d.raw THEN "setraw" ELSE AfterLocate(j)
  <1>1. job[c] \in Job /\ d \in Loaded /\ d.id \in 1 .. nextId - 1
    BY Locals DEF Job
  <1>2. ArchivedName(d) \in Name
    BY <1>1 DEF ArchivedName, Loaded
  <1>3. CachedText(d) => cache[d.sha] \in Copy /\ Present(cache[d.sha])
    BY <1>1 DEF CachedText, Shape, TypeOK, Loaded, Name
  <1>4. StaleText(d) => older[d.sha] \in Copy /\ Present(older[d.sha])
    BY <1>1 DEF StaleText, Shape, TypeOK, Loaded, Name
  <1>5. d.sha # None => older[d.sha] \in Copy
    BY <1>1 DEF Shape, TypeOK, Loaded, Name
  <1>6. NoCopy \in Copy
    BY DEF NoCopy, Copy, Name
  <1>7. /\ j \in Job /\ j.path = d.path /\ j.id = d.id /\ j.todo = job[c].todo \ {d}
        /\ j.cmd = job[c].cmd
        /\ j.src = "raw" => InArchive(d) /\ j.raw = ArchivedName(d)
        /\ j.src = "cache" => CachedText(d) \/ ~HasSource(d)
        /\ CachedText(d) => j.text = cache[d.sha]
        /\ ~CachedText(d) /\ ~HasSource(d) /\ StaleText(d) => j.text = older[d.sha]
    <2>1. j.text \in Copy
      BY <1>1, <1>3, <1>5, <1>6 DEF Take, Job
    <2> QED  BY ZenonT(30), <1>1, <1>2, <2>1 DEF Take, Job, Loaded, StaleText
  <1>8. j.src = "cache" => Present(j.text)
    BY <1>3, <1>4, <1>7
  <1>9. j.src = "raw" => j.raw # None
    BY <1>7 DEF InArchive
  <1> HIDE DEF j
  <1>10. to \in {"setraw", "replace", "text"}
    BY DEF AfterLocate
  <1>11. to = "replace" => j.src = "cache"
    BY DEF AfterLocate
  <1>12. Fits(to, j)
    BY <1>1, <1>7, <1>8, <1>9, <1>10, <1>11 DEF Fits, Loaded
  <1>13. Ready(to, j, nextId)
    BY <1>1, <1>7, <1>10, <1>12, Locals DEF Ready, Step, Shape, TypeOK
  <1> QED  BY <1>13 DEF j

LEMMA ReindexShape ==
  ASSUME Shape, NEW c \in Procs, ReindexStep(c)
  PROVE  Shape'
  <1>1. ASSUME NEW d \in job[c].todo, Locate(c, d)
        PROVE  Shape'
    <2> DEFINE j == Take(c, d)
               to == IF InArchive(d) /\ ArchivedName(d) # d.raw
                     THEN "setraw" ELSE AfterLocate(j)
    <2>1. /\ Goto(c, to, j) /\ UNCHANGED <<user, disk, db>> /\ pc[c] = "next"
          /\ CachedText(d) \/ HasSource(d) \/ StaleText(d)
      BY <1>1 DEF Locate
    <2>2. job[c].cmd = "reindex"
      BY <2>1, Locals DEF Fits
    <2>3. Ready(to, j, nextId)
      BY <2>1, <2>2, TakeReady
    <2> QED  BY <2>1, <2>3, Quiet
  <1>2. ASSUME NEW d \in job[c].todo, Skip(c, d)
        PROVE  Shape'
    <2> DEFINE j == [job[c] EXCEPT !.todo = job[c].todo \ {d}, !.clean = FALSE]
    <2>1. Goto(c, "next", j) /\ UNCHANGED <<user, disk, db>> /\ pc[c] = "next"
      BY <1>2 DEF Skip
    <2>2. /\ j \in Job /\ j.id = job[c].id /\ j.cmd = job[c].cmd
          /\ j.todo = job[c].todo \ {d}
      BY Locals DEF Job
    <2>3. Ready("next", j, nextId)
      BY <2>1, <2>2, Locals DEF Ready, Fits, Step, RowStep
    <2> QED  BY <2>1, <2>3, Quiet
  <1>3. CASE SetRawPath(c)
    <2>1. /\ Goto(c, AfterLocate(job[c]), job[c]) /\ UNCHANGED <<user, disk, nextId>>
          /\ pc[c] = "setraw"
      BY <1>3 DEF SetRawPath
    <2>2. Ready(AfterLocate(job[c]), job[c], nextId)
      BY <2>1, Locals DEF Ready, Fits, Step, RowStep, AfterLocate
    <2>3. CASE Alive(c)
      <3> DEFINE r == [docs[job[c].path] EXCEPT !.raw = job[c].raw]
      <3>1. docs[job[c].path] \in Row /\ docs[job[c].path].id < nextId
        BY <2>1, Locals DEF Shape, TypeOK, IdsIssued, Fits
      <3>2. r \in Row /\ r.id < nextId
        BY <3>1, Locals DEF Row, Job
      <3>3. docs' = [docs EXCEPT ![job[c].path] = r]
        BY <1>3, <2>1, <2>3, Locals DEF SetRawPath, Shape, TypeOK, Fits
      <3> QED  BY <2>1, <2>2, <3>2, <3>3, RowTyped, InTable
    <2>4. CASE ~Alive(c)
      BY <1>3, <2>1, <2>2, <2>4, Quiet DEF SetRawPath, db
    <2> QED  BY <2>3, <2>4
  <1>4. CASE FinishReindex(c)
    BY <1>4, IdleReady, Quiet DEF FinishReindex, End
  <1> QED  BY <1>1, <1>2, <1>3, <1>4 DEF ReindexStep

LEMMA StartPreprocessShape ==
  ASSUME Shape, NEW c \in Procs, NEW p \in Paths, StartPreprocess(c, p)
  PROVE  Shape'
  <1> DEFINE j == [NoJob EXCEPT !.cmd = "preprocess", !.path = p, !.sha = file[p]]
  <1>1. Goto(c, "text", j) /\ UNCHANGED <<user, disk, db>> /\ file[p] # None
    BY DEF StartPreprocess
  <1>2. j \in Job /\ j.todo = {} /\ j.id = 0 /\ j.id < nextId
    <2>1. NoJob \in Job /\ file[p] \in Name /\ 0 < nextId
      BY EndReady, IdleReady DEF Ready, Shape, TypeOK
    <2> QED  BY <2>1 DEF Job, NoJob
  <1>3. Ready("text", j, nextId)
    BY <1>1, <1>2 DEF Ready, Fits, Step, RowStep, NoJob
  <1> QED  BY <1>1, <1>3, Quiet

LEMMA DeleteShape ==
  ASSUME Shape, NEW c \in Procs,
         (\E p \in Paths : StartDelete(c, p)) \/ DeleteRow(c) \/ RemoveCache(c)
  PROVE  Shape'
  <1>1. ASSUME NEW p \in Paths, StartDelete(c, p)
        PROVE  Shape'
    <2> DEFINE j == [NoJob EXCEPT !.cmd = "delete", !.path = p, !.id = docs[p].id,
                                  !.sha = docs[p].sha]
    <2>1. Goto(c, "delrow", j) /\ UNCHANGED <<user, disk, db>> /\ docs[p].id # 0
      BY <1>1 DEF StartDelete, Exists
    <2>2. j \in Job /\ j.todo = {} /\ j.id = docs[p].id /\ j.id < nextId
      BY DEF Shape, TypeOK, IdsIssued, Row, Job, NoJob, Name, Copy, NoCopy
    <2>3. Ready("delrow", j, nextId)
      BY <2>1, <2>2 DEF Ready, Fits, Step, RowStep, NoJob
    <2> QED  BY <2>1, <2>3, Quiet
  <1>2. CASE DeleteRow(c)
    <2> DEFINE to == IF job[c].sha = None THEN "idle" ELSE "delcache"
               j  == IF job[c].sha = None THEN NoJob ELSE job[c]
    <2>1. Goto(c, to, j) /\ UNCHANGED <<user, disk, nextId>> /\ pc[c] = "delrow"
      BY <1>2 DEF DeleteRow, End
    <2>2. Ready(to, j, nextId)
      BY <2>1, IdleReady, Locals DEF Ready, Fits, Step, RowStep
    <2>3. NoRow \in Row /\ NoRow.id < nextId
      BY DEF NoRow, Row, Copy, NoCopy, Name, Shape, TypeOK
    <2>4. CASE Alive(c)
      BY <1>2, <2>1, <2>2, <2>3, <2>4, RowTyped, InTable DEF DeleteRow
    <2>5. CASE ~Alive(c)
      BY <1>2, <2>1, <2>2, <2>5, Quiet DEF DeleteRow, db
    <2> QED  BY <2>4, <2>5
  <1>3. CASE RemoveCache(c)
    <2>1. NoCopy \in Copy
      BY DEF NoCopy, Copy, Name
    <2> QED  BY <1>3, <2>1, IdleReady, OnDisk DEF RemoveCache, End, Shape, TypeOK
  <1> QED  BY <1>1, <1>2, <1>3

LEMMA UserShape == Shape /\ User => Shape'
  <1> SUFFICES ASSUME Shape, User PROVE Shape'
    OBVIOUS
  <1>0. NoCopy \in Copy
    BY DEF NoCopy, Copy, Name
  <1>1. ASSUME NEW p \in Paths, NEW content \in Contents, Edit(p, content)
        PROVE  Shape'
    BY <1>1 DEF Edit, Shape, TypeOK, JobsFit, IdsIssued, disk, db, Name
  <1>2. ASSUME NEW p \in Paths, Remove(p)
        PROVE  Shape'
    BY <1>2 DEF Remove, Shape, TypeOK, JobsFit, IdsIssued, disk, db, Name
  <1>3. CASE UpgradeExtractor
    BY <1>0, <1>3 DEF UpgradeExtractor, Shape, TypeOK, JobsFit, IdsIssued, user, db
  <1>4. CASE ClearCache
    BY <1>0, <1>4 DEF ClearCache, Shape, TypeOK, JobsFit, IdsIssued, user, db
  <1>5. ASSUME NEW d \in Dims, Reconfigure(d)
        PROVE  Shape'
    BY <1>5 DEF Reconfigure, Shape, TypeOK, JobsFit, IdsIssued, disk, db
  <1> QED  BY <1>1, <1>2, <1>3, <1>4, <1>5 DEF User

LEMMA FaultShape ==
  ASSUME Shape, NEW c \in Procs, Fault(c)
  PROVE  Shape'
  <1>1. CASE End(c)
    BY <1>1, IdleReady, Quiet DEF Fault, Abandon, End
  <1>2. CASE GiveUp(c)
    BY <1>2, GiveUpShape DEF Fault, Abandon
  <1> QED  BY <1>1, <1>2 DEF Fault, Abandon

LEMMA StepShape == Shape /\ [Next]_vars => Shape'
  <1> SUFFICES ASSUME Shape, [Next]_vars PROVE Shape'
    OBVIOUS
  <1>1. CASE User
    BY <1>1, UserShape
  <1>2. ASSUME NEW c \in Procs, StartCommand(c)
        PROVE  Shape'
    <2>1. ASSUME NEW p \in Paths, NEW noRaw \in NoRaw, NEW force \in Forced,
                 StartIngest(c, p, noRaw, force)
          PROVE  Shape'
      BY <2>1, StartIngestShape
    <2> QED  BY <1>2, <2>1, StartReindexShape, StartPreprocessShape,
            DeleteShape DEF StartCommand
  <1>3. ASSUME NEW c \in Procs, CommandStep(c)
        PROVE  Shape'
    BY <1>3, CopySourceShape, ReadOrExtractShape, CheckDimensionShape, CreateDocShape,
       ReplaceShape, MetadataShape, CommitShape, ReindexShape, DeleteShape
       DEF CommandStep, IngestStep
  <1>4. ASSUME NEW c \in Procs, Fault(c)
        PROVE  Shape'
    BY <1>4, FaultShape
  <1>5. CASE UNCHANGED vars
    BY <1>5 DEF vars, user, disk, db, Shape, TypeOK, JobsFit, IdsIssued
  <1> QED  BY <1>1, <1>2, <1>3, <1>4, <1>5 DEF Next

\* Every state has the types declared, and a command that writes to a row
\* holds an id the database has issued, for any number of commands at once.
THEOREM TypeCorrect == Spec => []TypeOK
  <1>1. Spec => []Shape
    BY InitShape, StepShape, PTL DEF Spec
  <1>2. Shape => TypeOK
    BY DEF Shape
  <1> QED  BY <1>1, <1>2, PTL

-----------------------------------------------------------------------------
(* What a step does to the rows, the archive and the commands *)

\* A command moves alone.
Acts(c) == StartCommand(c) \/ CommandStep(c) \/ Fault(c)
Alone(c) == \A o \in Procs \ {c} : pc'[o] = pc[o] /\ job'[o] = job[o]

LEMMA ActsAlone ==
  ASSUME Shape, NEW c \in Procs, Acts(c)
  PROVE  Alone(c)
  <1>1. ASSUME NEW to, NEW j, Goto(c, to, j)
        PROVE  Alone(c)
    BY <1>1 DEF Goto, Alone, Shape, TypeOK
  <1>2. GiveUp(c) \/ End(c) => Alone(c)
    BY <1>1 DEF GiveUp, End
  <1>3. CASE StartCommand(c)
    BY <1>1, <1>3 DEF StartCommand, StartIngest, StartPreprocess, StartReindex, StartDelete
  <1>4. CopySourceToRaw(c) \/ ReadOrExtract(c) => Alone(c)
    BY <1>1, <1>2 DEF CopySourceToRaw, AlreadyArchived, CopyToTemp, NoSourceToCopy, RenameToRaw,
       ReadOrExtract, CacheHit, Extract, NoSourceToExtract, CreateCache, FillCache
  <1>5. CheckDimension(c) \/ CreateDoc(c) \/ ReplaceForDocument(c) => Alone(c)
    BY <1>1, <1>2 DEF CheckDimension, CreateDoc, ReplaceForDocument
  <1>6. WriteAutoMetadata(c) \/ CommitSHA(c) => Alone(c)
    BY <1>1, <1>2 DEF WriteAutoMetadata, CommitSHA
  <1>7. ReindexStep(c) => Alone(c)
    BY <1>1, <1>2 DEF ReindexStep, Locate, Skip, SetRawPath, FinishReindex
  <1>8. DeleteRow(c) \/ RemoveCache(c) => Alone(c)
    BY <1>1, <1>2 DEF DeleteRow, RemoveCache
  <1>9. CASE CommandStep(c)
    BY <1>4, <1>5, <1>6, <1>7, <1>8, <1>9 DEF CommandStep, IngestStep
  <1>10. CASE Fault(c)
    BY <1>2, <1>10 DEF Fault, Abandon
  <1> QED  BY <1>3, <1>9, <1>10 DEF Acts

\* A row is deleted, is new, or keeps the chunks it has; a hash is recorded
\* where there are chunks, and an archived copy where a command knows of it.
SafeRow(p) ==
    /\ \/ docs'[p] = docs[p]
       \/ docs[p].id # 0 /\ docs'[p] = NoRow
       \/ docs[p].id = 0 /\ docs'[p].id = nextId /\ docs'[p].sha = None
       \/ /\ docs'[p].id = docs[p].id /\ docs[p].id # 0
          /\ Present(docs[p].text) => Present(docs'[p].text)
          /\ docs'[p].sha = docs[p].sha \/ Present(docs'[p].text)
    /\ docs'[p].raw \in {docs[p].raw, None} \cup {job[c].raw : c \in Procs}

LEMMA RowsSafe ==
  ASSUME Shape, ChunksBehind, [Next]_vars
  PROVE  \A p \in Paths : SafeRow(p)
  <1>0. docs' = docs => \A p \in Paths : SafeRow(p)
    BY DEF SafeRow
  <1>1. CASE User \/ UNCHANGED vars
    BY <1>0, <1>1 DEF User, Edit, Remove, UpgradeExtractor, ClearCache, Reconfigure, db, vars
  <1>2. ASSUME NEW c \in Procs, StartCommand(c) \/ Fault(c)
        PROVE  \A p \in Paths : SafeRow(p)
    BY <1>0, <1>2 DEF StartCommand, StartIngest, StartPreprocess, StartReindex, StartDelete, Fault, Abandon, db
  <1>3. ASSUME NEW c \in Procs, CopySourceToRaw(c) \/ ReadOrExtract(c) \/ CheckDimension(c)
        PROVE  \A p \in Paths : SafeRow(p)
    BY <1>0, <1>3 DEF CopySourceToRaw, AlreadyArchived, CopyToTemp, NoSourceToCopy, RenameToRaw,
       ReadOrExtract, CacheHit, Extract, NoSourceToExtract, CreateCache, FillCache,
       CheckDimension, db
  <1>4. ASSUME NEW c \in Procs, CreateDoc(c)
        PROVE  \A p \in Paths : SafeRow(p)
    <2>1. CASE Exists(job[c].path)
      BY <1>0, <1>4, <2>1 DEF CreateDoc, db
    <2>2. CASE ~Exists(job[c].path)
      <3> DEFINE r == [NoRow EXCEPT !.id = nextId, !.raw = job[c].raw]
      <3>1. /\ docs' = [docs EXCEPT ![job[c].path] = r]
            /\ job[c].path \in Paths /\ docs[job[c].path].id = 0
        BY <1>4, <2>2, Locals DEF CreateDoc, Exists, Fits
      <3>2. r.id = nextId /\ r.sha = None /\ r.raw = job[c].raw
        BY DEF NoRow
      <3> HIDE DEF r
      <3> QED  BY <3>1, <3>2 DEF SafeRow, Shape, TypeOK
    <2> QED  BY <2>1, <2>2
  <1>5. ASSUME NEW c \in Procs, ReplaceForDocument(c)
        PROVE  \A p \in Paths : SafeRow(p)
    <2>1. CASE ~Alive(c)
      BY <1>0, <1>5, <2>1 DEF ReplaceForDocument
    <2>2. CASE Alive(c)
      <3>1. Present(job[c].text) /\ job[c].path \in Paths /\ docs[job[c].path].id # 0
        BY <1>5, <2>2, Locals DEF ReplaceForDocument, Fits, Alive, Exists
      <3>2. docs' = [docs EXCEPT ![job[c].path].text = job[c].text,
                                 ![job[c].path].dim = NewDim(c)]
        BY <1>5, <2>2 DEF ReplaceForDocument
      <3> QED  BY <3>1, <3>2 DEF SafeRow, Shape, TypeOK, Row
    <2> QED  BY <2>1, <2>2
  <1>6. ASSUME NEW c \in Procs, CommitSHA(c)
        PROVE  \A p \in Paths : SafeRow(p)
    <2>1. CASE ~Alive(c)
      BY <1>0, <1>6, <2>1 DEF CommitSHA
    <2>2. CASE Alive(c)
      <3>1. /\ Present(docs[job[c].path].text) /\ job[c].path \in Paths
            /\ docs[job[c].path].id # 0
        BY <1>6, <2>2, Locals DEF CommitSHA, Fits, ChunksBehind, Alive, Exists
      <3>2. docs' = [docs EXCEPT ![job[c].path].sha = job[c].sha,
                                 ![job[c].path].raw = job[c].raw]
        BY <1>6, <2>2 DEF CommitSHA
      <3> QED  BY <3>1, <3>2 DEF SafeRow, Shape, TypeOK, Row
    <2> QED  BY <2>1, <2>2
  <1>7. ASSUME NEW c \in Procs, WriteAutoMetadata(c) \/ RemoveCache(c)
        PROVE  \A p \in Paths : SafeRow(p)
    BY <1>0, <1>7 DEF WriteAutoMetadata, RemoveCache, db
  <1>8. ASSUME NEW c \in Procs, ReindexStep(c)
        PROVE  \A p \in Paths : SafeRow(p)
    <2>1. CASE SetRawPath(c) /\ Alive(c)
      <3>1. job[c].path \in Paths /\ docs[job[c].path].id # 0
        BY <2>1, Locals DEF SetRawPath, Fits, Alive, Exists
      <3>2. docs' = [docs EXCEPT ![job[c].path].raw = job[c].raw]
        BY <2>1 DEF SetRawPath
      <3> QED  BY <3>1, <3>2 DEF SafeRow, Shape, TypeOK, Row
    <2>2. CASE ~(SetRawPath(c) /\ Alive(c))
      BY <1>0, <1>8, <2>2 DEF ReindexStep, Locate, Skip, SetRawPath, FinishReindex, db
    <2> QED  BY <2>1, <2>2
  <1>9. ASSUME NEW c \in Procs, DeleteRow(c)
        PROVE  \A p \in Paths : SafeRow(p)
    <2>1. CASE Alive(c)
      BY <1>9, <2>1, Locals DEF DeleteRow, Alive, Exists, SafeRow, NoRow, Shape, TypeOK
    <2>2. CASE ~Alive(c)
      BY <1>0, <1>9, <2>2 DEF DeleteRow
    <2> QED  BY <2>1, <2>2
  <1> QED  BY <1>1, <1>2, <1>3, <1>4, <1>5, <1>6, <1>7, <1>8, <1>9
           DEF Next, CommandStep, IngestStep

\* Nothing takes a copy out of the archive, and what is added is whole.
LEMMA ArchiveGrows ==
  ASSUME Shape, [Next]_vars
  PROVE  /\ \A x \in Contents : Present(raw[x]) => Present(raw'[x])
         /\ ArchiveIsWhole => ArchiveIsWhole'
  <1> DEFINE Grows == /\ \A x \in Contents : Present(raw[x]) => Present(raw'[x])
                      /\ ArchiveIsWhole => ArchiveIsWhole'
  <1>0. raw' = raw => Grows
    BY DEF ArchiveIsWhole
  <1>1. CASE User \/ UNCHANGED vars
    BY <1>0, <1>1 DEF User, Edit, Remove, UpgradeExtractor, ClearCache, Reconfigure, disk, vars
  <1>2. ASSUME NEW c \in Procs, StartCommand(c) \/ Fault(c)
        PROVE  Grows
    BY <1>0, <1>2 DEF StartCommand, StartIngest, StartPreprocess, StartReindex, StartDelete, Fault, Abandon, disk
  <1>3. ASSUME NEW c \in Procs, CopySourceToRaw(c)
        PROVE  Grows
    <2>1. CASE RenameToRaw(c)
      <3>1. job[c].sha \in Contents /\ job[c].tmp # None
        BY <2>1, Locals DEF RenameToRaw, Fits, Job, Name
      <3>2. raw' = [raw EXCEPT ![job[c].sha] = Whole(job[c].tmp)]
        BY <2>1 DEF RenameToRaw
      <3> QED  BY <3>1, <3>2 DEF ArchiveIsWhole, Present, Whole, Shape, TypeOK
    <2> QED  BY <1>0, <1>3, <2>1
             DEF CopySourceToRaw, AlreadyArchived, CopyToTemp, NoSourceToCopy, disk
  <1>4. ASSUME NEW c \in Procs, ReadOrExtract(c) \/ CheckDimension(c) \/ CreateDoc(c)
        PROVE  Grows
    BY <1>0, <1>4 DEF ReadOrExtract, CacheHit, Extract, NoSourceToExtract, CreateCache,
       FillCache, CheckDimension, CreateDoc, disk
  <1>5. ASSUME NEW c \in Procs, ReplaceForDocument(c) \/ WriteAutoMetadata(c) \/ CommitSHA(c)
        PROVE  Grows
    BY <1>0, <1>5 DEF ReplaceForDocument, WriteAutoMetadata, CommitSHA, disk
  <1>6. ASSUME NEW c \in Procs, ReindexStep(c) \/ DeleteRow(c) \/ RemoveCache(c)
        PROVE  Grows
    BY <1>0, <1>6 DEF ReindexStep, Locate, Skip, SetRawPath, FinishReindex, DeleteRow,
       RemoveCache, disk
  <1> QED  BY <1>1, <1>2, <1>3, <1>4, <1>5, <1>6 DEF Next, CommandStep, IngestStep

\* A command that reaches the metadata or the commit found its row there.
LEMMA ReachesMetadata ==
  ASSUME Shape, NEW c \in Procs, Acts(c), pc'[c] \in {"meta", "commit"}
  PROVE  /\ job'[c] = job[c] /\ Alive(c)
         /\ ReplaceForDocument(c) \/ WriteAutoMetadata(c)
  <1>1. ASSUME NEW to, NEW j, Goto(c, to, j)
        PROVE  to \in {"meta", "commit"} /\ job'[c] = j
    BY <1>1 DEF Goto, Shape, TypeOK
  <1>2. ~GiveUp(c) /\ ~End(c)
    BY <1>1 DEF GiveUp, End
  <1>3. ~StartCommand(c) /\ ~Fault(c)
    <2>1. \A p \in Paths, noRaw \in NoRaw, force \in Forced : ~StartIngest(c, p, noRaw, force)
      BY <1>1 DEF StartIngest
    <2>2. ~StartReindex(c)
      <3>1. StartReindex(c) => \E j : Goto(c, "next", j)
        BY DEF StartReindex
      <3> QED  BY <1>1, <3>1
    <2>3. \A p \in Paths : ~StartDelete(c, p) /\ ~StartPreprocess(c, p)
      BY <1>1 DEF StartDelete, StartPreprocess
    <2> QED  BY <1>2, <2>1, <2>2, <2>3 DEF StartCommand, Fault, Abandon
  <1>4. ~CopySourceToRaw(c) /\ ~ReadOrExtract(c)
    BY <1>1, <1>2 DEF CopySourceToRaw, AlreadyArchived, CopyToTemp, NoSourceToCopy, RenameToRaw,
       ReadOrExtract, CacheHit, Extract, NoSourceToExtract, CreateCache, FillCache, Embedded
  <1>5. ~CheckDimension(c) /\ ~CreateDoc(c) /\ ~CommitSHA(c)
    BY <1>1, <1>2 DEF CheckDimension, CreateDoc, CommitSHA
  <1>6. ~ReindexStep(c) /\ ~DeleteRow(c) /\ ~RemoveCache(c)
    <2>1. \A d \in job[c].todo : ~Locate(c, d)
      BY <1>1 DEF Locate, AfterLocate
    <2>2. (\A d \in job[c].todo : ~Skip(c, d)) /\ ~FinishReindex(c)
      BY <1>1, <1>2 DEF Skip, FinishReindex
    <2>3. ~SetRawPath(c)
      BY <1>1 DEF SetRawPath, AfterLocate
    <2>4. ~DeleteRow(c) /\ ~RemoveCache(c)
      BY <1>1, <1>2 DEF DeleteRow, RemoveCache
    <2> QED  BY <2>1, <2>2, <2>3, <2>4 DEF ReindexStep
  <1>7. ReplaceForDocument(c) \/ WriteAutoMetadata(c)
    BY <1>3, <1>4, <1>5, <1>6 DEF Acts, CommandStep, IngestStep
  <1> QED  BY <1>1, <1>2, <1>7 DEF ReplaceForDocument, WriteAutoMetadata

-----------------------------------------------------------------------------
(* The inductive invariant *)

LEMMA InitIInv == Init => IInv
  BY InitShape DEF Init, IInv, ChunksBehind, CopiesKnown, Known, RecordedMeansStored,
     ArchiveIsWhole, ArchivedBeforeIndexed, NoRow, NoJob, NoCopy, Present

LEMMA StoredStep ==
  ASSUME Shape, ChunksBehind, RecordedMeansStored, [Next]_vars
  PROVE  RecordedMeansStored'
  <1> SUFFICES ASSUME NEW p \in Paths, docs'[p].sha # None
               PROVE  Present(docs'[p].text)
    BY DEF RecordedMeansStored
  <1>1. SafeRow(p)
    BY RowsSafe
  <1> QED  BY <1>1 DEF SafeRow, RecordedMeansStored, NoRow

LEMMA BehindStep ==
  ASSUME Shape, ChunksBehind, [Next]_vars
  PROVE  ChunksBehind'
  <1> SUFFICES ASSUME NEW o \in Procs, pc'[o] \in {"meta", "commit"}, Alive(o)'
               PROVE  Present(docs'[job'[o].path].text)
    BY DEF ChunksBehind
  <1>1. CASE pc'[o] = pc[o] /\ job'[o] = job[o]
    <2>1. job[o].path \in Paths /\ job[o].id \in 1 .. nextId - 1 /\ nextId \in Nat
      BY <1>1, Locals DEF Fits, Shape, TypeOK, RowStep
    <2>2. SafeRow(job[o].path)
      BY <2>1, RowsSafe
    <2>3. docs'[job[o].path].id = job[o].id
      BY <1>1 DEF Alive
    <2>4. docs[job[o].path].id = job[o].id /\ Present(docs[job[o].path].text)
             => Present(docs'[job[o].path].text)
      BY <2>1, <2>2, <2>3 DEF SafeRow, NoRow
    <2>5. docs[job[o].path].id = job[o].id
      BY <2>1, <2>2, <2>3 DEF SafeRow, NoRow
    <2>6. Alive(o)
      BY <2>1, <2>5 DEF Alive, Exists
    <2> QED  BY <1>1, <2>4, <2>5, <2>6 DEF ChunksBehind
  <1>2. CASE ~(pc'[o] = pc[o] /\ job'[o] = job[o])
    <2>1. ~User /\ ~UNCHANGED vars
      BY <1>2 DEF User, Edit, Remove, UpgradeExtractor, ClearCache, Reconfigure, vars
    <2>2. PICK c \in Procs : Acts(c)
      BY <2>1 DEF Next, Acts
    <2>3. c = o
      BY <1>2, <2>2, ActsAlone DEF Alone
    <2>4. /\ job'[o] = job[o] /\ Alive(o)
          /\ ReplaceForDocument(o) \/ WriteAutoMetadata(o)
      BY <2>2, <2>3, ReachesMetadata
    <2>5. CASE ReplaceForDocument(o)
      <3>1. Present(job[o].text) /\ job[o].path \in Paths
        BY <2>5, Locals DEF ReplaceForDocument, Fits
      <3>2. docs' = [docs EXCEPT ![job[o].path].text = job[o].text,
                                 ![job[o].path].dim = NewDim(o)]
        BY <2>4, <2>5 DEF ReplaceForDocument
      <3> QED  BY <2>4, <3>1, <3>2 DEF Shape, TypeOK, Row
    <2>6. CASE WriteAutoMetadata(o)
      BY <2>4, <2>6 DEF WriteAutoMetadata, ChunksBehind, db
    <2> QED  BY <2>4, <2>5, <2>6
  <1> QED  BY <1>1, <1>2

\* A command whose archived copies are among those it knew, or which are
\* there, knows copies that are there.
LEMMA KnownStep ==
  ASSUME Shape, CopiesKnown, ArchivedBeforeIndexed, [Next]_vars
  PROVE  CopiesKnown'
  <1> DEFINE Keeps(c) == Known(job'[c], raw')
  <1>0. \A x \in Contents : Present(raw[x]) => Present(raw'[x])
    BY ArchiveGrows
  <1>1. \A c \in Procs : Known(job[c], raw')
    BY <1>0, Locals DEF CopiesKnown, Known, Job, Loaded, Name
  <1>2. ASSUME NEW c \in Procs, NEW to, NEW j, Goto(c, to, j)
        PROVE  job'[c] = j
    BY <1>2 DEF Goto, Shape, TypeOK
  <1>3. ASSUME NEW c \in Procs, End(c) \/ GiveUp(c)
        PROVE  Keeps(c)
    <2>1. Known(NoJob, raw')
      BY DEF Known, NoJob
    <2>2. Known([job[c] EXCEPT !.clean = FALSE], raw')
      BY <1>1, Locals DEF Known, Job
    <2> QED  BY <1>2, <1>3, <2>1, <2>2 DEF End, GiveUp
  <1>4. ASSUME NEW c \in Procs, StartCommand(c)
        PROVE  Keeps(c)
    <2>0. \A p \in Paths : docs[p].raw # None => Present(raw'[docs[p].raw])
      BY <1>0 DEF ArchivedBeforeIndexed, Shape, TypeOK, Row, Name
    <2>1. ASSUME NEW p \in Paths, NEW noRaw, NEW force, StartIngest(c, p, noRaw, force)
          PROVE  Keeps(c)
      <3>1. job'[c].raw = docs[p].raw /\ job'[c].todo = {}
        BY ZenonT(30), <1>2, <2>1 DEF StartIngest, NoJob
      <3> QED  BY <2>0, <3>1 DEF Known
    <2>2. CASE StartReindex(c)
      <3>1. /\ job'[c].raw = None
            /\ job'[c].todo = {Load(p) : p \in {q \in Paths : Exists(q)}}
        BY <1>2, <2>2 DEF StartReindex, NoJob
      <3> QED  BY <2>0, <3>1 DEF Known, Load
    <2>3. ASSUME NEW p \in Paths, StartDelete(c, p) \/ StartPreprocess(c, p)
          PROVE  Keeps(c)
      <3>1. job'[c].raw = None /\ job'[c].todo = {}
        BY ZenonT(30), <1>2, <2>3 DEF StartDelete, StartPreprocess, NoJob
      <3> QED  BY <3>1 DEF Known
    <2> QED  BY <1>4, <2>1, <2>2, <2>3 DEF StartCommand
  <1>5. ASSUME NEW c \in Procs, CopySourceToRaw(c)
        PROVE  Keeps(c)
    <2>1. CASE AlreadyArchived(c) \/ RenameToRaw(c)
      <3>1. job'[c].raw = job[c].sha /\ job'[c].todo = job[c].todo
        BY <1>2, <2>1, Locals DEF AlreadyArchived, RenameToRaw, Job
      <3>2. job[c].sha \in Contents
        BY <2>1, Locals DEF AlreadyArchived, RenameToRaw, Fits, Job, Name
      <3>3. CASE AlreadyArchived(c)
        BY <1>0, <1>1, <3>1, <3>2, <3>3 DEF AlreadyArchived, Known
      <3>4. CASE RenameToRaw(c)
        <4>1. job[c].tmp # None /\ raw' = [raw EXCEPT ![job[c].sha] = Whole(job[c].tmp)]
          BY <3>4, Locals DEF RenameToRaw, Fits
        <4>2. Present(raw'[job[c].sha])
          BY <3>2, <4>1 DEF Present, Whole, Shape, TypeOK
        <4> QED  BY <1>1, <3>1, <4>2 DEF Known
      <3> QED  BY <2>1, <3>3, <3>4
    <2>2. CASE CopyToTemp(c)
      <3>1. job'[c].raw = job[c].raw /\ job'[c].todo = job[c].todo
        BY <1>2, <2>2, Locals DEF CopyToTemp, Job
      <3> QED  BY <1>1, <3>1 DEF Known
    <2>3. CASE NoSourceToCopy(c)
      BY <1>3, <2>3 DEF NoSourceToCopy
    <2> QED  BY <1>5, <2>1, <2>2, <2>3 DEF CopySourceToRaw
  <1>6. ASSUME NEW c \in Procs, ReadOrExtract(c)
        PROVE  Keeps(c)
    <2>1. CASE CacheHit(c) \/ Extract(c)
      <3>1. job'[c].raw = job[c].raw /\ job'[c].todo = job[c].todo
        BY <1>2, <2>1, Locals DEF CacheHit, Extract, Job
      <3> QED  BY <1>1, <3>1 DEF Known
    <2>2. CASE NoSourceToExtract(c)
      BY <1>3, <2>2 DEF NoSourceToExtract
    <2>3. CASE CreateCache(c) \/ FillCache(c)
      BY <1>1, <1>2, <1>3, <2>3 DEF CreateCache, FillCache
    <2> QED  BY <1>6, <2>1, <2>2, <2>3 DEF ReadOrExtract
  <1>7. ASSUME NEW c \in Procs, CheckDimension(c) \/ WriteAutoMetadata(c) \/ CommitSHA(c)
        PROVE  Keeps(c)
    BY <1>1, <1>2, <1>3, <1>7 DEF CheckDimension, WriteAutoMetadata, CommitSHA
  <1>8. ASSUME NEW c \in Procs, CreateDoc(c) \/ ReplaceForDocument(c)
        PROVE  Keeps(c)
    <2>1. Known([job[c] EXCEPT !.id = nextId], raw')
      BY <1>1, Locals DEF Known, Job
    <2> QED  BY <1>1, <1>2, <1>3, <1>8, <2>1 DEF CreateDoc, ReplaceForDocument
  <1>9. ASSUME NEW c \in Procs, ReindexStep(c)
        PROVE  Keeps(c)
    <2>1. ASSUME NEW d \in job[c].todo, Locate(c, d)
          PROVE  Keeps(c)
      <3>1. /\ job'[c].todo = job[c].todo \ {d}
            /\ job'[c].raw = IF InArchive(d) THEN ArchivedName(d) ELSE d.raw
        <4>1. job'[c] = Take(c, d)
          BY <1>2, <2>1 DEF Locate
        <4>2. /\ Take(c, d).todo = job[c].todo \ {d}
              /\ Take(c, d).raw = IF InArchive(d) THEN ArchivedName(d) ELSE d.raw
          BY Locals DEF Take, Job
        <4> QED  BY <4>1, <4>2
      <3>2. InArchive(d) => Present(raw'[ArchivedName(d)])
        BY <1>0, Locals DEF InArchive, ArchivedName, Job, Loaded, Name
      <3> QED  BY <1>1, <3>1, <3>2 DEF Known
    <2>2. ASSUME NEW d \in job[c].todo, Skip(c, d)
          PROVE  Keeps(c)
      <3>1. job'[c].raw = job[c].raw /\ job'[c].todo = job[c].todo \ {d}
        BY <1>2, <2>2, Locals DEF Skip, Job
      <3> QED  BY <1>1, <3>1 DEF Known
    <2> QED  BY <1>1, <1>2, <1>3, <1>9, <2>1, <2>2 DEF ReindexStep, SetRawPath, FinishReindex
  <1>10. ASSUME NEW c \in Procs, DeleteRow(c) \/ RemoveCache(c) \/ Fault(c)
         PROVE  Keeps(c)
    BY <1>1, <1>2, <1>3, <1>10 DEF DeleteRow, RemoveCache, Fault, Abandon
  <1>11. ASSUME NEW c \in Procs, Acts(c)
         PROVE  CopiesKnown'
    <2>1. Keeps(c)
      BY <1>4, <1>5, <1>6, <1>7, <1>8, <1>9, <1>10, <1>11 DEF Acts, CommandStep, IngestStep
    <2> QED  BY <1>1, <1>11, <2>1, ActsAlone DEF CopiesKnown, Alone
  <1>12. CASE User \/ UNCHANGED vars
    BY <1>1, <1>12 DEF User, Edit, Remove, UpgradeExtractor, ClearCache, Reconfigure, vars,
       CopiesKnown
  <1> QED  BY <1>11, <1>12 DEF Next, Acts

LEMMA ArchivedStep ==
  ASSUME Shape, ChunksBehind, CopiesKnown, ArchivedBeforeIndexed, [Next]_vars
  PROVE  ArchivedBeforeIndexed'
  <1> SUFFICES ASSUME NEW p \in Paths, docs'[p].raw # None
               PROVE  Present(raw'[docs'[p].raw])
    BY DEF ArchivedBeforeIndexed
  <1>1. docs'[p].raw \in {docs[p].raw} \cup {job[c].raw : c \in Procs}
    BY RowsSafe DEF SafeRow
  <1>2. docs'[p].raw \in Contents /\ Present(raw[docs'[p].raw])
    <2>1. CASE docs'[p].raw = docs[p].raw
      BY <2>1 DEF ArchivedBeforeIndexed, Shape, TypeOK, Row, Name
    <2>2. ASSUME NEW c \in Procs, docs'[p].raw = job[c].raw
          PROVE  docs'[p].raw \in Contents /\ Present(raw[docs'[p].raw])
      BY <2>2, Locals DEF CopiesKnown, Known, Job, Name
    <2> QED  BY <1>1, <2>1, <2>2
  <1> QED  BY <1>2, ArchiveGrows

LEMMA StepIInv == IInv /\ [Next]_vars => IInv'
  BY StepShape, BehindStep, KnownStep, StoredStep, ArchivedStep, ArchiveGrows DEF IInv

\* IInv holds in every reachable state.
THEOREM Invariance == Spec => []IInv
  BY InitIInv, StepIInv, PTL DEF Spec

\* However many ingests, reindexes and deletes interleave, and wherever they
\* stop, a recorded hash means stored chunks: no ingest is skipped for a
\* document that was never indexed (ingester.go:183-189).
THEOREM RecordedMeansStoredAlways == Spec => []RecordedMeansStored
  <1>1. IInv => RecordedMeansStored
    BY DEF IInv
  <1> QED  BY Invariance, <1>1, PTL

\* No interleaving and no crash leaves a truncated file under a
\* content-addressed name of the archive (ingester.go:439-442).
THEOREM ArchiveIsWholeAlways == Spec => []ArchiveIsWhole
  <1>1. IInv => ArchiveIsWhole
    BY DEF IInv
  <1> QED  BY Invariance, <1>1, PTL

\* A row never names an archived copy that is not there, whether an ingest
\* made it, found it, or a reindex recorded it (ingester.go:134-136,
\* reindex.go:156-167).
THEOREM ArchivedBeforeIndexedAlways == Spec => []ArchivedBeforeIndexed
  <1>1. IInv => ArchivedBeforeIndexed
    BY DEF IInv
  <1> QED  BY Invariance, <1>1, PTL

\* As long as a document's row lives, no step of any command empties its
\* index (ingester.go:203-205, reindex.go:190-191).
THEOREM IndexNeverLostAlways == Spec => IndexNeverLost
  <1> DEFINE Kept == \A p \in Paths : Present(docs[p].text) /\ docs'[p].id = docs[p].id
                                     => Present(docs'[p].text)
  <1>1. IInv /\ [Next]_vars => Kept
    <2> SUFFICES ASSUME Shape, ChunksBehind, [Next]_vars, NEW p \in Paths,
                        Present(docs[p].text), docs'[p].id = docs[p].id
                 PROVE  Present(docs'[p].text)
      BY DEF IInv
    <2>1. SafeRow(p) /\ nextId # 0
      BY RowsSafe DEF Shape, TypeOK
    <2> QED  BY <2>1 DEF SafeRow, NoRow
  <1>2. IInv /\ [Next]_vars => [Kept]_vars
    BY <1>1
  <1> QED  BY Invariance, <1>2, PTL DEF Spec, IndexNeverLost
=============================================================================
