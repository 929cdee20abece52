------------------------------ MODULE IndexProofs ------------------------------
(***************************************************************************)
(* Proofs about what the index holds: the dimensions of the stored         *)
(* vectors, for every fault and interleaving of the model, and what a      *)
(* stored copy holds, under the conditions each theorem names.             *)
(***************************************************************************)
EXTENDS KnowledgeBaseProofs, FiniteSetTheorems

-----------------------------------------------------------------------------
(* What a step of a command does to the rows and to the command *)

LEMMA Moved ==
  ASSUME Shape, NEW c \in Procs, NEW to, NEW j, Goto(c, to, j)
  PROVE  pc'[c] = to /\ job'[c] = j
  BY DEF Goto, Shape, TypeOK

\* What a command knows as it starts.
StartsIngest(c) ==
    \E p \in Paths, noRaw \in NoRaw :
        /\ pc'[c] = IF Archive /\ ~noRaw THEN "archive" ELSE "text"
        /\ file[p] # None
        /\ job'[c].cmd = "ingest" /\ job'[c].path = p /\ job'[c].sha = file[p]
        /\ job'[c].src = "live" /\ job'[c].todo = {} /\ job'[c].dim = config

StartsPreprocess(c) ==
    \E p \in Paths :
        /\ pc'[c] = "text"
        /\ file[p] # None
        /\ job'[c].cmd = "preprocess" /\ job'[c].path = p /\ job'[c].sha = file[p]
        /\ job'[c].src = "live" /\ job'[c].todo = {}

StartsDelete(c) ==
    \E p \in Paths :
        /\ pc'[c] = "delrow"
        /\ job'[c].cmd = "delete" /\ job'[c].sha = docs[p].sha /\ job'[c].todo = {}

StartsReindex(c) ==
    /\ pc'[c] = "next"
    /\ job'[c].cmd = "reindex" /\ job'[c].dim = config /\ job'[c].sha = None
    /\ job'[c].todo = {Load(p) : p \in {q \in Paths : Exists(q)}}

LEMMA Starts ==
  ASSUME Shape, NEW c \in Procs, StartCommand(c)
  PROVE  /\ pc[c] = "idle"
         /\ UNCHANGED <<user, disk, db>>
         /\ StartsIngest(c) \/ StartsPreprocess(c) \/ StartsDelete(c) \/ StartsReindex(c)
  <1>0. pc[c] = "idle" /\ UNCHANGED <<user, disk, db>>
    BY DEF StartCommand, StartIngest, StartPreprocess, StartReindex, StartDelete
  <1>1. ASSUME NEW p \in Paths, NEW noRaw \in NoRaw, NEW force, StartIngest(c, p, noRaw, force)
        PROVE  StartsIngest(c)
    <2> DEFINE to == IF Archive /\ ~noRaw THEN "archive" ELSE "text"
               j == [NoJob EXCEPT !.cmd = "ingest", !.path = p, !.id = docs[p].id,
                                  !.sha = file[p], !.raw = docs[p].raw, !.dim = config]
    <2>1. Goto(c, to, j) /\ file[p] # None
      BY <1>1 DEF StartIngest
    <2>2. /\ j.cmd = "ingest" /\ j.path = p /\ j.sha = file[p] /\ j.src = "live"
          /\ j.todo = {} /\ j.dim = config
      BY DEF NoJob
    <2> HIDE DEF j
    <2>3. pc'[c] = to /\ job'[c] = j
      BY <2>1, Moved
    <2> QED  BY <2>1, <2>2, <2>3 DEF StartsIngest
  <1>2. ASSUME NEW p \in Paths, StartPreprocess(c, p)
        PROVE  StartsPreprocess(c)
    <2> DEFINE j == [NoJob EXCEPT !.cmd = "preprocess", !.path = p, !.sha = file[p]]
    <2>1. Goto(c, "text", j) /\ file[p] # None
      BY <1>2 DEF StartPreprocess
    <2>2. /\ j.cmd = "preprocess" /\ j.path = p /\ j.sha = file[p] /\ j.src = "live"
          /\ j.todo = {}
      BY DEF NoJob
    <2> HIDE DEF j
    <2>3. pc'[c] = "text" /\ job'[c] = j
      BY <2>1, Moved
    <2> QED  BY <2>1, <2>2, <2>3 DEF StartsPreprocess
  <1>3. ASSUME NEW p \in Paths, StartDelete(c, p)
        PROVE  StartsDelete(c)
    <2> DEFINE j == [NoJob EXCEPT !.cmd = "delete", !.path = p, !.id = docs[p].id,
                                  !.sha = docs[p].sha]
    <2>1. Goto(c, "delrow", j)
      BY <1>3 DEF StartDelete
    <2>2. j.cmd = "delete" /\ j.sha = docs[p].sha /\ j.todo = {}
      BY DEF NoJob
    <2> HIDE DEF j
    <2>3. pc'[c] = "delrow" /\ job'[c] = j
      BY <2>1, Moved
    <2> QED  BY <2>2, <2>3 DEF StartsDelete
  <1>4. ASSUME StartReindex(c)
        PROVE  StartsReindex(c)
    <2> DEFINE list == {Load(p) : p \in {q \in Paths : Exists(q)}}
               j == [NoJob EXCEPT !.cmd = "reindex", !.dim = config, !.todo = list]
    <2>1. Goto(c, "next", j)
      BY <1>4 DEF StartReindex
    <2>2. j.cmd = "reindex" /\ j.dim = config /\ j.sha = None /\ j.todo = list
      BY DEF NoJob
    <2> HIDE DEF j
    <2>3. pc'[c] = "next" /\ job'[c] = j
      BY <2>1, Moved
    <2> QED  BY <2>2, <2>3 DEF StartsReindex
  <1> QED  BY <1>0, <1>1, <1>2, <1>3, <1>4 DEF StartCommand

LEMMA IdleStarts ==
  ASSUME NEW c \in Procs, Acts(c), pc[c] = "idle"
  PROVE  StartCommand(c)
  BY DEF Acts, CommandStep, IngestStep, CopySourceToRaw, AlreadyArchived, CopyToTemp,
     NoSourceToCopy, RenameToRaw, ReadOrExtract, CacheHit, Extract, NoSourceToExtract,
     CreateCache, FillCache, CheckDimension, CreateDoc, ReplaceForDocument,
     WriteAutoMetadata, CommitSHA, ReindexStep, Locate, Skip, SetRawPath, FinishReindex,
     DeleteRow, RemoveCache, Fault, Abandon

\* The ways command c may change the row of path p.
Creates(c, p) ==
    /\ pc[c] = "create"
    /\ p = job[c].path
    /\ ~Exists(p)
    /\ docs'[p] = [NoRow EXCEPT !.id = nextId, !.raw = job[c].raw]

Replaces(c, p) ==
    /\ pc[c] = "replace"
    /\ p = job[c].path
    /\ Alive(c)
    /\ docs'[p] = [docs[p] EXCEPT !.text = job[c].text, !.dim = NewDim(c)]

Commits(c, p) ==
    /\ pc[c] = "commit"
    /\ p = job[c].path
    /\ Alive(c)
    /\ docs'[p] = [docs[p] EXCEPT !.sha = job[c].sha, !.raw = job[c].raw]

Locates(c, p) ==
    /\ pc[c] = "setraw"
    /\ p = job[c].path
    /\ Alive(c)
    /\ docs'[p] = [docs[p] EXCEPT !.raw = job[c].raw]

RowChange(c, p) ==
    \/ docs'[p] = docs[p]
    \/ pc[c] = "delrow" /\ docs'[p] = NoRow
    \/ Creates(c, p) \/ Replaces(c, p) \/ Commits(c, p) \/ Locates(c, p)

LEMMA RowChanges ==
  ASSUME Shape, NEW c \in Procs, Acts(c), NEW p \in Paths
  PROVE  RowChange(c, p)
  <1>0. ASSUME NEW r, docs' = [docs EXCEPT ![job[c].path] = r]
        PROVE  docs'[p] = docs[p] \/ (p = job[c].path /\ docs'[p] = r)
    BY <1>0 DEF Shape, TypeOK
  <1>1. docs' = docs => RowChange(c, p)
    BY DEF RowChange
  <1>2. CASE StartCommand(c) \/ Fault(c)
    BY <1>1, <1>2 DEF StartCommand, StartIngest, StartPreprocess, StartReindex, StartDelete,
       Fault, Abandon, db
  <1>3. CASE CopySourceToRaw(c) \/ ReadOrExtract(c) \/ CheckDimension(c)
    BY <1>1, <1>3 DEF CopySourceToRaw, AlreadyArchived, CopyToTemp, NoSourceToCopy, RenameToRaw,
       ReadOrExtract, CacheHit, Extract, NoSourceToExtract, CreateCache, FillCache,
       CheckDimension, db
  <1>4. CASE CreateDoc(c)
    BY <1>0, <1>1, <1>4 DEF CreateDoc, db, RowChange, Creates
  <1>5. CASE ReplaceForDocument(c)
    <2>1. CASE Alive(c)
      <3> DEFINE r == [docs[job[c].path] EXCEPT !.text = job[c].text, !.dim = NewDim(c)]
      <3>1. job[c].path \in Paths
        BY <1>5, Locals DEF ReplaceForDocument, Fits
      <3>2. docs' = [docs EXCEPT ![job[c].path] = r]
        BY <1>5, <2>1, <3>1 DEF ReplaceForDocument, Shape, TypeOK
      <3> QED  BY <1>0, <1>5, <2>1, <3>2 DEF ReplaceForDocument, RowChange, Replaces
    <2>2. CASE ~Alive(c)
      BY <1>1, <1>5, <2>2 DEF ReplaceForDocument
    <2> QED  BY <2>1, <2>2
  <1>6. CASE CommitSHA(c)
    <2>1. CASE Alive(c)
      <3> DEFINE r == [docs[job[c].path] EXCEPT !.sha = job[c].sha, !.raw = job[c].raw]
      <3>1. job[c].path \in Paths
        BY <1>6, Locals DEF CommitSHA, Fits
      <3>2. docs' = [docs EXCEPT ![job[c].path] = r]
        BY <1>6, <2>1, <3>1 DEF CommitSHA, Shape, TypeOK
      <3> QED  BY <1>0, <1>6, <2>1, <3>2 DEF CommitSHA, RowChange, Commits
    <2>2. CASE ~Alive(c)
      BY <1>1, <1>6, <2>2 DEF CommitSHA
    <2> QED  BY <2>1, <2>2
  <1>7. CASE WriteAutoMetadata(c) \/ RemoveCache(c)
    BY <1>1, <1>7 DEF WriteAutoMetadata, RemoveCache, db
  <1>8. CASE ReindexStep(c)
    <2>1. CASE SetRawPath(c) /\ Alive(c)
      <3> DEFINE r == [docs[job[c].path] EXCEPT !.raw = job[c].raw]
      <3>1. job[c].path \in Paths
        BY <2>1, Locals DEF SetRawPath, Fits
      <3>2. docs' = [docs EXCEPT ![job[c].path] = r]
        BY <2>1, <3>1 DEF SetRawPath, Shape, TypeOK
      <3> QED  BY <1>0, <2>1, <3>2 DEF SetRawPath, RowChange, Locates
    <2>2. CASE ~(SetRawPath(c) /\ Alive(c))
      BY <1>1, <1>8, <2>2 DEF ReindexStep, Locate, Skip, SetRawPath, FinishReindex, db
    <2> QED  BY <2>1, <2>2
  <1>9. CASE DeleteRow(c)
    BY <1>0, <1>1, <1>9 DEF DeleteRow, RowChange
  <1> QED  BY <1>2, <1>3, <1>4, <1>5, <1>6, <1>7, <1>8, <1>9 DEF Acts, CommandStep, IngestStep

\* A command ends, starts with the configuration it finds, or goes on with
\* the command and the dimension it started with; only a reindex turns to
\* another document, and no error is forgotten.
CommandKept(c) ==
    \/ pc'[c] = "idle" /\ job'[c] = NoJob
    \/ /\ pc[c] = "idle"
       /\ job'[c].cmd \in {"ingest", "reindex"} => job'[c].dim = config
    \/ /\ pc[c] # "idle"
       /\ job'[c].cmd = job[c].cmd /\ job'[c].dim = job[c].dim
       /\ job[c].clean = FALSE => job'[c].clean = FALSE
       /\ job[c].cmd # "reindex" => /\ job'[c].path = job[c].path /\ job'[c].sha = job[c].sha
                                    /\ job'[c].src = job[c].src

LEMMA CommandsKept ==
  ASSUME Shape, NEW c \in Procs, Acts(c)
  PROVE  CommandKept(c) /\ UNCHANGED user
  <1>1. End(c) => CommandKept(c)
    BY Moved DEF End, CommandKept
  <1>2. pc[c] # "idle" /\ GiveUp(c) => CommandKept(c)
    <2>1. [job[c] EXCEPT !.clean = FALSE] \in Job
      BY Locals DEF Job
    <2> QED  BY <1>1, <2>1, Moved, Locals DEF GiveUp, CommandKept, Job
  <1>3. ASSUME NEW to, Goto(c, to, job[c]), pc[c] # "idle"
        PROVE  CommandKept(c)
    BY <1>3, Moved DEF CommandKept
  <1>4. CASE StartCommand(c)
    BY <1>4, Starts DEF CommandKept, StartsIngest, StartsPreprocess, StartsDelete, StartsReindex
  <1>5. CASE CopySourceToRaw(c)
    BY <1>1, <1>5, Moved, Locals DEF CopySourceToRaw, AlreadyArchived, CopyToTemp,
       NoSourceToCopy, RenameToRaw, CommandKept, Job, disk
  <1>6. CASE ReadOrExtract(c)
    <2>1. CASE CacheHit(c) \/ Extract(c)
      BY <2>1, Moved, Locals DEF CacheHit, Extract, CommandKept, Job
    <2>2. CASE NoSourceToExtract(c)
      BY <1>2, <2>2 DEF NoSourceToExtract
    <2>3. CASE CreateCache(c) \/ FillCache(c)
      BY <1>1, <1>3, <2>3 DEF CreateCache, FillCache
    <2> QED  BY <1>6, <2>1, <2>2, <2>3 DEF ReadOrExtract
  <1>7. CASE CheckDimension(c) \/ WriteAutoMetadata(c) \/ CommitSHA(c)
    BY <1>1, <1>2, <1>3, <1>7 DEF CheckDimension, WriteAutoMetadata, CommitSHA
  <1>8. CASE CreateDoc(c) \/ ReplaceForDocument(c)
    <2>1. CASE Goto(c, "replace", [job[c] EXCEPT !.id = nextId])
      BY <1>8, <2>1, Moved, Locals DEF CreateDoc, ReplaceForDocument, CommandKept, Job
    <2> QED  BY <1>2, <1>3, <1>8, <2>1 DEF CreateDoc, ReplaceForDocument
  <1>9. CASE ReindexStep(c)
    <2>1. ASSUME NEW d \in job[c].todo, Locate(c, d)
          PROVE  CommandKept(c)
      <3>1. job'[c] = Take(c, d) /\ pc[c] = "next"
        BY <2>1, Moved DEF Locate
      <3> QED  BY <3>1, Locals DEF CommandKept, Take, Job, Fits
    <2>2. ASSUME NEW d \in job[c].todo, Skip(c, d)
          PROVE  CommandKept(c)
      <3>1. /\ pc[c] = "next"
            /\ job'[c] = [job[c] EXCEPT !.todo = job[c].todo \ {d}, !.clean = FALSE]
        BY <2>2, Moved DEF Skip
      <3> QED  BY <3>1, Locals DEF CommandKept, Job, Fits
    <2> QED  BY <1>1, <1>3, <1>9, <2>1, <2>2
             DEF ReindexStep, Locate, Skip, SetRawPath, FinishReindex
  <1>10. CASE DeleteRow(c) \/ RemoveCache(c)
    BY <1>1, <1>3, <1>10 DEF DeleteRow, RemoveCache
  <1>11. CASE Fault(c)
    BY <1>1, <1>2, <1>11 DEF Fault, Abandon
  <1> QED  BY <1>4, <1>5, <1>6, <1>7, <1>8, <1>9, <1>10, <1>11 DEF Acts, CommandStep, IngestStep
-----------------------------------------------------------------------------
(* The dimensions of the stored vectors *)

\* The configuration does not change under a running command.
Configured ==
    \A c \in Procs : pc[c] # "idle" /\ job[c].cmd \in {"ingest", "reindex"}
        => job[c].dim = config

\* An ingest that passed the guard finds no other dimension than its own in
\* the rest of the table, whatever ran between the guard and the insert.
Guarded ==
    \A c \in Procs :
        /\ pc[c] = "create" => job[c].id = 0
        /\ pc[c] \in {"create", "replace"} /\ job[c].cmd = "ingest" /\ NewDim(c) # 0
               => StoredDims(job[c].id) \subseteq {config}

\* A row of another dimension is on the list of a reindex that met no error,
\* or is the document it has in hand.
Listed(c, p) == \E d \in job[c].todo : d.path = p /\ d.id = docs[p].id

InHand(c, p) ==
    /\ pc[c] \in {"setraw", "text", "write", "caching", "replace"}
    /\ job[c].path = p
    /\ job[c].id = docs[p].id

Repairing ==
    \A c \in Procs : pc[c] # "idle" /\ job[c].cmd = "reindex" /\ job[c].clean
        => \A p \in Paths : Exists(p) /\ docs[p].dim \notin {0, job[c].dim}
               => Listed(c, p) \/ InHand(c, p)

DimsFinite == IsFiniteSet(StoredDims(0))

\* No two documents have the same id.
IdsUnique == \A p, q \in Paths : docs[p].id = docs[q].id /\ docs[p].id # 0 => p = q

DimInv == Shape /\ IdsUnique /\ Configured /\ Guarded /\ Repairing /\ DimsFinite

LEMMA InitDimInv == Init => DimInv
  <1> SUFFICES ASSUME Init PROVE DimInv
    OBVIOUS
  <1>1. StoredDims(0) = {}
    BY DEF Init, StoredDims, Exists, NoRow
  <1>2. DimsFinite
    BY <1>1, FS_EmptySet DEF DimsFinite
  <1>3. IdsUnique /\ Configured /\ Guarded /\ Repairing
    BY DEF Init, IdsUnique, Configured, Guarded, Repairing, NoRow
  <1> QED  BY <1>2, <1>3, InitShape DEF DimInv

LEMMA ConfiguredStep ==
  ASSUME Shape, Configured, [Next]_vars
  PROVE  Configured'
  <1>1. CASE User \/ UNCHANGED vars
    BY <1>1 DEF User, Edit, Remove, UpgradeExtractor, ClearCache, Reconfigure, AllIdle, Configured,
       vars, user
  <1>2. ASSUME NEW c \in Procs, Acts(c)
        PROVE  Configured'
    <2>1. CommandKept(c) /\ config' = config
      BY <1>2, CommandsKept DEF user
    <2> QED  BY <1>2, <2>1, ActsAlone DEF Alone, Configured, CommandKept, NoJob
  <1> QED  BY <1>1, <1>2 DEF Next, Acts

\* Only chunks of the configured dimension are stored.
LEMMA NewDims ==
  ASSUME Shape, Configured, [Next]_vars, NEW p \in Paths
  PROVE  \/ docs'[p].dim \in {0, config}
         \/ docs'[p].dim = docs[p].dim /\ docs'[p].id = docs[p].id
  <1>1. CASE User \/ UNCHANGED vars
    BY <1>1 DEF User, Edit, Remove, UpgradeExtractor, ClearCache, Reconfigure, db, vars
  <1>2. ASSUME NEW c \in Procs, Acts(c)
        PROVE  \/ docs'[p].dim \in {0, config}
               \/ docs'[p].dim = docs[p].dim /\ docs'[p].id = docs[p].id
    <2>0. docs[p] \in Row
      BY DEF Shape, TypeOK
    <2>1. CASE Creates(c, p) \/ docs'[p] = NoRow
      <3>1. [NoRow EXCEPT !.id = nextId, !.raw = job[c].raw].dim = 0 /\ NoRow.dim = 0
        BY DEF NoRow
      <3>2. docs'[p].dim = 0
        BY <2>1, <3>1 DEF Creates
      <3> QED  BY <3>2
    <2>2. CASE Replaces(c, p)
      <3>1. NewDim(c) \in {0, config}
        BY <2>2, Locals DEF Replaces, Configured, Fits, NewDim
      <3> QED  BY <2>0, <2>2, <3>1 DEF Replaces, Row
    <2>3. CASE Commits(c, p) \/ Locates(c, p)
      BY <2>0, <2>3 DEF Commits, Locates, Row
    <2> QED  BY <1>2, <2>1, <2>2, <2>3, RowChanges DEF RowChange
  <1> QED  BY <1>1, <1>2 DEF Next, Acts

LEMMA DimsFiniteStep ==
  ASSUME Shape, Configured, DimsFinite, [Next]_vars
  PROVE  DimsFinite'
  <1>1. StoredDims(0)' \subseteq StoredDims(0) \cup {config}
    BY NewDims DEF StoredDims, Exists
  <1>2. IsFiniteSet(StoredDims(0) \cup {config})
    BY FS_AddElement DEF DimsFinite
  <1>3. IsFiniteSet(StoredDims(0)')
    BY <1>1, <1>2, FS_Subset
  <1> QED  BY <1>3 DEF DimsFinite
\* The configuration changes only while no command runs.
LEMMA ConfigHeld ==
  ASSUME Shape, [Next]_vars
  PROVE  config' = config \/ (AllIdle /\ pc' = pc)
  BY CommandsKept DEF Next, Acts, User, Edit, Remove, UpgradeExtractor, ClearCache, Reconfigure,
     vars, user

\* How an ingest comes to store its document.
LEMMA ReachesReplace ==
  ASSUME Shape, NEW c \in Procs, Acts(c),
         pc'[c] \in {"create", "replace"}, job'[c].cmd = "ingest"
  PROVE  CheckDimension(c) \/ CreateDoc(c)
  <1>1. ASSUME NEW to, NEW j, Goto(c, to, j)
        PROVE  to \in {"create", "replace"} /\ j.cmd = "ingest"
    BY <1>1, Moved
  <1>2. ~GiveUp(c) /\ ~End(c)
    BY <1>1 DEF GiveUp, End
  <1>3. ~StartCommand(c) /\ ~Fault(c)
    <2>1. \A p \in Paths, noRaw \in NoRaw, force \in Forced : ~StartIngest(c, p, noRaw, force)
      BY <1>1 DEF StartIngest
    <2>2. ~StartReindex(c)
      <3>1. StartReindex(c) => \E j : Goto(c, "next", j)
        BY DEF StartReindex
      <3> QED  BY <1>1, <3>1
    <2>3. \A p \in Paths : ~StartDelete(c, p) /\ ~StartPreprocess(c, p)
      BY <1>1 DEF StartDelete, StartPreprocess
    <2> QED  BY <1>2, <2>1, <2>2, <2>3 DEF StartCommand, Fault, Abandon
  <1>4. ~CopySourceToRaw(c)
    BY <1>1, <1>2 DEF CopySourceToRaw, AlreadyArchived, CopyToTemp, NoSourceToCopy, RenameToRaw
  <1>5. ~ReadOrExtract(c)
    <2>1. ~CacheHit(c) /\ ~NoSourceToExtract(c) /\ ~CreateCache(c)
      BY <1>1, <1>2 DEF CacheHit, NoSourceToExtract, CreateCache
    <2>2. ~Extract(c)
      <3> DEFINE to == IF job[c].sha = None THEN Embedded(c) ELSE "write"
                 j  == [job[c] EXCEPT !.text = Source(c)]
      <3>1. j.cmd = job[c].cmd
        BY Locals DEF Job
      <3>2. to \in {"create", "replace"} => job[c].cmd # "ingest"
        BY DEF Embedded
      <3>3. Extract(c) => Goto(c, to, j)
        BY DEF Extract
      <3> HIDE DEF to, j
      <3> QED  BY <1>1, <3>1, <3>2, <3>3
    <2>3. ~FillCache(c)
      BY <1>1, <1>2 DEF FillCache, Embedded
    <2> QED  BY <2>1, <2>2, <2>3 DEF ReadOrExtract
  <1>6. ~ReplaceForDocument(c) /\ ~WriteAutoMetadata(c) /\ ~CommitSHA(c)
    BY <1>1, <1>2 DEF ReplaceForDocument, WriteAutoMetadata, CommitSHA
  <1>7. ~ReindexStep(c)
    <2>1. ASSUME NEW d \in job[c].todo, Locate(c, d) PROVE FALSE
      <3>1. job'[c] = Take(c, d) /\ pc[c] = "next"
        BY <2>1, Moved DEF Locate
      <3>2. Take(c, d).cmd = "reindex"
        BY <3>1, Locals DEF Take, Job, Fits
      <3> QED  BY <3>1, <3>2
    <2>2. (\A d \in job[c].todo : ~Skip(c, d)) /\ ~FinishReindex(c)
      BY <1>1, <1>2 DEF Skip, FinishReindex
    <2>3. ~SetRawPath(c)
      BY <1>1, Locals DEF SetRawPath, Fits
    <2> QED  BY <2>1, <2>2, <2>3 DEF ReindexStep
  <1>8. ~DeleteRow(c) /\ ~RemoveCache(c)
    BY <1>1, <1>2 DEF DeleteRow, RemoveCache
  <1> QED  BY <1>3, <1>4, <1>5, <1>6, <1>7, <1>8 DEF Acts, CommandStep, IngestStep

\* Storing chunks of the configured dimension makes no other dimension appear
\* among the other documents.
LEMMA GuardedStep ==
  ASSUME Shape, Configured, Guarded, [Next]_vars
  PROVE  Guarded'
  <1> SUFFICES ASSUME NEW o \in Procs, pc'[o] \in {"create", "replace"}, job'[o].cmd = "ingest"
               PROVE  NewDim(o)' # 0 => StoredDims(job[o].id)' \subseteq {config'}
    BY StepShape, Locals DEF Guarded, Shape, JobsFit, Fits
  <1> SUFFICES ASSUME NewDim(o)' # 0
               PROVE  StoredDims(job[o].id)' \subseteq {config'}
    OBVIOUS
  <1>1. CASE pc'[o] = pc[o] /\ job'[o] = job[o]
    <2>1. config' = config
      BY <1>1, ConfigHeld DEF AllIdle
    <2>2. StoredDims(job[o].id) \subseteq {config}
      BY <1>1 DEF Guarded, NewDim
    <2> QED  BY <1>1, <2>1, <2>2, NewDims DEF StoredDims, Exists
  <1>2. CASE ~(pc'[o] = pc[o] /\ job'[o] = job[o])
    <2>1. ~User /\ ~UNCHANGED vars
      BY <1>2 DEF User, Edit, Remove, UpgradeExtractor, ClearCache, Reconfigure, vars
    <2>2. PICK c \in Procs : Acts(c)
      BY <2>1 DEF Next, Acts
    <2>3. c = o
      BY <1>2, <2>2, ActsAlone DEF Alone
    <2>4. config' = config
      BY <2>2, CommandsKept DEF user
    <2>5. CASE CheckDimension(o)
      <3>1. ~GiveUp(o)
        BY Moved DEF GiveUp, End
      <3>2. /\ job'[o] = job[o] /\ docs' = docs /\ pc[o] = "guard"
            /\ NewDim(o) = 0 \/ StoredDims(job[o].id) \subseteq {NewDim(o)}
        BY <2>5, <3>1, Moved DEF CheckDimension, db
      <3>3. NewDim(o) # 0 => NewDim(o) = config
        BY <3>2, Locals DEF NewDim, Configured, Fits
      <3> QED  BY <2>4, <3>2, <3>3 DEF NewDim, StoredDims, Exists
    <2>6. CASE CreateDoc(o)
      <3> DEFINE j == [job[o] EXCEPT !.id = nextId]
                 r == [NoRow EXCEPT !.id = nextId, !.raw = job[o].raw]
      <3>1. ~GiveUp(o)
        <4>1. [job[o] EXCEPT !.clean = FALSE].cmd = job[o].cmd
          BY Locals DEF Job
        <4> QED  BY <4>1, Moved DEF GiveUp, End
      <3>2. /\ pc[o] = "create" /\ job'[o] = j /\ ~Exists(job[o].path)
            /\ docs' = [docs EXCEPT ![job[o].path] = r]
        BY <2>6, <3>1, Moved DEF CreateDoc
      <3>3. j.cmd = job[o].cmd /\ j.dim = job[o].dim /\ j.text = job[o].text /\ j.id = nextId
        BY Locals DEF Job
      <3>4. job[o].id = 0 /\ StoredDims(0) \subseteq {config}
        BY <3>2, <3>3 DEF Guarded, NewDim
      <3>5. r.dim = 0
        BY DEF NoRow
      <3> HIDE DEF j, r
      <3> QED  BY <2>4, <3>2, <3>4, <3>5 DEF StoredDims, Exists, Shape, TypeOK
    <2> QED  BY <2>2, <2>3, <2>5, <2>6, ReachesReplace
  <1> QED  BY <1>1, <1>2
\* A document leaves a reindex's list for its hand, and its hand with chunks
\* of the configured dimension, or with an error that the run remembers.
LEMMA RepairingStep ==
  ASSUME Shape, Configured, Repairing, [Next]_vars
  PROVE  Repairing'
  <1> SUFFICES ASSUME NEW o \in Procs, pc'[o] # "idle", job'[o].cmd = "reindex", job'[o].clean,
                      NEW p \in Paths, Exists(p)', docs'[p].dim \notin {0, job'[o].dim}
               PROVE  Listed(o, p)' \/ InHand(o, p)'
    BY DEF Repairing
  <1>0. docs[p] \in Row /\ job[o] \in Job
    BY Locals DEF Shape, TypeOK
  <1>1. CASE pc'[o] = pc[o] /\ job'[o] = job[o]
    <2>1. job[o].dim = config
      BY <1>1 DEF Configured
    <2>2. docs'[p].dim = docs[p].dim /\ docs'[p].id = docs[p].id
      BY <1>1, <2>1, NewDims
    <2> QED  BY <1>1, <2>2 DEF Repairing, Exists, Listed, InHand
  <1>2. CASE ~(pc'[o] = pc[o] /\ job'[o] = job[o])
    <2>1. ~User /\ ~UNCHANGED vars
      BY <1>2 DEF User, Edit, Remove, UpgradeExtractor, ClearCache, Reconfigure, vars
    <2>2. PICK c \in Procs : Acts(c)
      BY <2>1 DEF Next, Acts
    <2>3. c = o
      BY <1>2, <2>2, ActsAlone DEF Alone
    <2>4. Acts(o) /\ CommandKept(o)
      BY <2>2, <2>3, CommandsKept
    <2>5. job'[o].dim = config
      BY <2>4 DEF CommandKept, NoJob, Configured
    <2>6. docs'[p].dim = docs[p].dim /\ docs'[p].id = docs[p].id
      BY <2>5, NewDims
    <2>7. ~End(o) /\ ~GiveUp(o)
      <3>1. ~End(o)
        BY Moved DEF End
      <3>2. [job[o] EXCEPT !.clean = FALSE].clean = FALSE
        BY <1>0 DEF Job
      <3> QED  BY <3>1, <3>2, Moved DEF GiveUp
    <2>8. CASE StartCommand(o)
      <3>1. job'[o].todo = {Load(q) : q \in {r \in Paths : Exists(r)}}
        BY <2>8, Starts DEF StartsIngest, StartsPreprocess, StartsDelete, StartsReindex
      <3>2. Load(p) \in job'[o].todo
        BY <2>6, <3>1 DEF Exists
      <3>3. Load(p).path = p /\ Load(p).id = docs'[p].id
        BY <2>6 DEF Load
      <3> HIDE DEF Load
      <3> QED  BY <3>2, <3>3 DEF Listed
    <2>9. CASE pc[o] # "idle"
      <3>1. job[o].cmd = "reindex" /\ job[o].clean /\ job[o].dim = job'[o].dim
        BY <1>0, <2>4, <2>9 DEF CommandKept, NoJob, Job
      <3>2. Listed(o, p) \/ InHand(o, p)
        BY <2>6, <2>9, <3>1 DEF Repairing, Exists
      <3>3. CASE ReadOrExtract(o)
        <4>1. /\ pc'[o] \in {"write", "caching", "replace"}
              /\ job'[o].todo = job[o].todo /\ job'[o].path = job[o].path /\ job'[o].id = job[o].id
          BY <1>0, <2>7, <3>1, <3>3, Moved DEF ReadOrExtract, CacheHit, Extract,
             NoSourceToExtract, CreateCache, FillCache, Embedded, Job
        <4>2. pc[o] \in {"text", "write", "caching"}
          BY <3>3 DEF ReadOrExtract, CacheHit, Extract, NoSourceToExtract, CreateCache, FillCache
        <4> QED  BY <2>6, <3>2, <4>1, <4>2 DEF Listed, InHand
      <3>4. CASE ReplaceForDocument(o)
        <4>1. Alive(o) /\ job'[o] = job[o] /\ pc[o] = "replace"
          BY <2>7, <3>4, Moved DEF ReplaceForDocument
        <4>2. docs' = [docs EXCEPT ![job[o].path].text = job[o].text,
                                   ![job[o].path].dim = NewDim(o)]
          BY <3>4, <4>1 DEF ReplaceForDocument
        <4>3. p # job[o].path
          <5>1. p = job[o].path => docs'[p].dim = NewDim(o)
            BY <1>0, <4>2 DEF Shape, TypeOK, Row
          <5>2. NewDim(o) \in {0, job[o].dim}
            BY DEF NewDim
          <5> QED  BY <4>1, <5>1, <5>2
        <4> QED  BY <2>6, <3>2, <4>1, <4>3 DEF Listed, InHand
      <3>5. CASE WriteAutoMetadata(o)
        BY <2>6, <2>7, <3>2, <3>5, Moved DEF WriteAutoMetadata, Listed, InHand
      <3>6. ASSUME NEW d \in job[o].todo, Locate(o, d)
            PROVE  Listed(o, p)' \/ InHand(o, p)'
        <4>1. /\ pc[o] = "next" /\ pc'[o] \in {"setraw", "text", "replace"}
              /\ job'[o] = Take(o, d)
          BY <3>6, Moved DEF Locate, AfterLocate
        <4>2. /\ Take(o, d).path = d.path /\ Take(o, d).id = d.id
              /\ Take(o, d).todo = job[o].todo \ {d}
          BY <1>0 DEF Take, Job
        <4> QED  BY <2>6, <3>2, <4>1, <4>2 DEF Listed, InHand
      <3>7. ASSUME NEW d \in job[o].todo, Skip(o, d)
            PROVE  FALSE
        <4> DEFINE j == [job[o] EXCEPT !.todo = job[o].todo \ {d}, !.clean = FALSE]
        <4>1. Goto(o, "next", j)
          BY <3>7 DEF Skip
        <4>2. j.clean = FALSE
          BY <1>0 DEF Job
        <4> HIDE DEF j
        <4>3. job'[o].clean = FALSE
          BY <4>1, <4>2, Moved
        <4> QED  BY <4>3
      <3>8. CASE SetRawPath(o)
        BY <2>6, <3>2, <3>8, Moved DEF SetRawPath, AfterLocate, Listed, InHand
      <3>9. ~CopySourceToRaw(o) /\ ~CheckDimension(o) /\ ~CreateDoc(o) /\ ~CommitSHA(o)
        BY <3>1, Locals DEF CopySourceToRaw, AlreadyArchived, CopyToTemp, NoSourceToCopy,
           RenameToRaw, CheckDimension, CreateDoc, CommitSHA, Fits
      <3>10. ~DeleteRow(o) /\ ~RemoveCache(o) /\ ~FinishReindex(o) /\ ~Fault(o)
        BY <2>7, <3>1, Locals DEF DeleteRow, RemoveCache, FinishReindex, Fault, Abandon, Fits
      <3>11. CommandStep(o)
        BY <2>4, <2>9, <3>10 DEF Acts, StartCommand, StartIngest, StartPreprocess, StartReindex,
           StartDelete
      <3> QED  BY <3>3, <3>4, <3>5, <3>6, <3>7, <3>8, <3>9, <3>10, <3>11
               DEF CommandStep, IngestStep, ReindexStep
    <2> QED  BY <2>4, <2>8, <2>9, IdleStarts
  <1> QED  BY <1>1, <1>2

LEMMA IdsUniqueStep ==
  ASSUME Shape, IdsUnique, [Next]_vars
  PROVE  IdsUnique'
  <1>1. CASE User \/ UNCHANGED vars
    BY <1>1 DEF User, Edit, Remove, UpgradeExtractor, ClearCache, Reconfigure, db, vars, IdsUnique
  <1>2. ASSUME NEW c \in Procs, Acts(c)
        PROVE  IdsUnique'
    <2>1. \A p \in Paths : docs[p].id # nextId
      BY DEF Shape, TypeOK, IdsIssued, Row
    <2>2. ASSUME NEW p \in Paths
          PROVE  \/ docs'[p].id \in {docs[p].id, 0}
                 \/ p = job[c].path /\ docs'[p].id = nextId
      <3>1. docs[p] \in Row
        BY DEF Shape, TypeOK
      <3>2. [NoRow EXCEPT !.id = nextId, !.raw = job[c].raw].id = nextId /\ NoRow.id = 0
        BY DEF NoRow
      <3>3. Replaces(c, p) \/ Commits(c, p) \/ Locates(c, p) => docs'[p].id = docs[p].id
        BY <3>1 DEF Replaces, Commits, Locates, Row
      <3> QED  BY <1>2, <3>2, <3>3, RowChanges DEF RowChange, Creates
    <2> QED  BY <2>1, <2>2 DEF IdsUnique
  <1> QED  BY <1>1, <1>2 DEF Next, Acts

LEMMA StepDimInv == DimInv /\ [Next]_vars => DimInv'
  BY IdsUniqueStep, StepShape, ConfiguredStep, GuardedStep, RepairingStep, DimsFiniteStep DEF DimInv

\* DimInv holds in every reachable state.
THEOREM DimInvariance == Spec => []DimInv
  BY InitDimInv, StepDimInv, PTL DEF Spec

\* Whatever fails, whatever other commands do between the dimension guard of
\* an ingest and its insert, a step of an ingest or a delete leaves the stored
\* vectors all of one dimension, or brings in none that is not stored: so a
\* uniform knowledge base stays uniform and a mixed one gets no worse.  The
\* commands that overlap read one configuration (ingester.go:157-160,
\* chunk.go:120).
THEOREM IngestKeepsUniformAlways == Spec => IngestKeepsUniform
  <1> DEFINE NoReindex == \A c \in Procs : job[c].cmd # "reindex"
             Keeps == NoReindex => DimsUniform' \/ StoredDims(0)' \subseteq StoredDims(0)
  <1>1. DimInv /\ [Next]_vars => Keeps
    <2> SUFFICES ASSUME DimInv, [Next]_vars, NoReindex
                 PROVE  DimsUniform' \/ StoredDims(0)' \subseteq StoredDims(0)
      OBVIOUS
    <2>1. StoredDims(0)' \subseteq StoredDims(0) \/ StoredDims(0)' \subseteq {config}
      <3>1. ASSUME NEW p \in Paths, docs'[p].dim # 0,
                   ~(docs'[p].dim = docs[p].dim /\ docs'[p].id = docs[p].id)
            PROVE  StoredDims(0)' \subseteq {config}
        <4>1. PICK c \in Procs : Acts(c)
          BY <3>1 DEF Next, Acts, User, Edit, Remove, UpgradeExtractor, ClearCache, Reconfigure,
             db, vars
        <4>2. Replaces(c, p)
          <5>1. docs[p] \in Row
            BY DEF DimInv, Shape, TypeOK
          <5>2. ~(Commits(c, p) \/ Locates(c, p))
            BY <3>1, <5>1 DEF Commits, Locates, Row
          <5>3. ~(Creates(c, p) \/ docs'[p] = NoRow)
            <6>1. [NoRow EXCEPT !.id = nextId, !.raw = job[c].raw].dim = 0 /\ NoRow.dim = 0
              BY DEF NoRow
            <6> QED  BY <3>1, <6>1 DEF Creates
          <5> QED  BY <3>1, <4>1, <5>2, <5>3, RowChanges DEF DimInv, RowChange
        <4>3. docs'[p].dim = NewDim(c)
          BY <4>2 DEF Replaces, DimInv, Shape, TypeOK, Row
        <4>4. job[c].cmd = "ingest"
          BY <4>2, Locals DEF Replaces, DimInv, Fits
        <4>5. StoredDims(job[c].id) \subseteq {config} /\ docs[p].id = job[c].id
          BY <3>1, <4>2, <4>3, <4>4 DEF Replaces, DimInv, Guarded, Alive
        <4>6. ASSUME NEW q \in Paths, Exists(q)', docs'[q].dim # 0
              PROVE  docs'[q].dim = config
          <5>1. CASE q = p
            BY <3>1, <5>1, NewDims DEF DimInv
          <5>2. CASE q # p
            <6>1. p = job[c].path
              BY <4>2 DEF Replaces
            <6>2. docs'[q] = docs[q] \/ docs'[q] = NoRow
              BY <4>1, <5>2, <6>1, RowChanges
                 DEF DimInv, RowChange, Creates, Replaces, Commits, Locates
            <6>3. docs'[q] = docs[q]
              BY <4>6, <6>2 DEF NoRow
            <6>4. docs[q].id # job[c].id
              BY <4>5, <4>6, <5>2, <6>3 DEF DimInv, IdsUnique, Exists
            <6> QED  BY <4>5, <4>6, <6>3, <6>4 DEF StoredDims, Exists
          <5> QED  BY <5>1, <5>2
        <4> QED  BY <4>6 DEF StoredDims
      <3> QED  BY <3>1 DEF StoredDims, Exists
    <2>2. CASE StoredDims(0)' \subseteq {config}
      <3>1. /\ Cardinality(StoredDims(0)') <= Cardinality({config})
            /\ IsFiniteSet(StoredDims(0)')
        BY <2>2, FS_Singleton, FS_Subset
      <3>2. Cardinality(StoredDims(0)') \in Nat /\ Cardinality({config}) = 1
        BY <3>1, FS_CardinalityType, FS_Singleton
      <3> QED  BY <3>1, <3>2 DEF DimsUniform
    <2> QED  BY <2>1, <2>2
  <1>2. DimInv /\ [Next]_vars => [Keeps]_vars
    BY <1>1
  <1> QED  BY DimInvariance, <1>2, PTL DEF Spec, IngestKeepsUniform

\* A reindex that comes to the end of its list with no error behind it leaves
\* the dimension it started with alone in the table, whatever ingests and
\* deletes went on beside it (reindex.go:99-101).
THEOREM ReindexRepairsAlways == Spec => ReindexRepairs
  <1> DEFINE Alone0 == \A c \in Procs : job[c].cmd = "reindex" /\ pc[c] = "next" /\ job[c].clean
                          /\ job[c].todo = {} => StoredDims(0) \subseteq {job[c].dim}
  <1>1. DimInv => Alone0
    BY DEF DimInv, Repairing, Listed, InHand, StoredDims, Exists
  <1>2. DimInv /\ [Next]_vars => [Alone0]_vars
    BY <1>1
  <1> QED  BY DimInvariance, <1>2, PTL DEF Spec, ReindexRepairs
-----------------------------------------------------------------------------
(* What the stored copies hold *)

\* The archive is in use, nobody opts out of it, and the files do not change
\* under a running command.
FilesHold == Archive /\ NoRaw \subseteq {FALSE} /\ "race" \notin Faults

\* A command that hashed a file works on that content.
Hashed ==
    \A c \in Procs : pc[c] # "idle" /\ job[c].cmd \in {"ingest", "preprocess"}
        => job[c].sha = file[job[c].path]

\* Everything a command carries is of the content whose hash it carries.
Right(step, j) ==
    /\ step # "setraw"
    /\ step = "rename" => j.tmp = j.sha
    /\ step \notin {"idle", "archive", "rename"} /\ j.cmd = "ingest" => j.raw = j.sha
    /\ step \notin {"idle", "next"} /\ j.cmd = "reindex" /\ j.sha # None => j.raw = j.sha
    /\ j.cmd \in {"ingest", "preprocess"} => j.src = "live"
    /\ step = "text" /\ j.cmd = "reindex" /\ j.sha # None => j.src = "raw"
    /\ step \in {"write", "caching", "guard", "create", "replace"} /\ j.sha # None
           => j.text.of = j.sha
    /\ \A d \in j.todo : d.sha # None => d.raw = d.sha

JobsRight == \A c \in Procs : Right(pc[c], job[c])

\* A recorded hash comes with the archived copy of that content.
SourcesRecorded == \A p \in Paths : docs[p].sha # None => docs[p].raw = docs[p].sha

\* The archived copies that rows, commands and lists name are there, whole.
KnownInv == Shape /\ ChunksBehind /\ CopiesKnown /\ ArchiveIsWhole /\ ArchivedBeforeIndexed

LEMMA InitKnownInv == Init => KnownInv
  BY InitIInv DEF IInv, KnownInv

LEMMA StepKnownInv == KnownInv /\ [Next]_vars => KnownInv'
  BY StepShape, BehindStep, KnownStep, ArchivedStep, ArchiveGrows DEF KnownInv

CopyInv == KnownInv /\ Hashed /\ JobsRight /\ SourcesRecorded /\ ContentAddressed

LEMMA InitCopyInv == Init => CopyInv
  BY InitKnownInv DEF Init, CopyInv, Hashed, JobsRight, Right, SourcesRecorded, ContentAddressed,
     NoRow, NoJob, NoCopy, Present

LEMMA HashedStep ==
  ASSUME FilesHold, Shape, Hashed, [Next]_vars
  PROVE  Hashed'
  <1>1. CASE User \/ UNCHANGED vars
    BY <1>1 DEF User, Edit, Remove, UpgradeExtractor, ClearCache, Reconfigure, CanEdit, AllIdle,
       FilesHold, Hashed, vars, user
  <1>2. ASSUME NEW c \in Procs, Acts(c)
        PROVE  Hashed'
    <2>1. CommandKept(c) /\ file' = file
      BY <1>2, CommandsKept DEF user
    <2>2. Alone(c)
      BY <1>2, ActsAlone
    <2>3. ASSUME pc'[c] # "idle", job'[c].cmd \in {"ingest", "preprocess"}
          PROVE  job'[c].sha = file[job'[c].path]
      <3>1. CASE pc[c] = "idle"
        <4>1. StartCommand(c)
          BY <1>2, <3>1, IdleStarts
        <4> QED  BY <2>3, <4>1, Starts
                 DEF StartsIngest, StartsPreprocess, StartsDelete, StartsReindex
      <3>2. CASE pc[c] # "idle"
        BY <2>1, <2>3, <3>2 DEF CommandKept, Hashed
      <3> QED  BY <3>1, <3>2
    <2> QED  BY <2>1, <2>2, <2>3 DEF Hashed, Alone
  <1> QED  BY <1>1, <1>2 DEF Next, Acts

\* What a reindex takes up of a document whose hash is recorded.
LEMMA TakeRight ==
  ASSUME FilesHold, KnownInv, JobsRight, ContentAddressed,
         NEW c \in Procs, NEW d \in job[c].todo, Locate(c, d)
  PROVE  Right(pc'[c], job'[c])
  <1> DEFINE j == Take(c, d)
  <1>0. Shape
    BY DEF KnownInv
  <1>1. /\ job[c] \in Job /\ d \in Loaded /\ pc[c] = "next" /\ job[c].cmd = "reindex"
    BY <1>0, Locals DEF Locate, Job, Fits
  <1>2. d.sha # None => d.raw = d.sha
    BY DEF JobsRight, Right
  <1>3. d.raw # None => InArchive(d) /\ ArchivedName(d) = d.raw
    BY DEF KnownInv, CopiesKnown, Known, InArchive, ArchivedName, FilesHold
  <1>4. ~(InArchive(d) /\ ArchivedName(d) # d.raw)
    BY <1>2, <1>3 DEF InArchive, ArchivedName
  <1>5. /\ j.cmd = "reindex" /\ j.sha = d.sha /\ j.todo = job[c].todo \ {d}
        /\ j.raw = IF InArchive(d) THEN ArchivedName(d) ELSE d.raw
        /\ j.src = IF CachedText(d) \/ ~HasSource(d) THEN "cache"
                   ELSE IF InArchive(d) THEN "raw" ELSE "live"
        /\ CachedText(d) => j.text = cache[d.sha]
    BY <1>1 DEF Take, Job
  <1> HIDE DEF j
  <1>6. job'[c] = j /\ pc'[c] = AfterLocate(j)
    BY <1>0, <1>4, Moved DEF Locate, j
  <1>7. pc'[c] \in {"replace", "text"} /\ (pc'[c] = "replace" => j.src = "cache")
    BY <1>6 DEF AfterLocate
  <1>8. ASSUME d.sha # None
        PROVE  /\ j.raw = j.sha
               /\ j.src \in {"cache", "raw"}
               /\ j.src = "cache" => j.text.of = j.sha
    <2>1. j.raw = j.sha /\ InArchive(d)
      BY <1>2, <1>3, <1>5, <1>8
    <2>2. j.src = "cache" => CachedText(d)
      BY <1>5, <2>1 DEF HasSource
    <2>3. d.sha \in Contents
      BY <1>1, <1>8 DEF Loaded, Name
    <2>4. CachedText(d) => cache[d.sha].of = d.sha
      BY <2>3 DEF CachedText, ContentAddressed
    <2> QED  BY <1>5, <2>1, <2>2, <2>4
  <1>9. \A e \in j.todo : e.sha # None => e.raw = e.sha
    BY <1>5 DEF JobsRight, Right
  <1>10. Right(pc'[c], j)
    <2>1. pc'[c] = "text" => j.src # "cache"
      BY <1>6 DEF AfterLocate
    <2> QED  BY <1>5, <1>7, <1>8, <1>9, <2>1 DEF Right
  <1> QED  BY <1>6, <1>10

\* The text an extraction returns is that of the hash it is cached under.
LEMMA SourceRight ==
  ASSUME KnownInv, Hashed, JobsRight, ContentAddressed, NEW c \in Procs, pc[c] = "text",
         Present(Source(c)), job[c].sha # None
  PROVE  Source(c).of = job[c].sha
  <1>0. job[c] \in Job /\ Fits(pc[c], job[c]) /\ Right(pc[c], job[c])
    BY Locals DEF KnownInv, JobsRight
  <1>1. CASE job[c].src = "raw"
    <2>1. job[c].cmd = "reindex" /\ job[c].raw = job[c].sha
      BY <1>0, <1>1 DEF Fits, Right
    <2>2. job[c].sha \in Contents
      BY <1>0 DEF Job, Name
    <2> QED  BY <1>1, <2>1, <2>2 DEF Source, ContentAddressed
  <1>2. CASE job[c].src # "raw"
    <2>1. job[c].cmd \in {"ingest", "preprocess"}
      BY <1>0, <1>2 DEF Fits, Right
    <2>2. job[c].sha = file[job[c].path]
      BY <2>1 DEF Hashed
    <2> QED  BY <1>2, <2>2 DEF Source, Whole, NoCopy, Present
  <1> QED  BY <1>1, <1>2

LEMMA RightStep ==
  ASSUME FilesHold, CopyInv, [Next]_vars
  PROVE  JobsRight'
  <1> DEFINE Keeps(c) == Right(pc'[c], job'[c])
  <1>0. Shape /\ KnownInv /\ Hashed /\ JobsRight /\ SourcesRecorded /\ ContentAddressed
    BY DEF CopyInv, KnownInv
  <1>1. ASSUME NEW c \in Procs, End(c)
        PROVE  Keeps(c)
    BY <1>0, <1>1, Moved DEF End, Right, NoJob
  <1>2. ASSUME NEW c \in Procs, GiveUp(c)
        PROVE  Keeps(c)
    <2> DEFINE j == [job[c] EXCEPT !.clean = FALSE]
    <2>1. /\ j.cmd = job[c].cmd /\ j.src = job[c].src /\ j.todo = job[c].todo
      BY <1>0, Locals DEF Job
    <2>2. Right(pc[c], job[c])
      BY <1>0 DEF JobsRight
    <2>3. job[c].cmd = "reindex" => Right("next", j)
      BY <2>1, <2>2 DEF Right
    <2> HIDE DEF j
    <2>4. job[c].cmd = "reindex" => pc'[c] = "next" /\ job'[c] = j
      BY <1>0, <1>2, Moved DEF GiveUp, j
    <2> QED  BY <1>1, <1>2, <2>3, <2>4 DEF GiveUp
  <1>3. ASSUME NEW c \in Procs, StartCommand(c)
        PROVE  Keeps(c)
    <2>1. CASE StartsIngest(c)
      BY <2>1 DEF StartsIngest, Right, FilesHold
    <2>2. CASE StartsPreprocess(c)
      BY <2>2 DEF StartsPreprocess, Right
    <2>3. CASE StartsDelete(c)
      BY <2>3 DEF StartsDelete, Right
    <2>4. CASE StartsReindex(c)
      <3>1. \A d \in job'[c].todo : \E p \in Paths : d = Load(p)
        BY <2>4 DEF StartsReindex
      <3>2. \A p \in Paths : Load(p).sha = docs[p].sha /\ Load(p).raw = docs[p].raw
        BY DEF Load
      <3>3. \A d \in job'[c].todo : d.sha # None => d.raw = d.sha
        BY <1>0, <3>1, <3>2 DEF SourcesRecorded
      <3> QED  BY <2>4, <3>3 DEF StartsReindex, Right
    <2> QED  BY <1>0, <1>3, <2>1, <2>2, <2>3, <2>4, Starts
  <1>4. ASSUME NEW c \in Procs, CopySourceToRaw(c)
        PROVE  Keeps(c)
    <2>0. job[c] \in Job /\ Fits(pc[c], job[c]) /\ Right(pc[c], job[c])
      BY <1>0, Locals DEF JobsRight
    <2>1. CASE AlreadyArchived(c) \/ RenameToRaw(c)
      <3> DEFINE j == [job[c] EXCEPT !.raw = job[c].sha]
      <3>1. pc[c] \in {"archive", "rename"} /\ pc'[c] = "text" /\ job'[c] = j
        BY <1>0, <2>1, Moved DEF AlreadyArchived, RenameToRaw
      <3>2. /\ j.cmd = "ingest" /\ j.raw = j.sha /\ j.src = job[c].src /\ j.todo = job[c].todo
            /\ job[c].cmd = "ingest"
        BY <2>0, <3>1 DEF Job, Fits
      <3> HIDE DEF j
      <3> QED  BY <2>0, <3>1, <3>2 DEF Right
    <2>2. CASE CopyToTemp(c)
      <3> DEFINE j == [job[c] EXCEPT !.tmp = file[job[c].path]]
      <3>1. pc[c] = "archive" /\ pc'[c] = "rename" /\ job'[c] = j
        BY <1>0, <2>2, Moved DEF CopyToTemp
      <3>2. job[c].sha = file[job[c].path]
        BY <1>0, <2>0, <3>1 DEF Hashed, Fits
      <3>3. /\ j.cmd = "ingest" /\ j.tmp = j.sha /\ j.src = job[c].src /\ j.todo = job[c].todo
            /\ job[c].cmd = "ingest"
        BY <2>0, <3>1, <3>2 DEF Job, Fits
      <3> HIDE DEF j
      <3> QED  BY <2>0, <3>1, <3>3 DEF Right
    <2>3. CASE NoSourceToCopy(c)
      BY <1>1, <2>3 DEF NoSourceToCopy
    <2> QED  BY <1>4, <2>1, <2>2, <2>3 DEF CopySourceToRaw
  <1>5. ASSUME NEW c \in Procs, ReadOrExtract(c)
        PROVE  Keeps(c)
    <2>0. job[c] \in Job /\ Fits(pc[c], job[c]) /\ Right(pc[c], job[c])
      BY <1>0, Locals DEF JobsRight
    <2>1. CASE CacheHit(c)
      <3> DEFINE j == [job[c] EXCEPT !.text = cache[job[c].sha]]
      <3>1. pc[c] = "text" /\ pc'[c] = "guard" /\ job'[c] = j
        BY <1>0, <2>1, Moved DEF CacheHit
      <3>2. cache[job[c].sha].of = job[c].sha
        <4>1. job[c].sha \in Contents /\ Present(cache[job[c].sha])
          BY <2>0, <2>1 DEF CacheHit, Fits, Job, Name
        <4> QED  BY <1>0, <4>1 DEF ContentAddressed
      <3>3. /\ j.cmd = "ingest" /\ j.text.of = j.sha /\ j.src = job[c].src
            /\ j.todo = job[c].todo /\ j.raw = job[c].raw /\ j.sha = job[c].sha
            /\ job[c].cmd = "ingest"
        BY <2>0, <2>1, <3>2 DEF Job, CacheHit
      <3> HIDE DEF j
      <3> QED  BY <2>0, <3>1, <3>3 DEF Right
    <2>2. CASE Extract(c)
      <3> DEFINE to == IF job[c].sha = None THEN Embedded(c) ELSE "write"
                 j  == [job[c] EXCEPT !.text = Source(c)]
      <3>1. pc[c] = "text" /\ pc'[c] = to /\ job'[c] = j /\ Present(Source(c))
        BY <1>0, <2>2, Moved DEF Extract
      <3>2. job[c].sha # None => Source(c).of = job[c].sha
        BY <1>0, <3>1, SourceRight
      <3>3. /\ j.cmd = job[c].cmd /\ j.text = Source(c) /\ j.src = job[c].src
            /\ j.todo = job[c].todo /\ j.raw = job[c].raw /\ j.sha = job[c].sha
        BY <2>0 DEF Job
      <3>4. to \in {"guard", "replace", "write"}
        BY DEF Embedded
      <3> HIDE DEF j, to
      <3> QED  BY <2>0, <3>1, <3>2, <3>3, <3>4 DEF Right
    <2>3. CASE NoSourceToExtract(c)
      BY <1>2, <2>3 DEF NoSourceToExtract
    <2>4. CASE CreateCache(c)
      <3>1. pc[c] = "write" /\ pc'[c] = "caching" /\ job'[c] = job[c]
        BY <1>0, <2>4, Moved DEF CreateCache
      <3> QED  BY <2>0, <3>1 DEF Right
    <2>5. CASE FillCache(c)
      <3>1. CASE job[c].cmd = "preprocess"
        BY <1>1, <2>5, <3>1 DEF FillCache
      <3>2. CASE job[c].cmd # "preprocess"
        <4>1. pc[c] = "caching" /\ pc'[c] = Embedded(c) /\ job'[c] = job[c]
          BY <1>0, <2>5, <3>2, Moved DEF FillCache
        <4>2. Embedded(c) \in {"guard", "replace"}
          BY DEF Embedded
        <4> QED  BY <2>0, <4>1, <4>2 DEF Right
      <3> QED  BY <3>1, <3>2
    <2> QED  BY <1>5, <2>1, <2>2, <2>3, <2>4, <2>5 DEF ReadOrExtract
  <1>6. ASSUME NEW c \in Procs, pc'[c] \notin {"text", "rename", "setraw"}, job'[c] = job[c],
               pc[c] \notin {"idle", "archive", "rename", "next"},
               pc'[c] \in {"write", "caching", "guard", "create", "replace"}
                   => pc[c] \in {"write", "caching", "guard", "create", "replace"}
        PROVE  Keeps(c)
    BY <1>0, <1>6 DEF JobsRight, Right
  <1>7. ASSUME NEW c \in Procs,
               CheckDimension(c) \/ WriteAutoMetadata(c) \/ CommitSHA(c) \/ ReplaceForDocument(c)
        PROVE  Keeps(c)
    <2>1. CASE End(c) \/ GiveUp(c)
      BY <1>1, <1>2, <2>1
    <2>2. CASE ~(End(c) \/ GiveUp(c))
      <3>1. /\ job'[c] = job[c]
            /\ pc[c] \in {"guard", "replace", "meta"}
            /\ pc'[c] \in {"create", "replace", "meta", "commit", "next"}
            /\ pc'[c] \in {"create", "replace"} => pc[c] = "guard"
        BY <1>0, <1>7, <2>2, Moved DEF CheckDimension, WriteAutoMetadata, CommitSHA,
           ReplaceForDocument
      <3> QED  BY <1>6, <3>1
    <2> QED  BY <2>1, <2>2
  <1>8. ASSUME NEW c \in Procs, CreateDoc(c)
        PROVE  Keeps(c)
    <2> DEFINE j == [job[c] EXCEPT !.id = nextId]
    <2>1. CASE GiveUp(c)
      BY <1>2, <2>1
    <2>2. CASE ~GiveUp(c)
      <3>1. pc[c] = "create" /\ pc'[c] = "replace" /\ job'[c] = j
        BY <1>0, <1>8, <2>2, Moved DEF CreateDoc
      <3>2. /\ j.cmd = job[c].cmd /\ j.text = job[c].text /\ j.src = job[c].src
            /\ j.todo = job[c].todo /\ j.raw = job[c].raw /\ j.sha = job[c].sha
        BY <1>0, Locals DEF Job
      <3> HIDE DEF j
      <3> QED  BY <1>0, <3>1, <3>2 DEF JobsRight, Right
    <2> QED  BY <2>1, <2>2
  <1>9. ASSUME NEW c \in Procs, ReindexStep(c)
        PROVE  Keeps(c)
    <2>1. ASSUME NEW d \in job[c].todo, Locate(c, d)
          PROVE  Keeps(c)
      BY <1>0, <2>1, TakeRight
    <2>2. ASSUME NEW d \in job[c].todo, Skip(c, d)
          PROVE  Keeps(c)
      <3> DEFINE j == [job[c] EXCEPT !.todo = job[c].todo \ {d}, !.clean = FALSE]
      <3>1. pc'[c] = "next" /\ job'[c] = j
        BY <1>0, <2>2, Moved DEF Skip
      <3>2. /\ j.cmd = job[c].cmd /\ j.src = job[c].src /\ j.todo = job[c].todo \ {d}
            /\ job[c].cmd = "reindex"
        BY <1>0, <2>2, Locals DEF Job, Skip, Fits
      <3> HIDE DEF j
      <3> QED  BY <1>0, <3>1, <3>2 DEF JobsRight, Right
    <2>3. ~SetRawPath(c)
      BY <1>0 DEF JobsRight, Right, SetRawPath
    <2> QED  BY <1>1, <1>9, <2>1, <2>2, <2>3 DEF ReindexStep, FinishReindex
  <1>10. ASSUME NEW c \in Procs, DeleteRow(c) \/ RemoveCache(c) \/ Fault(c)
         PROVE  Keeps(c)
    <2>1. CASE End(c) \/ GiveUp(c)
      BY <1>1, <1>2, <2>1
    <2>2. CASE ~(End(c) \/ GiveUp(c))
      <3>1. pc[c] = "delrow" /\ pc'[c] = "delcache" /\ job'[c] = job[c]
        BY <1>0, <1>10, <2>2, Moved DEF DeleteRow, RemoveCache, Fault, Abandon
      <3> QED  BY <1>6, <3>1
    <2> QED  BY <2>1, <2>2
  <1>11. ASSUME NEW c \in Procs, Acts(c)
         PROVE  JobsRight'
    <2>1. Keeps(c)
      BY <1>3, <1>4, <1>5, <1>7, <1>8, <1>9, <1>10, <1>11 DEF Acts, CommandStep, IngestStep
    <2> QED  BY <1>0, <1>11, <2>1, ActsAlone DEF JobsRight, Alone
  <1>12. CASE User \/ UNCHANGED vars
    BY <1>0, <1>12 DEF User, Edit, Remove, UpgradeExtractor, ClearCache, Reconfigure, vars,
       JobsRight
  <1> QED  BY <1>11, <1>12 DEF Next, Acts
LEMMA RecordedStep ==
  ASSUME Shape, JobsRight, SourcesRecorded, [Next]_vars
  PROVE  SourcesRecorded'
  <1>1. CASE User \/ UNCHANGED vars
    BY <1>1 DEF User, Edit, Remove, UpgradeExtractor, ClearCache, Reconfigure, db, vars,
       SourcesRecorded
  <1>2. ASSUME NEW c \in Procs, Acts(c), NEW p \in Paths, docs'[p].sha # None
        PROVE  docs'[p].raw = docs'[p].sha
    <2>1. docs[p] \in Row
      BY DEF Shape, TypeOK
    <2>2. CASE docs'[p] = docs[p]
      BY <1>2, <2>2 DEF SourcesRecorded
    <2>3. ~(Creates(c, p) \/ docs'[p] = NoRow)
      <3>1. [NoRow EXCEPT !.id = nextId, !.raw = job[c].raw].sha = None /\ NoRow.sha = None
        BY DEF NoRow
      <3> QED  BY <1>2, <3>1 DEF Creates
    <2>4. CASE Replaces(c, p)
      BY <1>2, <2>1, <2>4 DEF Replaces, SourcesRecorded, Row
    <2>5. CASE Commits(c, p)
      <3>1. job[c].raw = job[c].sha
        BY <2>5, Locals DEF Commits, JobsRight, Right, Fits
      <3> QED  BY <2>1, <2>5, <3>1 DEF Commits, Row
    <2>6. ~Locates(c, p)
      BY DEF Locates, JobsRight, Right
    <2> QED  BY <1>2, <2>2, <2>3, <2>4, <2>5, <2>6, RowChanges DEF RowChange
  <1> QED  BY <1>1, <1>2 DEF Next, Acts, SourcesRecorded

\* The ways a step may change the copies named after content x.
CopyChange(x) ==
    \/ raw'[x] = raw[x] /\ cache'[x] = cache[x] /\ older'[x] = older[x]
    \/ /\ raw'[x] = raw[x]
       /\ cache'[x] = NoCopy /\ older'[x] \in {NoCopy, older[x], cache[x]}
    \/ \E c \in Procs :
        /\ pc[c] = "rename" /\ job[c].sha = x
        /\ raw'[x] = Whole(job[c].tmp) /\ cache'[x] = cache[x] /\ older'[x] = older[x]
    \/ \E c \in Procs :
        /\ pc[c] \in {"write", "caching"} /\ job[c].sha = x
        /\ cache'[x] = IF pc[c] = "write" THEN Torn(job[c].text.of) ELSE job[c].text
        /\ raw'[x] = raw[x] /\ older'[x] = older[x]

LEMMA CopyChanges ==
  ASSUME Shape, [Next]_vars, NEW x \in Contents
  PROVE  CopyChange(x)
  <1>0. UNCHANGED disk => CopyChange(x)
    BY DEF CopyChange, disk
  <1>1. CASE User \/ UNCHANGED vars
    <2>1. CASE UpgradeExtractor
      BY <2>1 DEF UpgradeExtractor, CopyChange
    <2>2. CASE ClearCache
      BY <2>2 DEF ClearCache, CopyChange
    <2> QED  BY <1>0, <1>1, <2>1, <2>2 DEF User, Edit, Remove, Reconfigure, vars
  <1>2. ASSUME NEW c \in Procs, Acts(c)
        PROVE  CopyChange(x)
    <2>1. CASE RenameToRaw(c)
      BY <1>0, <2>1 DEF RenameToRaw, CopyChange, Shape, TypeOK, disk
    <2>2. CASE CreateCache(c)
      BY <1>0, <2>2 DEF CreateCache, CopyChange, Shape, TypeOK, disk
    <2>3. CASE FillCache(c)
      BY <1>0, <2>3 DEF FillCache, CopyChange, Shape, TypeOK, disk
    <2>4. CASE RemoveCache(c)
      BY <1>0, <2>4 DEF RemoveCache, CopyChange, Shape, TypeOK, disk
    <2>5. CASE StartCommand(c) \/ Fault(c)
      BY <1>0, <2>5 DEF StartCommand, StartIngest, StartPreprocess, StartReindex, StartDelete,
         Fault, Abandon
    <2>6. CASE CommandStep(c) /\ ~RenameToRaw(c) /\ ~CreateCache(c) /\ ~FillCache(c)
               /\ ~RemoveCache(c)
      BY <1>0, <2>6 DEF CommandStep, IngestStep, CopySourceToRaw, AlreadyArchived, CopyToTemp,
         NoSourceToCopy, ReadOrExtract, CacheHit, Extract, NoSourceToExtract, CheckDimension,
         CreateDoc, ReplaceForDocument, WriteAutoMetadata, CommitSHA, ReindexStep, Locate, Skip,
         SetRawPath, FinishReindex, DeleteRow, disk
    <2> QED  BY <1>2, <2>1, <2>2, <2>3, <2>4, <2>5, <2>6 DEF Acts
  <1> QED  BY <1>1, <1>2 DEF Next, Acts

LEMMA AddressedStep ==
  ASSUME Shape, JobsRight, ContentAddressed, [Next]_vars
  PROVE  ContentAddressed'
  <1> SUFFICES ASSUME NEW x \in Contents
               PROVE  /\ Present(raw'[x]) => raw'[x].of = x
                      /\ Present(cache'[x]) => cache'[x].of = x
                      /\ Present(older'[x]) => older'[x].of = x
    BY DEF ContentAddressed
  <1>1. /\ Present(raw[x]) => raw[x].of = x
        /\ Present(cache[x]) => cache[x].of = x
        /\ Present(older[x]) => older[x].of = x
        /\ ~Present(NoCopy)
    BY DEF ContentAddressed, Present, NoCopy
  <1>2. x # None
    BY StoreAssumption
  <1>3. ASSUME NEW c \in Procs, pc[c] = "rename", job[c].sha = x
        PROVE  Whole(job[c].tmp).of = x
    BY <1>3 DEF JobsRight, Right, Whole
  <1>4. ASSUME NEW c \in Procs, pc[c] \in {"write", "caching"}, job[c].sha = x
        PROVE  Torn(job[c].text.of).of = x /\ job[c].text.of = x
    BY <1>2, <1>4 DEF JobsRight, Right, Torn
  <1> QED  BY <1>1, <1>3, <1>4, CopyChanges DEF CopyChange

LEMMA StepCopyInv ==
  ASSUME FilesHold
  PROVE  CopyInv /\ [Next]_vars => CopyInv'
  <1> SUFFICES ASSUME CopyInv, [Next]_vars PROVE CopyInv'
    OBVIOUS
  <1>1. KnownInv /\ Shape
    BY DEF CopyInv, KnownInv
  <1>2. KnownInv'
    BY <1>1, StepKnownInv
  <1>3. Hashed' /\ JobsRight' /\ SourcesRecorded' /\ ContentAddressed'
    BY <1>1, HashedStep, RightStep, RecordedStep, AddressedStep DEF CopyInv
  <1> QED  BY <1>2, <1>3 DEF CopyInv

\* With the archive in use, CopyInv holds in every reachable state.
THEOREM CopyInvariance == FilesHold => (Spec => []CopyInv)
  <1> SUFFICES ASSUME FilesHold PROVE Spec => []CopyInv
    OBVIOUS
  <1>1. CopyInv /\ [Next]_vars => CopyInv'
    BY StepCopyInv
  <1> QED  BY InitCopyInv, <1>1, PTL DEF Spec

\* While nobody opts out of the archive and files change only between
\* commands, no copy of the archive or of the cache ever holds another content
\* than the one it is named after, wherever commands stop and however they
\* interleave (ingester.go:368-442).
THEOREM ContentAddressedAlways == FilesHold => (Spec => []ContentAddressed)
  <1>1. CopyInv => ContentAddressed
    BY DEF CopyInv
  <1> QED  BY CopyInvariance, <1>1, PTL

\* Under the same conditions a row whose hash is recorded names the archived
\* copy of that very content (ingester.go:214-215, reindex.go:156-167).
THEOREM RecordedCopyIsCurrentAlways == FilesHold => (Spec => []RecordedCopyIsCurrent)
  <1>1. CopyInv => RecordedCopyIsCurrent
    BY DEF CopyInv, SourcesRecorded, RecordedCopyIsCurrent
  <1> QED  BY CopyInvariance, <1>1, PTL
-----------------------------------------------------------------------------
(* What an ingest skips *)

\* One command at a time, no content comes back, and a cache write runs to
\* its end.
OneByOne ==
    /\ FilesHold
    /\ \A c, d \in Procs : c = d
    /\ ~Reverts
    /\ "torn" \notin Faults

\* At most one command runs.
OneRuns == \A c, o \in Procs : c # o => pc[c] = "idle" \/ pc[o] = "idle"

\* Whatever is in a file or recorded has been seen.
AllSeen ==
    \A p \in Paths : /\ file[p] # None => file[p] \in seen
                     /\ docs[p].sha # None => docs[p].sha \in seen

\* No cached text is truncated but the one being written.
CacheIsWhole ==
    \A x \in Contents :
        /\ Present(older[x]) => older[x].whole
        /\ Present(cache[x]) => \/ cache[x].whole
                                \/ \E c \in Procs : pc[c] = "caching" /\ job[c].sha = x

\* No command is about to store a truncated text.
TextWhole ==
    \A c \in Procs : pc[c] \in {"write", "caching", "guard", "create", "replace"}
        => job[c].text.whole

\* An ingest about to record a hash has stored the text of that content.
StoredBeforeRecorded ==
    \A c \in Procs : pc[c] \in {"meta", "commit"} /\ job[c].cmd = "ingest" /\ Alive(c)
        => docs[job[c].path].text = Whole(job[c].sha)

\* The hashes a reindex loaded are still the recorded ones.
ListCurrent ==
    \A c \in Procs : pc[c] # "idle" /\ job[c].cmd = "reindex" =>
        /\ \A d \in job[c].todo : docs[d.path].sha = d.sha
        /\ pc[c] # "next" => docs[job[c].path].sha = job[c].sha

SkipInv ==
    /\ CopyInv
    /\ AllSeen
    /\ CacheIsWhole
    /\ TextWhole
    /\ StoredBeforeRecorded
    /\ ListCurrent
    /\ SkipMeansIndexed

LEMMA InitSkipInv == Init => SkipInv
  BY InitCopyInv DEF Init, SkipInv, AllSeen, CacheIsWhole, TextWhole, StoredBeforeRecorded,
     ListCurrent, SkipMeansIndexed, NoRow, NoCopy, Present

\* A command that takes a step beside one that runs only starts.
LEMMA OthersIdle ==
  ASSUME OneRuns, Shape, NEW c \in Procs, Acts(c), NEW o \in Procs \ {c}, pc'[o] # "idle"
  PROVE  pc'[o] = pc[o] /\ job'[o] = job[o] /\ docs' = docs
  <1>1. pc'[o] = pc[o] /\ job'[o] = job[o]
    BY ActsAlone DEF Alone
  <1>2. pc[c] = "idle"
    BY <1>1 DEF OneRuns
  <1>3. StartCommand(c)
    BY <1>2, IdleStarts
  <1> QED  BY <1>1, <1>3, Starts DEF db

\* A text taken from a whole copy of content x is the whole of x.
LEMMA WholeCopy ==
  ASSUME NEW copy \in Copy, NEW x, copy.of = x, copy.whole
  PROVE  copy = Whole(x)
  BY DEF Copy, Whole

\* The text a command stores, when it stores it under a hash.
LEMMA StoresWhole ==
  ASSUME CopyInv, TextWhole, NEW c \in Procs, pc[c] = "replace", job[c].sha # None
  PROVE  job[c].text = Whole(job[c].sha)
  <1>1. job[c].text \in Copy
    BY Locals DEF CopyInv, KnownInv, Job
  <1>2. job[c].text.of = job[c].sha /\ job[c].text.whole
    BY DEF CopyInv, JobsRight, Right, TextWhole
  <1> QED  BY <1>1, <1>2, WholeCopy

LEMMA SeenStep ==
  ASSUME Shape, Hashed, AllSeen, [Next]_vars
  PROVE  AllSeen'
  <1>1. CASE User \/ UNCHANGED vars
    BY <1>1 DEF User, Edit, Remove, UpgradeExtractor, ClearCache, Reconfigure, vars, db, user,
       AllSeen, Shape, TypeOK
  <1>2. ASSUME NEW c \in Procs, Acts(c), NEW p \in Paths
        PROVE  /\ file'[p] # None => file'[p] \in seen'
               /\ docs'[p].sha # None => docs'[p].sha \in seen'
    <2>0. UNCHANGED user /\ docs[p] \in Row
      BY <1>2, CommandsKept DEF Shape, TypeOK
    <2>1. docs'[p].sha \in {docs[p].sha, None} \/ Commits(c, p)
      <3>1. [NoRow EXCEPT !.id = nextId, !.raw = job[c].raw].sha = None /\ NoRow.sha = None
        BY DEF NoRow
      <3>2. Replaces(c, p) \/ Locates(c, p) => docs'[p].sha = docs[p].sha
        BY <2>0 DEF Replaces, Locates, Row
      <3> QED  BY <1>2, <3>1, <3>2, RowChanges DEF RowChange, Creates
    <2>2. ASSUME Commits(c, p)
          PROVE  docs'[p].sha = file[p]
      <3>1. job[c].sha = file[p]
        BY <2>2, Locals DEF Commits, Hashed, Fits
      <3> QED  BY <2>0, <2>2, <3>1 DEF Commits, Row
    <2> QED  BY <2>0, <2>1, <2>2 DEF AllSeen, user
  <1> QED  BY <1>1, <1>2 DEF Next, Acts, AllSeen

\* A cache write runs to its end.
WritesEnd == \A c \in Procs : pc[c] = "caching" /\ Acts(c) => CommandStep(c)

LEMMA CacheWholeStep ==
  ASSUME WritesEnd, Shape, CacheIsWhole, TextWhole, [Next]_vars
  PROVE  CacheIsWhole'
  <1>1. CASE User \/ UNCHANGED vars
    <2>1. CASE UpgradeExtractor
      BY <2>1 DEF UpgradeExtractor, AllIdle, CacheIsWhole, Present, NoCopy
    <2>2. CASE ClearCache
      BY <2>2 DEF ClearCache, CacheIsWhole, Present, NoCopy
    <2> QED  BY <1>1, <2>1, <2>2 DEF User, Edit, Remove, Reconfigure, vars, disk, CacheIsWhole
  <1>2. ASSUME NEW c \in Procs, Acts(c)
        PROVE  CacheIsWhole'
    <2>0. \A o \in Procs \ {c} : pc'[o] = pc[o] /\ job'[o] = job[o]
      BY <1>2, ActsAlone DEF Alone
    <2>1. CASE CreateCache(c)
      <3>1. pc'[c] = "caching" /\ job'[c] = job[c] /\ pc[c] = "write"
        BY <2>1, Moved DEF CreateCache
      <3> QED  BY <2>0, <2>1, <3>1 DEF CreateCache, CacheIsWhole, Shape, TypeOK
    <2>2. CASE FillCache(c)
      <3>1. job[c].text.whole /\ pc[c] = "caching"
        BY <2>2 DEF FillCache, TextWhole
      <3> QED  BY <2>0, <2>2, <3>1 DEF FillCache, CacheIsWhole, Shape, TypeOK
    <2>3. CASE RemoveCache(c)
      BY <2>0, <2>3 DEF RemoveCache, CacheIsWhole, Shape, TypeOK, Present, NoCopy
    <2>4. CASE ~CreateCache(c) /\ ~FillCache(c) /\ ~RemoveCache(c)
      <3>1. pc[c] # "caching"
        <4>1. pc[c] = "caching" => CommandStep(c)
          BY <1>2 DEF WritesEnd
        <4> QED  BY <2>4, <4>1
             DEF CommandStep, IngestStep, CopySourceToRaw, AlreadyArchived, CopyToTemp,
             NoSourceToCopy, RenameToRaw, ReadOrExtract, CacheHit, Extract, NoSourceToExtract,
             CheckDimension, CreateDoc, ReplaceForDocument, WriteAutoMetadata, CommitSHA,
             ReindexStep, Locate, Skip, SetRawPath, FinishReindex, DeleteRow
      <3>2. cache' = cache /\ older' = older
        BY <1>2, <2>4
           DEF Acts, StartCommand, StartIngest, StartPreprocess, StartReindex, StartDelete,
           Fault, Abandon, CommandStep, IngestStep, CopySourceToRaw, AlreadyArchived, CopyToTemp,
           NoSourceToCopy, RenameToRaw, ReadOrExtract, CacheHit, Extract, NoSourceToExtract,
           CheckDimension, CreateDoc, ReplaceForDocument, WriteAutoMetadata, CommitSHA,
           ReindexStep, Locate, Skip, SetRawPath, FinishReindex, DeleteRow, disk
      <3> QED  BY <2>0, <3>1, <3>2 DEF CacheIsWhole
    <2> QED  BY <2>1, <2>2, <2>3, <2>4
  <1> QED  BY <1>1, <1>2 DEF Next, Acts

LEMMA TextWholeStep ==
  ASSUME FilesHold, OneRuns, CopyInv, CacheIsWhole, TextWhole, [Next]_vars
  PROVE  TextWhole'
  <1> DEFINE Carry == {"write", "caching", "guard", "create", "replace"}
             Keeps(c) == pc'[c] \in Carry => job'[c].text.whole
  <1>0. Shape /\ KnownInv
    BY DEF CopyInv, KnownInv
  <1>1. ASSUME NEW c \in Procs, NEW to, NEW j, Goto(c, to, j), to \notin Carry
        PROVE  Keeps(c)
    BY <1>0, <1>1, Moved
  <1>2. ASSUME NEW c \in Procs, End(c) \/ GiveUp(c)
        PROVE  Keeps(c)
    BY <1>1, <1>2 DEF End, GiveUp
  <1>3. ASSUME NEW c \in Procs, pc[c] \in Carry, job'[c] = job[c]
        PROVE  Keeps(c)
    BY <1>3 DEF TextWhole
  <1>4. ASSUME NEW c \in Procs, StartCommand(c)
        PROVE  Keeps(c)
    BY <1>0, <1>4, Starts DEF StartsIngest, StartsPreprocess, StartsDelete, StartsReindex
  <1>5. ASSUME NEW c \in Procs, CopySourceToRaw(c)
        PROVE  Keeps(c)
    BY <1>1, <1>2, <1>5 DEF CopySourceToRaw, AlreadyArchived, CopyToTemp, NoSourceToCopy,
       RenameToRaw
  <1>6. ASSUME NEW c \in Procs, CacheHit(c)
        PROVE  Keeps(c)
    <2> DEFINE j == [job[c] EXCEPT !.text = cache[job[c].sha]]
    <2>1. job'[c] = j /\ pc[c] = "text" /\ job[c].cmd = "ingest" /\ Present(cache[job[c].sha])
      BY <1>0, <1>6, Moved DEF CacheHit
    <2>2. job[c].sha \in Contents /\ j.text = cache[job[c].sha]
      BY <1>0, <2>1, Locals DEF Fits, Job, Name
    <2>3. cache[job[c].sha].whole
      <3>1. \A o \in Procs : pc[o] # "caching"
        BY <2>1 DEF OneRuns
      <3> QED  BY <2>1, <2>2, <3>1 DEF CacheIsWhole
    <2> QED  BY <2>1, <2>2, <2>3
  <1>7. ASSUME NEW c \in Procs, Extract(c)
        PROVE  Keeps(c)
    <2> DEFINE j == [job[c] EXCEPT !.text = Source(c)]
    <2>1. job'[c] = j /\ pc[c] = "text" /\ Present(Source(c))
      BY <1>0, <1>7, Moved DEF Extract
    <2>2. j.text = Source(c)
      BY <1>0, Locals DEF Job
    <2>3. Source(c).whole
      <3>1. CASE job[c].src = "raw"
        <4>1. job[c].raw \in Contents
          BY <1>0, <2>1, <3>1, Locals DEF Fits, Job, Name
        <4> QED  BY <1>0, <2>1, <3>1, <4>1 DEF Source, KnownInv, ArchiveIsWhole
      <3>2. CASE job[c].src # "raw"
        BY <2>1, <3>2 DEF Source, Present, NoCopy, Whole
      <3> QED  BY <3>1, <3>2
    <2> QED  BY <2>1, <2>2, <2>3
  <1>8. ASSUME NEW c \in Procs, NoSourceToExtract(c) \/ CreateCache(c) \/ FillCache(c)
        PROVE  Keeps(c)
    <2>1. CASE End(c) \/ GiveUp(c)
      BY <1>2, <2>1
    <2>2. CASE ~(End(c) \/ GiveUp(c))
      <3>1. pc[c] \in Carry /\ job'[c] = job[c]
        BY <1>0, <1>8, <2>2, Moved DEF NoSourceToExtract, CreateCache, FillCache
      <3> QED  BY <1>3, <3>1
    <2> QED  BY <2>1, <2>2
  <1>9. ASSUME NEW c \in Procs, CheckDimension(c) \/ CreateDoc(c)
        PROVE  Keeps(c)
    <2>1. CASE End(c) \/ GiveUp(c)
      BY <1>2, <2>1
    <2>2. CASE ~(End(c) \/ GiveUp(c))
      <3>1. [job[c] EXCEPT !.id = nextId].text = job[c].text
        BY <1>0, Locals DEF Job
      <3>2. pc[c] \in Carry /\ job'[c].text = job[c].text
        BY <1>0, <1>9, <2>2, <3>1, Moved DEF CheckDimension, CreateDoc
      <3> QED  BY <3>2 DEF TextWhole
    <2> QED  BY <2>1, <2>2
  <1>10. ASSUME NEW c \in Procs,
                ReplaceForDocument(c) \/ WriteAutoMetadata(c) \/ CommitSHA(c)
         PROVE  Keeps(c)
    BY <1>1, <1>2, <1>10 DEF ReplaceForDocument, WriteAutoMetadata, CommitSHA
  <1>11. ASSUME NEW c \in Procs, ReindexStep(c)
         PROVE  Keeps(c)
    <2>1. ASSUME NEW d \in job[c].todo, Locate(c, d), pc'[c] \in Carry
          PROVE  job'[c].text.whole
      <3> DEFINE j == Take(c, d)
      <3>1. job'[c] = j /\ pc[c] = "next" /\ d \in Loaded
        BY <1>0, <2>1, Moved, Locals DEF Locate, Job
      <3>2. j.text \in {cache[d.sha], older[d.sha], NoCopy}
        BY <1>0, Locals DEF Take, Job
      <3>3. Present(j.text)
        BY <1>0, <2>1, <3>1, StepShape DEF Shape, JobsFit, Fits
      <3>4. d.sha \in Contents
        <4>1. d.sha # None
          <5>1. d.sha = None => j.text = NoCopy
            BY <1>0, Locals DEF Take, Job, CachedText
          <5> QED  BY <3>3, <5>1 DEF Present, NoCopy
        <4> QED  BY <3>1, <4>1 DEF Loaded, Name
      <3>5. \A o \in Procs : pc[o] # "caching"
        BY <3>1 DEF OneRuns
      <3> HIDE DEF j
      <3>6. j.text.whole
        BY <3>2, <3>3, <3>4, <3>5 DEF CacheIsWhole, Present, NoCopy
      <3> QED  BY <3>1, <3>6
    <2>2. ASSUME NEW d \in job[c].todo, Skip(c, d)
          PROVE  Keeps(c)
      BY <1>1, <2>2 DEF Skip
    <2>3. ~SetRawPath(c)
      BY DEF CopyInv, JobsRight, Right, SetRawPath
    <2> QED  BY <1>2, <1>11, <2>1, <2>2, <2>3 DEF ReindexStep, FinishReindex
  <1>12. ASSUME NEW c \in Procs, DeleteRow(c) \/ RemoveCache(c) \/ Fault(c)
         PROVE  Keeps(c)
    BY <1>1, <1>2, <1>12 DEF DeleteRow, RemoveCache, Fault, Abandon
  <1>13. ASSUME NEW c \in Procs, Acts(c)
         PROVE  TextWhole'
    <2>1. Keeps(c)
      BY <1>4, <1>5, <1>6, <1>7, <1>8, <1>9, <1>10, <1>11, <1>12, <1>13
         DEF Acts, CommandStep, IngestStep, ReadOrExtract
    <2> QED  BY <1>0, <1>13, <2>1, ActsAlone DEF TextWhole, Alone
  <1>14. CASE User \/ UNCHANGED vars
    BY <1>14 DEF User, Edit, Remove, UpgradeExtractor, ClearCache, Reconfigure, vars, TextWhole
  <1> QED  BY <1>13, <1>14 DEF Next, Acts
LEMMA StoredBeforeStep ==
  ASSUME FilesHold, OneRuns, CopyInv, TextWhole, StoredBeforeRecorded, [Next]_vars
  PROVE  StoredBeforeRecorded'
  <1>0. Shape /\ KnownInv
    BY DEF CopyInv, KnownInv
  <1>1. CASE User \/ UNCHANGED vars
    BY <1>1 DEF User, Edit, Remove, UpgradeExtractor, ClearCache, Reconfigure, vars, db,
       StoredBeforeRecorded, Alive, Exists
  <1>2. ASSUME NEW c \in Procs, Acts(c), pc'[c] \in {"meta", "commit"},
               job'[c].cmd = "ingest", Alive(c)'
        PROVE  docs'[job'[c].path].text = Whole(job'[c].sha)
    <2>1. job'[c] = job[c] /\ Alive(c) /\ (ReplaceForDocument(c) \/ WriteAutoMetadata(c))
      BY <1>0, <1>2, ReachesMetadata
    <2>2. CASE ReplaceForDocument(c)
      <3>1. pc[c] = "replace" /\ job[c].path \in Paths /\ job[c].sha # None
        BY <1>0, <1>2, <2>1, <2>2, Locals DEF ReplaceForDocument, Fits
      <3>2. docs' = [docs EXCEPT ![job[c].path].text = job[c].text,
                                 ![job[c].path].dim = NewDim(c)]
        BY <2>1, <2>2 DEF ReplaceForDocument
      <3>3. docs'[job[c].path].text = job[c].text
        BY <1>0, <3>1, <3>2 DEF Shape, TypeOK, Row
      <3> QED  BY <2>1, <3>1, <3>3, StoresWhole
    <2>3. CASE WriteAutoMetadata(c)
      BY <1>2, <2>1, <2>3 DEF WriteAutoMetadata, StoredBeforeRecorded, db
    <2> QED  BY <2>1, <2>2, <2>3
  <1>3. ASSUME NEW c \in Procs, Acts(c)
        PROVE  StoredBeforeRecorded'
    <2>1. ASSUME NEW o \in Procs \ {c}, pc'[o] \in {"meta", "commit"}, job'[o].cmd = "ingest",
                 Alive(o)'
          PROVE  docs'[job'[o].path].text = Whole(job'[o].sha)
      <3>1. pc'[o] = pc[o] /\ job'[o] = job[o] /\ docs' = docs
        BY <1>0, <1>3, <2>1, OthersIdle
      <3> QED  BY <2>1, <3>1 DEF StoredBeforeRecorded, Alive, Exists
    <2> QED  BY <1>2, <1>3, <2>1 DEF StoredBeforeRecorded
  <1> QED  BY <1>1, <1>3 DEF Next, Acts

\* Between Locate and the next document a reindex keeps to the one it has.
LEMMA SameDocument ==
  ASSUME Shape, NEW c \in Procs, Acts(c), pc[c] # "idle", pc'[c] # "idle",
         job[c].cmd = "reindex", ~\E d \in job[c].todo : Locate(c, d) \/ Skip(c, d)
  PROVE  /\ job'[c].todo = job[c].todo /\ job'[c].path = job[c].path /\ job'[c].sha = job[c].sha
         /\ pc'[c] # "next" => pc[c] # "next"
  <1> DEFINE Same == /\ job'[c].todo = job[c].todo /\ job'[c].path = job[c].path
                     /\ job'[c].sha = job[c].sha
                     /\ pc'[c] # "next" => pc[c] # "next"
  <1>0. job[c] \in Job /\ Fits(pc[c], job[c])
    BY Locals
  <1>1. ~End(c)
    BY Moved DEF End
  <1>2. ASSUME GiveUp(c)
        PROVE  Same
    <2> DEFINE j == [job[c] EXCEPT !.clean = FALSE]
    <2>1. Goto(c, "next", j)
      BY <1>2 DEF GiveUp
    <2>2. j.todo = job[c].todo /\ j.path = job[c].path /\ j.sha = job[c].sha
      BY <1>0 DEF Job
    <2> HIDE DEF j
    <2> QED  BY <2>1, <2>2, Moved
  <1>3. ASSUME pc[c] # "next", job'[c] = job[c]
        PROVE  Same
    BY <1>3
  <1>4. ~CopySourceToRaw(c) /\ ~CheckDimension(c) /\ ~CreateDoc(c) /\ ~CommitSHA(c)
    BY <1>0 DEF CopySourceToRaw, AlreadyArchived, CopyToTemp, NoSourceToCopy,
       RenameToRaw, CheckDimension, CreateDoc, CommitSHA, Fits
  <1>5. ~DeleteRow(c) /\ ~RemoveCache(c) /\ ~FinishReindex(c) /\ ~StartCommand(c)
    BY <1>0, <1>1 DEF DeleteRow, RemoveCache, FinishReindex, Fits, StartCommand, StartIngest,
       StartPreprocess, StartReindex, StartDelete
  <1>6. Fault(c) => Same
    BY <1>1, <1>2 DEF Fault, Abandon
  <1>7. ReadOrExtract(c) => Same
    <2>1. CASE CacheHit(c)
      BY <2>1 DEF CacheHit
    <2>2. CASE Extract(c)
      <3>1. job'[c] = [job[c] EXCEPT !.text = Source(c)] /\ pc[c] = "text"
        BY <2>2, Moved DEF Extract
      <3> QED  BY <1>0, <3>1 DEF Job
    <2>3. CASE NoSourceToExtract(c)
      BY <1>2, <2>3 DEF NoSourceToExtract
    <2>4. CASE CreateCache(c) \/ FillCache(c)
      BY <1>1, <1>3, <2>4, Moved DEF CreateCache, FillCache
    <2> QED  BY <2>1, <2>2, <2>3, <2>4 DEF ReadOrExtract
  <1>8. ReplaceForDocument(c) \/ WriteAutoMetadata(c) \/ SetRawPath(c) => Same
    BY <1>2, <1>3, Moved DEF ReplaceForDocument, WriteAutoMetadata, SetRawPath
  <1> QED  BY <1>4, <1>5, <1>6, <1>7, <1>8 DEF Acts, CommandStep, IngestStep, ReindexStep

LEMMA ListCurrentStep ==
  ASSUME FilesHold, OneRuns, CopyInv, ListCurrent, [Next]_vars
  PROVE  ListCurrent'
  <1>0. Shape /\ KnownInv
    BY DEF CopyInv, KnownInv
  <1>1. CASE User \/ UNCHANGED vars
    BY <1>1 DEF User, Edit, Remove, UpgradeExtractor, ClearCache, Reconfigure, vars, db,
       ListCurrent
  <1>2. ASSUME NEW c \in Procs, Acts(c), pc'[c] # "idle", job'[c].cmd = "reindex"
        PROVE  /\ \A d \in job'[c].todo : docs'[d.path].sha = d.sha
               /\ pc'[c] # "next" => docs'[job'[c].path].sha = job'[c].sha
    <2>1. CASE pc[c] = "idle"
      <3>1. StartsReindex(c) /\ docs' = docs
        BY <1>0, <1>2, <2>1, IdleStarts, Starts
           DEF StartsIngest, StartsPreprocess, StartsDelete, StartsReindex, db
      <3>2. \A d \in job'[c].todo : \E p \in Paths : d = Load(p)
        BY <3>1 DEF StartsReindex
      <3>3. \A p \in Paths : Load(p).sha = docs[p].sha /\ Load(p).path = p
        BY DEF Load
      <3> QED  BY <3>1, <3>2, <3>3 DEF StartsReindex
    <2>2. CASE pc[c] # "idle"
      <3>1. job[c].cmd = "reindex" /\ job[c] \in Job /\ Fits(pc[c], job[c])
        BY <1>0, <1>2, <2>2, CommandsKept, Locals DEF CommandKept, NoJob
      <3>2. \A p \in Paths : docs'[p].sha = docs[p].sha
        <4>1. ASSUME NEW p \in Paths PROVE docs'[p].sha = docs[p].sha
          <5>1. docs[p] \in Row
            BY <1>0 DEF Shape, TypeOK
          <5>2. ~Creates(c, p) /\ ~Commits(c, p) /\ pc[c] # "delrow"
            BY <3>1 DEF Creates, Commits, Fits
          <5>3. Replaces(c, p) \/ Locates(c, p) => docs'[p].sha = docs[p].sha
            BY <5>1 DEF Replaces, Locates, Row
          <5>4. docs'[p] = NoRow => docs'[p] = docs[p]
            <6>1. ~DeleteRow(c) /\ ~CreateDoc(c) /\ ~CommitSHA(c)
              BY <3>1 DEF DeleteRow, CreateDoc, CommitSHA, Fits
            <6>2. CASE ReplaceForDocument(c) \/ SetRawPath(c)
              <7>1. docs'[p].id = docs[p].id
                BY <1>0, <5>1, <6>2 DEF ReplaceForDocument, SetRawPath, Shape, TypeOK, Row
              <7>2. docs'[p] = docs[p] \/ docs[p].id # 0
                BY <1>0, <6>2 DEF ReplaceForDocument, SetRawPath, Alive, Exists, Shape, TypeOK
              <7> QED  BY <7>1, <7>2 DEF NoRow
            <6>3. CASE ~(ReplaceForDocument(c) \/ SetRawPath(c))
              BY <1>2, <6>1, <6>3
                 DEF Acts, StartCommand, StartIngest, StartPreprocess, StartReindex, StartDelete,
                 Fault, Abandon, CommandStep, IngestStep, CopySourceToRaw, AlreadyArchived,
                 CopyToTemp, NoSourceToCopy, RenameToRaw, ReadOrExtract, CacheHit, Extract,
                 NoSourceToExtract, CreateCache, FillCache, CheckDimension, WriteAutoMetadata,
                 ReindexStep, Locate, Skip, FinishReindex, RemoveCache, db
            <6> QED  BY <6>2, <6>3
          <5> QED  BY <1>0, <1>2, <5>2, <5>3, <5>4, RowChanges DEF RowChange
        <4> QED  BY <4>1
      <3>3. \A d \in job[c].todo : d.path \in Paths /\ docs[d.path].sha = d.sha
        BY <2>2, <3>1 DEF ListCurrent, Job, Loaded
      <3>4. CASE \E d \in job[c].todo : Locate(c, d)
        <4>1. PICK d \in job[c].todo : Locate(c, d)
          BY <3>4
        <4>2. job'[c] = Take(c, d)
          BY <1>0, <4>1, Moved DEF Locate
        <4>3. /\ Take(c, d).path = d.path /\ Take(c, d).sha = d.sha
              /\ Take(c, d).todo = job[c].todo \ {d}
          BY <3>1 DEF Take, Job
        <4> QED  BY <3>2, <3>3, <4>2, <4>3
      <3>5. CASE \E d \in job[c].todo : Skip(c, d)
        <4>1. PICK d \in job[c].todo : Skip(c, d)
          BY <3>5
        <4>2. pc'[c] = "next" /\ job'[c] = [job[c] EXCEPT !.todo = job[c].todo \ {d}, !.clean = FALSE]
          BY <1>0, <4>1, Moved DEF Skip
        <4>3. job'[c].todo = job[c].todo \ {d}
          BY <3>1, <4>2 DEF Job
        <4> QED  BY <3>2, <3>3, <4>2, <4>3
      <3>6. CASE ~\E d \in job[c].todo : Locate(c, d) \/ Skip(c, d)
        <4>1. /\ job'[c].todo = job[c].todo /\ job'[c].path = job[c].path
              /\ job'[c].sha = job[c].sha
              /\ pc'[c] # "next" => pc[c] # "next"
          BY <1>0, <1>2, <2>2, <3>1, <3>6, SameDocument
        <4>2. pc[c] # "next" => job[c].path \in Paths
          BY <2>2, <3>1 DEF Fits
        <4> QED  BY <2>2, <3>1, <3>2, <3>3, <4>1, <4>2 DEF ListCurrent
      <3> QED  BY <3>4, <3>5, <3>6
    <2> QED  BY <2>1, <2>2
  <1>3. ASSUME NEW c \in Procs, Acts(c)
        PROVE  ListCurrent'
    <2>1. ASSUME NEW o \in Procs \ {c}, pc'[o] # "idle"
          PROVE  pc'[o] = pc[o] /\ job'[o] = job[o] /\ docs' = docs
      BY <1>0, <1>3, <2>1, OthersIdle
    <2> QED  BY <1>2, <1>3, <2>1 DEF ListCurrent
  <1> QED  BY <1>1, <1>3 DEF Next, Acts

LEMMA SkipStep ==
  ASSUME OneByOne, SkipInv, [Next]_vars
  PROVE  SkipMeansIndexed'
  <1>0. Shape /\ KnownInv /\ CopyInv
    BY DEF SkipInv, CopyInv, KnownInv
  <1>1. CASE User \/ UNCHANGED vars
    <2>1. ASSUME NEW p \in Paths, NEW content \in Contents, Edit(p, content)
          PROVE  SkipMeansIndexed'
      BY <1>0, <2>1 DEF Edit, OneByOne, SkipInv, AllSeen, SkipMeansIndexed, db, Shape, TypeOK
    <2>2. ASSUME NEW p \in Paths, Remove(p)
          PROVE  SkipMeansIndexed'
      BY <1>0, <2>2 DEF Remove, SkipInv, SkipMeansIndexed, db, Shape, TypeOK
    <2> QED  BY <1>1, <2>1, <2>2 DEF User, UpgradeExtractor, ClearCache, Reconfigure, vars,
             user, db, SkipInv, SkipMeansIndexed
  <1>2. ASSUME NEW c \in Procs, Acts(c), NEW p \in Paths,
               file'[p] # None, docs'[p].sha = file'[p]
        PROVE  docs'[p].text = Whole(file'[p])
    <2>0. file' = file /\ docs[p] \in Row
      BY <1>0, <1>2, CommandsKept DEF user, Shape, TypeOK
    <2>1. CASE docs'[p] = docs[p]
      BY <1>2, <2>0, <2>1 DEF SkipInv, SkipMeansIndexed
    <2>2. ~(Creates(c, p) \/ docs'[p] = NoRow)
      <3>1. [NoRow EXCEPT !.id = nextId, !.raw = job[c].raw].sha = None /\ NoRow.sha = None
        BY DEF NoRow
      <3> QED  BY <1>2, <3>1 DEF Creates
    <2>3. CASE Replaces(c, p)
      <3>1. docs'[p].text = job[c].text /\ docs'[p].sha = docs[p].sha
        BY <2>0, <2>3 DEF Replaces, Row
      <3>2. job[c].sha = file[p]
        <4>1. CASE job[c].cmd = "reindex"
          BY <1>2, <2>0, <2>3, <3>1, <4>1 DEF SkipInv, ListCurrent, Replaces
        <4>2. CASE job[c].cmd # "reindex"
          BY <1>0, <2>3, <4>2, Locals DEF CopyInv, Hashed, Replaces, Fits
        <4> QED  BY <4>1, <4>2
      <3>3. job[c].text = Whole(job[c].sha)
        BY <1>0, <1>2, <2>0, <2>3, <3>2, StoresWhole DEF SkipInv, Replaces
      <3> QED  BY <2>0, <3>1, <3>2, <3>3
    <2>4. CASE Commits(c, p)
      <3>1. docs'[p].text = docs[p].text /\ docs'[p].sha = job[c].sha
        BY <2>0, <2>4 DEF Commits, Row
      <3>2. docs[p].text = Whole(job[c].sha)
        BY <1>0, <2>4, Locals DEF SkipInv, StoredBeforeRecorded, Commits, Fits
      <3> QED  BY <1>2, <3>1, <3>2
    <2>5. ~Locates(c, p)
      BY <1>0 DEF Locates, CopyInv, JobsRight, Right
    <2> QED  BY <1>0, <1>2, <2>1, <2>2, <2>3, <2>4, <2>5, RowChanges DEF RowChange
  <1> QED  BY <1>1, <1>2 DEF Next, Acts, SkipMeansIndexed

LEMMA StepSkipInv ==
  ASSUME OneByOne
  PROVE  SkipInv /\ [Next]_vars => SkipInv'
  <1> SUFFICES ASSUME SkipInv, [Next]_vars PROVE SkipInv'
    OBVIOUS
  <1>1. CopyInv'
    BY StepCopyInv DEF SkipInv, OneByOne
  <1>2. Shape /\ Hashed
    BY DEF SkipInv, CopyInv, KnownInv
  <1>3. FilesHold /\ OneRuns /\ WritesEnd
    BY DEF OneByOne, OneRuns, WritesEnd, Acts, Fault, StartCommand, StartIngest,
       StartPreprocess, StartReindex, StartDelete
  <1> QED  BY <1>1, <1>2, <1>3, SeenStep, CacheWholeStep, TextWholeStep, StoredBeforeStep,
              ListCurrentStep, SkipStep DEF SkipInv

\* A user who runs one command at a time, keeps the archive and never brings
\* an old content back is never left with a file that every ingest skips and
\* that is not indexed from its present text, whatever failed before
\* (ingester.go:183-189, 214-215).
THEOREM SkipMeansIndexedAlways == OneByOne => (Spec => []SkipMeansIndexed)
  <1> SUFFICES ASSUME OneByOne PROVE Spec => []SkipMeansIndexed
    OBVIOUS
  <1>1. SkipInv /\ [Next]_vars => SkipInv'
    BY StepSkipInv
  <1>2. SkipInv => SkipMeansIndexed
    BY DEF SkipInv
  <1> QED  BY InitSkipInv, <1>1, <1>2, PTL DEF Spec
=============================================================================
