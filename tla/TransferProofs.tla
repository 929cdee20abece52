----------------------------- MODULE TransferProofs -----------------------------
(***************************************************************************)
(* Proofs about Transfer, for any number of commands, paths, templates and *)
(* imports.  Under every fault of the module: the shape of its state, what *)
(* an import under the policy "skip" leaves alone, and that an exported    *)
(* archive carries the copies its rows name.  While the rollback of an     *)
(* import can do its work: that a recorded hash stands beside the chunks   *)
(* of its content, and that an import which reports no error has brought   *)
(* every document of the archive that it came to.                          *)
(***************************************************************************)
EXTENDS Transfer, IndexProofs

\* The steps that are an import's own; in the others it embeds a document.
ImportSteps == {"unpack", "filling", "templates", "copying", "offer", "adopt"}

ArchiveShape(t) ==
    t \in [made : BOOLEAN, docs : [Paths -> Row], noted : SUBSET Nat, raw : [Contents -> Copy],
           template : [Templates -> Copy], blocks : {t.blocks}]

ImportLocals ==
    [on : BOOLEAN, policy : {"skip", "overwrite"}, raws : SUBSET Contents,
     templates : SUBSET Templates, taken : SUBSET Templates, todo : SUBSET Row,
     doc : Row, prior : Row, firstId : Nat \ {0}, errs : BOOLEAN]

\* The files and tables, whatever runs.
TablesShape ==
    /\ file \in [Paths -> Name]
    /\ seen \subseteq Contents
    /\ config \in Dims
    /\ raw \in [Contents -> Copy]
    /\ cache \in [Contents -> Copy]
    /\ older \in [Contents -> Copy]
    /\ docs \in [Paths -> Row]
    /\ nextId \in Nat \ {0}
    /\ \A p \in Paths : docs[p].id < nextId
    /\ noted \subseteq 1 .. nextId - 1
    /\ template \in [Templates -> Copy]

\* An export has files left to read only in a part it has opened.
ExportTyped ==
    /\ export \in [on : BOOLEAN, part : 0 .. 3,
                   left : SUBSET ({"db"} \cup Contents \cup Templates), tar : {export.tar}]
    /\ export.left # {} => export.part # 0

BundlesShape ==
    /\ ArchiveShape(tar)
    /\ ExportTyped
    /\ ArchiveShape(export.tar)
    /\ import \in [Procs -> ImportLocals]
    /\ export.on => ~tar.made
    /\ Importing => tar.made

\* A command is ready for its next step; an import's own steps need little.
CommandReady(c) ==
    IF pc[c] \in Step
    THEN Ready(pc[c], job[c], nextId) /\ (pc[c] = "idle" => job[c] = NoJob)
    ELSE /\ pc[c] \in ImportSteps
         /\ import[c].on
         /\ pc[c] = "filling" => job[c].tmp \in import[c].raws

CommandsShape ==
    /\ pc \in [Procs -> Step \cup ImportSteps]
    /\ job \in [Procs -> Job]
    /\ \A c \in Procs : CommandReady(c)

\* Nothing else runs beside an import.
ImportsAlone ==
    \A c \in Procs : import[c].on =>
        /\ pc[c] # "idle"
        /\ \A o \in Procs \ {c} : pc[o] = "idle" /\ ~import[o].on

\* The document an import has in hand is one of the archive's, the row its
\* path has here is the one that was adopted or created, and the steps that
\* embed it work on that row.
EmbedsOne(c) ==
    LET p == PathOf(import[c].doc)
    IN  /\ pc[c] # "idle" /\ job[c].cmd = "reindex"
        /\ Exists(p)
        /\ import[c].prior.id = 0 => import[c].firstId <= docs[p].id
        /\ \A e \in job[c].todo : e.path = p /\ e.id = docs[p].id
        /\ job[c].path # None => job[c].path = p /\ job[c].id = docs[p].id
        /\ job[c].todo = {} /\ job[c].clean => job[c].path # None

ImportHolds(c) ==
    /\ import[c].firstId <= nextId
    /\ import[c].todo \subseteq Offered(tar)
    /\ pc[c] \in Step \cup {"adopt"} => import[c].doc \in Offered(tar)
    /\ pc[c] = "adopt" => import[c].prior = docs[PathOf(import[c].doc)]
    /\ pc[c] \in Step => EmbedsOne(c)
    /\ import[c].policy = "skip" =>
        /\ pc[c] \in Step \cup {"adopt"} => import[c].prior.id = 0
        /\ pc[c] = "copying" => \A t \in import[c].taken : ~Present(template[t])

ImportsHold == \A c \in Procs : import[c].on => ImportHolds(c)

TransferInv ==
    TablesShape /\ BundlesShape /\ CommandsShape /\ ImportsAlone /\ ImportsHold

-----------------------------------------------------------------------------
(* The archive as it is written *)

\* Once the database is read, its rows are among what is archived.
RowsRead == export.part > 1 \/ (export.part = 1 /\ export.left = {})

\* Every copy the rows name is among the copies, whole.
Carried(rows, copies) ==
    \A p \in Paths : rows[p].raw # None => copies[rows[p].raw] = Whole(rows[p].raw)

\* Those that are not yet, the walk has still to come to.
Gathered(rows, left, copies) ==
    \A p \in Paths : rows[p].raw # None =>
        rows[p].raw \in left \/ copies[rows[p].raw] = Whole(rows[p].raw)

\* Until the archive is published only the commands of KnowledgeBase run;
\* once its rows are read, the archived copies they name stay, and the walk of
\* the directory comes by every one of them.
ExportInv ==
    /\ ~tar.made => CopyInv
    /\ ~export.on => export = NoExport
    /\ export.on =>
        /\ RowsRead => Carried(export.tar.docs, raw)
        /\ export.part = 2 => Gathered(export.tar.docs, export.left, export.tar.raw)
        /\ export.part = 3 => Carried(export.tar.docs, export.tar.raw)
    /\ ExportCarriesCopies

\* What goes wrong with a document of an import, or cuts the import short.
Breaks(c) ==
    \/ EmbedFails(c) \/ MetadataFails(c) \/ BreakOff(c) \/ Stop(c)
    \/ \E d \in import[c].todo : OfferFails(c, d)

\* The steps of an export.
Exports == StartExport \/ ReadPart \/ Publish \/ AbandonExport

-----------------------------------------------------------------------------
(* The shape of the state *)

LEMMA OfferedRows ==
  ASSUME TransferInv, NEW d \in Offered(tar)
  PROVE  d \in Row /\ PathOf(d) \in Paths
  <1>1. PICK q \in Paths : /\ tar.docs[q].id # 0
                           /\ d = [tar.docs[q] EXCEPT !.raw = ArchivedName(tar.docs[q])]
    BY DEF Offered
  <1>2. tar.docs[q] \in Row
    BY DEF TransferInv, BundlesShape, ArchiveShape
  <1>3. d \in Row /\ d.id = tar.docs[q].id
    BY <1>1, <1>2 DEF Row, ArchivedName
  <1> QED  BY <1>3 DEF PathOf

\* With no import in a step of its own, the state is one of KnowledgeBase.
LEMMA KnowledgeShape ==
  ASSUME TransferInv, \A c \in Procs : pc[c] \in Step
  PROVE  Shape
  <1>1. \A c \in Procs : Ready(pc[c], job[c], nextId)
    BY DEF TransferInv, CommandsShape, CommandReady
  <1>2. \A c \in Procs : RowStep(pc[c]) => job[c].id \in 1 .. nextId - 1
    BY <1>1 DEF Ready, TransferInv, TablesShape, Job
  <1>3. TypeOK
    BY <1>2 DEF TypeOK, TransferInv, TablesShape, CommandsShape
  <1>4. JobsFit /\ IdsIssued
    BY <1>1 DEF JobsFit, IdsIssued, Ready, TransferInv, TablesShape
  <1> QED  BY <1>3, <1>4 DEF Shape

\* While no import runs.
LEMMA NotImporting ==
  ASSUME TransferInv, ~Importing
  PROVE  Shape /\ \A c \in Procs : ~import[c].on
  <1>1. \A c \in Procs : ~import[c].on
    BY DEF Importing
  <1>2. \A c \in Procs : pc[c] \in Step
    BY <1>1 DEF TransferInv, CommandsShape, CommandReady
  <1> QED  BY <1>1, <1>2, KnowledgeShape

\* While an import embeds a document.
LEMMA ShapeOfEmbedding ==
  ASSUME TransferInv, NEW c \in Procs, import[c].on, pc[c] \in Step
  PROVE  Shape /\ EmbedsOne(c) /\ import[c].doc \in Offered(tar)
  <1>1. \A o \in Procs : pc[o] \in Step
    BY DEF TransferInv, ImportsAlone, Step
  <1> QED  BY <1>1, KnowledgeShape DEF TransferInv, ImportsHold, ImportHolds

LEMMA ShapeReady ==
  ASSUME Shape, NEW c \in Procs
  PROVE  pc[c] \in Step /\ Ready(pc[c], job[c], nextId)
  BY Locals DEF Ready

LEMMA ShapeReadyNext ==
  ASSUME Shape', NEW c \in Procs
  PROVE  pc'[c] \in Step /\ Ready(pc'[c], job'[c], nextId')
  BY DEF Ready, Shape, TypeOK, JobsFit, IdsIssued

\* A command that ends leaves its locals empty.
LEMMA Returns ==
  ASSUME Shape, NEW c \in Procs, Acts(c), pc'[c] = "idle"
  PROVE  job'[c] = NoJob
  <1>1. End(c) => job'[c] = NoJob
    BY Moved DEF End
  <1>2. GiveUp(c) => job'[c] = NoJob
    <2>1. job[c].cmd = "reindex" /\ GiveUp(c) => pc'[c] = "next"
      BY Moved DEF GiveUp
    <2> QED  BY <1>1, <2>1 DEF GiveUp
  <1>3. ASSUME NEW to, NEW j, Goto(c, to, j), to # "idle"
        PROVE  FALSE
    BY <1>3, Moved
  <1>4. CASE StartCommand(c)
    BY <1>4, Starts DEF StartsIngest, StartsPreprocess, StartsDelete, StartsReindex
  <1>5. CASE CopySourceToRaw(c)
    <2>1. CASE NoSourceToCopy(c)
      BY <1>1, <2>1 DEF NoSourceToCopy
    <2> QED  BY <1>3, <1>5, <2>1 DEF CopySourceToRaw, AlreadyArchived, CopyToTemp, RenameToRaw
  <1>6. CASE ReadOrExtract(c)
    <2>1. Embedded(c) # "idle"
      BY DEF Embedded
    <2>2. ~CacheHit(c)
      BY <1>3 DEF CacheHit
    <2>3. ~Extract(c)
      <3> DEFINE to == IF job[c].sha = None THEN Embedded(c) ELSE "write"
      <3>1. to # "idle"
        BY <2>1
      <3> HIDE DEF to
      <3>2. Extract(c) => \E j : Goto(c, to, j)
        BY DEF Extract, to
      <3> QED  BY <1>3, <3>1, <3>2
    <2>4. NoSourceToExtract(c) => job'[c] = NoJob
      BY <1>2 DEF NoSourceToExtract
    <2>5. ~CreateCache(c)
      BY <1>3 DEF CreateCache
    <2>6. FillCache(c) => job'[c] = NoJob
      BY <1>1, <1>3, <2>1 DEF FillCache
    <2> QED  BY <1>6, <2>2, <2>3, <2>4, <2>5, <2>6 DEF ReadOrExtract
  <1>7. CASE CheckDimension(c)
    <2> DEFINE to == IF job[c].id = 0 THEN "create" ELSE "replace"
    <2>1. Goto(c, to, job[c]) \/ GiveUp(c)
      BY <1>7 DEF CheckDimension
    <2> QED  BY <1>2, <1>3, <2>1
  <1>8. CASE CreateDoc(c) \/ ReplaceForDocument(c)
    BY <1>2, <1>3, <1>8 DEF CreateDoc, ReplaceForDocument
  <1>9. CASE WriteAutoMetadata(c)
    <2> DEFINE to == IF job[c].cmd = "ingest" THEN "commit" ELSE "next"
    <2>1. Goto(c, to, job[c]) \/ GiveUp(c)
      BY <1>9 DEF WriteAutoMetadata
    <2> QED  BY <1>2, <1>3, <2>1
  <1>10. CASE CommitSHA(c) \/ DeleteRow(c) \/ RemoveCache(c)
    BY <1>1, <1>3, <1>10 DEF CommitSHA, DeleteRow, RemoveCache
  <1>11. CASE ReindexStep(c)
    <2>1. ASSUME NEW d \in job[c].todo, Locate(c, d)
          PROVE  FALSE
      <3> DEFINE to == IF InArchive(d) /\ ArchivedName(d) # d.raw
                       THEN "setraw" ELSE AfterLocate(Take(c, d))
      <3>1. to # "idle"
        BY DEF AfterLocate
      <3>2. Goto(c, to, Take(c, d))
        BY <2>1 DEF Locate
      <3> QED  BY <1>3, <3>1, <3>2
    <2>2. ~(\E d \in job[c].todo : Skip(c, d))
      BY <1>3 DEF Skip
    <2>3. ~SetRawPath(c)
      <3>1. AfterLocate(job[c]) # "idle"
        BY DEF AfterLocate
      <3> QED  BY <1>3, <3>1 DEF SetRawPath
    <2> QED  BY <1>1, <1>11, <2>1, <2>2, <2>3 DEF ReindexStep, FinishReindex
  <1>12. CASE Fault(c)
    BY <1>1, <1>2, <1>12 DEF Fault, Abandon
  <1> QED  BY <1>4, <1>5, <1>6, <1>7, <1>8, <1>9, <1>10, <1>11, <1>12
           DEF Acts, CommandStep, IngestStep
-----------------------------------------------------------------------------
(* What a step of an import leaves as it is *)

LEMMA InitTransferInv == TransferInit => TransferInv
  <1> SUFFICES ASSUME TransferInit PROVE TransferInv
    OBVIOUS
  <1>0. Shape /\ \A c \in Procs : pc[c] = "idle" /\ job[c] = NoJob
    BY InitShape DEF TransferInit, Init
  <1>1. NoRow \in Row /\ NoCopy \in Copy /\ \A n \in Contents : Whole(n) \in Copy
    BY DEF Row, NoRow, Copy, NoCopy, Whole, Name
  <1>2. TablesShape
    BY <1>0, <1>1 DEF TablesShape, TransferInit, Shape, TypeOK, IdsIssued
  <1>3. BundlesShape
    <2>1. ArchiveShape(NoTar)
      BY <1>1 DEF ArchiveShape, NoTar
    <2>2. NoImport \in ImportLocals
      BY <1>1 DEF ImportLocals, NoImport
    <2>3. export = NoExport /\ tar = NoTar /\ \A c \in Procs : import[c] = NoImport
      BY DEF TransferInit
    <2>4. ExportTyped /\ export.tar = NoTar /\ ~export.on
      <3> HIDE DEF NoTar
      <3> QED  BY <2>3 DEF ExportTyped, NoExport
    <2>5. ~Importing
      BY <2>3 DEF Importing, NoImport
    <2> QED  BY <2>1, <2>2, <2>3, <2>4, <2>5 DEF BundlesShape, TransferInit
  <1>4. CommandsShape
    BY <1>0, ShapeReady DEF CommandsShape, CommandReady, Shape, TypeOK
  <1>5. \A c \in Procs : ~import[c].on
    BY DEF TransferInit, NoImport
  <1> QED  BY <1>2, <1>3, <1>4, <1>5 DEF TransferInv, ImportsAlone, ImportsHold

\* An import that takes a step alone, to a state it can go on from.
LEMMA ImportMoves ==
  ASSUME TransferInv, NEW c \in Procs, NEW to \in Step \cup ImportSteps, NEW j \in Job,
         Goto(c, to, j),
         \A o \in Procs \ {c} : pc[o] = "idle" /\ ~import[o].on,
         TablesShape', UNCHANGED <<tar, export>>, tar.made,
         import' \in [Procs -> ImportLocals],
         \A o \in Procs \ {c} : import'[o] = import[o],
         CommandReady(c)',
         import'[c].on => to # "idle" /\ ImportHolds(c)'
  PROVE  TransferInv'
  <1>1. /\ pc' \in [Procs -> Step \cup ImportSteps] /\ job' \in [Procs -> Job]
        /\ pc'[c] = to
        /\ \A o \in Procs \ {c} : pc'[o] = "idle" /\ job'[o] = NoJob
    BY DEF Goto, TransferInv, CommandsShape, CommandReady, Step
  <1>2. nextId' \in Nat /\ 0 < nextId'
    BY DEF TablesShape
  <1>3. CommandsShape'
    <2>1. \A o \in Procs \ {c} : CommandReady(o)'
      BY <1>1, <1>2, EndReady DEF CommandReady, Step
    <2> QED  BY <1>1, <2>1 DEF CommandsShape
  <1>4. BundlesShape'
    BY DEF TransferInv, BundlesShape, ExportTyped, ArchiveShape, Importing
  <1>5. ImportsAlone'
    BY <1>1 DEF ImportsAlone
  <1>6. ImportsHold'
    BY DEF ImportsHold
  <1> QED  BY <1>3, <1>4, <1>5, <1>6 DEF TransferInv

\* Its own steps need nothing of a command's locals.
LEMMA OwnStepReady ==
  ASSUME NEW c \in Procs, pc'[c] \in ImportSteps \ {"filling"}, import'[c].on
  PROVE  CommandReady(c)'
  <1>1. pc'[c] \notin Step /\ pc'[c] # "filling"
    BY DEF ImportSteps, Step
  <1> QED  BY <1>1 DEF CommandReady, ImportSteps

LEMMA ImportTyped ==
  ASSUME TransferInv, NEW c \in Procs
  PROVE  import[c] \in ImportLocals
  BY DEF TransferInv, BundlesShape

LEMMA StartImportInv ==
  ASSUME TransferInv, NEW c \in Procs, NEW policy \in Policies, StartImport(c, policy)
  PROVE  TransferInv'
  <1> DEFINE raws == {n \in Contents : Survives(tar, n)}
             names == {t \in Templates : Survives(tar, t)}
             i == [NoImport EXCEPT !.on = TRUE, !.policy = policy, !.todo = Offered(tar),
                                   !.raws = raws, !.templates = names, !.firstId = nextId]
  <1>1. /\ AllIdle /\ tar.made /\ import' = [import EXCEPT ![c] = i] /\ Goto(c, "unpack", NoJob)
        /\ UNCHANGED <<user, disk, db, noted, template, tar, export>>
    BY DEF StartImport
  <1>2. Offered(tar) \subseteq Row
    BY OfferedRows
  <1>3. raws \subseteq Contents /\ names \subseteq Templates
    OBVIOUS
  <1>4. nextId \in Nat \ {0} /\ policy \in {"skip", "overwrite"} /\ NoRow \in Row
    BY TransferAssumption DEF TransferInv, TablesShape, Row, NoRow, Copy, NoCopy, Name
  <1> HIDE DEF raws, names
  <1>5. /\ i \in ImportLocals
        /\ i.on /\ i.todo = Offered(tar) /\ i.firstId = nextId
    BY <1>2, <1>3, <1>4 DEF ImportLocals, NoImport
  <1> HIDE DEF i
  <1>6. /\ import' \in [Procs -> ImportLocals] /\ import'[c] = i
        /\ \A o \in Procs \ {c} : import'[o] = import[o]
    BY <1>1, <1>5 DEF TransferInv, BundlesShape
  <1>7. \A o \in Procs : pc[o] = "idle" /\ ~import[o].on
    BY <1>1 DEF AllIdle, TransferInv, ImportsAlone
  <1>8. pc'[c] = "unpack" /\ job'[c] = NoJob
    BY <1>1 DEF Goto, TransferInv, CommandsShape
  <1>9. NoJob \in Job
    BY <1>4, EndReady DEF Ready
  <1>10. ImportHolds(c)'
    BY <1>1, <1>4, <1>5, <1>6, <1>8 DEF ImportHolds, Offered, ArchivedName, Step, db
  <1>11. TablesShape'
    BY <1>1 DEF TransferInv, TablesShape, user, disk, db
  <1>12. CommandReady(c)'
    BY <1>5, <1>6, <1>8, OwnStepReady DEF ImportSteps
  <1> QED  BY <1>1, <1>6, <1>7, <1>9, <1>10, <1>11, <1>12, ImportMoves DEF ImportSteps
\* An import that goes on to a step of its own.
LEMMA ImportGoes ==
  ASSUME TransferInv, NEW c \in Procs, import[c].on,
         NEW to \in {"unpack", "filling", "templates", "offer"}, NEW j \in Job, Goto(c, to, j),
         NEW i \in ImportLocals, import' = [import EXCEPT ![c] = i],
         i.on, i.firstId = import[c].firstId, i.todo \subseteq import[c].todo,
         to = "filling" => j.tmp \in i.raws,
         TablesShape', nextId <= nextId', UNCHANGED <<tar, export>>
  PROVE  TransferInv'
  <1>1. /\ import' \in [Procs -> ImportLocals] /\ import'[c] = i
        /\ \A o \in Procs \ {c} : import'[o] = import[o]
    BY DEF TransferInv, BundlesShape
  <1>2. /\ tar.made
        /\ \A o \in Procs \ {c} : pc[o] = "idle" /\ ~import[o].on
    BY DEF TransferInv, BundlesShape, Importing, ImportsAlone
  <1>3. pc'[c] = to /\ job'[c] = j
    BY DEF Goto, TransferInv, CommandsShape
  <1>4. to \in ImportSteps /\ to \notin Step /\ to # "idle" /\ to # "adopt" /\ to # "copying"
    BY DEF ImportSteps, Step
  <1>5. CommandReady(c)'
    BY <1>1, <1>3, <1>4 DEF CommandReady
  <1>6. ImportHolds(c)'
    <2>1. /\ import[c].firstId <= nextId /\ import[c].todo \subseteq Offered(tar)
          /\ import[c].firstId \in Nat /\ nextId \in Nat /\ nextId' \in Nat
      BY ImportTyped DEF TransferInv, ImportsHold, ImportHolds, TablesShape, ImportLocals
    <2>2. Offered(tar)' = Offered(tar)
      BY DEF Offered, ArchivedName
    <2> QED  BY <1>1, <1>3, <1>4, <2>1, <2>2 DEF ImportHolds
  <1> QED  BY <1>1, <1>2, <1>4, <1>5, <1>6, ImportMoves

LEMMA SameTables ==
  ASSUME TransferInv, UNCHANGED <<user, disk, db, noted, template>>
  PROVE  TablesShape' /\ nextId <= nextId'
  BY DEF TransferInv, TablesShape, user, disk, db

LEMMA UnpackInv ==
  ASSUME TransferInv, NEW c \in Procs, import[c].on,
         SkipPresent(c) \/ CreateRaw(c) \/ FillRaw(c) \/ Unpacked(c)
  PROVE  TransferInv'
  <1>0. job[c] \in Job /\ import[c] \in ImportLocals /\ NoJob \in Job
    BY ImportTyped, EndReady DEF TransferInv, CommandsShape, TablesShape, Ready
  <1>1. CASE SkipPresent(c)
    <2>1. PICK n \in import[c].raws : import' = [import EXCEPT ![c].raws = @ \ {n}]
      BY <1>1 DEF SkipPresent
    <2> DEFINE i == [import[c] EXCEPT !.raws = @ \ {n}]
    <2>2. import' = [import EXCEPT ![c] = i]
      BY <2>1 DEF TransferInv, BundlesShape
    <2>3. i \in ImportLocals /\ i.on /\ i.firstId = import[c].firstId /\ i.todo = import[c].todo
      BY <1>0 DEF ImportLocals
    <2> HIDE DEF i
    <2>4. Goto(c, "unpack", job[c]) /\ UNCHANGED <<user, disk, db, noted, template, tar, export>>
      BY <1>1 DEF SkipPresent, Goto, TransferInv, CommandsShape, vars
    <2> QED  BY <1>0, <2>2, <2>3, <2>4, SameTables, ImportGoes
  <1>2. CASE CreateRaw(c)
    <2>1. PICK n \in import[c].raws :
            /\ raw' = [raw EXCEPT ![n] = Torn(tar.raw[n].of)]
            /\ Goto(c, "filling", [job[c] EXCEPT !.tmp = n])
      BY <1>2 DEF CreateRaw
    <2> DEFINE j == [job[c] EXCEPT !.tmp = n]
    <2>2. n \in Contents /\ tar.raw[n] \in Copy
      BY <1>0 DEF ImportLocals, TransferInv, BundlesShape, ArchiveShape
    <2>3. j \in Job /\ j.tmp = n
      BY <1>0, <2>2 DEF Job, Name
    <2>4. UNCHANGED <<user, cache, older, db, noted, template, tar, export, import>>
      BY <1>2 DEF CreateRaw, bundles
    <2>5. raw' \in [Contents -> Copy]
      BY <2>1, <2>2 DEF TransferInv, TablesShape, Copy, Torn
    <2>6. TablesShape' /\ nextId <= nextId'
      BY <2>4, <2>5 DEF TransferInv, TablesShape, user, db
    <2>7. import' = [import EXCEPT ![c] = import[c]]
      BY <2>4 DEF TransferInv, BundlesShape
    <2>8. Goto(c, "filling", j) /\ n \in import[c].raws
      BY <2>1
    <2> HIDE DEF j
    <2> QED  BY <1>0, <2>3, <2>4, <2>6, <2>7, <2>8, ImportGoes
  <1>3. CASE FillRaw(c)
    <2> DEFINE i == [import[c] EXCEPT !.raws = @ \ {job[c].tmp}]
    <2>1. /\ raw' = [raw EXCEPT ![job[c].tmp] = tar.raw[job[c].tmp]]
          /\ import' = [import EXCEPT ![c] = i]
          /\ Goto(c, "unpack", NoJob)
          /\ UNCHANGED <<user, cache, older, db, noted, template, tar, export>>
      BY <1>3 DEF FillRaw, TransferInv, BundlesShape
    <2>2. i \in ImportLocals /\ i.on /\ i.firstId = import[c].firstId /\ i.todo = import[c].todo
      BY <1>0 DEF ImportLocals
    <2> HIDE DEF i
    <2>3. pc[c] = "filling" /\ "filling" \notin Step
      BY <1>3 DEF FillRaw, Step
    <2>4. job[c].tmp \in Contents
      BY <1>0, <2>3 DEF TransferInv, CommandsShape, CommandReady, ImportLocals
    <2>5. TablesShape' /\ nextId <= nextId'
      BY <2>1, <2>4 DEF TransferInv, TablesShape, BundlesShape, ArchiveShape, user, db
    <2> QED  BY <1>0, <2>1, <2>2, <2>5, ImportGoes
  <1>4. CASE Unpacked(c)
    <2>1. Goto(c, "templates", NoJob) /\ UNCHANGED <<user, disk, db, bundles>>
      BY <1>4 DEF Unpacked
    <2>2. import' = [import EXCEPT ![c] = import[c]]
      BY <2>1 DEF TransferInv, BundlesShape, bundles
    <2> QED  BY <1>0, <2>1, <2>2, SameTables, ImportGoes DEF bundles
  <1> QED  BY <1>1, <1>2, <1>3, <1>4

LEMMA TemplatesInv ==
  ASSUME TransferInv, NEW c \in Procs, import[c].on,
         KeepTemplate(c) \/ RemoveTemplate(c) \/ CopyTemplate(c) \/ TemplatesDone(c)
  PROVE  TransferInv'
  <1>0. /\ job[c] \in Job /\ import[c] \in ImportLocals /\ NoJob \in Job
        /\ NoCopy \in Copy
    BY ImportTyped, EndReady
       DEF TransferInv, CommandsShape, TablesShape, Ready, Copy, NoCopy, Name
  <1>1. CASE KeepTemplate(c)
    <2>1. PICK t \in import[c].templates : import' = [import EXCEPT ![c].templates = @ \ {t}]
      BY <1>1 DEF KeepTemplate
    <2> DEFINE i == [import[c] EXCEPT !.templates = @ \ {t}]
    <2>2. import' = [import EXCEPT ![c] = i]
      BY <2>1 DEF TransferInv, BundlesShape
    <2>3. i \in ImportLocals /\ i.on /\ i.firstId = import[c].firstId /\ i.todo = import[c].todo
      BY <1>0 DEF ImportLocals
    <2> HIDE DEF i
    <2>4. Goto(c, "templates", job[c]) /\ UNCHANGED <<user, disk, db, noted, template, tar, export>>
      BY <1>1 DEF KeepTemplate, Goto, TransferInv, CommandsShape, vars
    <2> QED  BY <1>0, <2>2, <2>3, <2>4, SameTables, ImportGoes
  <1>2. CASE RemoveTemplate(c)
    <2>1. PICK t \in import[c].templates :
            /\ Present(template[t]) => import[c].policy = "overwrite"
            /\ template' = [template EXCEPT ![t] = NoCopy]
            /\ import' = [import EXCEPT ![c].templates = @ \ {t}, ![c].taken = {t}]
      BY <1>2 DEF RemoveTemplate
    <2> DEFINE i == [import[c] EXCEPT !.templates = @ \ {t}, !.taken = {t}]
    <2>2. import' = [import EXCEPT ![c] = i]
      BY <2>1 DEF TransferInv, BundlesShape
    <2>3. /\ i \in ImportLocals /\ i.on /\ i.firstId = import[c].firstId
          /\ i.todo = import[c].todo /\ i.taken = {t} /\ i.policy = import[c].policy
      BY <1>0 DEF ImportLocals
    <2> HIDE DEF i
    <2>4. Goto(c, "copying", NoJob) /\ UNCHANGED <<user, disk, db, noted, tar, export>>
      BY <1>2 DEF RemoveTemplate
    <2>5. template' \in [Templates -> Copy] /\ template'[t] = NoCopy
      BY <1>0, <2>1 DEF ImportLocals, TransferInv, TablesShape
    <2>6. TablesShape' /\ nextId' = nextId
      BY <2>4, <2>5 DEF TransferInv, TablesShape, user, disk, db
    <2>7. /\ import' \in [Procs -> ImportLocals] /\ import'[c] = i
          /\ \A o \in Procs \ {c} : import'[o] = import[o]
      BY <2>2, <2>3 DEF TransferInv, BundlesShape
    <2>8. /\ tar.made
          /\ \A o \in Procs \ {c} : pc[o] = "idle" /\ ~import[o].on
      BY DEF TransferInv, BundlesShape, Importing, ImportsAlone
    <2>9. pc'[c] = "copying" /\ "copying" \notin Step /\ "copying" \in ImportSteps
      BY <2>4 DEF Goto, TransferInv, CommandsShape, Step, ImportSteps
    <2>10. ImportHolds(c)'
      <3>1. import[c].firstId <= nextId /\ import[c].todo \subseteq Offered(tar)
        BY DEF TransferInv, ImportsHold, ImportHolds
      <3>2. Offered(tar)' = Offered(tar)
        BY <2>4 DEF Offered, ArchivedName
      <3>3. \A s \in {t} : ~Present(template'[s])
        BY <2>5 DEF Present, NoCopy
      <3> QED  BY <2>3, <2>6, <2>7, <2>9, <3>1, <3>2, <3>3 DEF ImportHolds
    <2>11. CommandReady(c)'
      BY <2>3, <2>7, <2>9, OwnStepReady
    <2> QED  BY <1>0, <2>4, <2>6, <2>7, <2>8, <2>9, <2>10, <2>11, ImportMoves
  <1>3. CASE CopyTemplate(c)
    <2>1. PICK whole \in BOOLEAN, t \in import[c].taken :
            /\ template' = [template EXCEPT ![t] = [tar.template[t] EXCEPT !.whole = whole]]
            /\ import' = [import EXCEPT ![c].taken = {}, ![c].errs = @ \/ ~whole]
      BY <1>3 DEF CopyTemplate
    <2> DEFINE failed == import[c].errs \/ ~whole
               i == [import[c] EXCEPT !.taken = {}, !.errs = failed]
    <2>2. failed \in BOOLEAN
      OBVIOUS
    <2>3. import' = [import EXCEPT ![c] = i]
      BY <2>1 DEF TransferInv, BundlesShape
    <2> HIDE DEF failed
    <2>8. i \in ImportLocals /\ i.on /\ i.firstId = import[c].firstId /\ i.todo = import[c].todo
      BY <1>0, <2>2 DEF ImportLocals
    <2> HIDE DEF i
    <2>4. Goto(c, "templates", NoJob) /\ UNCHANGED <<user, disk, db, noted, tar, export>>
      BY <1>3 DEF CopyTemplate
    <2>5. tar.template[t] \in Copy /\ t \in Templates
      BY <1>0 DEF ImportLocals, TransferInv, BundlesShape, ArchiveShape
    <2>6. [tar.template[t] EXCEPT !.whole = whole] \in Copy
      BY <2>5 DEF Copy
    <2>9. template' \in [Templates -> Copy]
      BY <2>1, <2>5, <2>6 DEF TransferInv, TablesShape
    <2>7. TablesShape' /\ nextId <= nextId'
      BY <2>4, <2>9 DEF TransferInv, TablesShape, user, disk, db
    <2> QED  BY <1>0, <2>3, <2>4, <2>7, <2>8, ImportGoes
  <1>4. CASE TemplatesDone(c)
    <2>1. Goto(c, "offer", NoJob) /\ UNCHANGED <<user, disk, db, bundles>>
      BY <1>4 DEF TemplatesDone
    <2>2. import' = [import EXCEPT ![c] = import[c]]
      BY <2>1 DEF TransferInv, BundlesShape, bundles
    <2> QED  BY <1>0, <2>1, <2>2, SameTables, ImportGoes DEF bundles
  <1> QED  BY <1>1, <1>2, <1>3, <1>4
LEMMA OfferInv ==
  ASSUME TransferInv, NEW c \in Procs, import[c].on, NEW d \in import[c].todo,
         SkipDocument(c, d) \/ OfferFails(c, d) \/ TakeDocument(c, d)
  PROVE  TransferInv'
  <1>0. job[c] \in Job /\ import[c] \in ImportLocals /\ NoJob \in Job
    BY ImportTyped, EndReady DEF TransferInv, CommandsShape, TablesShape, Ready
  <1>1. CASE SkipDocument(c, d) \/ OfferFails(c, d)
    <2>1. PICK errs \in BOOLEAN :
            import' = [import EXCEPT ![c] = [import[c] EXCEPT !.todo = @ \ {d}, !.errs = errs]]
      <3>1. CASE SkipDocument(c, d)
        <4>1. import[c].errs \in BOOLEAN
          BY <1>0 DEF ImportLocals
        <4>2. import' = [import EXCEPT ![c] = [import[c] EXCEPT !.todo = @ \ {d}, !.errs = import[c].errs]]
          BY <1>0, <3>1 DEF SkipDocument, TransferInv, BundlesShape, ImportLocals
        <4> QED  BY <4>1, <4>2
      <3>2. CASE OfferFails(c, d)
        BY <3>2 DEF OfferFails, TransferInv, BundlesShape
      <3> QED  BY <1>1, <3>1, <3>2
    <2> DEFINE i == [import[c] EXCEPT !.todo = @ \ {d}, !.errs = errs]
    <2>2. /\ i \in ImportLocals /\ i.on /\ i.firstId = import[c].firstId
          /\ i.todo \subseteq import[c].todo
      BY <1>0 DEF ImportLocals
    <2> HIDE DEF i
    <2>3. Goto(c, "offer", job[c]) /\ UNCHANGED <<user, disk, db, noted, template, tar, export>>
      BY <1>1 DEF SkipDocument, OfferFails, Goto, TransferInv, CommandsShape, vars
    <2> QED  BY <1>0, <2>1, <2>2, <2>3, SameTables, ImportGoes DEF i
  <1>2. CASE TakeDocument(c, d)
    <2> DEFINE i == [import[c] EXCEPT !.doc = d, !.prior = docs[PathOf(d)]]
    <2>1. /\ import' = [import EXCEPT ![c] = i] /\ Goto(c, "adopt", NoJob)
          /\ UNCHANGED <<user, disk, db, noted, template, tar, export>>
      BY <1>2 DEF TakeDocument, TransferInv, BundlesShape
    <2>2. /\ import[c].firstId <= nextId /\ import[c].todo \subseteq Offered(tar)
      BY DEF TransferInv, ImportsHold, ImportHolds
    <2>3. d \in Row /\ PathOf(d) \in Paths /\ docs[PathOf(d)] \in Row
      BY <2>2, OfferedRows DEF TransferInv, TablesShape
    <2>4. /\ i \in ImportLocals /\ i.on /\ i.firstId = import[c].firstId
          /\ i.todo = import[c].todo /\ i.doc = d /\ i.prior = docs[PathOf(d)]
          /\ i.policy = import[c].policy
      BY <1>0, <2>3 DEF ImportLocals
    <2> HIDE DEF i
    <2>5. /\ import' \in [Procs -> ImportLocals] /\ import'[c] = i
          /\ \A o \in Procs \ {c} : import'[o] = import[o]
      BY <2>1, <2>4 DEF TransferInv, BundlesShape
    <2>6. /\ tar.made
          /\ \A o \in Procs \ {c} : pc[o] = "idle" /\ ~import[o].on
      BY DEF TransferInv, BundlesShape, Importing, ImportsAlone
    <2>7. pc'[c] = "adopt" /\ "adopt" \notin Step /\ "adopt" \in ImportSteps
      BY <2>1 DEF Goto, TransferInv, CommandsShape, Step, ImportSteps
    <2>8. ImportHolds(c)'
      <3>1. Offered(tar)' = Offered(tar) /\ PathOf(d)' = PathOf(d)
        BY <2>1 DEF Offered, ArchivedName, PathOf
      <3>2. nextId' = nextId /\ docs' = docs
        BY <2>1 DEF db
      <3>3. i.policy = "skip" => i.prior.id = 0
        BY <1>2, <2>4 DEF TakeDocument, Exists
      <3> QED  BY <2>2, <2>4, <2>5, <2>7, <3>1, <3>2, <3>3 DEF ImportHolds
    <2>9. CommandReady(c)'
      BY <2>4, <2>5, <2>7, OwnStepReady
    <2> QED  BY <1>0, <2>1, <2>5, <2>6, <2>7, <2>8, <2>9, SameTables, ImportMoves
  <1> QED  BY <1>1, <1>2

LEMMA MoreIds ==
  ASSUME NEW m \in Nat, NEW n \in Nat, m <= n
  PROVE  1 .. m - 1 \subseteq 1 .. n - 1
  <1> SUFFICES ASSUME NEW k \in 1 .. m - 1 PROVE k \in 1 .. n - 1
    OBVIOUS
  <1> QED  OBVIOUS

LEMMA AdoptInv ==
  ASSUME TransferInv, NEW c \in Procs, import[c].on, Adopt(c)
  PROVE  TransferInv'
  <1> DEFINE d == import[c].doc
             p == PathOf(d)
             prior == import[c].prior
             new == prior.id = 0
             id == IF new THEN nextId ELSE prior.id
             r == [(IF new THEN NoRow ELSE docs[p]) EXCEPT !.id = id, !.sha = d.sha, !.raw = d.raw]
             e == [path |-> p, id |-> id, sha |-> d.sha, raw |-> d.raw]
             j == [NoJob EXCEPT !.cmd = "reindex", !.dim = config, !.todo = {e}]
  <1>1. /\ pc[c] = "adopt"
        /\ docs' = [docs EXCEPT ![p] = r]
        /\ nextId' = IF new THEN nextId + 1 ELSE nextId
        /\ Goto(c, "next", j)
        /\ UNCHANGED <<user, disk, noted, template, tar, export, import>>
    BY DEF Adopt, bundles
  <1>2. /\ d \in Offered(tar) /\ prior = docs[p] /\ import[c].firstId <= nextId
        /\ import[c].todo \subseteq Offered(tar)
        /\ import[c].policy = "skip" => prior.id = 0
    BY <1>1 DEF TransferInv, ImportsHold, ImportHolds
  <1>3. d \in Row /\ p \in Paths /\ docs[p] \in Row /\ docs[p].id < nextId /\ nextId \in Nat \ {0}
    BY <1>2, OfferedRows DEF TransferInv, TablesShape
  <1>4. import[c] \in ImportLocals /\ import[c].firstId \in Nat
    BY ImportTyped DEF ImportLocals
  <1>5. /\ id \in Nat \ {0} /\ id < nextId' /\ nextId' \in Nat \ {0} /\ nextId <= nextId'
        /\ new => import[c].firstId <= id
    BY <1>1, <1>2, <1>3, <1>4 DEF Row
  <1>6. r \in Row /\ r.id = id
    <2>1. NoRow \in Row
      BY DEF Row, NoRow, Copy, NoCopy, Name
    <2> HIDE DEF id, p
    <2> QED  BY <1>3, <1>5, <2>1 DEF Row
  <1>7. e \in Loaded /\ e.path = p /\ e.id = id
    <2> HIDE DEF id, p
    <2> QED  BY <1>3, <1>5 DEF Loaded, Row
  <1> HIDE DEF d, p, prior, id, r, e
  <1>8. /\ j \in Job /\ j.cmd = "reindex" /\ j.todo = {e} /\ j.id = 0 /\ j.path = None
    <2>1. NoJob \in Job /\ config \in Dims
      BY <1>3, EndReady DEF Ready, TransferInv, TablesShape
    <2> QED  BY <1>7, <2>1 DEF Job, NoJob
  <1> HIDE DEF j
  <1>9. docs' \in [Paths -> Row] /\ docs'[p] = r /\ \A q \in Paths : docs'[q].id < nextId'
    <2>1. docs \in [Paths -> Row] /\ \A q \in Paths : docs[q].id \in Nat /\ docs[q].id < nextId
      BY DEF TransferInv, TablesShape, Row
    <2> QED  BY <1>1, <1>3, <1>5, <1>6, <2>1
  <1>10. TablesShape'
    <2>1. 1 .. nextId - 1 \subseteq 1 .. nextId' - 1
      BY <1>3, <1>5, MoreIds
    <2>2. noted \subseteq 1 .. nextId' - 1
      BY <2>1 DEF TransferInv, TablesShape
    <2> QED  BY <1>1, <1>5, <1>9, <2>2 DEF TransferInv, TablesShape, user, disk
  <1>11. /\ tar.made /\ import' \in [Procs -> ImportLocals]
         /\ \A o \in Procs \ {c} : pc[o] = "idle" /\ ~import[o].on
    BY <1>1 DEF TransferInv, BundlesShape, Importing, ImportsAlone
  <1>12. pc'[c] = "next" /\ job'[c] = j
    BY <1>1 DEF Goto, TransferInv, CommandsShape
  <1>13. Ready("next", j, nextId')
    BY <1>5, <1>7, <1>8 DEF Ready, Fits, Step, RowStep
  <1>14. CommandReady(c)'
    BY <1>12, <1>13 DEF CommandReady, Step
  <1>15. ImportHolds(c)'
    <2>1. Offered(tar)' = Offered(tar) /\ PathOf(import[c].doc)' = p /\ import'[c] = import[c]
      BY <1>1 DEF Offered, ArchivedName, PathOf, p, d
    <2>2. EmbedsOne(c)'
      <3>1. docs'[p].id # 0
        BY <1>5, <1>6, <1>9
      <3>2. import'[c].prior.id = 0 => import'[c].firstId <= docs'[p].id
        BY <1>5, <1>6, <1>9, <2>1 DEF prior
      <3> QED  BY <1>6, <1>7, <1>8, <1>9, <1>12, <2>1, <3>1, <3>2
               DEF EmbedsOne, Exists
    <2>3. import[c].firstId <= nextId'
      BY <1>2, <1>3, <1>4, <1>5
    <2> QED  BY <1>2, <1>12, <2>1, <2>2, <2>3 DEF ImportHolds, Step, d, prior
  <1> QED  BY <1>1, <1>8, <1>10, <1>11, <1>14, <1>15, ImportMoves DEF Step

\* The steps ReindexDocument shares with ingest, as an import takes them: a
\* document that is given up is counted, and the row is the one in hand.
EmbedMoved(c) ==
    /\ pc'[c] # "idle" /\ job'[c].cmd = "reindex"
    /\ \/ \E d \in job[c].todo : job'[c].path = d.path /\ job'[c].id = d.id
       \/ /\ job'[c].path = job[c].path /\ job'[c].id = job[c].id
          /\ job'[c].todo = {} /\ job'[c].clean => job[c].todo = {} /\ job[c].clean
    /\ job'[c].todo \subseteq job[c].todo

LEMMA EmbedActs ==
  ASSUME NEW c \in Procs, Embed(c)
  PROVE  /\ pc[c] \in Step /\ Acts(c) /\ UNCHANGED bundles
         /\ import[c].on
  <1>1. CASE IngestStep(c)
    BY <1>1 DEF Embed, Acts, CommandStep, IngestStep, CopySourceToRaw, AlreadyArchived, CopyToTemp,
       NoSourceToCopy, RenameToRaw, ReadOrExtract, CacheHit, Extract, NoSourceToExtract,
       CreateCache, FillCache, CheckDimension, CreateDoc, ReplaceForDocument,
       WriteAutoMetadata, CommitSHA, Step
  <1>2. CASE (\E d \in job[c].todo : Locate(c, d) \/ Skip(c, d)) \/ SetRawPath(c)
    BY <1>2 DEF Embed, Acts, CommandStep, ReindexStep, Locate, Skip, SetRawPath, Step
  <1> QED  BY <1>1, <1>2 DEF Embed

LEMMA EmbedMoves ==
  ASSUME Shape, NEW c \in Procs, Embed(c), job[c].cmd = "reindex"
  PROVE  EmbedMoved(c) /\ UNCHANGED <<user, raw, nextId>>
  <1>0. pc[c] \notin {"archive", "rename", "guard", "create", "commit"}
    BY Locals DEF Fits
  <1>1. ASSUME NEW to, Goto(c, to, job[c]), to # "idle"
        PROVE  EmbedMoved(c)
    BY <1>1, Moved DEF EmbedMoved
  <1>2. GiveUp(c) => EmbedMoved(c)
    <2>1. [job[c] EXCEPT !.clean = FALSE] \in Job
      BY Locals DEF Job
    <2>2. ASSUME GiveUp(c) PROVE EmbedMoved(c)
      <3> DEFINE j == [job[c] EXCEPT !.clean = FALSE]
      <3>1. pc'[c] = "next" /\ job'[c] = j
        BY <2>2, Moved DEF GiveUp
      <3>2. /\ j.cmd = "reindex" /\ j.path = job[c].path /\ j.id = job[c].id
            /\ j.clean = FALSE /\ j.todo = job[c].todo
        BY Locals DEF Job
      <3> HIDE DEF j
      <3> QED  BY <3>1, <3>2 DEF EmbedMoved
    <2> QED  BY <2>2
  <1>3. CASE ReadOrExtract(c)
    <2>1. ~CacheHit(c)
      BY DEF CacheHit
    <2>2. CASE Extract(c)
      <3> DEFINE to == IF job[c].sha = None THEN Embedded(c) ELSE "write"
                 j == [job[c] EXCEPT !.text = Source(c)]
      <3>1. Goto(c, to, j) /\ UNCHANGED <<user, disk, db>>
        BY <2>2 DEF Extract
      <3>2. to # "idle"
        BY DEF Embedded
      <3>3. /\ j.cmd = "reindex" /\ j.path = job[c].path /\ j.id = job[c].id
            /\ j.clean = job[c].clean /\ j.todo = job[c].todo
        BY Locals DEF Job
      <3> HIDE DEF to, j
      <3>4. pc'[c] = to /\ job'[c] = j
        BY <3>1, Moved
      <3> QED  BY <3>1, <3>2, <3>3, <3>4 DEF EmbedMoved, disk, db
    <2>3. CASE NoSourceToExtract(c)
      BY <1>2, <2>3 DEF NoSourceToExtract, disk, db
    <2>4. CASE CreateCache(c) \/ FillCache(c)
      <3>1. Embedded(c) # "idle" /\ job[c].cmd # "preprocess"
        BY DEF Embedded
      <3> QED  BY <1>1, <2>4, <3>1 DEF CreateCache, FillCache, db
    <2> QED  BY <1>3, <2>1, <2>2, <2>3, <2>4 DEF ReadOrExtract
  <1>4. CASE ReplaceForDocument(c)
    BY <1>1, <1>2, <1>4 DEF ReplaceForDocument, disk
  <1>5. CASE WriteAutoMetadata(c)
    BY <1>1, <1>2, <1>5 DEF WriteAutoMetadata, disk, db
  <1>6. ASSUME NEW d \in job[c].todo, Locate(c, d)
        PROVE  EmbedMoved(c) /\ UNCHANGED <<user, raw, nextId>>
    <2> DEFINE j == Take(c, d)
               to == IF InArchive(d) /\ ArchivedName(d) # d.raw THEN "setraw" ELSE AfterLocate(j)
    <2>1. Goto(c, to, j) /\ UNCHANGED <<user, disk, db>>
      BY <1>6 DEF Locate
    <2>2. to # "idle"
      BY DEF AfterLocate
    <2>3. /\ j.cmd = "reindex" /\ j.path = d.path /\ j.id = d.id
          /\ j.todo = job[c].todo \ {d}
      BY Locals DEF Job, Take
    <2> HIDE DEF to, j
    <2>4. pc'[c] = to /\ job'[c] = j
      BY <2>1, Moved
    <2> QED  BY <2>1, <2>2, <2>3, <2>4 DEF EmbedMoved, disk, db
  <1>7. ASSUME NEW d \in job[c].todo, Skip(c, d)
        PROVE  EmbedMoved(c) /\ UNCHANGED <<user, raw, nextId>>
    <2> DEFINE j == [job[c] EXCEPT !.todo = job[c].todo \ {d}, !.clean = FALSE]
    <2>1. Goto(c, "next", j) /\ UNCHANGED <<user, disk, db>>
      BY <1>7 DEF Skip
    <2>2. /\ j.cmd = "reindex" /\ j.path = job[c].path /\ j.id = job[c].id
          /\ j.clean = FALSE /\ j.todo = job[c].todo \ {d}
      BY Locals DEF Job
    <2> HIDE DEF j
    <2>3. pc'[c] = "next" /\ job'[c] = j
      BY <2>1, Moved
    <2> QED  BY <2>1, <2>2, <2>3 DEF EmbedMoved, disk, db
  <1>8. CASE SetRawPath(c)
    <2>1. AfterLocate(job[c]) # "idle"
      BY DEF AfterLocate
    <2> QED  BY <1>1, <1>8, <2>1 DEF SetRawPath, disk
  <1>9. CASE CopySourceToRaw(c) \/ CheckDimension(c) \/ CreateDoc(c) \/ CommitSHA(c)
    BY <1>0, <1>9 DEF CopySourceToRaw, AlreadyArchived, CopyToTemp, NoSourceToCopy, RenameToRaw,
       CheckDimension, CreateDoc, CommitSHA
  <1> QED  BY <1>3, <1>4, <1>5, <1>6, <1>7, <1>8, <1>9 DEF Embed, IngestStep

\* An embedding writes to the row it holds, and leaves its id.
LEMMA EmbedRows ==
  ASSUME Shape, NEW c \in Procs, Embed(c), job[c].cmd = "reindex", NEW q \in Paths
  PROVE  /\ docs'[q].id = docs[q].id
         /\ docs'[q] # docs[q] => q = job[c].path /\ Alive(c)
  <1>0. pc[c] \notin {"create", "commit", "delrow"}
    BY Locals DEF Fits
  <1>1. RowChange(c, q)
    BY EmbedActs, RowChanges
  <1>2. docs[q] \in Row
    BY DEF Shape, TypeOK
  <1> QED  BY <1>0, <1>1, <1>2 DEF RowChange, Creates, Replaces, Commits, Locates, Row

\* Whatever the step, the import can go on from there.
LEMMA EmbedKeeps ==
  ASSUME TransferInv, NEW c \in Procs, import[c].on, pc[c] \in Step, EmbedMoved(c), Alone(c),
         UNCHANGED <<user, nextId, bundles>>, Shape',
         \A q \in Paths : docs'[q].id = docs[q].id
  PROVE  TransferInv'
  <1> DEFINE p == PathOf(import[c].doc)
  <1>1. Shape /\ EmbedsOne(c) /\ import[c].doc \in Offered(tar) /\ p \in Paths
    BY ShapeOfEmbedding, OfferedRows
  <1>2. TablesShape' /\ job'[c] \in Job
    BY DEF TransferInv, TablesShape, Shape, TypeOK, IdsIssued, bundles
  <1>3. pc'[c] \in Step /\ Ready(pc'[c], job'[c], nextId') /\ pc'[c] # "idle"
    BY ShapeReadyNext DEF EmbedMoved
  <1>4. Goto(c, pc'[c], job'[c])
    BY <1>1 DEF Goto, Alone, Shape, TypeOK
  <1>5. /\ tar.made /\ import' \in [Procs -> ImportLocals]
        /\ \A o \in Procs \ {c} : pc[o] = "idle" /\ ~import[o].on
    BY DEF TransferInv, BundlesShape, Importing, ImportsAlone, bundles
  <1>6. PathOf(import[c].doc)' = p /\ Offered(tar)' = Offered(tar)
    BY DEF PathOf, Offered, ArchivedName, bundles
  <1>7. docs'[p].id = docs[p].id
    BY <1>1
  <1> HIDE DEF p
  <1>8. EmbedsOne(c)'
    <2>1. \A e \in job'[c].todo : e.path = p /\ e.id = docs'[p].id
      BY <1>1, <1>7 DEF EmbedsOne, EmbedMoved, p
    <2>2. job'[c].path # None => job'[c].path = p /\ job'[c].id = docs'[p].id
      BY <1>1, <1>7 DEF EmbedsOne, EmbedMoved, p
    <2>3. job'[c].todo = {} /\ job'[c].clean => job'[c].path # None
      BY <1>1, StoreAssumption DEF EmbedsOne, EmbedMoved, p
    <2>4. docs'[p].id # 0 /\ (import[c].prior.id = 0 => import[c].firstId <= docs'[p].id)
      BY <1>1, <1>7 DEF EmbedsOne, Exists, p
    <2> QED  BY <1>3, <1>6, <2>1, <2>2, <2>3, <2>4 DEF EmbedsOne, EmbedMoved, Exists, bundles
  <1>9. ImportHolds(c)'
    <2>1. ImportHolds(c) /\ nextId' = nextId /\ import' = import
      BY DEF TransferInv, ImportsHold, bundles
    <2>2. pc'[c] # "adopt" /\ pc'[c] # "copying"
      BY <1>3 DEF Step
    <2> QED  BY <1>3, <1>6, <1>8, <2>1, <2>2 DEF ImportHolds
  <1> QED  BY <1>2, <1>3, <1>4, <1>5, <1>9, ImportMoves DEF CommandReady, bundles

LEMMA EmbedInv ==
  ASSUME TransferInv, NEW c \in Procs, Embed(c)
  PROVE  TransferInv'
  <1>1. pc[c] \in Step /\ Acts(c) /\ UNCHANGED bundles /\ import[c].on
    BY EmbedActs
  <1>2. Shape /\ job[c].cmd = "reindex"
    BY <1>1, ShapeOfEmbedding DEF EmbedsOne
  <1>3. EmbedMoved(c) /\ UNCHANGED <<user, raw, nextId>>
    BY <1>2, EmbedMoves
  <1>4. Shape' /\ Alone(c)
    BY <1>1, <1>2, StepShape, ActsAlone DEF Acts, Next
  <1> QED  BY <1>1, <1>2, <1>3, <1>4, EmbedRows, EmbedKeeps

LEMMA EmbedFailsInv ==
  ASSUME TransferInv, NEW c \in Procs, EmbedFails(c)
  PROVE  TransferInv'
  <1>1. /\ pc[c] \in {"text", "replace", "meta"} /\ import[c].on /\ GiveUp(c)
        /\ UNCHANGED <<user, disk, db, bundles>>
    BY DEF EmbedFails
  <1>2. pc[c] \in Step
    BY <1>1 DEF Step
  <1>3. Shape /\ job[c].cmd = "reindex"
    BY <1>1, <1>2, ShapeOfEmbedding DEF EmbedsOne
  <1>4. Shape'
    BY <1>1, <1>3, GiveUpShape
  <1> DEFINE j == [job[c] EXCEPT !.clean = FALSE]
  <1>5. Goto(c, "next", j)
    BY <1>1, <1>3 DEF GiveUp
  <1>6. /\ j.cmd = "reindex" /\ j.path = job[c].path /\ j.id = job[c].id
        /\ j.clean = FALSE /\ j.todo = job[c].todo
    BY <1>3, Locals DEF Job
  <1> HIDE DEF j
  <1>7. pc'[c] = "next" /\ job'[c] = j
    BY <1>3, <1>5, Moved
  <1>8. EmbedMoved(c)
    BY <1>6, <1>7 DEF EmbedMoved
  <1>9. Alone(c)
    BY <1>3, <1>5 DEF Alone, Goto, Shape, TypeOK
  <1> QED  BY <1>1, <1>2, <1>4, <1>8, <1>9, EmbedKeeps DEF db

LEMMA RollbackInv ==
  ASSUME TransferInv, NEW c \in Procs, Rollback(c)
  PROVE  TransferInv'
  <1> DEFINE p == job[c].path
             r == IF import[c].prior.id = 0 THEN NoRow
                  ELSE [docs[p] EXCEPT !.sha = import[c].prior.sha, !.raw = import[c].prior.raw]
             i == [import[c] EXCEPT !.todo = @ \ {import[c].doc}, !.errs = TRUE]
  <1>1. /\ pc[c] = "next" /\ import[c].on
        /\ docs' = [docs EXCEPT ![p] = r]
        /\ import' = [import EXCEPT ![c] = i]
        /\ Goto(c, "offer", NoJob)
        /\ UNCHANGED <<user, disk, nextId, noted, template, tar, export>>
    BY DEF Rollback, Embedding, TransferInv, BundlesShape
  <1>2. import[c] \in ImportLocals /\ NoJob \in Job /\ nextId \in Nat \ {0}
    BY ImportTyped, EndReady DEF TransferInv, TablesShape, Ready
  <1>3. /\ i \in ImportLocals /\ i.on /\ i.firstId = import[c].firstId
        /\ i.todo \subseteq import[c].todo
    BY <1>1, <1>2 DEF ImportLocals
  <1>4. p \in Paths => r \in Row /\ r.id < nextId
    <2>1. NoRow \in Row /\ NoRow.id = 0
      BY DEF Row, NoRow, Copy, NoCopy, Name
    <2>2. import[c].prior \in Row
      BY <1>2 DEF ImportLocals
    <2>3. p \in Paths => docs[p] \in Row /\ docs[p].id < nextId
      BY DEF TransferInv, TablesShape
    <2> HIDE DEF p
    <2>4. CASE import[c].prior.id = 0
      BY <1>2, <2>1, <2>4
    <2>5. CASE import[c].prior.id # 0
      <3> DEFINE b == [docs[p] EXCEPT !.sha = import[c].prior.sha, !.raw = import[c].prior.raw]
      <3>1. p \in Paths => b \in Row /\ b.id = docs[p].id
        BY <2>2, <2>3 DEF Row
      <3> HIDE DEF b
      <3>2. r = b
        BY <2>5 DEF b
      <3> QED  BY <2>3, <3>1, <3>2
    <2> QED  BY <2>4, <2>5
  <1> HIDE DEF i, r, p
  <1>5. docs' \in [Paths -> Row] /\ \A q \in Paths : docs'[q].id < nextId
    BY <1>1, <1>4 DEF TransferInv, TablesShape
  <1>6. TablesShape' /\ nextId <= nextId'
    BY <1>1, <1>5 DEF TransferInv, TablesShape, user, disk
  <1> QED  BY <1>1, <1>2, <1>3, <1>6, ImportGoes

LEMMA WriteMetadataInv ==
  ASSUME TransferInv, NEW c \in Procs, WriteMetadata(c)
  PROVE  TransferInv'
  <1> DEFINE i == [import[c] EXCEPT !.todo = @ \ {import[c].doc}]
  <1>1. /\ pc[c] = "next" /\ import[c].on /\ job[c].todo = {} /\ job[c].clean
        /\ noted' = noted \/ noted' = noted \cup {job[c].id}
        /\ import' = [import EXCEPT ![c] = i]
        /\ Goto(c, "offer", NoJob)
        /\ UNCHANGED <<user, disk, db, template, tar, export>>
    BY DEF WriteMetadata, Embedding, TransferInv, BundlesShape
  <1>2. import[c] \in ImportLocals /\ NoJob \in Job
    BY ImportTyped, EndReady DEF TransferInv, TablesShape, Ready
  <1>3. /\ i \in ImportLocals /\ i.on /\ i.firstId = import[c].firstId
        /\ i.todo \subseteq import[c].todo
    BY <1>1, <1>2 DEF ImportLocals
  <1> HIDE DEF i
  <1>4. job[c].id \in 1 .. nextId - 1
    <2>1. Shape /\ EmbedsOne(c)
      BY <1>1, ShapeOfEmbedding DEF Step
    <2>2. job[c].id # 0
      BY <1>1, <2>1 DEF EmbedsOne, Exists
    <2>3. job[c].id \in Nat /\ job[c].id < nextId /\ nextId \in Nat
      BY <2>1, Locals DEF Job, Shape, TypeOK
    <2> QED  BY <2>2, <2>3
  <1>5. noted' \subseteq 1 .. nextId - 1
    BY <1>1, <1>4 DEF TransferInv, TablesShape
  <1>6. TablesShape' /\ nextId <= nextId'
    BY <1>1, <1>5 DEF TransferInv, TablesShape, user, disk, db
  <1> QED  BY <1>1, <1>2, <1>3, <1>6, ImportGoes

LEMMA MetadataFailsInv ==
  ASSUME TransferInv, NEW c \in Procs, MetadataFails(c)
  PROVE  TransferInv'
  <1> DEFINE i == [import[c] EXCEPT !.todo = @ \ {import[c].doc}, !.errs = TRUE]
  <1>1. /\ import[c].on /\ import' = [import EXCEPT ![c] = i] /\ Goto(c, "offer", NoJob)
        /\ UNCHANGED <<user, disk, db, noted, template, tar, export>>
    BY DEF MetadataFails, Embedding, TransferInv, BundlesShape
  <1>2. import[c] \in ImportLocals /\ NoJob \in Job
    BY ImportTyped, EndReady DEF TransferInv, TablesShape, Ready
  <1>3. /\ i \in ImportLocals /\ i.on /\ i.firstId = import[c].firstId
        /\ i.todo \subseteq import[c].todo
    BY <1>1, <1>2 DEF ImportLocals
  <1> HIDE DEF i
  <1> QED  BY <1>1, <1>2, <1>3, SameTables, ImportGoes

LEMMA EndImportInv ==
  ASSUME TransferInv, NEW c \in Procs, import[c].on, FinishImport(c) \/ BreakOff(c) \/ Stop(c)
  PROVE  TransferInv'
  <1>1. /\ import' = [import EXCEPT ![c] = NoImport] /\ Goto(c, "idle", NoJob)
        /\ UNCHANGED <<user, disk, db, noted, template, tar, export>>
    BY DEF FinishImport, BreakOff, Stop, EndImport, End
  <1>2. nextId \in Nat \ {0} /\ Ready("idle", NoJob, nextId)
    BY EndReady DEF TransferInv, TablesShape
  <1>3. NoImport \in ImportLocals /\ ~NoImport.on
    BY DEF NoImport, ImportLocals, Row, NoRow, Copy, NoCopy, Name
  <1>4. /\ import' \in [Procs -> ImportLocals] /\ ~import'[c].on
        /\ \A o \in Procs \ {c} : import'[o] = import[o]
    BY <1>1, <1>3 DEF TransferInv, BundlesShape
  <1>5. /\ tar.made
        /\ \A o \in Procs \ {c} : pc[o] = "idle" /\ ~import[o].on
    BY DEF TransferInv, BundlesShape, Importing, ImportsAlone
  <1>6. pc'[c] = "idle" /\ job'[c] = NoJob
    BY <1>1 DEF Goto, TransferInv, CommandsShape
  <1>7. CommandReady(c)'
    BY <1>1, <1>2, <1>6 DEF CommandReady, Step, db
  <1> QED  BY <1>1, <1>2, <1>4, <1>5, <1>7, SameTables, ImportMoves DEF Ready
-----------------------------------------------------------------------------
(* The steps beside an import, and all of them together *)

\* Between commands nothing of an import is left.
LEMMA IdleNotImporting ==
  ASSUME TransferInv, AllIdle
  PROVE  ~Importing
  BY DEF TransferInv, ImportsAlone, AllIdle, Importing

\* A step of KnowledgeBase while no import runs.
LEMMA LocalInv ==
  ASSUME TransferInv, ~Importing, UNCHANGED bundles, Shape', nextId <= nextId',
         \A c \in Procs : pc'[c] = "idle" => job'[c] = NoJob
  PROVE  TransferInv'
  <1>1. Shape /\ \A c \in Procs : ~import[c].on
    BY NotImporting
  <1>2. TablesShape'
    <2>1. nextId \in Nat /\ nextId' \in Nat
      BY <1>1 DEF Shape, TypeOK
    <2>2. 1 .. nextId - 1 \subseteq 1 .. nextId' - 1
      BY <2>1, MoreIds
    <2>3. noted \subseteq 1 .. nextId' - 1
      BY <2>2 DEF TransferInv, TablesShape
    <2> QED  BY <2>3 DEF TransferInv, TablesShape, Shape, TypeOK, IdsIssued, bundles
  <1>3. CommandsShape'
    <2>1. \A c \in Procs : CommandReady(c)'
      BY ShapeReadyNext DEF CommandReady
    <2> QED  BY <2>1 DEF CommandsShape, Shape, TypeOK
  <1>4. BundlesShape'
    BY <1>1 DEF TransferInv, BundlesShape, ExportTyped, ArchiveShape, Importing, bundles
  <1> QED  BY <1>1, <1>2, <1>3, <1>4 DEF TransferInv, ImportsAlone, ImportsHold, bundles

\* Ids are never given back.
LEMMA MoreIssued ==
  ASSUME Shape, Shape', Next
  PROVE  nextId <= nextId'
  <1>1. nextId \in Nat
    BY DEF Shape, TypeOK
  <1>2. nextId' = nextId \/ nextId' = nextId + 1
    BY DEF Next, User, Edit, Remove, UpgradeExtractor, ClearCache, Reconfigure, StartCommand,
       StartIngest, StartPreprocess, StartReindex, StartDelete, Fault, Abandon, CommandStep,
       IngestStep, CopySourceToRaw, AlreadyArchived, CopyToTemp, NoSourceToCopy, RenameToRaw,
       ReadOrExtract, CacheHit, Extract, NoSourceToExtract, CreateCache, FillCache,
       CheckDimension, CreateDoc, ReplaceForDocument, WriteAutoMetadata, CommitSHA,
       ReindexStep, Locate, Skip, SetRawPath, FinishReindex, DeleteRow, RemoveCache, db
  <1> QED  BY <1>1, <1>2

LEMMA LocalCommandInv ==
  ASSUME TransferInv, NEW c \in Procs, LocalCommand(c)
  PROVE  TransferInv'
  <1>1. ~Importing /\ UNCHANGED bundles /\ Acts(c)
    BY DEF LocalCommand, Acts
  <1>2. Shape
    BY <1>1, NotImporting
  <1>3. Shape' /\ Alone(c) /\ nextId <= nextId'
    BY <1>1, <1>2, StepShape, ActsAlone, MoreIssued DEF Acts, Next
  <1>4. \A o \in Procs : pc'[o] = "idle" => job'[o] = NoJob
    <2>1. ASSUME NEW o \in Procs \ {c}, pc'[o] = "idle" PROVE job'[o] = NoJob
      BY <1>3, <2>1 DEF Alone, TransferInv, CommandsShape, CommandReady, Step
    <2> QED  BY <1>1, <1>2, <2>1, Returns
  <1> QED  BY <1>1, <1>3, <1>4, LocalInv

LEMMA UserEditsInv ==
  ASSUME TransferInv, UserEdits
  PROVE  TransferInv'
  <1>1. /\ ~Importing /\ UNCHANGED <<bundles, pc, job, db>> /\ User
    BY DEF UserEdits, User, Edit
  <1>2. Shape
    BY <1>1, NotImporting
  <1>3. Shape'
    BY <1>1, <1>2, StepShape DEF Next
  <1>4. nextId <= nextId'
    BY <1>1, <1>2 DEF Shape, TypeOK, db
  <1>5. \A c \in Procs : pc'[c] = "idle" => job'[c] = NoJob
    BY <1>1 DEF TransferInv, CommandsShape, CommandReady, Step
  <1> QED  BY <1>1, <1>3, <1>4, <1>5, LocalInv

\* A step that leaves the commands and their tables alone.
LEMMA BesideInv ==
  ASSUME TransferInv, UNCHANGED <<vars, template, import>>,
         noted' \subseteq 1 .. nextId - 1, BundlesShape', tar' = tar \/ ~Importing
  PROVE  TransferInv'
  <1>0. TablesShape'
    BY DEF TransferInv, TablesShape, vars, user, disk, db
  <1>1. CommandsShape' /\ ImportsAlone'
    <2>1. nextId' = nextId /\ pc' = pc /\ job' = job /\ import' = import
      BY DEF vars, db
    <2>2. ASSUME NEW c \in Procs PROVE CommandReady(c)'
      BY <2>1 DEF TransferInv, CommandsShape, CommandReady, Ready
    <2> QED  BY <2>1, <2>2 DEF TransferInv, CommandsShape, ImportsAlone
  <1>2. ImportsHold'
    <2>1. CASE tar' = tar
      <3>1. /\ nextId' = nextId /\ pc' = pc /\ job' = job /\ import' = import /\ docs' = docs
            /\ template' = template
        BY DEF vars, db
      <3>2. ASSUME NEW c \in Procs, import[c].on PROVE ImportHolds(c)'
        <4>1. /\ PathOf(import[c].doc)' = PathOf(import[c].doc)
              /\ Offered(tar)' = Offered(tar)
          BY <2>1, <3>1 DEF PathOf, Offered, ArchivedName
        <4>2. EmbedsOne(c) => EmbedsOne(c)'
          BY <3>1, <4>1 DEF EmbedsOne, Exists
        <4>3. ImportHolds(c)
          BY <3>2 DEF TransferInv, ImportsHold
        <4> QED  BY <3>1, <4>1, <4>2, <4>3 DEF ImportHolds
      <3> QED  BY <3>1, <3>2 DEF ImportsHold
    <2>2. CASE ~Importing
      BY <2>2 DEF ImportsHold, Importing
    <2> QED  BY <2>1, <2>2
  <1> QED  BY <1>0, <1>1, <1>2 DEF TransferInv

\* The next part is opened, with every file of it still to be read.
LEMMA OpensPart ==
  ASSUME TransferInv, OpenPart
  PROVE  /\ export.on /\ export.left = {} /\ export.part \in 0 .. 2
         /\ export' = [on |-> TRUE, part |-> export.part + 1,
                       left |-> Listing(Parts[export.part + 1]), tar |-> export.tar]
         /\ tar' = tar /\ UNCHANGED <<vars, noted, template, import>>
         /\ ExportTyped' /\ ArchiveShape(export.tar)'
  <1> DEFINE n == export.part + 1
             left == Listing(Parts[n])
  <1>1. /\ export.on \in BOOLEAN /\ export.part \in 0 .. 3
        /\ export = [on |-> export.on, part |-> export.part, left |-> export.left, tar |-> export.tar]
        /\ ArchiveShape(export.tar)
    BY DEF TransferInv, BundlesShape, ExportTyped
  <1>2. export.on /\ export.left = {} /\ export.part < 3 /\ tar' = tar
        /\ UNCHANGED <<vars, noted, template, import>>
        /\ export' = [export EXCEPT !.part = n, !.left = left]
    BY DEF OpenPart, Parts
  <1>3. left \subseteq {"db"} \cup Contents \cup Templates
    BY DEF Listing
  <1>4. n \in 1 .. 3 /\ export.part \in 0 .. 2
    BY <1>1, <1>2
  <1> HIDE DEF left, n
  <1>5. export' = [on |-> TRUE, part |-> n, left |-> left, tar |-> export.tar]
    BY <1>1, <1>2
  <1>6. ExportTyped'
    BY <1>3, <1>4, <1>5 DEF ExportTyped
  <1>7. ArchiveShape(export.tar)'
    BY <1>1, <1>5 DEF ArchiveShape
  <1> QED  BY <1>2, <1>4, <1>5, <1>6, <1>7 DEF left, n

\* A file is read: the database with all its rows, or one copy.
LEMMA ReadsFile ==
  ASSUME TransferInv, NEW n \in export.left, ReadFile(n)
  PROVE  /\ export.on /\ export.part \in 1 .. 3
         /\ export' = [on |-> TRUE, part |-> export.part, left |-> export.left \ {n},
                       tar |-> export'.tar]
         /\ tar' = tar /\ UNCHANGED <<vars, noted, template, import>>
         /\ ExportTyped' /\ ArchiveShape(export.tar)'
         /\ export'.tar.docs = IF export.part = 1 THEN docs ELSE export.tar.docs
         /\ \A m \in Contents : export'.tar.raw[m] =
                IF export.part = 2 /\ m = n THEN raw[m] ELSE export.tar.raw[m]
  <1> DEFINE t == CASE Parts[export.part] = "db" -> [export.tar EXCEPT !.docs = docs, !.noted = noted]
                    [] Parts[export.part] = "raw" -> [export.tar EXCEPT !.raw[n] = raw[n]]
                    [] OTHER -> [export.tar EXCEPT !.template[n] = template[n]]
             left == export.left \ {n}
  <1>1. /\ export.on \in BOOLEAN /\ export.part \in 1 .. 3
        /\ export = [on |-> export.on, part |-> export.part, left |-> export.left, tar |-> export.tar]
        /\ export.left \subseteq {"db"} \cup Contents \cup Templates
        /\ ArchiveShape(export.tar)
    BY DEF TransferInv, BundlesShape, ExportTyped
  <1>2. /\ export.on /\ tar' = tar /\ UNCHANGED <<vars, noted, template, import>>
        /\ export' = [export EXCEPT !.left = left, !.tar = t]
    BY DEF ReadFile
  <1>3. /\ docs \in [Paths -> Row] /\ raw \in [Contents -> Copy] /\ noted \in SUBSET Nat
        /\ template \in [Templates -> Copy]
    BY DEF TransferInv, TablesShape
  <1>4. /\ ArchiveShape(t)
        /\ t.docs = IF export.part = 1 THEN docs ELSE export.tar.docs
        /\ \A m \in Contents : t.raw[m] =
               IF export.part = 2 /\ m = n THEN raw[m] ELSE export.tar.raw[m]
    <2>1. CASE export.part = 1
      <3>1. t = [export.tar EXCEPT !.docs = docs, !.noted = noted]
        BY <2>1 DEF Parts
      <3> HIDE DEF t
      <3>2. ArchiveShape(t) /\ t.docs = docs /\ t.raw = export.tar.raw
        BY <1>1, <1>3, <3>1 DEF ArchiveShape
      <3> QED  BY <2>1, <3>2
    <2>2. CASE export.part = 2
      <3> DEFINE copies == [export.tar.raw EXCEPT ![n] = raw[n]]
      <3>1. t = [export.tar EXCEPT !.raw = copies]
        BY <1>1, <2>2 DEF Parts, ArchiveShape
      <3>2. export.tar.raw \in [Contents -> Copy]
        BY <1>1 DEF ArchiveShape
      <3>3. /\ copies \in [Contents -> Copy]
            /\ \A m \in Contents : copies[m] = IF m = n THEN raw[m] ELSE export.tar.raw[m]
        BY <1>3, <3>2
      <3> HIDE DEF t, copies
      <3> QED  BY <1>1, <2>2, <3>1, <3>3 DEF ArchiveShape
    <2>3. CASE export.part = 3
      <3> DEFINE copies == [export.tar.template EXCEPT ![n] = template[n]]
      <3>1. t = [export.tar EXCEPT !.template = copies]
        BY <1>1, <2>3 DEF Parts, ArchiveShape
      <3>2. export.tar.template \in [Templates -> Copy]
        BY <1>1 DEF ArchiveShape
      <3>3. copies \in [Templates -> Copy]
        BY <1>3, <3>2
      <3> HIDE DEF t, copies
      <3> QED  BY <1>1, <2>3, <3>1, <3>3 DEF ArchiveShape
    <2> QED  BY <1>1, <2>1, <2>2, <2>3
  <1> HIDE DEF t, left
  <1>5. export' = [on |-> TRUE, part |-> export.part, left |-> left, tar |-> t]
    BY <1>1, <1>2
  <1>6. ExportTyped'
    BY <1>1, <1>5 DEF ExportTyped, left
  <1>7. ArchiveShape(export.tar)'
    BY <1>4, <1>5 DEF ArchiveShape
  <1> QED  BY <1>1, <1>2, <1>4, <1>5, <1>6, <1>7 DEF left

\* An export that ends leaves nothing of itself.
LEMMA ExportEnds ==
  ASSUME export' = NoExport
  PROVE  ExportTyped' /\ ArchiveShape(export.tar)' /\ ~export'.on
  <1>1. ArchiveShape(NoTar)
    BY DEF ArchiveShape, NoTar, Row, NoRow, Copy, NoCopy, Name
  <1>2. NoExport = [on |-> FALSE, part |-> 0, left |-> {}, tar |-> NoTar]
    BY DEF NoExport
  <1> HIDE DEF NoTar
  <1> QED  BY <1>1, <1>2 DEF ExportTyped, ArchiveShape

LEMMA ExportShape ==
  ASSUME TransferInv, Exports
  PROVE  TransferInv'
  <1>1. UNCHANGED <<vars, noted, template, import>> /\ noted \subseteq 1 .. nextId - 1
    BY DEF Exports, StartExport, ReadPart, OpenPart, ReadFile, Publish, AbandonExport,
       TransferInv, TablesShape
  <1>2. /\ ExportTyped /\ (export.on => ~tar.made)
        /\ ArchiveShape(tar) /\ ArchiveShape(export.tar) /\ import \in [Procs -> ImportLocals]
        /\ Importing => tar.made
    BY DEF TransferInv, BundlesShape
  <1>3. CASE StartExport
    <2>1. /\ tar' = tar /\ ~tar.made /\ export' = [export EXCEPT !.on = TRUE]
      BY <1>3 DEF StartExport
    <2>2. ExportTyped' /\ export'.tar = export.tar
      <3>1. export = [on |-> export.on, part |-> export.part, left |-> export.left, tar |-> export.tar]
        BY <1>2 DEF ExportTyped
      <3>2. export' = [on |-> TRUE, part |-> export.part, left |-> export.left, tar |-> export.tar]
        BY <2>1, <3>1
      <3> QED  BY <1>2, <3>2 DEF ExportTyped
    <2>3. ArchiveShape(tar)' /\ ArchiveShape(export.tar)'
      BY <1>2, <2>1, <2>2 DEF ArchiveShape
    <2>4. BundlesShape'
      BY <1>1, <1>2, <2>1, <2>2, <2>3 DEF BundlesShape, Importing
    <2> QED  BY <1>1, <2>1, <2>4, BesideInv
  <1>4. ASSUME ExportTyped', ArchiveShape(export.tar)', tar' = tar, export'.on => export.on
        PROVE  TransferInv'
    <2>1. ArchiveShape(tar)'
      BY <1>2, <1>4 DEF ArchiveShape
    <2>2. BundlesShape'
      BY <1>1, <1>2, <1>4, <2>1 DEF BundlesShape, Importing
    <2> QED  BY <1>1, <1>4, <2>2, BesideInv
  <1>5. CASE OpenPart
    BY <1>4, <1>5, OpensPart
  <1>6. ASSUME NEW n \in export.left, ReadFile(n)
        PROVE  TransferInv'
    BY <1>4, <1>6, ReadsFile
  <1>7. CASE AbandonExport
    BY <1>4, <1>7, ExportEnds DEF AbandonExport
  <1>8. CASE Publish
    <2> DEFINE size == FileSize(export.tar)
    <2>1. /\ tar' = [export.tar EXCEPT !.made = TRUE, !.blocks = size]
          /\ export' = NoExport /\ export.on
      BY <1>8 DEF Publish
    <2> HIDE DEF size
    <2>2. ArchiveShape(tar)' /\ tar'.made
      BY <1>2, <2>1 DEF ArchiveShape
    <2>3. ~Importing /\ ExportTyped' /\ ArchiveShape(export.tar)' /\ ~export'.on
      BY <1>2, <2>1, ExportEnds
    <2>4. BundlesShape'
      BY <1>1, <1>2, <2>2, <2>3 DEF BundlesShape
    <2> QED  BY <1>1, <2>3, <2>4, BesideInv
  <1> QED  BY <1>3, <1>5, <1>6, <1>7, <1>8 DEF Exports, ReadPart

LEMMA SetMetadataInv ==
  ASSUME TransferInv, NEW p \in Paths, SetMetadata(p)
  PROVE  TransferInv'
  <1>1. /\ noted' = noted \cup {docs[p].id} /\ docs[p].id # 0
        /\ UNCHANGED <<vars, template, tar, export, import>>
    BY DEF SetMetadata, Exists
  <1>2. docs[p].id \in 1 .. nextId - 1
    BY <1>1 DEF TransferInv, TablesShape, Row
  <1>3. noted' \subseteq 1 .. nextId - 1
    BY <1>1, <1>2 DEF TransferInv, TablesShape
  <1>4. BundlesShape'
    BY <1>1 DEF TransferInv, BundlesShape, ExportTyped, ArchiveShape, Importing
  <1> QED  BY <1>1, <1>3, <1>4, BesideInv

LEMMA NewMachineInv ==
  ASSUME TransferInv, NewMachine
  PROVE  TransferInv'
  <1>1. ~Importing /\ AllIdle
    BY IdleNotImporting DEF NewMachine
  <1>2. PICK size \in 0 .. FileSize(tar) : tar' = [tar EXCEPT !.blocks = size]
    BY DEF NewMachine
  <1>3. /\ UNCHANGED <<config, pc, job, export, import>>
        /\ file' = [p \in Paths |-> None] /\ seen' \subseteq Contents
        /\ raw' = [n \in Contents |-> NoCopy] /\ cache' = [n \in Contents |-> NoCopy]
        /\ older' = [n \in Contents |-> NoCopy]
        /\ docs' = [p \in Paths |-> NoRow] /\ nextId' = 1 /\ noted' = {}
        /\ template' \in {[t \in Templates |-> NoCopy], Builtin}
    BY DEF NewMachine
  <1>4. TablesShape'
    <2>1. template' \in [Templates -> Copy]
      <3>1. NoCopy \in Copy /\ Whole(BuiltinText) \in Copy
        BY TransferAssumption DEF Copy, NoCopy, Whole, Name
      <3> QED  BY <1>3, <3>1 DEF Builtin
    <2> QED  BY <1>3, <2>1
             DEF TransferInv, TablesShape, Row, NoRow, Copy, NoCopy, Name
  <1>5. BundlesShape'
    <2>1. ArchiveShape(tar)' /\ tar'.made = tar.made
      BY <1>2 DEF TransferInv, BundlesShape, ArchiveShape
    <2> QED  BY <1>1, <1>3, <2>1 DEF TransferInv, BundlesShape, ExportTyped, ArchiveShape, Importing
  <1>6. CommandsShape'
    <2>1. \A c \in Procs : pc'[c] = "idle" /\ job'[c] = NoJob
      BY <1>1, <1>3 DEF AllIdle, TransferInv, CommandsShape, CommandReady, Step
    <2>2. Ready("idle", NoJob, nextId')
      BY <1>3, EndReady
    <2> QED  BY <1>3, <2>1, <2>2 DEF TransferInv, CommandsShape, CommandReady, Step
  <1>7. ImportsAlone' /\ ImportsHold'
    BY <1>1, <1>3 DEF Importing, ImportsAlone, ImportsHold
  <1> QED  BY <1>4, <1>5, <1>6, <1>7 DEF TransferInv

\* Only an import takes the steps of one.
LEMMA ImportOn ==
  ASSUME TransferInv, NEW c \in Procs, pc[c] \in ImportSteps
  PROVE  import[c].on
  BY DEF TransferInv, CommandsShape, CommandReady, ImportSteps, Step

LEMMA ImportStepInv ==
  ASSUME TransferInv, NEW c \in Procs, ImportStep(c)
  PROVE  TransferInv'
  <1>1. CASE SkipPresent(c) \/ CreateRaw(c) \/ FillRaw(c) \/ Unpacked(c)
    BY <1>1, ImportOn, UnpackInv DEF SkipPresent, CreateRaw, FillRaw, Unpacked, ImportSteps
  <1>2. CASE KeepTemplate(c) \/ RemoveTemplate(c) \/ CopyTemplate(c) \/ TemplatesDone(c)
    BY <1>2, ImportOn, TemplatesInv
       DEF KeepTemplate, RemoveTemplate, CopyTemplate, TemplatesDone, ImportSteps
  <1>3. CASE \E d \in import[c].todo : SkipDocument(c, d) \/ TakeDocument(c, d)
    BY <1>3, ImportOn, OfferInv DEF SkipDocument, TakeDocument, ImportSteps
  <1>4. CASE Adopt(c)
    BY <1>4, ImportOn, AdoptInv DEF Adopt, ImportSteps
  <1>5. CASE FinishImport(c)
    BY <1>5, ImportOn, EndImportInv DEF FinishImport, ImportSteps
  <1> QED  BY <1>1, <1>2, <1>3, <1>4, <1>5, EmbedInv, RollbackInv, WriteMetadataInv DEF ImportStep

LEMMA StepTransferInv == TransferInv /\ [TransferNext]_allVars => TransferInv'
  <1> SUFFICES ASSUME TransferInv, [TransferNext]_allVars PROVE TransferInv'
    OBVIOUS
  <1>1. CASE UNCHANGED allVars
    <2>1. BundlesShape' /\ noted' \subseteq 1 .. nextId - 1
      BY <1>1 DEF TransferInv, TablesShape, BundlesShape, ExportTyped, ArchiveShape, Importing,
         allVars, bundles
    <2> QED  BY <1>1, <2>1, BesideInv DEF allVars, bundles
  <1>2. CASE TransferNext
    <2>1. ASSUME NEW c \in Procs, NEW policy \in Policies, StartImport(c, policy)
          PROVE  TransferInv'
      BY <2>1, StartImportInv
    <2>2. ASSUME NEW c \in Procs, LocalCommand(c) \/ ImportStep(c)
          PROVE  TransferInv'
      BY <2>2, LocalCommandInv, ImportStepInv
    <2>4. ASSUME NEW c \in Procs, Breaks(c)
          PROVE  TransferInv'
      <3>1. CASE BreakOff(c) \/ Stop(c)
        BY <3>1, ImportOn, EndImportInv DEF BreakOff, Stop, ImportSteps
      <3>2. ASSUME NEW d \in import[c].todo, OfferFails(c, d)
            PROVE  TransferInv'
        BY <3>2, ImportOn, OfferInv DEF OfferFails, ImportSteps
      <3> QED  BY <2>4, <3>1, <3>2, EmbedFailsInv, MetadataFailsInv DEF Breaks
    <2>3. ASSUME NEW p \in Paths, SetMetadata(p)
          PROVE  TransferInv'
      BY <2>3, SetMetadataInv
    <2> QED  BY <1>2, <2>1, <2>2, <2>3, <2>4, UserEditsInv, NewMachineInv, ExportShape
             DEF TransferNext, Exports, Breaks
  <1> QED  BY <1>1, <1>2

\* Whatever fails or is interrupted: an import that runs has the knowledge
\* base to itself, it works on the row of the document in hand and on no
\* other, and the steps it shares with a reindex find the locals they need.
THEOREM TransferInvariance == TransferSpec => []TransferInv
  BY InitTransferInv, StepTransferInv, PTL DEF TransferSpec

\* The state has the type of its declaration after any series of exports,
\* imports, failures and machines (export.go, import.go).
THEOREM TransferTypeCorrect == TransferSpec => []TransferTypeOK
  <1>1. TransferInv => TransferTypeOK
    BY DEF TransferInv, TablesShape, BundlesShape, ArchiveShape, ImportLocals, TransferTypeOK
  <1> QED  BY <1>1, TransferInvariance, PTL
-----------------------------------------------------------------------------
(* What an import under the policy "skip" leaves alone *)

KeepsRows(c) ==
    \A p \in Paths : docs[p].id \in 1 .. import[c].firstId - 1 => docs'[p] = docs[p]

KeepsCopies(c) ==
    \A n \in Contents : Present(raw[n]) /\ pc[c] # "filling" => raw'[n] = raw[n]

KeepsTemplates(c) ==
    \A t \in Templates : Present(template[t]) => template'[t] = template[t]

Keeps(c) == KeepsRows(c) /\ KeepsCopies(c) /\ KeepsTemplates(c)

LEMMA KeepsAll ==
  ASSUME NEW c \in Procs, UNCHANGED <<docs, raw, template>>
  PROVE  Keeps(c)
  BY DEF Keeps, KeepsRows, KeepsCopies, KeepsTemplates

\* The row of the document an import under "skip" embeds is its own.
LEMMA OwnRow ==
  ASSUME TransferInv, NEW c \in Procs, import[c].on, pc[c] \in Step,
         import[c].policy = "skip", NEW p \in Paths, p = job[c].path
  PROVE  docs[p].id \notin 1 .. import[c].firstId - 1 /\ import[c].prior.id = 0
  <1>1. EmbedsOne(c) /\ ImportHolds(c)
    BY ShapeOfEmbedding DEF TransferInv, ImportsHold
  <1>2. import[c].prior.id = 0
    BY <1>1 DEF ImportHolds
  <1>3. import[c].firstId <= docs[p].id
    BY <1>1, <1>2, StoreAssumption DEF EmbedsOne
  <1>4. import[c].firstId \in Nat /\ docs[p].id \in Nat
    BY ImportTyped DEF ImportLocals, TransferInv, TablesShape, Row
  <1> QED  BY <1>2, <1>3, <1>4

LEMMA ImportKeeps ==
  ASSUME TransferInv, NEW c \in Procs, import[c].on, import[c].policy = "skip",
         ImportStep(c) \/ Breaks(c)
  PROVE  Keeps(c)
  <1>1. ImportHolds(c) /\ import[c] \in ImportLocals
    BY ImportTyped DEF TransferInv, ImportsHold
  <1>2. CASE Breaks(c) \/ SkipPresent(c) \/ Unpacked(c) \/ KeepTemplate(c)
             \/ TemplatesDone(c) \/ WriteMetadata(c) \/ FinishImport(c)
    BY <1>2, KeepsAll DEF Breaks, EmbedFails, MetadataFails, OfferFails, BreakOff, Stop, EndImport,
       SkipPresent, Unpacked, KeepTemplate, TemplatesDone, WriteMetadata, FinishImport,
       bundles, vars, disk, db
  <1>3. CASE CreateRaw(c)
    <2>1. /\ \E n \in import[c].raws : ~Present(raw[n]) /\ raw' = [raw EXCEPT ![n] = Torn(tar.raw[n].of)]
          /\ UNCHANGED <<docs, template>>
      BY <1>3 DEF CreateRaw, bundles, db
    <2>2. KeepsCopies(c)
      BY <2>1 DEF KeepsCopies, TransferInv, TablesShape
    <2> QED  BY <2>1, <2>2 DEF Keeps, KeepsRows, KeepsTemplates
  <1>4. CASE FillRaw(c)
    BY <1>4 DEF FillRaw, db, Keeps, KeepsRows, KeepsCopies, KeepsTemplates
  <1>5. CASE RemoveTemplate(c)
    <2>1. /\ \E t \in import[c].templates :
                ~Present(template[t]) /\ template' = [template EXCEPT ![t] = NoCopy]
          /\ UNCHANGED <<docs, raw>>
      BY <1>5 DEF RemoveTemplate, disk, db
    <2>2. KeepsTemplates(c)
      BY <2>1 DEF KeepsTemplates, TransferInv, TablesShape
    <2> QED  BY <2>1, <2>2 DEF Keeps, KeepsRows, KeepsCopies
  <1>6. CASE CopyTemplate(c)
    <2>1. PICK whole \in BOOLEAN, t \in import[c].taken :
            template' = [template EXCEPT ![t] = [tar.template[t] EXCEPT !.whole = whole]]
      BY <1>6 DEF CopyTemplate
    <2>2. ~Present(template[t])
      BY <1>1, <1>6 DEF CopyTemplate, ImportHolds
    <2>3. KeepsTemplates(c)
      BY <2>1, <2>2 DEF KeepsTemplates, TransferInv, TablesShape
    <2> QED  BY <1>6, <2>3 DEF CopyTemplate, disk, db, Keeps, KeepsRows, KeepsCopies
  <1>7. CASE \E d \in import[c].todo : SkipDocument(c, d) \/ TakeDocument(c, d)
    BY <1>7, KeepsAll DEF SkipDocument, TakeDocument, vars, disk, db
  <1>8. CASE Adopt(c)
    <2> DEFINE q == PathOf(import[c].doc)
    <2>1. /\ \E r : docs' = [docs EXCEPT ![q] = r]
          /\ UNCHANGED <<raw, template>>
      BY <1>8 DEF Adopt, disk, bundles
    <2>2. docs[q].id = 0
      BY <1>1, <1>8 DEF Adopt, ImportHolds
    <2>3. KeepsRows(c)
      BY <2>1, <2>2 DEF KeepsRows, TransferInv, TablesShape
    <2> QED  BY <2>1, <2>3 DEF Keeps, KeepsCopies, KeepsTemplates
  <1>9. CASE Embed(c)
    <2>1. pc[c] \in Step /\ UNCHANGED bundles
      BY <1>9, EmbedActs
    <2>2. Shape /\ job[c].cmd = "reindex"
      BY <2>1, ShapeOfEmbedding DEF EmbedsOne
    <2>3. UNCHANGED <<raw, template>>
      BY <1>9, <2>1, <2>2, EmbedMoves DEF bundles
    <2>4. KeepsRows(c)
      BY <1>9, <2>1, <2>2, EmbedRows, OwnRow DEF KeepsRows
    <2> QED  BY <2>3, <2>4 DEF Keeps, KeepsCopies, KeepsTemplates
  <1>10. CASE Rollback(c)
    <2>1. /\ pc[c] = "next" /\ \E r : docs' = [docs EXCEPT ![job[c].path] = r]
          /\ UNCHANGED <<raw, template>>
      BY <1>10 DEF Rollback, Embedding, disk
    <2>2. KeepsRows(c)
      BY <2>1, OwnRow DEF KeepsRows, TransferInv, TablesShape, Step
    <2> QED  BY <2>1, <2>2 DEF Keeps, KeepsCopies, KeepsTemplates
  <1> QED  BY <1>2, <1>3, <1>4, <1>5, <1>6, <1>7, <1>8, <1>9, <1>10 DEF ImportStep

\* Only an import that is on takes its steps.
LEMMA ImportStepOn ==
  ASSUME TransferInv, NEW c \in Procs, ImportStep(c) \/ Breaks(c)
  PROVE  import[c].on
  <1>1. pc[c] \in ImportSteps \/ Embed(c) \/ Rollback(c) \/ WriteMetadata(c)
        \/ EmbedFails(c) \/ MetadataFails(c) \/ Stop(c)
    BY DEF Breaks, BreakOff, OfferFails, ImportStep, SkipPresent, CreateRaw, FillRaw, Unpacked, KeepTemplate, RemoveTemplate,
       CopyTemplate, TemplatesDone, SkipDocument, TakeDocument, Adopt, FinishImport, ImportSteps
  <1> QED  BY <1>1, ImportOn, EmbedActs
           DEF Rollback, WriteMetadata, MetadataFails, Embedding, EmbedFails, Stop

\* Importing again what is already here changes nothing: under the default
\* policy no step of an import, whichever documents fail and wherever it is
\* stopped, touches a row, a copy or a template that was there when it
\* started (import.go:126-128).
THEOREM SkipChangesNothingAlways == TransferSpec => SkipChangesNothing
  <1> DEFINE Kept == \A c \in Procs : import[c].on /\ import[c].policy = "skip" =>
        /\ \A p \in Paths : docs[p].id \in 1 .. import[c].firstId - 1 => docs'[p] = docs[p]
        /\ \A n \in Contents : Present(raw[n]) /\ pc[c] # "filling" => raw'[n] = raw[n]
        /\ \A t \in Templates : Present(template[t]) => template'[t] = template[t]
  <1>1. TransferInv /\ [TransferNext]_allVars => [Kept]_allVars
    <2> SUFFICES ASSUME TransferInv, TransferNext, NEW c \in Procs,
                        import[c].on, import[c].policy = "skip"
                 PROVE  Keeps(c)
      BY DEF Keeps, KeepsRows, KeepsCopies, KeepsTemplates
    <2>1. Importing /\ ~AllIdle
      BY IdleNotImporting DEF Importing
    <2>2. ASSUME NEW o \in Procs, ImportStep(o) \/ Breaks(o)
          PROVE  Keeps(c)
      <3>1. o = c
        BY <2>2, ImportStepOn DEF TransferInv, ImportsAlone
      <3> QED  BY <2>2, <3>1, ImportKeeps
    <2>3. ~UserEdits /\ ~NewMachine /\ ~(\E p \in Paths : SetMetadata(p))
          /\ ~(\E o \in Procs : LocalCommand(o) \/ \E policy \in Policies : StartImport(o, policy))
      BY <2>1 DEF UserEdits, NewMachine, SetMetadata, LocalCommand, StartImport
    <2>4. CASE Exports
      BY <2>4, KeepsAll DEF Exports, StartExport, ReadPart, OpenPart, ReadFile, Publish,
         AbandonExport, vars, disk, db
    <2> QED  BY <2>2, <2>3, <2>4 DEF TransferNext, Exports, Breaks
  <1> QED  BY TransferInvariance, <1>1, PTL DEF TransferSpec, SkipChangesNothing
-----------------------------------------------------------------------------
(* What an exported archive carries *)

\* The archived copy a row names is there, whole, and of the content named.
LEMMA RowsCarried ==
  ASSUME CopyInv
  PROVE  Carried(docs, raw)
  <1> SUFFICES ASSUME NEW p \in Paths, docs[p].raw # None
               PROVE  raw[docs[p].raw] = Whole(docs[p].raw)
    BY DEF Carried
  <1> DEFINE n == docs[p].raw
  <1>1. n \in Contents /\ raw[n] \in Copy /\ Present(raw[n])
    BY DEF CopyInv, KnownInv, Shape, TypeOK, Row, Name, ArchivedBeforeIndexed
  <1>2. raw[n].whole = TRUE /\ raw[n].of = n
    BY <1>1 DEF CopyInv, KnownInv, ArchiveIsWhole, ContentAddressed
  <1> QED  BY <1>1, <1>2 DEF Copy, Whole

\* A copy that was there whole is there whole after a step of a command.
LEMMA CopiesStay ==
  ASSUME CopyInv, CopyInv', [Next]_vars, NEW rows \in [Paths -> Row], Carried(rows, raw)
  PROVE  Carried(rows, raw')
  <1> SUFFICES ASSUME NEW p \in Paths, rows[p].raw # None
               PROVE  raw'[rows[p].raw] = Whole(rows[p].raw)
    BY DEF Carried
  <1> DEFINE n == rows[p].raw
  <1>1. n \in Contents /\ raw[n] = Whole(n)
    BY DEF Carried, Row, Name
  <1>2. Present(raw[n])
    BY <1>1, StoreAssumption DEF Present, Whole
  <1>3. Present(raw'[n])
    BY <1>1, <1>2, ArchiveGrows DEF CopyInv, KnownInv
  <1>4. raw'[n] \in Copy /\ raw'[n].whole = TRUE /\ raw'[n].of = n
    BY <1>1, <1>3 DEF CopyInv, KnownInv, ArchiveIsWhole, ContentAddressed, Shape, TypeOK
  <1> QED  BY <1>4 DEF Copy, Whole

LEMMA InitExportInv == FilesHold /\ TransferInit => ExportInv
  <1> SUFFICES ASSUME FilesHold, TransferInit PROVE ExportInv
    OBVIOUS
  <1>1. CopyInv
    BY InitCopyInv DEF TransferInit
  <1> QED  BY <1>1 DEF ExportInv, TransferInit, NoTar, NoExport, ExportCarriesCopies

\* An export that goes on reads nothing back.
LEMMA ExportGoesOn ==
  ASSUME FilesHold, ExportInv, UNCHANGED vars, tar' = tar, ~tar.made, export'.on,
         RowsRead' => Carried(export'.tar.docs, raw),
         export'.part = 2 => Gathered(export'.tar.docs, export'.left, export'.tar.raw),
         export'.part = 3 => Carried(export'.tar.docs, export'.tar.raw)
  PROVE  ExportInv'
  <1>1. CopyInv' /\ raw' = raw
    BY StepCopyInv DEF ExportInv, vars, disk
  <1> QED  BY <1>1 DEF ExportInv, ExportCarriesCopies

LEMMA StepExportInv ==
  ASSUME FilesHold, TransferInv, ExportInv, [TransferNext]_allVars
  PROVE  ExportInv'
  <1>0. /\ (export.on => ~tar.made) /\ export.on \in BOOLEAN /\ tar.made \in BOOLEAN
        /\ ArchiveShape(tar) /\ ArchiveShape(export.tar)
        /\ Importing => tar.made
    BY DEF TransferInv, BundlesShape, ExportTyped, ArchiveShape
  <1>1. ASSUME ~Importing, [Next]_vars, UNCHANGED bundles
        PROVE  ExportInv'
    <2>1. tar' = tar /\ export' = export
      BY <1>1 DEF bundles
    <2>2. CASE tar.made
      BY <1>0, <2>1, <2>2 DEF ExportInv, ExportCarriesCopies
    <2>3. CASE ~tar.made
      <3>1. CopyInv /\ CopyInv'
        BY <1>1, <2>3, StepCopyInv DEF ExportInv
      <3>2. export.tar.docs \in [Paths -> Row]
        BY <1>0 DEF ArchiveShape
      <3> QED  BY <1>1, <2>1, <3>1, <3>2, CopiesStay
             DEF ExportInv, ExportCarriesCopies, RowsRead
    <2> QED  BY <2>2, <2>3
  <1>2. ASSUME tar.made, UNCHANGED <<tar, export>>
        PROVE  ExportInv'
    BY <1>0, <1>2 DEF ExportInv, ExportCarriesCopies
  <1>3. ASSUME UNCHANGED vars, tar' = tar \/ tar'.made
        PROVE  ~tar'.made => CopyInv'
    <2>1. ASSUME CopyInv, ~tar.made PROVE CopyInv'
      BY <1>3, <2>1, StepCopyInv
    <2> QED  BY <1>3, <2>1 DEF ExportInv
  <1>4. CASE UNCHANGED allVars
    BY <1>3, <1>4 DEF ExportInv, ExportCarriesCopies, Carried, RowsRead, allVars, bundles, vars, disk
  <1>5. CASE UserEdits \/ \E c \in Procs : LocalCommand(c)
    BY <1>1, <1>5 DEF UserEdits, LocalCommand, Next, User
  <1>6. CASE NewMachine
    <2>1. tar.made /\ export' = export /\ \E size : tar' = [tar EXCEPT !.blocks = size]
      BY <1>6 DEF NewMachine
    <2>2. tar'.made /\ tar'.docs = tar.docs /\ tar'.raw = tar.raw
      BY <1>0, <2>1 DEF ArchiveShape
    <2> QED  BY <1>0, <2>1, <2>2 DEF ExportInv, ExportCarriesCopies
  <1>7. CASE StartExport
    <2>1. /\ UNCHANGED vars /\ tar' = tar /\ ~tar.made /\ export' = [NoExport EXCEPT !.on = TRUE]
      BY <1>7 DEF StartExport, ExportInv
    <2>2. export'.on /\ export'.part = 0
      BY <2>1 DEF NoExport
    <2> QED  BY <2>1, <2>2, ExportGoesOn DEF RowsRead
  <1>8. CASE OpenPart
    <2> DEFINE n == export.part + 1
               left == Listing(Parts[n])
    <2>1. /\ UNCHANGED vars /\ tar' = tar /\ ~tar.made /\ export.on /\ export.left = {}
          /\ export.part \in 0 .. 2
          /\ export' = [on |-> TRUE, part |-> n, left |-> left, tar |-> export.tar]
      BY <1>0, <1>8, OpensPart
    <2>2. /\ n = 1 => left = {"db"}
          /\ n = 2 => left = {m \in Contents : Present(raw[m])}
      BY DEF Listing, Parts
    <2>3. n = export.part + 1
      OBVIOUS
    <2> HIDE DEF n, left
    <2>4. export'.on /\ export'.part = n /\ export'.left = left /\ export'.tar = export.tar
      BY <2>1
    <2>5. RowsRead' => Carried(export.tar.docs, raw)
      <3>1. RowsRead' => export.part \in {1, 2}
        BY <2>1, <2>2, <2>3, <2>4 DEF RowsRead
      <3>2. export.part \in {1, 2} => RowsRead
        BY <2>1 DEF RowsRead
      <3> QED  BY <2>1, <3>1, <3>2 DEF ExportInv
    <2>6. ASSUME n = 2
          PROVE  Gathered(export.tar.docs, left, export.tar.raw)
      <3>1. Carried(export.tar.docs, raw)
        BY <2>1, <2>3, <2>6 DEF ExportInv, RowsRead
      <3>2. export.tar.docs \in [Paths -> Row]
        BY <1>0 DEF ArchiveShape
      <3>3. ASSUME NEW p \in Paths, export.tar.docs[p].raw # None
            PROVE  export.tar.docs[p].raw \in left
        <4>1. export.tar.docs[p].raw \in Contents
          BY <3>2, <3>3 DEF Row, Name
        <4>2. Present(raw[export.tar.docs[p].raw])
          <5>1. raw[export.tar.docs[p].raw] = Whole(export.tar.docs[p].raw)
            BY <3>1, <3>3 DEF Carried
          <5> QED  BY <3>3, <5>1 DEF Present, Whole
        <4> QED  BY <2>2, <2>6, <4>1, <4>2
      <3> QED  BY <3>3 DEF Gathered
    <2>7. ASSUME n = 3
          PROVE  Carried(export.tar.docs, export.tar.raw)
      <3>1. Gathered(export.tar.docs, export.left, export.tar.raw) /\ export.left = {}
        BY <2>1, <2>3, <2>7 DEF ExportInv
      <3> QED  BY <3>1 DEF Gathered, Carried
    <2> QED  BY <2>1, <2>4, <2>5, <2>6, <2>7, ExportGoesOn
  <1>9. ASSUME NEW n \in export.left, ReadFile(n)
        PROVE  ExportInv'
    <2>1. /\ UNCHANGED vars /\ tar' = tar /\ ~tar.made /\ export.on /\ export.part \in 1 .. 3
          /\ export' = [on |-> TRUE, part |-> export.part, left |-> export.left \ {n},
                        tar |-> export'.tar]
          /\ export'.tar.docs = IF export.part = 1 THEN docs ELSE export.tar.docs
          /\ \A m \in Contents : export'.tar.raw[m] =
                 IF export.part = 2 /\ m = n THEN raw[m] ELSE export.tar.raw[m]
      BY <1>0, <1>9, ReadsFile
    <2>2. export'.on /\ export'.part = export.part /\ export'.left = export.left \ {n}
      BY <2>1
    <2>3. Carried(docs, raw)
      BY <2>1, RowsCarried DEF ExportInv
    <2>4. export.tar.docs \in [Paths -> Row]
      BY <1>0 DEF ArchiveShape
    <2>5. RowsRead' => Carried(export'.tar.docs, raw)
      <3>1. CASE export.part = 1
        BY <2>1, <2>3, <3>1
      <3>2. CASE export.part # 1
        BY <2>1, <2>2, <3>2 DEF RowsRead, ExportInv
      <3> QED  BY <3>1, <3>2
    <2>6. ASSUME export.part = 2
          PROVE  Gathered(export'.tar.docs, export'.left, export'.tar.raw)
      <3>1. /\ Carried(export.tar.docs, raw) /\ export'.tar.docs = export.tar.docs
            /\ Gathered(export.tar.docs, export.left, export.tar.raw)
        BY <2>1, <2>6 DEF ExportInv, RowsRead
      <3>2. ASSUME NEW p \in Paths, export.tar.docs[p].raw # None
            PROVE  \/ export.tar.docs[p].raw \in export'.left
                   \/ export'.tar.raw[export.tar.docs[p].raw] = Whole(export.tar.docs[p].raw)
        <4>1. export.tar.docs[p].raw \in Contents
          BY <2>4, <3>2 DEF Row, Name
        <4> QED  BY <2>1, <2>2, <2>6, <3>1, <3>2, <4>1 DEF Carried, Gathered
      <3> QED  BY <3>1, <3>2 DEF Gathered
    <2>7. ASSUME export.part = 3
          PROVE  Carried(export'.tar.docs, export'.tar.raw)
      <3>1. Carried(export.tar.docs, export.tar.raw) /\ export'.tar.docs = export.tar.docs
        BY <2>1, <2>7 DEF ExportInv
      <3>2. \A p \in Paths : export.tar.docs[p].raw # None => export.tar.docs[p].raw \in Contents
        BY <2>4 DEF Row, Name
      <3> QED  BY <2>1, <2>7, <3>1, <3>2 DEF Carried
    <2> QED  BY <2>1, <2>2, <2>5, <2>6, <2>7, ExportGoesOn
  <1>12. CASE Publish
    <2> DEFINE size == FileSize(export.tar)
    <2>1. /\ tar' = [export.tar EXCEPT !.made = TRUE, !.blocks = size]
          /\ export' = NoExport /\ export.on /\ export.part = 3
      BY <1>12 DEF Publish, Parts
    <2> HIDE DEF size
    <2>2. tar'.made /\ tar'.docs = export.tar.docs /\ tar'.raw = export.tar.raw
      BY <1>0, <2>1 DEF ArchiveShape
    <2>3. Carried(export.tar.docs, export.tar.raw)
      BY <1>0, <2>1 DEF ExportInv
    <2> QED  BY <2>1, <2>2, <2>3 DEF ExportInv, ExportCarriesCopies, Carried, NoExport
  <1>13. CASE AbandonExport
    <2>1. UNCHANGED vars /\ tar' = tar /\ export' = NoExport
      BY <1>13 DEF AbandonExport
    <2> QED  BY <1>3, <2>1 DEF ExportInv, ExportCarriesCopies, NoExport
  <1>10. CASE \E p \in Paths : SetMetadata(p)
    BY <1>3, <1>10 DEF SetMetadata, ExportInv, ExportCarriesCopies, RowsRead, vars, disk
  <1>11. ASSUME NEW c \in Procs,
                ImportStep(c) \/ Breaks(c) \/ \E policy \in Policies : StartImport(c, policy)
         PROVE  ExportInv'
    <2>1. tar.made
      BY <1>0, <1>11, ImportStepOn DEF StartImport, Importing
    <2>2. UNCHANGED <<tar, export>>
      BY <1>11, EmbedActs
         DEF ImportStep, SkipPresent, CreateRaw, FillRaw, Unpacked, KeepTemplate, RemoveTemplate,
             CopyTemplate, TemplatesDone, SkipDocument, TakeDocument, Adopt, Rollback,
             WriteMetadata, FinishImport, Breaks, EmbedFails, MetadataFails, OfferFails,
             BreakOff, Stop, EndImport, StartImport, bundles
    <2> QED  BY <1>2, <2>1, <2>2
  <1> QED  BY <1>4, <1>5, <1>6, <1>7, <1>8, <1>9, <1>10, <1>11, <1>12, <1>13
           DEF TransferNext, ReadPart, Breaks

\* Every document an exported archive lists with a copy has that copy, whole,
\* in the archive, whatever ingests, reindexes and deletes ran beside the
\* export: the rows are read first, and an archived copy that a row names is
\* never removed or rewritten (export.go:51-59).
THEOREM ExportCarriesCopiesAlways == FilesHold => (TransferSpec => []ExportCarriesCopies)
  <1> SUFFICES ASSUME FilesHold PROVE TransferSpec => []ExportCarriesCopies
    OBVIOUS
  <1>1. TransferInit => ExportInv
    BY InitExportInv
  <1>2. TransferInv /\ ExportInv /\ [TransferNext]_allVars => ExportInv'
    BY StepExportInv
  <1>3. ExportInv => ExportCarriesCopies
    BY DEF ExportInv
  <1> QED  BY <1>1, <1>2, <1>3, TransferInvariance, PTL DEF TransferSpec
-----------------------------------------------------------------------------
(* What a recorded hash stands for, and what a clean import has brought *)

\* What the rollback of an import answers for: nothing cuts it short, and no
\* chunks have been replaced by the time it gives an old identity back.
RollsBack ==
    /\ FilesHold
    /\ "stop" \notin ImportFaults
    /\ "db" \in ImportFaults => Policies \subseteq {"skip"}

Indexed(p) == docs[p].sha # None => docs[p].text = Whole(docs[p].sha)

\* An ingest has stored the chunks of the hash it records next.
Recording(p) ==
    \E c \in Procs : /\ pc[c] \in {"meta", "commit"} /\ job[c].cmd = "ingest"
                     /\ job[c].path = p /\ Alive(c)

\* The knowledge base, while every command is at a step of KnowledgeBase.
InOrder ==
    CopyInv /\ OneRuns /\ CacheIsWhole /\ TextWhole /\ StoredBeforeRecorded /\ ListCurrent

\* The tables and the copies, while an import is at a step of its own: one
\* copy may be half filled.
Filling(n) == \E c \in Procs : pc[c] = "filling" /\ job[c].tmp = n

CopiesInOrder ==
    \A n \in Contents :
        /\ Present(raw[n]) => raw[n] = Whole(n) \/ Filling(n)
        /\ Present(cache[n]) => cache[n] = Whole(n)
        /\ Present(older[n]) => older[n] = Whole(n)

TablesInOrder ==
    /\ CopiesInOrder
    /\ SourcesRecorded
    /\ ArchivedBeforeIndexed
    /\ \A p \in Paths : Indexed(p)

\* An archive holds what its names say.
Faithful(t) ==
    /\ \A p \in Paths : t.docs[p].sha # None => t.docs[p].raw = t.docs[p].sha
    /\ \A n \in Contents : Present(t.raw[n]) => t.raw[n] = Whole(n)

\* Past unpacking, every copy of the archive that survived is here.
Unpacks(c) ==
    /\ \A n \in Contents : Survives(tar, n) /\ Present(tar.raw[n])
            => n \in import[c].raws \/ Present(raw[n])
    /\ pc[c] = "filling" => raw[job[c].tmp] = Torn(tar.raw[job[c].tmp].of)
    /\ pc[c] \notin {"unpack", "filling"} => import[c].raws = {}
    /\ pc[c] \in Step \cup {"adopt"}
            => import[c].doc.raw # None /\ Present(raw[import[c].doc.raw])

\* The document in hand has been replaced when the run reports no error.
Replaced(step, j) == step = "meta" \/ (step = "next" /\ j.todo = {} /\ j.clean)

\* The document d an import embeds at path p: its row has the archive's
\* identity, and beside it the chunks of the row it replaces, then those of
\* the archived copy; every other row is as it was.
HandHas(step, j, rows, d, prior, p) ==
    /\ step \in {"next", "text", "write", "caching", "replace", "meta"}
    /\ rows[p].sha = d.sha /\ rows[p].raw = d.raw
    /\ \A e \in j.todo : e.sha = d.sha /\ e.raw = d.raw
    /\ j.todo # {} => step = "next" /\ j.clean
    /\ j.todo = {} => j.path = p /\ j.sha = d.sha /\ j.raw = d.raw
    /\ step # "next" => j.clean
    /\ step = "text" => j.src = "raw"
    /\ step \in {"write", "caching", "replace"} => j.text = Whole(d.raw)
    /\ Replaced(step, j) => rows[p].text = Whole(d.raw)
    /\ ~Replaced(step, j) /\ prior.id # 0 => rows[p].text = prior.text
    /\ \A q \in Paths \ {p} : rows[q].sha # None => rows[q].text = Whole(rows[q].sha)

HasInHand(c) ==
    LET prior == import[c].prior
    IN  /\ HandHas(pc[c], job[c], docs, import[c].doc, prior, PathOf(import[c].doc))
        /\ prior.sha # None => prior.raw = prior.sha /\ prior.text = Whole(prior.sha)
        /\ prior.raw # None => Present(raw[prior.raw])

ImportInOrder(c) ==
    /\ import[c].policy \in Policies
    /\ Unpacks(c)
    /\ pc[c] \in ImportSteps => TablesInOrder
    /\ pc[c] \in Step => HasInHand(c)

IdentityInv ==
    /\ Faithful(tar) /\ Faithful(export.tar)
    /\ (\A c \in Procs : pc[c] \in Step) => InOrder
    /\ ~Importing => \A p \in Paths : Indexed(p) \/ Recording(p)
    /\ \A c \in Procs : import[c].on => ImportInOrder(c)

\* The knowledge base stays in order under a command.
LEMMA InOrderStep ==
  ASSUME FilesHold, InOrder, [Next]_vars, OneRuns', WritesEnd
  PROVE  InOrder'
  <1>1. CopyInv /\ CopyInv' /\ Shape
    BY StepCopyInv DEF InOrder, CopyInv, KnownInv
  <1> QED  BY <1>1, CacheWholeStep, TextWholeStep, StoredBeforeStep, ListCurrentStep DEF InOrder

\* A command that runs alone finishes what it writes.
LEMMA AloneWrites ==
  ASSUME Shape, OneRuns, NEW c \in Procs, CommandStep(c)
  PROVE  WritesEnd
  <1>1. pc[c] # "idle"
    BY DEF CommandStep, IngestStep, CopySourceToRaw, AlreadyArchived, CopyToTemp,
       NoSourceToCopy, RenameToRaw, ReadOrExtract, CacheHit, Extract, NoSourceToExtract,
       CreateCache, FillCache, CheckDimension, CreateDoc, ReplaceForDocument,
       WriteAutoMetadata, CommitSHA, ReindexStep, Locate, Skip, SetRawPath, FinishReindex,
       DeleteRow, RemoveCache
  <1> QED  BY <1>1 DEF OneRuns, WritesEnd

\* The document an import has in hand goes through the steps of a reindex.
LEMMA EmbedHand ==
  ASSUME FilesHold, TransferInv, IdentityInv, NEW c \in Procs, Embed(c)
  PROVE  HandHas(pc'[c], job'[c], docs', import[c].doc, import[c].prior, PathOf(import[c].doc))
  <1> DEFINE d == import[c].doc
             prior == import[c].prior
             p == PathOf(d)
             After == HandHas(pc'[c], job'[c], docs', d, prior, p)
  <1>1. pc[c] \in Step /\ import[c].on
    BY EmbedActs
  <1>2. Shape /\ EmbedsOne(c) /\ p \in Paths
    BY <1>1, ShapeOfEmbedding, OfferedRows
  <1>3. InOrder /\ CopyInv
    <2>1. \A o \in Procs : pc[o] \in Step
      BY <1>2, Locals
    <2> QED  BY <2>1 DEF IdentityInv, InOrder
  <1>4. HandHas(pc[c], job[c], docs, d, prior, p) /\ d.raw # None
    BY <1>1 DEF IdentityInv, ImportInOrder, HasInHand, Unpacks
  <1>5. job[c].cmd = "reindex" /\ job[c] \in Job /\ Fits(pc[c], job[c])
    BY <1>2, Locals DEF EmbedsOne
  <1>6. job[c].todo = {} => Alive(c)
    BY <1>2, <1>4, StoreAssumption DEF HandHas, EmbedsOne, Alive
  <1>7. d.raw \in Contents /\ raw[d.raw] = Whole(d.raw)
    <2>1. docs[p].raw = d.raw
      BY <1>4 DEF HandHas
    <2> QED  BY <1>2, <1>3, <1>4, <2>1, RowsCarried DEF Carried, Shape, TypeOK, Row, Name
  <1>8. d.sha # None => d.raw = d.sha
    BY <1>2, <1>3, <1>4 DEF HandHas, CopyInv, SourcesRecorded
  <1>9. Present(raw[d.raw])
    BY <1>4, <1>7 DEF Present, Whole
  <1> SUFFICES After
    OBVIOUS
  <1> HIDE DEF d, prior, p
  <1>10. ASSUME NEW e \in job[c].todo, Locate(c, e)
         PROVE  After
    <2> DEFINE j == Take(c, e)
    <2>1. pc[c] = "next" /\ e.sha = d.sha /\ e.raw = d.raw /\ e.path = p /\ job[c].clean
      BY <1>2, <1>4, <1>10 DEF Locate, HandHas, EmbedsOne, d, p
    <2>2. InArchive(e) /\ ArchivedName(e) = e.raw /\ HasSource(e)
      BY <1>4, <1>9, <2>1 DEF InArchive, ArchivedName, HasSource, FilesHold
    <2>3. job[c].todo \ {e} = {}
      <3>1. ASSUME NEW f \in job[c].todo PROVE f = e
        <4>1. f.path = e.path /\ f.id = e.id /\ f.sha = e.sha /\ f.raw = e.raw
          BY <1>2, <1>4 DEF HandHas, EmbedsOne, d, p
        <4>2. f \in Loaded /\ e \in Loaded
          BY <1>5 DEF Job
        <4> QED  BY <4>1, <4>2 DEF Loaded
      <3> QED  BY <3>1
    <2>4. /\ j.path = p /\ j.sha = d.sha /\ j.raw = d.raw /\ j.todo = {} /\ j.clean
          /\ j.src = IF CachedText(e) THEN "cache" ELSE "raw"
          /\ CachedText(e) => j.text = cache[e.sha]
      BY <1>5, <2>1, <2>2, <2>3 DEF Take, Job
    <2>5. CachedText(e) => cache[e.sha] = Whole(d.raw)
      <3>1. ASSUME CachedText(e) PROVE cache[e.sha] = Whole(d.raw)
        <4>1. e.sha = d.raw /\ Present(cache[d.raw]) /\ cache[d.raw] \in Copy
          BY <1>2, <1>7, <1>8, <2>1, <3>1 DEF CachedText, Shape, TypeOK
        <4>2. cache[d.raw].of = d.raw
          BY <1>3, <1>7, <4>1 DEF CopyInv, ContentAddressed
        <4>3. \A o \in Procs : pc[o] # "caching"
          BY <1>3, <2>1 DEF InOrder, OneRuns
        <4>4. cache[d.raw].whole
          BY <1>3, <1>7, <4>1, <4>3 DEF InOrder, CacheIsWhole
        <4> QED  BY <4>1, <4>2, <4>4, WholeCopy
      <3> QED  BY <3>1
    <2>6. docs' = docs /\ Goto(c, AfterLocate(j), j)
      BY <1>10, <2>1, <2>2 DEF Locate, db
    <2> HIDE DEF j
    <2>7. pc'[c] = AfterLocate(j) /\ job'[c] = j
      BY <1>2, <2>6, Moved
    <2>8. pc'[c] \in {"text", "replace"} /\ (pc'[c] = "replace" => CachedText(e))
          /\ (pc'[c] = "text" => j.src = "raw")
      BY <2>4, <2>7 DEF AfterLocate
    <2>9. ~Replaced(pc[c], job[c]) /\ ~Replaced(pc'[c], j)
      BY <1>10, <2>1, <2>8 DEF Replaced
    <2> QED  BY <1>4, <2>1, <2>4, <2>5, <2>6, <2>7, <2>8, <2>9 DEF HandHas
<1>11. pc[c] # "next" => /\ job[c].todo = {} /\ job[c].path = p /\ job[c].clean
                             /\ job[c].sha = d.sha /\ job[c].raw = d.raw
    BY <1>4 DEF HandHas
  <1>12. CASE Extract(c)
    <2> DEFINE to == IF job[c].sha = None THEN Embedded(c) ELSE "write"
               j == [job[c] EXCEPT !.text = Source(c)]
    <2>1. pc[c] = "text" /\ Goto(c, to, j) /\ docs' = docs
      BY <1>12 DEF Extract, db
    <2>2. Source(c) = Whole(d.raw)
      BY <1>4, <1>7, <1>11, <2>1 DEF Source, HandHas
    <2>3. to \in {"replace", "write"}
      BY <1>5 DEF Embedded
    <2>4. /\ j.todo = {} /\ j.path = p /\ j.clean /\ j.sha = d.sha /\ j.raw = d.raw
          /\ j.text = Whole(d.raw)
      BY <1>5, <1>11, <2>1, <2>2 DEF Job
    <2> HIDE DEF to, j
    <2>5. pc'[c] = to /\ job'[c] = j
      BY <1>2, <2>1, Moved
    <2>6. ~Replaced(pc[c], job[c]) /\ ~Replaced(to, j)
      BY <2>1, <2>3 DEF Replaced
    <2> QED  BY <1>4, <2>1, <2>3, <2>4, <2>5, <2>6 DEF HandHas
  <1>13. CASE CreateCache(c) \/ FillCache(c)
    <2>1. /\ pc[c] \in {"write", "caching"} /\ docs' = docs /\ job'[c] = job[c]
          /\ pc'[c] \in {"caching", "replace"}
      BY <1>2, <1>5, <1>13, Moved DEF CreateCache, FillCache, Embedded, db
    <2>2. ~Replaced(pc[c], job[c]) /\ ~Replaced(pc'[c], job[c])
      BY <2>1 DEF Replaced
    <2> QED  BY <1>4, <1>11, <2>1, <2>2 DEF HandHas
  <1>14. CASE ReplaceForDocument(c)
    <2>1. /\ pc[c] = "replace" /\ pc'[c] = "meta" /\ job'[c] = job[c]
          /\ docs' = [docs EXCEPT ![p].text = job[c].text, ![p].dim = NewDim(c)]
      BY <1>2, <1>6, <1>11, <1>14, Moved DEF ReplaceForDocument
    <2>2. docs \in [Paths -> Row]
      BY <1>2 DEF Shape, TypeOK
    <2>3. job[c].text = Whole(d.raw)
      BY <1>4, <2>1 DEF HandHas
    <2>4. /\ docs'[p].text = job[c].text /\ docs'[p].sha = docs[p].sha
          /\ docs'[p].raw = docs[p].raw
          /\ \A q \in Paths \ {p} : docs'[q] = docs[q]
      BY <1>2, <2>1, <2>2 DEF Row
    <2>5. Replaced(pc'[c], job'[c])
      BY <2>1 DEF Replaced
    <2> QED  BY <1>4, <1>11, <2>1, <2>3, <2>4, <2>5 DEF HandHas
  <1>15. CASE WriteAutoMetadata(c)
    <2>1. /\ pc[c] = "meta" /\ pc'[c] = "next" /\ job'[c] = job[c] /\ docs' = docs
      BY <1>2, <1>5, <1>6, <1>11, <1>15, Moved DEF WriteAutoMetadata, db
    <2>2. Replaced(pc[c], job[c]) /\ Replaced(pc'[c], job'[c])
      BY <1>11, <2>1 DEF Replaced
    <2> QED  BY <1>4, <1>11, <2>1, <2>2 DEF HandHas
  <1>16. ~(\E e \in job[c].todo : Skip(c, e)) /\ ~SetRawPath(c)
    <2>1. ASSUME NEW e \in job[c].todo PROVE HasSource(e)
      BY <1>4, <1>9, <2>1 DEF HandHas, InArchive, ArchivedName, HasSource, FilesHold
    <2> QED  BY <1>4, <2>1 DEF Skip, SetRawPath, HandHas
  <1>17. ~CacheHit(c) /\ ~NoSourceToExtract(c)
    <2>1. ASSUME NoSourceToExtract(c) PROVE FALSE
      <3>1. pc[c] = "text" /\ Source(c) = raw[d.raw]
        BY <1>4, <1>11, <2>1 DEF Source, HandHas, NoSourceToExtract
      <3> QED  BY <1>9, <2>1, <3>1 DEF NoSourceToExtract
    <2> QED  BY <1>5, <2>1 DEF CacheHit
  <1>18. ~CopySourceToRaw(c) /\ ~CheckDimension(c) /\ ~CreateDoc(c) /\ ~CommitSHA(c)
    BY <1>5 DEF CopySourceToRaw, AlreadyArchived, CopyToTemp, NoSourceToCopy, RenameToRaw,
       CheckDimension, CreateDoc, CommitSHA, Fits
  <1> QED
    BY <1>10, <1>12, <1>13, <1>14, <1>15, <1>16, <1>17, <1>18 DEF Embed, IngestStep, ReadOrExtract

-----------------------------------------------------------------------------
(* The knowledge base at rest *)

\* No command is past looking for the next document of a list.
AtRest ==
    /\ Shape /\ OneRuns /\ CopiesInOrder /\ CopiesKnown
    /\ SourcesRecorded /\ ArchivedBeforeIndexed
    /\ \A c \in Procs :
        /\ pc[c] \in {"idle", "next"}
        /\ pc[c] = "idle" => job[c] = NoJob
        /\ \A e \in job[c].todo : docs[e.path].sha = e.sha /\ docs[e.path].raw = e.raw

LEMMA RestInOrder == AtRest => InOrder
  <1> SUFFICES ASSUME AtRest PROVE InOrder
    OBVIOUS
  <1>1. \A c \in Procs : /\ pc[c] \in {"idle", "next"}
                         /\ pc[c] = "next" => job[c].cmd = "reindex"
                         /\ pc[c] = "idle" => job[c] = NoJob
    BY Locals DEF AtRest, Fits
  <1>2. \A n \in Contents : ~Filling(n)
    BY <1>1 DEF Filling
  <1>3. ArchiveIsWhole /\ ContentAddressed /\ CacheIsWhole
    <2>1. \A n \in Contents :
            /\ Present(raw[n]) => raw[n] = Whole(n)
            /\ Present(cache[n]) => cache[n] = Whole(n)
            /\ Present(older[n]) => older[n] = Whole(n)
      BY <1>2 DEF AtRest, CopiesInOrder
    <2>2. ASSUME NEW copy, NEW n, copy = Whole(n)
          PROVE  copy.whole /\ copy.of = n
      BY <2>2 DEF Whole
    <2>3. ArchiveIsWhole
      BY <2>1, <2>2 DEF ArchiveIsWhole
    <2>4. CacheIsWhole
      BY <2>1, <2>2 DEF CacheIsWhole
    <2>5. ContentAddressed
      BY <2>1, <2>2 DEF ContentAddressed
    <2> QED  BY <2>3, <2>4, <2>5
  <1>4. ChunksBehind /\ TextWhole /\ StoredBeforeRecorded /\ Hashed
    BY <1>1 DEF ChunksBehind, TextWhole, StoredBeforeRecorded, Hashed
  <1>5. JobsRight
    <2> SUFFICES ASSUME NEW c \in Procs PROVE Right(pc[c], job[c])
      BY DEF JobsRight
    <2>1. \A e \in job[c].todo : e.sha # None => e.raw = e.sha
      <3> SUFFICES ASSUME NEW e \in job[c].todo, e.sha # None PROVE e.raw = e.sha
        OBVIOUS
      <3>1. e.path \in Paths
        BY Locals DEF AtRest, Job, Loaded
      <3> QED  BY <3>1 DEF AtRest, SourcesRecorded
    <2>2. CASE pc[c] = "idle"
      BY <1>1, <2>2 DEF Right, NoJob
    <2>3. CASE pc[c] = "next"
      BY <1>1, <2>1, <2>3 DEF Right
    <2> QED  BY <1>1, <2>2, <2>3
  <1>6. ListCurrent
    BY <1>1 DEF AtRest, ListCurrent
  <1> QED  BY <1>3, <1>4, <1>5, <1>6 DEF AtRest, InOrder, CopyInv, KnownInv

LEMMA RestInOrderNext == AtRest' => InOrder'
  BY RestInOrder, PTL

\* A state in order, as the steps of an import find it.
LEMMA CopiesOf ==
  ASSUME InOrder, \A c \in Procs : pc[c] # "caching"
  PROVE  /\ SourcesRecorded /\ ArchivedBeforeIndexed
         /\ \A n \in Contents : /\ Present(raw[n]) => raw[n] = Whole(n)
                                /\ Present(cache[n]) => cache[n] = Whole(n)
                                /\ Present(older[n]) => older[n] = Whole(n)
  <1>1. SourcesRecorded /\ ArchivedBeforeIndexed /\ Shape
    BY DEF InOrder, CopyInv, KnownInv
  <1>2. ASSUME NEW n \in Contents
        PROVE  /\ Present(raw[n]) => raw[n] = Whole(n)
               /\ Present(cache[n]) => cache[n] = Whole(n)
               /\ Present(older[n]) => older[n] = Whole(n)
    <2>1. raw[n] \in Copy /\ cache[n] \in Copy /\ older[n] \in Copy
      BY <1>1 DEF Shape, TypeOK
    <2>2. /\ Present(raw[n]) => raw[n].of = n /\ raw[n].whole
          /\ Present(cache[n]) => cache[n].of = n /\ cache[n].whole
          /\ Present(older[n]) => older[n].of = n /\ older[n].whole
      BY DEF InOrder, CopyInv, KnownInv, ArchiveIsWhole, ContentAddressed, CacheIsWhole
    <2> QED  BY <2>1, <2>2, WholeCopy
  <1> QED  BY <1>1, <1>2

LEMMA ShapeNow == TransferInv /\ (\A c \in Procs : pc[c] \in Step) => Shape
  BY KnowledgeShape

LEMMA ShapeNext == (TransferInv /\ \A c \in Procs : pc[c] \in Step)' => Shape'
  BY ShapeNow, PTL

-----------------------------------------------------------------------------
(* What an import leaves in order, step by step *)

\* A step of an import that leaves the two archives as they were.
LEMMA ImportLeaves ==
  ASSUME TransferInv', IdentityInv, NEW c \in Procs, import'[c].on, UNCHANGED <<tar, export>>,
         (\A o \in Procs : pc'[o] \in Step) => InOrder', ImportInOrder(c)'
  PROVE  IdentityInv'
  <1>1. Faithful(tar)' /\ Faithful(export.tar)'
    BY DEF IdentityInv, Faithful
  <1>2. \A o \in Procs \ {c} : ~import'[o].on
    BY DEF TransferInv, ImportsAlone
  <1>3. Importing'
    BY DEF Importing
  <1> QED  BY <1>1, <1>2, <1>3 DEF IdentityInv

\* It comes to a step of its own.
LEMMA OwnStep ==
  ASSUME TransferInv', IdentityInv, NEW c \in Procs, import'[c].on,
         import'[c].policy \in Policies, pc'[c] \in ImportSteps, UNCHANGED <<tar, export>>,
         TablesInOrder', Unpacks(c)'
  PROVE  IdentityInv'
  <1>1. pc'[c] \notin Step
    BY DEF ImportSteps, Step
  <1> QED  BY <1>1, ImportLeaves DEF ImportInOrder

\* It goes on embedding the document in hand.
LEMMA EmbeddingStep ==
  ASSUME TransferInv', IdentityInv, NEW c \in Procs, import'[c].on,
         import'[c].policy \in Policies, pc'[c] \in Step, UNCHANGED <<tar, export>>,
         InOrder', Unpacks(c)', HasInHand(c)'
  PROVE  IdentityInv'
  <1>1. pc'[c] \notin ImportSteps
    BY DEF ImportSteps, Step
  <1> QED  BY <1>1, ImportLeaves DEF ImportInOrder

\* No import runs any more, and the tables are in order.
LEMMA ImportOver ==
  ASSUME IdentityInv, ~Importing', InOrder', Faithful(tar)', export' = export,
         \A p \in Paths : Indexed(p)'
  PROVE  IdentityInv'
  <1>1. Faithful(export.tar)'
    BY DEF IdentityInv, Faithful
  <1> QED  BY <1>1 DEF IdentityInv, Importing

\* What holds of an import at a step of its own.
LEMMA OwnState ==
  ASSUME TransferInv, IdentityInv, NEW c \in Procs, import[c].on, pc[c] \in ImportSteps
  PROVE  /\ TablesInOrder /\ Unpacks(c) /\ import[c].policy \in Policies
         /\ \A n \in Contents : Filling(n) => pc[c] = "filling" /\ job[c].tmp = n
  <1>1. \A o \in Procs \ {c} : pc[o] # "filling"
    BY DEF TransferInv, ImportsAlone
  <1> QED  BY <1>1 DEF IdentityInv, ImportInOrder, Filling

\* Tables nobody touches stay in order.
LEMMA SameInOrder ==
  ASSUME TablesInOrder, UNCHANGED <<raw, cache, older, docs>>,
         \A n \in Contents : ~Filling(n)
  PROVE  TablesInOrder'
  <1>1. CopiesInOrder'
    BY DEF TablesInOrder, CopiesInOrder
  <1> QED  BY <1>1 DEF TablesInOrder, SourcesRecorded, ArchivedBeforeIndexed, Indexed

LEMMA TemplatesIdentity ==
  ASSUME TransferInv, TransferInv', IdentityInv, NEW c \in Procs, import[c].on,
         \/ SkipPresent(c) \/ Unpacked(c) \/ TemplatesDone(c)
         \/ KeepTemplate(c) \/ RemoveTemplate(c) \/ CopyTemplate(c)
         \/ \E d \in import[c].todo : SkipDocument(c, d) \/ OfferFails(c, d)
  PROVE  IdentityInv'
  <1>1. /\ pc[c] \in ImportSteps \ {"filling", "adopt"}
        /\ UNCHANGED <<raw, cache, older, docs, tar, export>>
        /\ \E to \in ImportSteps \ {"filling", "adopt"} : \E j :
              /\ Goto(c, to, j) \/ (to = pc[c] /\ UNCHANGED <<pc, job>>)
              /\ to = "unpack" \/ (to = "templates" /\ import[c].raws = {}) \/ pc[c] # "unpack"
              /\ to = "unpack" => pc[c] = "unpack"
    <2>1. CASE SkipPresent(c) \/ Unpacked(c) \/ TemplatesDone(c)
      BY <2>1 DEF SkipPresent, Unpacked, TemplatesDone, ImportSteps, vars, disk, db, bundles
    <2>2. CASE KeepTemplate(c) \/ RemoveTemplate(c) \/ CopyTemplate(c)
      BY <2>2 DEF KeepTemplate, RemoveTemplate, CopyTemplate, ImportSteps, vars, disk, db
    <2>3. CASE \E d \in import[c].todo : SkipDocument(c, d) \/ OfferFails(c, d)
      BY <2>3 DEF SkipDocument, OfferFails, ImportSteps, vars, disk, db
    <2> QED  BY <2>1, <2>2, <2>3
  <1>2. /\ pc'[c] \in ImportSteps \ {"filling", "adopt"} /\ pc'[c] \notin Step
        /\ pc'[c] # "unpack" => import[c].raws = {} \/ pc[c] # "unpack"
        /\ pc'[c] = "unpack" => pc[c] = "unpack"
    BY <1>1 DEF Goto, TransferInv, CommandsShape, ImportSteps, Step
  <1>3. /\ import'[c].on /\ import'[c].policy = import[c].policy
        /\ import'[c].raws \subseteq import[c].raws
        /\ \A n \in import[c].raws \ import'[c].raws : Present(raw[n])
    <2>0. import[c] \in ImportLocals /\ import \in [Procs -> ImportLocals]
      BY DEF TransferInv, BundlesShape
    <2>1. CASE SkipPresent(c)
      <3>1. PICK n \in import[c].raws :
              Present(raw[n]) /\ import' = [import EXCEPT ![c].raws = @ \ {n}]
        BY <2>1 DEF SkipPresent
      <3> QED  BY <2>0, <3>1 DEF ImportLocals
    <2>2. CASE Unpacked(c) \/ TemplatesDone(c)
      BY <2>2 DEF Unpacked, TemplatesDone, bundles
    <2>3. CASE KeepTemplate(c)
      BY <2>0, <2>3 DEF KeepTemplate, ImportLocals
    <2>4. CASE RemoveTemplate(c)
      <3>1. PICK t \in import[c].templates :
              import' = [import EXCEPT ![c].templates = @ \ {t}, ![c].taken = {t}]
        BY <2>4 DEF RemoveTemplate
      <3> QED  BY <2>0, <3>1 DEF ImportLocals
    <2>5. CASE CopyTemplate(c)
      <3>1. PICK whole \in BOOLEAN :
              import' = [import EXCEPT ![c].taken = {}, ![c].errs = @ \/ ~whole]
        BY <2>5 DEF CopyTemplate
      <3> QED  BY <2>0, <3>1 DEF ImportLocals
    <2>6. CASE \E d \in import[c].todo : SkipDocument(c, d)
      <3>1. PICK d \in import[c].todo : import' = [import EXCEPT ![c].todo = @ \ {d}]
        BY <2>6 DEF SkipDocument
      <3> QED  BY <2>0, <3>1 DEF ImportLocals
    <2>7. CASE \E d \in import[c].todo : OfferFails(c, d)
      <3>1. PICK d \in import[c].todo : import' = [import EXCEPT ![c].todo = @ \ {d}, ![c].errs = TRUE]
        BY <2>7 DEF OfferFails
      <3> QED  BY <2>0, <3>1 DEF ImportLocals
    <2> QED  BY <2>1, <2>2, <2>3, <2>4, <2>5, <2>6, <2>7
  <1>4. /\ TablesInOrder /\ Unpacks(c) /\ import[c].policy \in Policies
        /\ \A n \in Contents : ~Filling(n)
    BY <1>1, OwnState
  <1>5. TablesInOrder'
    BY <1>1, <1>4, SameInOrder
  <1>6. Unpacks(c)'
    <2>1. ASSUME NEW n \in Contents, Survives(tar, n), Present(tar.raw[n])
          PROVE  n \in import'[c].raws \/ Present(raw[n])
      BY <1>3, <1>4, <2>1 DEF Unpacks
    <2>2. \A n \in Contents : Survives(tar, n)' <=> Survives(tar, n)
      BY <1>1 DEF Survives, Intact, Entries, Raws
    <2>3. pc'[c] \notin {"unpack", "filling"} => import'[c].raws = {}
      BY <1>1, <1>2, <1>3, <1>4 DEF Unpacks
    <2> QED  BY <1>1, <1>2, <2>1, <2>2, <2>3 DEF Unpacks
  <1> QED  BY <1>1, <1>2, <1>3, <1>4, <1>5, <1>6, OwnStep

\* Unpacking a copy: no row names it until it is there.
LEMMA CreateRawIdentity ==
  ASSUME TransferInv, TransferInv', IdentityInv, NEW c \in Procs, import[c].on, CreateRaw(c)
  PROVE  IdentityInv'
  <1>1. PICK n \in import[c].raws :
          /\ ~Present(raw[n]) /\ pc[c] = "unpack"
          /\ raw' = [raw EXCEPT ![n] = Torn(tar.raw[n].of)]
          /\ Goto(c, "filling", [job[c] EXCEPT !.tmp = n])
          /\ UNCHANGED <<cache, older, docs, tar, export, import>>
    BY DEF CreateRaw, db, bundles
  <1>2. n \in Contents /\ job[c] \in Job /\ raw \in [Contents -> Copy]
    BY ImportTyped DEF ImportLocals, TransferInv, CommandsShape, TablesShape
  <1>3. pc'[c] = "filling" /\ job'[c].tmp = n
    <2>1. job'[c] = [job[c] EXCEPT !.tmp = n] /\ pc'[c] = "filling"
      BY <1>1 DEF Goto, TransferInv, CommandsShape
    <2> QED  BY <1>2, <2>1 DEF Job
  <1>4. /\ TablesInOrder /\ Unpacks(c) /\ import[c].policy \in Policies
        /\ \A m \in Contents : ~Filling(m)
    BY <1>1, OwnState DEF ImportSteps
  <1>5. TablesInOrder'
    <2>1. Filling(n)'
      BY <1>3 DEF Filling
    <2>2. \A m \in Contents \ {n} : raw'[m] = raw[m]
      BY <1>1, <1>2
    <2>3. CopiesInOrder'
      BY <1>1, <1>4, <2>1, <2>2 DEF TablesInOrder, CopiesInOrder
    <2>4. ArchivedBeforeIndexed'
      <3> SUFFICES ASSUME NEW p \in Paths, docs[p].raw # None PROVE Present(raw'[docs[p].raw])
        BY <1>1 DEF ArchivedBeforeIndexed
      <3>1. Present(raw[docs[p].raw]) /\ docs[p].raw \in Contents
        BY <1>4 DEF TablesInOrder, ArchivedBeforeIndexed, TransferInv, TablesShape, Row, Name
      <3> QED  BY <1>1, <2>2, <3>1
    <2> QED  BY <1>1, <1>4, <2>3, <2>4 DEF TablesInOrder, SourcesRecorded, Indexed
  <1>6. Unpacks(c)'
    <2>1. ASSUME NEW m \in Contents, Survives(tar, m), Present(tar.raw[m])
          PROVE  m \in import[c].raws \/ Present(raw'[m])
      BY <1>1, <1>2, <1>4, <2>1 DEF Unpacks
    <2>2. \A m \in Contents : Survives(tar, m)' <=> Survives(tar, m)
      BY <1>1 DEF Survives, Intact, Entries, Raws
    <2>3. raw'[n] = Torn(tar.raw[n].of)
      BY <1>1, <1>2
    <2> QED  BY <1>1, <1>3, <2>1, <2>2, <2>3 DEF Unpacks, Step
  <1> QED  BY <1>1, <1>3, <1>4, <1>5, <1>6, OwnStep DEF ImportSteps

LEMMA FillRawIdentity ==
  ASSUME TransferInv, TransferInv', IdentityInv, NEW c \in Procs, import[c].on, FillRaw(c)
  PROVE  IdentityInv'
  <1> DEFINE n == job[c].tmp
  <1>1. /\ pc[c] = "filling"
        /\ raw' = [raw EXCEPT ![n] = tar.raw[n]]
        /\ import' = [import EXCEPT ![c].raws = @ \ {n}]
        /\ Goto(c, "unpack", NoJob)
        /\ UNCHANGED <<cache, older, docs, tar, export>>
    BY DEF FillRaw, db
  <1>2. n \in Contents /\ raw \in [Contents -> Copy] /\ tar.raw \in [Contents -> Copy]
    <2>1. n \in import[c].raws
      BY <1>1 DEF TransferInv, CommandsShape, CommandReady, Step
    <2> QED  BY <2>1, ImportTyped DEF ImportLocals, TransferInv, TablesShape, BundlesShape, ArchiveShape
  <1>3. pc'[c] = "unpack"
    BY <1>1 DEF Goto, TransferInv, CommandsShape
  <1>4. /\ TablesInOrder /\ Unpacks(c) /\ import[c].policy \in Policies
        /\ \A m \in Contents : Filling(m) => m = n
    BY <1>1, OwnState DEF ImportSteps
  <1>5. raw'[n] = tar.raw[n] /\ \A m \in Contents \ {n} : raw'[m] = raw[m]
    BY <1>1, <1>2
  <1>6. /\ Present(raw'[n]) => raw'[n] = Whole(n)
        /\ Present(raw[n]) => Present(raw'[n])
    <2>1. raw[n] = Torn(tar.raw[n].of)
      BY <1>1, <1>4 DEF Unpacks
    <2> QED  BY <1>2, <1>5, <2>1 DEF IdentityInv, Faithful, Present, Torn
  <1>7. import'[c].on /\ import'[c].policy = import[c].policy /\ import'[c].raws = import[c].raws \ {n}
    BY <1>1 DEF TransferInv, BundlesShape, ImportLocals
  <1> HIDE DEF n
  <1>8. TablesInOrder'
    <2>1. CopiesInOrder'
      BY <1>1, <1>4, <1>5, <1>6 DEF TablesInOrder, CopiesInOrder
    <2>2. ArchivedBeforeIndexed'
      <3> SUFFICES ASSUME NEW p \in Paths, docs[p].raw # None PROVE Present(raw'[docs[p].raw])
        BY <1>1 DEF ArchivedBeforeIndexed
      <3>1. Present(raw[docs[p].raw]) /\ docs[p].raw \in Contents
        BY <1>4 DEF TablesInOrder, ArchivedBeforeIndexed, TransferInv, TablesShape, Row, Name
      <3> QED  BY <1>5, <1>6, <3>1
    <2> QED  BY <1>1, <1>4, <2>1, <2>2 DEF TablesInOrder, SourcesRecorded, Indexed
  <1>9. Unpacks(c)'
    <2>1. ASSUME NEW m \in Contents, Survives(tar, m), Present(tar.raw[m])
          PROVE  m \in import'[c].raws \/ Present(raw'[m])
      BY <1>4, <1>5, <1>7, <2>1 DEF Unpacks
    <2>2. \A m \in Contents : Survives(tar, m)' <=> Survives(tar, m)
      BY <1>1 DEF Survives, Intact, Entries, Raws
    <2> QED  BY <1>1, <1>3, <2>1, <2>2 DEF Unpacks, Step
  <1> QED  BY <1>1, <1>3, <1>4, <1>7, <1>8, <1>9, OwnStep DEF ImportSteps

\* The copy of a document an import takes up is here, named after its hash.
LEMMA OfferedCopy ==
  ASSUME TransferInv, ExportInv, IdentityInv, tar.made, NEW d \in Offered(tar)
  PROVE  /\ d.raw # None => d.raw \in Contents /\ Present(tar.raw[d.raw])
         /\ d.sha # None => d.raw = d.sha
  <1>1. PICK q \in Paths : d = [tar.docs[q] EXCEPT !.raw = ArchivedName(tar.docs[q])]
    BY DEF Offered
  <1>2. tar.docs[q] \in Row /\ tar.raw \in [Contents -> Copy]
    BY DEF TransferInv, BundlesShape, ArchiveShape
  <1>3. tar.docs[q].sha # None => tar.docs[q].raw = tar.docs[q].sha
    BY DEF IdentityInv, Faithful
  <1>4. d.sha = tar.docs[q].sha /\ d.raw = tar.docs[q].raw
    BY <1>1, <1>2, <1>3 DEF ArchivedName, Row
  <1>5. d.raw # None => d.raw \in Contents /\ tar.raw[d.raw] = Whole(d.raw)
    BY <1>2, <1>4 DEF ExportInv, ExportCarriesCopies, Row, Name
  <1> QED  BY <1>3, <1>4, <1>5 DEF Present, Whole

LEMMA TakeIdentity ==
  ASSUME TransferInv, TransferInv', ExportInv, IdentityInv, NEW c \in Procs, import[c].on,
         NEW d \in import[c].todo, TakeDocument(c, d)
  PROVE  IdentityInv'
  <1>1. /\ pc[c] = "offer" /\ d.raw # None /\ Survives(tar, d.raw)
        /\ import' = [import EXCEPT ![c].doc = d, ![c].prior = docs[PathOf(d)]]
        /\ Goto(c, "adopt", NoJob)
        /\ UNCHANGED <<raw, cache, older, docs, tar, export>>
    BY DEF TakeDocument, disk, db
  <1>2. /\ import'[c].on /\ import'[c].policy = import[c].policy
        /\ import'[c].raws = import[c].raws /\ import'[c].doc = d
    BY <1>1 DEF TransferInv, BundlesShape, ImportLocals
  <1>3. pc'[c] = "adopt"
    BY <1>1 DEF Goto, TransferInv, CommandsShape
  <1>4. /\ TablesInOrder /\ Unpacks(c) /\ import[c].policy \in Policies
        /\ \A m \in Contents : ~Filling(m)
    BY <1>1, OwnState DEF ImportSteps
  <1>5. TablesInOrder'
    BY <1>1, <1>4, SameInOrder
  <1>6. d \in Offered(tar) /\ tar.made
    BY DEF TransferInv, ImportsHold, ImportHolds, BundlesShape, Importing
  <1>7. Present(raw[d.raw])
    BY <1>1, <1>4, <1>6, OfferedCopy DEF Unpacks
  <1>8. Unpacks(c)'
    <2>1. \A m \in Contents : Survives(tar, m)' <=> Survives(tar, m)
      BY <1>1 DEF Survives, Intact, Entries, Raws
    <2> QED  BY <1>1, <1>2, <1>3, <1>4, <1>7, <2>1 DEF Unpacks
  <1> QED  BY <1>1, <1>2, <1>3, <1>4, <1>5, <1>8, OwnStep DEF ImportSteps

\* With one import running, the others are idle and hold nothing.
LEMMA OthersRest ==
  ASSUME TransferInv', NEW c \in Procs, import'[c].on
  PROVE  /\ OneRuns'
         /\ \A o \in Procs \ {c} : pc'[o] = "idle" /\ job'[o] = NoJob
  <1>1. \A o \in Procs \ {c} : pc'[o] = "idle"
    BY DEF TransferInv, ImportsAlone
  <1>2. \A o \in Procs \ {c} : job'[o] = NoJob
    BY <1>1 DEF TransferInv, CommandsShape, CommandReady, Step
  <1> QED  BY <1>1, <1>2 DEF OneRuns

LEMMA AdoptIdentity ==
  ASSUME TransferInv, TransferInv', ExportInv, IdentityInv, NEW c \in Procs, import[c].on,
         Adopt(c)
  PROVE  IdentityInv'
  <1> DEFINE d == import[c].doc
             p == PathOf(d)
             prior == import[c].prior
             new == prior.id = 0
             id == IF new THEN nextId ELSE prior.id
             r == [(IF new THEN NoRow ELSE docs[p]) EXCEPT !.id = id, !.sha = d.sha, !.raw = d.raw]
             e == [path |-> p, id |-> id, sha |-> d.sha, raw |-> d.raw]
             j == [NoJob EXCEPT !.cmd = "reindex", !.dim = config, !.todo = {e}]
  <1>1. /\ pc[c] = "adopt"
        /\ docs' = [docs EXCEPT ![p] = r]
        /\ Goto(c, "next", j)
        /\ UNCHANGED <<raw, cache, older, tar, export, import>>
    BY DEF Adopt, disk, bundles
  <1>2. d \in Offered(tar) /\ prior = docs[p] /\ tar.made
    BY <1>1 DEF TransferInv, ImportsHold, ImportHolds, BundlesShape, Importing
  <1>3. d \in Row /\ p \in Paths /\ docs[p] \in Row /\ docs \in [Paths -> Row]
    BY <1>2, OfferedRows DEF TransferInv, TablesShape
  <1>4. /\ TablesInOrder /\ Unpacks(c) /\ import[c].policy \in Policies
        /\ \A m \in Contents : ~Filling(m)
    BY <1>1, OwnState DEF ImportSteps
  <1>5. d.raw # None /\ Present(raw[d.raw]) /\ (d.sha # None => d.raw = d.sha)
    BY <1>1, <1>2, <1>4, OfferedCopy DEF Unpacks
  <1>6. r.sha = d.sha /\ r.raw = d.raw /\ (prior.id # 0 => r.text = prior.text)
    <2>1. NoRow \in Row
      BY DEF Row, NoRow, Copy, NoCopy, Name
    <2> QED  BY <1>2, <1>3, <2>1 DEF Row
  <1>7. /\ j.cmd = "reindex" /\ j.todo = {e} /\ j.raw = None /\ j.clean
        /\ e.path = p /\ e.sha = d.sha /\ e.raw = d.raw
    BY DEF NoJob
  <1> HIDE DEF r, j, e, d, prior
  <1>8. docs'[p] = r /\ \A q \in Paths \ {p} : docs'[q] = docs[q]
    BY <1>1, <1>3
  <1>9. pc'[c] = "next" /\ job'[c] = j
    BY <1>1 DEF Goto, TransferInv, CommandsShape
  <1>10. OneRuns' /\ import'[c].on /\ \A o \in Procs \ {c} : pc'[o] = "idle" /\ job'[o] = NoJob
    BY <1>1, OthersRest
  <1>11. Shape'
    <2>1. \A o \in Procs : pc'[o] \in Step
      BY <1>9, <1>10 DEF Step
    <2> QED  BY <2>1, ShapeNext
  <1>12. SourcesRecorded' /\ ArchivedBeforeIndexed'
    BY <1>1, <1>4, <1>5, <1>6, <1>8 DEF TablesInOrder, SourcesRecorded, ArchivedBeforeIndexed
  <1>13. CopiesInOrder'
    BY <1>1, <1>4 DEF TablesInOrder, CopiesInOrder
  <1>14. CopiesKnown'
    <2>1. Known(j, raw) /\ Known(NoJob, raw)
      BY <1>5, <1>7 DEF Known, NoJob
    <2> QED  BY <1>1, <1>9, <1>10, <2>1 DEF CopiesKnown, Known
  <1>15. InOrder'
    <2>1. \A o \in Procs : /\ pc'[o] \in {"idle", "next"}
                           /\ pc'[o] = "idle" => job'[o] = NoJob
                           /\ \A f \in job'[o].todo :
                                docs'[f.path].sha = f.sha /\ docs'[f.path].raw = f.raw
      <3>1. \A f \in job'[c].todo : docs'[f.path].sha = f.sha /\ docs'[f.path].raw = f.raw
        BY <1>6, <1>7, <1>8, <1>9
      <3>2. \A o \in Procs \ {c} : job'[o].todo = {}
        BY <1>10 DEF NoJob
      <3> QED  BY <1>9, <1>10, <3>1, <3>2
    <2>2. AtRest'
      BY <1>10, <1>11, <1>12, <1>13, <1>14, <2>1 DEF AtRest
    <2> QED  BY <2>2, RestInOrderNext
  <1>16. Unpacks(c)'
    <2>1. \A m \in Contents : Survives(tar, m)' <=> Survives(tar, m)
      BY <1>1 DEF Survives, Intact, Entries, Raws
    <2>2. import[c].raws = {}
      BY <1>1, <1>4 DEF Unpacks
    <2> QED  BY <1>1, <1>4, <1>5, <1>9, <2>1, <2>2 DEF Unpacks, d
  <1>17. HasInHand(c)'
    <2>1. PathOf(import[c].doc)' = p
      BY <1>1 DEF PathOf, d
    <2>2. ~Replaced("next", j)
      BY <1>7 DEF Replaced
    <2>3. HandHas("next", j, docs', d, prior, p)
      BY <1>4, <1>6, <1>7, <1>8, <2>2 DEF HandHas, TablesInOrder, Indexed
    <2>4. /\ prior.sha # None => prior.raw = prior.sha /\ prior.text = Whole(prior.sha)
          /\ prior.raw # None => Present(raw[prior.raw])
      BY <1>2, <1>3, <1>4
         DEF TablesInOrder, Indexed, SourcesRecorded, ArchivedBeforeIndexed
    <2> QED  BY <1>1, <1>9, <2>1, <2>3, <2>4 DEF HasInHand, d, prior
  <1> QED  BY <1>1, <1>4, <1>9, <1>10, <1>15, <1>16, <1>17, EmbeddingStep DEF Step

\* While an import embeds a document, the knowledge base is in order.
LEMMA EmbeddingInOrder ==
  ASSUME TransferInv, IdentityInv, NEW c \in Procs, import[c].on, pc[c] \in Step
  PROVE  /\ InOrder /\ Shape /\ EmbedsOne(c) /\ Unpacks(c) /\ HasInHand(c)
         /\ import[c].policy \in Policies /\ PathOf(import[c].doc) \in Paths
  <1>1. Shape /\ EmbedsOne(c) /\ PathOf(import[c].doc) \in Paths
    BY ShapeOfEmbedding, OfferedRows
  <1>2. \A o \in Procs : pc[o] \in Step
    BY <1>1, Locals
  <1>3. pc[c] \notin ImportSteps
    BY DEF ImportSteps, Step
  <1> QED  BY <1>1, <1>2, <1>3 DEF IdentityInv, ImportInOrder

LEMMA EmbedIdentity ==
  ASSUME FilesHold, TransferInv, TransferInv', IdentityInv, NEW c \in Procs, Embed(c)
  PROVE  IdentityInv'
  <1>1. pc[c] \in Step /\ Acts(c) /\ UNCHANGED bundles /\ import[c].on
    BY EmbedActs
  <1>2. /\ InOrder /\ Shape /\ EmbedsOne(c) /\ Unpacks(c) /\ HasInHand(c)
        /\ import[c].policy \in Policies
    BY <1>1, EmbeddingInOrder
  <1>3. UNCHANGED <<raw, tar, export, import>>
    BY <1>1, <1>2, EmbedMoves DEF EmbedsOne, bundles
  <1>4. OneRuns'
    BY <1>1, <1>3, OthersRest
  <1>5. InOrder'
    <2>1. CommandStep(c)
      BY DEF Embed, CommandStep, ReindexStep
    <2>2. WritesEnd
      BY <1>2, <2>1, AloneWrites DEF InOrder
    <2> QED  BY <1>1, <1>2, <1>4, <2>2, InOrderStep DEF Next, Acts
  <1>6. pc'[c] \in Step
    BY <1>5 DEF InOrder, CopyInv, KnownInv, Shape, TypeOK
  <1>7. Unpacks(c)'
    <2>1. \A m \in Contents : Survives(tar, m)' <=> Survives(tar, m)
      BY <1>3 DEF Survives, Intact, Entries, Raws
    <2> QED  BY <1>1, <1>2, <1>3, <1>6, <2>1 DEF Unpacks, Step
  <1>8. HasInHand(c)'
    <2>1. HandHas(pc'[c], job'[c], docs', import[c].doc, import[c].prior, PathOf(import[c].doc))
      BY EmbedHand
    <2>2. PathOf(import[c].doc)' = PathOf(import[c].doc)
      BY <1>3 DEF PathOf
    <2> QED  BY <1>2, <1>3, <2>1, <2>2 DEF HasInHand
  <1> QED  BY <1>1, <1>2, <1>3, <1>5, <1>6, <1>7, <1>8, EmbeddingStep

\* A document that fails keeps the chunks of the row it replaces, except when
\* it fails past replacing them: then there was no row.
LEMMA FailsIdentity ==
  ASSUME RollsBack, TransferInv, TransferInv', IdentityInv, NEW c \in Procs, EmbedFails(c)
  PROVE  IdentityInv'
  <1> DEFINE j == [job[c] EXCEPT !.clean = FALSE]
             p == PathOf(import[c].doc)
  <1>1. /\ pc[c] \in {"text", "replace", "meta"} /\ import[c].on /\ GiveUp(c)
        /\ pc[c] = "meta" => "db" \in ImportFaults
        /\ UNCHANGED <<raw, cache, older, docs, tar, export, import>>
    BY DEF EmbedFails, disk, db, bundles
  <1>2. pc[c] \in Step
    BY <1>1 DEF Step
  <1>3. /\ InOrder /\ Shape /\ EmbedsOne(c) /\ Unpacks(c) /\ HasInHand(c)
        /\ import[c].policy \in Policies /\ p \in Paths
    BY <1>1, <1>2, EmbeddingInOrder
  <1>4. pc'[c] = "next" /\ job'[c] = j
    BY <1>1, <1>3, Moved DEF EmbedsOne, GiveUp
  <1>5. /\ j.cmd = "reindex" /\ j.todo = job[c].todo /\ j.clean = FALSE /\ j.path = job[c].path
        /\ j.sha = job[c].sha /\ j.raw = job[c].raw
    BY <1>3, Locals DEF Job, EmbedsOne
  <1>6. pc[c] = "meta" => import[c].prior.id = 0
    BY <1>1, <1>2, <1>3 DEF RollsBack, TransferInv, ImportsHold, ImportHolds
  <1>7. OneRuns' /\ \A o \in Procs \ {c} : pc'[o] = "idle" /\ job'[o] = NoJob
    BY <1>1, OthersRest
  <1> HIDE DEF j, p
  <1>8. j.todo = {} /\ HandHas("next", j, docs, import[c].doc, import[c].prior, p)
    <2>1. HandHas(pc[c], job[c], docs, import[c].doc, import[c].prior, p)
      BY <1>3 DEF HasInHand, p
    <2>2. job[c].todo = {}
      BY <1>1, <2>1 DEF HandHas
    <2>3. ~Replaced("next", j) /\ (Replaced(pc[c], job[c]) => pc[c] = "meta")
      BY <1>1, <1>5 DEF Replaced
    <2> QED  BY <1>5, <1>6, <2>1, <2>2, <2>3 DEF HandHas
  <1>9. InOrder'
    <2>1. Shape'
      <3>1. \A o \in Procs : pc'[o] \in Step
        BY <1>4, <1>7 DEF Step
      <3> QED  BY <3>1, ShapeNext
    <2>2. CopiesInOrder' /\ SourcesRecorded' /\ ArchivedBeforeIndexed'
      <3>1. \A o \in Procs : pc[o] # "caching"
        <4>1. \A o \in Procs \ {c} : pc[o] = "idle"
          BY <1>1 DEF TransferInv, ImportsAlone
        <4> QED  BY <1>1, <4>1
      <3> QED  BY <1>1, <1>3, <3>1, CopiesOf
               DEF CopiesInOrder, SourcesRecorded, ArchivedBeforeIndexed
    <2>3. CopiesKnown'
      <3>1. Known(j, raw) /\ Known(NoJob, raw)
        BY <1>3, <1>5, <1>8 DEF InOrder, CopyInv, KnownInv, CopiesKnown, Known, NoJob
      <3> QED  BY <1>1, <1>4, <1>7, <3>1 DEF CopiesKnown, Known
    <2>4. \A o \in Procs : /\ pc'[o] \in {"idle", "next"}
                           /\ pc'[o] = "idle" => job'[o] = NoJob
                           /\ job'[o].todo = {}
      <3>1. \A o \in Procs \ {c} : job'[o].todo = {}
        BY <1>7 DEF NoJob
      <3> QED  BY <1>4, <1>7, <1>8, <3>1
    <2>5. AtRest'
      BY <1>7, <2>1, <2>2, <2>3, <2>4 DEF AtRest
    <2> QED  BY <2>5, RestInOrderNext
  <1>10. Unpacks(c)'
    <2>1. \A m \in Contents : Survives(tar, m)' <=> Survives(tar, m)
      BY <1>1 DEF Survives, Intact, Entries, Raws
    <2> QED  BY <1>1, <1>2, <1>3, <1>4, <2>1 DEF Unpacks, Step
  <1>11. HasInHand(c)'
    <2>1. PathOf(import[c].doc)' = p
      BY <1>1 DEF PathOf, p
    <2> QED  BY <1>1, <1>3, <1>4, <1>8, <2>1 DEF HasInHand
  <1> QED  BY <1>1, <1>3, <1>4, <1>9, <1>10, <1>11, EmbeddingStep DEF Step

\* An import that is done with a document goes back to the archive's list.
LEMMA BackToOffer ==
  ASSUME TransferInv, TransferInv', IdentityInv, NEW c \in Procs, Embedding(c),
         import'[c].on, import'[c].policy = import[c].policy, import'[c].raws = import[c].raws,
         pc'[c] = "offer", UNCHANGED <<raw, cache, older, tar, export>>,
         SourcesRecorded', ArchivedBeforeIndexed', \A p \in Paths : Indexed(p)'
  PROVE  IdentityInv'
  <1>1. import[c].on /\ pc[c] = "next"
    BY DEF Embedding
  <1>2. InOrder /\ Unpacks(c) /\ import[c].policy \in Policies
    BY <1>1, EmbeddingInOrder DEF Step
  <1>3. \A o \in Procs : pc[o] # "caching"
    BY <1>1 DEF TransferInv, ImportsAlone
  <1>4. TablesInOrder'
    BY <1>2, <1>3, CopiesOf DEF TablesInOrder, CopiesInOrder
  <1>5. Unpacks(c)'
    <2>1. \A m \in Contents : Survives(tar, m)' <=> Survives(tar, m)
      BY DEF Survives, Intact, Entries, Raws
    <2> QED  BY <1>1, <1>2, <2>1 DEF Unpacks, Step
  <1> QED  BY <1>2, <1>4, <1>5, OwnStep DEF ImportSteps

LEMMA RollbackIdentity ==
  ASSUME TransferInv, TransferInv', IdentityInv, NEW c \in Procs, Rollback(c)
  PROVE  IdentityInv'
  <1> DEFINE p == job[c].path
             prior == import[c].prior
             r == IF prior.id = 0 THEN NoRow
                  ELSE [docs[p] EXCEPT !.sha = prior.sha, !.raw = prior.raw]
  <1>1. /\ Embedding(c) /\ ~job[c].clean /\ pc[c] = "next" /\ import[c].on /\ job[c].todo = {}
        /\ docs' = [docs EXCEPT ![p] = r]
        /\ import' = [import EXCEPT ![c].todo = @ \ {import[c].doc}, ![c].errs = TRUE]
        /\ Goto(c, "offer", NoJob)
        /\ UNCHANGED <<raw, cache, older, tar, export>>
    BY DEF Rollback, Embedding, disk
  <1>2. InOrder /\ Shape /\ HasInHand(c) /\ PathOf(import[c].doc) \in Paths
    BY <1>1, EmbeddingInOrder DEF Step
  <1>3. p \in Paths /\ docs \in [Paths -> Row] /\ p = PathOf(import[c].doc)
    BY <1>1, <1>2 DEF HasInHand, HandHas, Shape, TypeOK
  <1>4. prior.id # 0 => docs[p].text = prior.text
    <2>1. ~Replaced(pc[c], job[c])
      BY <1>1 DEF Replaced
    <2> QED  BY <1>2, <1>3, <2>1 DEF HasInHand, HandHas
  <1>5. r.sha # None => /\ prior.id # 0 /\ r.sha = prior.sha /\ r.raw = prior.raw
                        /\ r.text = docs[p].text
    BY <1>3 DEF Row, NoRow
  <1>6. r.raw # None => prior.id # 0 /\ r.raw = prior.raw
    BY <1>3 DEF Row, NoRow
  <1>7. docs'[p] = r /\ \A q \in Paths \ {p} : docs'[q] = docs[q]
    BY <1>1, <1>3
  <1>8. SourcesRecorded /\ ArchivedBeforeIndexed
    BY <1>2 DEF InOrder, CopyInv, KnownInv
  <1>9. /\ prior.sha # None => prior.raw = prior.sha /\ prior.text = Whole(prior.sha)
        /\ prior.raw # None => Present(raw[prior.raw])
        /\ \A q \in Paths \ {p} : Indexed(q)
    BY <1>2, <1>3 DEF HasInHand, HandHas, Indexed
  <1> HIDE DEF p, r, prior
  <1>10. SourcesRecorded' /\ ArchivedBeforeIndexed' /\ \A q \in Paths : Indexed(q)'
    <2>1. SourcesRecorded'
      BY <1>5, <1>7, <1>8, <1>9 DEF SourcesRecorded
    <2>2. ArchivedBeforeIndexed'
      BY <1>1, <1>6, <1>7, <1>8, <1>9 DEF ArchivedBeforeIndexed
    <2>3. \A q \in Paths : Indexed(q)'
      BY <1>4, <1>5, <1>7, <1>9 DEF Indexed
    <2> QED  BY <2>1, <2>2, <2>3
  <1>11. import'[c].on /\ import'[c].policy = import[c].policy /\ import'[c].raws = import[c].raws
    BY <1>1 DEF TransferInv, BundlesShape, ImportLocals
  <1>12. pc'[c] = "offer"
    BY <1>1, <1>2, Moved
  <1> QED  BY <1>1, <1>10, <1>11, <1>12, BackToOffer

LEMMA WriteMetadataIdentity ==
  ASSUME TransferInv, TransferInv', IdentityInv, NEW c \in Procs,
         WriteMetadata(c) \/ MetadataFails(c)
  PROVE  IdentityInv'
  <1> DEFINE p == PathOf(import[c].doc)
  <1>1. /\ Embedding(c) /\ job[c].clean /\ pc[c] = "next" /\ import[c].on /\ job[c].todo = {}
        /\ \/ import' = [import EXCEPT ![c].todo = @ \ {import[c].doc}]
           \/ import' = [import EXCEPT ![c].todo = @ \ {import[c].doc}, ![c].errs = TRUE]
        /\ Goto(c, "offer", NoJob)
        /\ UNCHANGED <<raw, cache, older, docs, tar, export>>
    BY DEF WriteMetadata, MetadataFails, Embedding, disk, db
  <1>2. InOrder /\ Shape /\ HasInHand(c) /\ p \in Paths
    BY <1>1, EmbeddingInOrder DEF Step
  <1>3. SourcesRecorded /\ ArchivedBeforeIndexed
    BY <1>2 DEF InOrder, CopyInv, KnownInv
  <1>4. docs[p].text = Whole(docs[p].raw) /\ \A q \in Paths \ {p} : Indexed(q)
    <2>1. Replaced(pc[c], job[c])
      BY <1>1 DEF Replaced
    <2> QED  BY <1>2, <2>1 DEF HasInHand, HandHas, Indexed
  <1>5. SourcesRecorded' /\ ArchivedBeforeIndexed' /\ \A q \in Paths : Indexed(q)'
    BY <1>1, <1>2, <1>3, <1>4 DEF SourcesRecorded, ArchivedBeforeIndexed, Indexed
  <1>6. import'[c].on /\ import'[c].policy = import[c].policy /\ import'[c].raws = import[c].raws
    BY <1>1 DEF TransferInv, BundlesShape, ImportLocals
  <1>7. pc'[c] = "offer"
    BY <1>1, <1>2, Moved
  <1> QED  BY <1>1, <1>5, <1>6, <1>7, BackToOffer

\* Tables in order, and no command running.
LEMMA AllAtRest ==
  ASSUME TransferInv', AllIdle', CopiesInOrder', SourcesRecorded', ArchivedBeforeIndexed'
  PROVE  InOrder'
  <1>1. \A o \in Procs : pc'[o] = "idle" /\ job'[o] = NoJob
    BY DEF AllIdle, TransferInv, CommandsShape, CommandReady, Step
  <1>2. Shape'
    BY <1>1, ShapeNext DEF Step
  <1>3. CopiesKnown'
    BY <1>1 DEF CopiesKnown, Known, NoJob
  <1>4. AtRest'
    <2>1. \A o \in Procs : job'[o].todo = {}
      BY <1>1 DEF NoJob
    <2> QED  BY <1>1, <1>2, <1>3, <2>1 DEF AtRest, OneRuns
  <1> QED  BY <1>4, RestInOrderNext

\* Without an interruption inside a document an import ends between two, or
\* between two files.
LEMMA EndIdentity ==
  ASSUME RollsBack, TransferInv, TransferInv', IdentityInv, NEW c \in Procs, import[c].on,
         FinishImport(c) \/ BreakOff(c) \/ Stop(c)
  PROVE  IdentityInv'
  <1>1. /\ pc[c] \in {"unpack", "templates", "copying", "offer"}
        /\ import' = [import EXCEPT ![c] = NoImport]
        /\ Goto(c, "idle", NoJob)
        /\ UNCHANGED <<raw, cache, older, docs, tar, export>>
    BY DEF FinishImport, BreakOff, Stop, EndImport, End, RollsBack, disk, db
  <1>2. TablesInOrder /\ \A n \in Contents : ~Filling(n)
    BY <1>1, OwnState DEF ImportSteps
  <1>3. TablesInOrder'
    BY <1>1, <1>2, SameInOrder
  <1>4. AllIdle'
    BY <1>1 DEF AllIdle, Goto, TransferInv, CommandsShape, ImportsAlone
  <1>5. ~Importing'
    BY <1>4 DEF TransferInv, ImportsAlone, AllIdle, Importing
  <1>6. InOrder'
    BY <1>3, <1>4, AllAtRest DEF TablesInOrder
  <1>7. Faithful(tar)'
    BY <1>1 DEF IdentityInv, Faithful
  <1> QED  BY <1>1, <1>3, <1>5, <1>6, <1>7, ImportOver DEF TablesInOrder

\* Between commands every recorded hash has its chunks.
LEMMA IdleIndexed ==
  ASSUME TransferInv, IdentityInv, AllIdle
  PROVE  InOrder /\ ~Importing /\ \A p \in Paths : Indexed(p)
  <1>1. ~Importing
    BY IdleNotImporting
  <1>2. \A p \in Paths : ~Recording(p)
    BY DEF AllIdle, Recording
  <1> QED  BY <1>1, <1>2 DEF IdentityInv, AllIdle, Step

LEMMA StartIdentity ==
  ASSUME TransferInv, TransferInv', IdentityInv, NEW c \in Procs, NEW policy \in Policies,
         StartImport(c, policy)
  PROVE  IdentityInv'
  <1> DEFINE i == [NoImport EXCEPT !.on = TRUE, !.policy = policy, !.todo = Offered(tar),
                                   !.raws = {n \in Contents : Survives(tar, n)},
                                   !.templates = {t \in Templates : Survives(tar, t)},
                                   !.firstId = nextId]
  <1>1. /\ AllIdle /\ import' = [import EXCEPT ![c] = i]
        /\ Goto(c, "unpack", NoJob)
        /\ UNCHANGED <<raw, cache, older, docs, tar, export>>
    BY DEF StartImport, disk, db
  <1>2. i.on /\ i.policy = policy /\ i.raws = {n \in Contents : Survives(tar, n)}
    BY DEF NoImport
  <1> HIDE DEF i
  <1>3. InOrder /\ \A p \in Paths : Indexed(p)
    BY <1>1, IdleIndexed
  <1>4. \A o \in Procs : pc[o] # "caching"
    BY <1>1 DEF AllIdle
  <1>5. TablesInOrder'
    <2>1. CopiesInOrder'
      BY <1>1, <1>3, <1>4, CopiesOf DEF CopiesInOrder
    <2> QED  BY <1>1, <1>3, <1>4, <2>1, CopiesOf
             DEF TablesInOrder, SourcesRecorded, ArchivedBeforeIndexed, Indexed
  <1>6. import'[c] = i /\ pc'[c] = "unpack"
    BY <1>1 DEF Goto, TransferInv, BundlesShape, CommandsShape
  <1>7. Unpacks(c)'
    <2>1. \A m \in Contents : Survives(tar, m)' <=> Survives(tar, m)
      BY <1>1 DEF Survives, Intact, Entries, Raws
    <2> QED  BY <1>1, <1>2, <1>6, <2>1 DEF Unpacks, Step
  <1> QED  BY <1>1, <1>2, <1>5, <1>6, <1>7, OwnStep DEF ImportSteps

LEMMA NewMachineIdentity ==
  ASSUME TransferInv, TransferInv', IdentityInv, NewMachine
  PROVE  IdentityInv'
  <1>1. PICK size \in 0 .. FileSize(tar) : tar' = [tar EXCEPT !.blocks = size]
    BY DEF NewMachine
  <1>2. /\ AllIdle /\ UNCHANGED <<pc, export, import>>
        /\ raw' = [n \in Contents |-> NoCopy] /\ cache' = [n \in Contents |-> NoCopy]
        /\ older' = [n \in Contents |-> NoCopy] /\ docs' = [p \in Paths |-> NoRow]
    BY DEF NewMachine
  <1>3. Faithful(tar)'
    BY <1>1 DEF TransferInv, BundlesShape, ArchiveShape, IdentityInv, Faithful
  <1>4. \A n \in Contents : /\ ~Present(raw'[n]) /\ ~Present(cache'[n]) /\ ~Present(older'[n])
    BY <1>2 DEF Present, NoCopy
  <1>5. \A p \in Paths : docs'[p].sha = None /\ docs'[p].raw = None
    BY <1>2 DEF NoRow
  <1>6. CopiesInOrder' /\ SourcesRecorded' /\ ArchivedBeforeIndexed' /\ \A p \in Paths : Indexed(p)'
    BY <1>4, <1>5 DEF CopiesInOrder, SourcesRecorded, ArchivedBeforeIndexed, Indexed
  <1>7. AllIdle'
    BY <1>2 DEF AllIdle
  <1>8. ~Importing'
    BY <1>2, IdleNotImporting DEF Importing
  <1> QED  BY <1>2, <1>3, <1>6, <1>7, <1>8, AllAtRest, ImportOver

\* Beside the commands nothing changes but the archives.
LEMMA InOrderStays ==
  ASSUME FilesHold, InOrder, UNCHANGED vars
  PROVE  InOrder'
  <1>1. CopyInv'
    BY StepCopyInv DEF InOrder
  <1>2. UNCHANGED <<docs, cache, older, pc, job>>
    BY DEF vars, disk, db
  <1>3. OneRuns' /\ TextWhole' /\ ListCurrent'
    BY <1>2 DEF InOrder, OneRuns, TextWhole, ListCurrent
  <1>4. CacheIsWhole' /\ StoredBeforeRecorded'
    BY <1>2 DEF InOrder, CacheIsWhole, StoredBeforeRecorded, Alive, Exists
  <1> QED  BY <1>1, <1>3, <1>4 DEF InOrder

LEMMA BesideIdentity ==
  ASSUME FilesHold, IdentityInv, UNCHANGED <<vars, import>>,
         Faithful(tar)', Faithful(export.tar)', tar' = tar \/ ~Importing
  PROVE  IdentityInv'
  <1>1. UNCHANGED <<docs, raw, cache, older, pc, job, import>>
    BY DEF vars, disk, db
  <1>2. (\A c \in Procs : pc'[c] \in Step) => InOrder'
    BY <1>1, InOrderStays DEF IdentityInv
  <1>3. ~Importing' => \A p \in Paths : Indexed(p)' \/ Recording(p)'
    BY <1>1 DEF IdentityInv, Importing, Indexed, Recording, Alive, Exists
  <1>4. ASSUME NEW c \in Procs, import[c].on
        PROVE  ImportInOrder(c)'
    <2>1. tar' = tar
      BY <1>4 DEF Importing
    <2>2. ImportInOrder(c)
      BY <1>4 DEF IdentityInv
    <2>3. Unpacks(c) => Unpacks(c)'
      <3>1. \A m \in Contents : Survives(tar, m)' <=> Survives(tar, m)
        BY <2>1 DEF Survives, Intact, Entries, Raws
      <3> QED  BY <1>1, <2>1, <3>1 DEF Unpacks
    <2>4. TablesInOrder => TablesInOrder'
      <3>1. \A n \in Contents : Filling(n)' <=> Filling(n)
        BY <1>1 DEF Filling
      <3>2. CopiesInOrder => CopiesInOrder'
        BY <1>1, <3>1 DEF CopiesInOrder
      <3> QED  BY <1>1, <3>2 DEF TablesInOrder, SourcesRecorded, ArchivedBeforeIndexed, Indexed
    <2>5. HasInHand(c) => HasInHand(c)'
      <3>1. PathOf(import[c].doc)' = PathOf(import[c].doc)
        BY <1>1, <2>1 DEF PathOf
      <3> QED  BY <1>1, <3>1 DEF HasInHand
    <2> QED  BY <1>1, <2>2, <2>3, <2>4, <2>5 DEF ImportInOrder
  <1> QED  BY <1>1, <1>2, <1>3, <1>4 DEF IdentityInv

LEMMA ExportIdentity ==
  ASSUME FilesHold, TransferInv, ExportInv, IdentityInv, Exports
  PROVE  IdentityInv'
  <1>1. /\ UNCHANGED <<vars, import>> /\ Faithful(tar) /\ Faithful(export.tar)
        /\ ArchiveShape(export.tar) /\ (export.on => ~tar.made /\ ~Importing)
    BY DEF Exports, StartExport, ReadPart, OpenPart, ReadFile, Publish, AbandonExport,
       IdentityInv, TransferInv, BundlesShape
  <1>2. CASE StartExport
    <2>1. tar' = tar /\ export'.tar = export.tar
      BY <1>2 DEF StartExport, TransferInv, BundlesShape, ExportTyped
    <2> QED  BY <1>1, <2>1, BesideIdentity DEF Faithful
  <1>3. CASE OpenPart
    <2>1. tar' = tar /\ export'.tar = export.tar
      BY <1>3, OpensPart
    <2> QED  BY <1>1, <2>1, BesideIdentity DEF Faithful
  <1>4. ASSUME NEW n \in export.left, ReadFile(n)
        PROVE  IdentityInv'
    <2>1. /\ tar' = tar /\ export.on
          /\ export'.tar.docs = IF export.part = 1 THEN docs ELSE export.tar.docs
          /\ \A m \in Contents : export'.tar.raw[m] \in {raw[m], export.tar.raw[m]}
      BY <1>4, ReadsFile
    <2>2. CopyInv
      BY <1>1, <2>1 DEF ExportInv
    <2>3. \A p \in Paths : docs[p].sha # None => docs[p].raw = docs[p].sha
      BY <2>2 DEF CopyInv, SourcesRecorded
    <2>4. ASSUME NEW m \in Contents, Present(raw[m]) PROVE raw[m] = Whole(m)
      <3>1. raw[m] \in Copy /\ raw[m].of = m /\ raw[m].whole
        BY <2>2, <2>4 DEF CopyInv, KnownInv, Shape, TypeOK, ArchiveIsWhole, ContentAddressed
      <3> QED  BY <3>1, WholeCopy
    <2>5. Faithful(export.tar)'
      BY <1>1, <2>1, <2>3, <2>4 DEF Faithful
    <2> QED  BY <1>1, <2>1, <2>5, BesideIdentity DEF Faithful
  <1>5. Faithful(NoTar)
    BY DEF Faithful, NoTar, NoRow, NoCopy, Present
  <1>6. CASE AbandonExport
    BY <1>1, <1>5, <1>6, BesideIdentity DEF AbandonExport, Faithful, NoExport
  <1>7. CASE Publish
    <2> DEFINE size == FileSize(export.tar)
    <2>1. tar' = [export.tar EXCEPT !.made = TRUE, !.blocks = size] /\ export' = NoExport /\ export.on
      BY <1>7 DEF Publish
    <2> HIDE DEF size
    <2>2. tar'.docs = export.tar.docs /\ tar'.raw = export.tar.raw
      BY <1>1, <2>1 DEF ArchiveShape
    <2> QED  BY <1>1, <1>5, <2>1, <2>2, BesideIdentity DEF Faithful, NoExport
  <1> QED  BY <1>2, <1>3, <1>4, <1>6, <1>7 DEF Exports, ReadPart

-----------------------------------------------------------------------------
(* What the other commands leave in order *)

LEMMA EditsIdentity ==
  ASSUME FilesHold, TransferInv, IdentityInv, UserEdits
  PROVE  IdentityInv'
  <1>1. /\ ~Importing /\ UNCHANGED <<bundles, docs, pc, job>> /\ User /\ AllIdle
    BY DEF UserEdits, User, Edit, CanEdit, FilesHold, db
  <1>2. UNCHANGED <<tar, export, import>> /\ ~Importing'
    BY <1>1 DEF bundles, Importing
  <1>3. InOrder /\ \A p \in Paths : Indexed(p) \/ Recording(p)
    BY <1>1 DEF IdentityInv, AllIdle, Step
  <1>4. InOrder'
    <2>1. WritesEnd /\ OneRuns'
      BY <1>1 DEF WritesEnd, OneRuns, AllIdle
    <2> QED  BY <1>1, <1>3, <2>1, InOrderStep DEF Next
  <1>5. \A p \in Paths : Indexed(p)' \/ Recording(p)'
    BY <1>1, <1>3 DEF Indexed, Recording, Alive, Exists
  <1> QED  BY <1>2, <1>4, <1>5 DEF IdentityInv, Faithful, Importing

\* A command that has stored the chunks of a hash goes on to record it.
LEMMA RecordsNext ==
  ASSUME Shape, StoredBeforeRecorded, NEW c \in Procs, CommandStep(c), NEW p \in Paths,
         pc[c] \in {"meta", "commit"}, job[c].cmd = "ingest", job[c].path = p, Alive(c)
  PROVE  Indexed(p)' \/ Recording(p)'
  <1>1. docs \in [Paths -> Row] /\ docs[p].text = Whole(job[c].sha)
    BY DEF Shape, TypeOK, StoredBeforeRecorded
  <1>2. WriteAutoMetadata(c) \/ CommitSHA(c)
    BY DEF CommandStep, IngestStep, CopySourceToRaw, AlreadyArchived, CopyToTemp,
       NoSourceToCopy, RenameToRaw, ReadOrExtract, CacheHit, Extract, NoSourceToExtract,
       CreateCache, FillCache, CheckDimension, CreateDoc, ReplaceForDocument,
       ReindexStep, Locate, Skip, SetRawPath, FinishReindex, DeleteRow, RemoveCache
  <1>3. CASE WriteAutoMetadata(c)
    <2>1. pc'[c] = "commit" /\ job'[c] = job[c] /\ docs' = docs
      BY <1>3, Moved DEF WriteAutoMetadata, db
    <2> QED  BY <2>1 DEF Recording, Alive, Exists
  <1>4. CASE CommitSHA(c)
    <2>1. docs' = [docs EXCEPT ![p].sha = job[c].sha, ![p].raw = job[c].raw]
      BY <1>4 DEF CommitSHA
    <2>2. docs'[p].sha = job[c].sha /\ docs'[p].text = docs[p].text
      BY <1>1, <2>1 DEF Row
    <2> QED  BY <1>1, <2>2 DEF Indexed
  <1> QED  BY <1>2, <1>3, <1>4

LEMMA RowsIndexed ==
  ASSUME FilesHold, InOrder, NEW c \in Procs, StartCommand(c) \/ CommandStep(c), NEW p \in Paths,
         Indexed(p) \/ Recording(p), Recording(p) => CommandStep(c)
  PROVE  Indexed(p)' \/ Recording(p)'
  <1>0. Shape /\ CopyInv /\ docs \in [Paths -> Row]
    BY DEF InOrder, CopyInv, KnownInv, Shape, TypeOK
  <1>1. CASE docs'[p] = docs[p] /\ Indexed(p)
    BY <1>1 DEF Indexed
  <1>2. CASE Recording(p)
    <2>1. PICK o \in Procs : /\ pc[o] \in {"meta", "commit"} /\ job[o].cmd = "ingest"
                             /\ job[o].path = p /\ Alive(o)
      BY <1>2 DEF Recording
    <2>2. CommandStep(c) /\ pc[c] # "idle"
      BY <1>2 DEF CommandStep, IngestStep, CopySourceToRaw, AlreadyArchived, CopyToTemp,
         NoSourceToCopy, RenameToRaw, ReadOrExtract, CacheHit, Extract, NoSourceToExtract,
         CreateCache, FillCache, CheckDimension, CreateDoc, ReplaceForDocument,
         WriteAutoMetadata, CommitSHA, ReindexStep, Locate, Skip, SetRawPath, FinishReindex,
         DeleteRow, RemoveCache
    <2>3. o = c
      BY <2>1, <2>2 DEF InOrder, OneRuns
    <2> QED  BY <1>0, <2>1, <2>2, <2>3, RecordsNext DEF InOrder
  <1>3. CASE docs'[p] = NoRow \/ Creates(c, p)
    <2>1. [NoRow EXCEPT !.id = nextId, !.raw = job[c].raw].sha = None /\ NoRow.sha = None
      BY DEF NoRow
    <2> QED  BY <1>3, <2>1 DEF Creates, Indexed
  <1>4. CASE Replaces(c, p)
    <2>1. /\ docs'[p].text = job[c].text /\ docs'[p].sha = docs[p].sha /\ docs'[p].id = docs[p].id
          /\ pc[c] = "replace" /\ job[c].path = p /\ Alive(c)
      BY <1>0, <1>4 DEF Replaces, Row
    <2>2. CASE job[c].cmd = "reindex"
      <3>1. docs[p].sha = job[c].sha
        BY <2>1, <2>2 DEF InOrder, ListCurrent
      <3>2. job[c].sha # None => job[c].text = Whole(job[c].sha)
        BY <1>0, <2>1, StoresWhole DEF InOrder
      <3> QED  BY <2>1, <3>1, <3>2 DEF Indexed
    <2>3. CASE job[c].cmd # "reindex"
      <3>1. job[c].cmd = "ingest"
        BY <1>0, <2>1, <2>3, Locals DEF Fits
      <3>2. pc'[c] = "meta" /\ job'[c] = job[c]
        <4>1. ReplaceForDocument(c)
          BY <2>1 DEF StartCommand, StartIngest, StartPreprocess, StartReindex, StartDelete,
             CommandStep, IngestStep, CopySourceToRaw, AlreadyArchived, CopyToTemp,
             NoSourceToCopy, RenameToRaw, ReadOrExtract, CacheHit, Extract, NoSourceToExtract,
             CreateCache, FillCache, CheckDimension, CreateDoc, WriteAutoMetadata, CommitSHA,
             ReindexStep, Locate, Skip, SetRawPath, FinishReindex, DeleteRow, RemoveCache
        <4> QED  BY <1>0, <2>1, <4>1, Moved DEF ReplaceForDocument
      <3>3. Alive(c)'
        BY <2>1, <3>2 DEF Alive, Exists
      <3> QED  BY <2>1, <3>1, <3>2, <3>3 DEF Recording
    <2> QED  BY <2>2, <2>3
  <1>5. CASE Commits(c, p)
    <2>1. job[c].cmd = "ingest" /\ docs[p].text = Whole(job[c].sha)
      BY <1>0, <1>5, Locals DEF Commits, Fits, InOrder, StoredBeforeRecorded
    <2>2. docs'[p].sha = job[c].sha /\ docs'[p].text = docs[p].text
      BY <1>0, <1>5 DEF Commits, Row
    <2> QED  BY <2>1, <2>2 DEF Indexed
  <1>6. ~Locates(c, p)
    BY <1>0 DEF Locates, CopyInv, JobsRight, Right
  <1> QED  BY <1>0, <1>1, <1>2, <1>3, <1>4, <1>5, <1>6, RowChanges DEF RowChange, Acts

LEMMA LocalIdentity ==
  ASSUME FilesHold, TransferInv, TransferInv', IdentityInv, NEW c \in Procs, LocalCommand(c)
  PROVE  IdentityInv'
  <1>1. /\ ~Importing /\ UNCHANGED <<tar, export, import>>
        /\ (AllIdle /\ StartCommand(c)) \/ CommandStep(c)
    BY DEF LocalCommand, bundles
  <1>2. Shape /\ \A o \in Procs : pc[o] \in Step
    BY <1>1, NotImporting, Locals
  <1>3. InOrder /\ \A p \in Paths : Indexed(p) \/ Recording(p)
    BY <1>1, <1>2 DEF IdentityInv
  <1>4. Acts(c) /\ Next /\ Alone(c)
    BY <1>1, <1>2, ActsAlone DEF Acts, Next
  <1>5. WritesEnd /\ \A o \in Procs \ {c} : pc[o] = "idle"
    <2>1. CASE CommandStep(c)
      <3>1. pc[c] # "idle"
        BY <2>1 DEF CommandStep, IngestStep, CopySourceToRaw, AlreadyArchived, CopyToTemp,
           NoSourceToCopy, RenameToRaw, ReadOrExtract, CacheHit, Extract, NoSourceToExtract,
           CreateCache, FillCache, CheckDimension, CreateDoc, ReplaceForDocument,
           WriteAutoMetadata, CommitSHA, ReindexStep, Locate, Skip, SetRawPath, FinishReindex,
           DeleteRow, RemoveCache
      <3> QED  BY <1>2, <1>3, <2>1, <3>1, AloneWrites DEF InOrder, OneRuns
    <2>2. CASE AllIdle
      BY <2>2 DEF AllIdle, WritesEnd
    <2> QED  BY <1>1, <2>1, <2>2
  <1>6. OneRuns'
    BY <1>4, <1>5 DEF Alone, OneRuns
  <1>7. InOrder'
    BY <1>3, <1>4, <1>5, <1>6, InOrderStep
  <1>8. \A p \in Paths : Indexed(p)' \/ Recording(p)'
    <2> SUFFICES ASSUME NEW p \in Paths PROVE Indexed(p)' \/ Recording(p)'
      OBVIOUS
    <2>1. Recording(p) => CommandStep(c)
      BY <1>1 DEF Recording, AllIdle
    <2> QED  BY <1>1, <1>3, <2>1, RowsIndexed
  <1> QED  BY <1>1, <1>7, <1>8 DEF IdentityInv, Faithful, Importing

-----------------------------------------------------------------------------
LEMMA InitIdentityInv == TransferInit => IdentityInv
  <1> SUFFICES ASSUME TransferInit PROVE IdentityInv
    OBVIOUS
  <1>1. Faithful(NoTar)
    BY DEF Faithful, NoTar, NoRow, NoCopy, Present
  <1>2. \A c \in Procs : pc[c] = "idle" /\ job[c] = NoJob /\ ~import[c].on
    BY DEF TransferInit, Init, NoImport
  <1>3. \A n \in Contents : /\ ~Present(raw[n]) /\ ~Present(cache[n]) /\ ~Present(older[n])
    BY DEF TransferInit, Init, Present, NoCopy
  <1>4. \A p \in Paths : docs[p].sha = None /\ docs[p].raw = None
    BY DEF TransferInit, Init, NoRow
  <1>5. InOrder
    <2>1. CopiesInOrder /\ SourcesRecorded /\ ArchivedBeforeIndexed
      BY <1>3, <1>4 DEF CopiesInOrder, SourcesRecorded, ArchivedBeforeIndexed
    <2>2. CopiesKnown /\ OneRuns /\ Shape
      BY <1>2, InitShape DEF CopiesKnown, Known, NoJob, OneRuns, TransferInit
    <2>3. \A c \in Procs : job[c].todo = {}
      BY <1>2 DEF NoJob
    <2>4. AtRest
      BY <1>2, <2>1, <2>2, <2>3 DEF AtRest
    <2> QED  BY <2>4, RestInOrder
  <1> QED  BY <1>1, <1>2, <1>4, <1>5 DEF IdentityInv, Indexed, TransferInit, NoExport

LEMMA StepIdentityInv ==
  ASSUME RollsBack, TransferInv, TransferInv', ExportInv, IdentityInv, [TransferNext]_allVars
  PROVE  IdentityInv'
  <1>0. FilesHold
    BY DEF RollsBack
  <1>1. CASE UNCHANGED allVars
    BY <1>0, <1>1, BesideIdentity DEF allVars, bundles, IdentityInv, Faithful
  <1>2. CASE \E p \in Paths : SetMetadata(p)
    BY <1>0, <1>2, BesideIdentity DEF SetMetadata, IdentityInv, Faithful
  <1>3. ASSUME NEW c \in Procs, ImportStep(c)
        PROVE  IdentityInv'
    <2>1. import[c].on
      BY <1>3, ImportStepOn
    <2>2. CASE \E d \in import[c].todo : TakeDocument(c, d)
      BY <2>1, <2>2, TakeIdentity
    <2>3. CASE FinishImport(c) \/ Adopt(c) \/ CreateRaw(c) \/ FillRaw(c)
      BY <2>1, <2>3, EndIdentity, AdoptIdentity, CreateRawIdentity, FillRawIdentity
    <2>4. CASE Embed(c) \/ Rollback(c) \/ WriteMetadata(c)
      BY <1>0, <2>4, EmbedIdentity, RollbackIdentity, WriteMetadataIdentity
    <2> QED  BY <1>3, <2>1, <2>2, <2>3, <2>4, TemplatesIdentity DEF ImportStep
  <1>4. ASSUME NEW c \in Procs, Breaks(c)
        PROVE  IdentityInv'
    BY <1>4, FailsIdentity, EndIdentity, WriteMetadataIdentity, TemplatesIdentity, ImportStepOn
       DEF Breaks
  <1>5. ASSUME NEW c \in Procs, LocalCommand(c) \/ \E policy \in Policies : StartImport(c, policy)
        PROVE  IdentityInv'
    BY <1>0, <1>5, LocalIdentity, StartIdentity
  <1>6. CASE UserEdits \/ NewMachine
    BY <1>0, <1>6, EditsIdentity, NewMachineIdentity
  <1>7. CASE Exports
    BY <1>0, <1>7, ExportIdentity
  <1> QED  BY <1>1, <1>2, <1>3, <1>4, <1>5, <1>6, <1>7 DEF TransferNext, Exports, Breaks

\* Every row, copy and document in hand is in order, whatever documents fail.
THEOREM IdentityInvariance == RollsBack => (TransferSpec => []IdentityInv)
  <1> SUFFICES ASSUME RollsBack PROVE TransferSpec => []IdentityInv
    OBVIOUS
  <1>1. TransferInit => TransferInv /\ ExportInv /\ IdentityInv
    BY InitTransferInv, InitExportInv, InitIdentityInv DEF RollsBack
  <1>2. TransferInv /\ ExportInv /\ IdentityInv /\ [TransferNext]_allVars
            => (TransferInv /\ ExportInv /\ IdentityInv)'
    BY StepTransferInv, StepExportInv, StepIdentityInv DEF RollsBack
  <1> QED  BY <1>1, <1>2, PTL DEF TransferSpec

\* Between commands a recorded hash stands beside the chunks of that content,
\* whichever documents of an import failed: the row a failed document created
\* is gone, and the one it adopted has its old identity beside its old chunks
\* (import.go:568-571, 666-672).  The rollback needs a context that nobody
\* cancels, and chunks that are still the old ones.
THEOREM IdentityIsIndexedAlways == RollsBack => (TransferSpec => []IdentityIsIndexed)
  <1> SUFFICES ASSUME RollsBack PROVE TransferSpec => []IdentityIsIndexed
    OBVIOUS
  <1>1. TransferInv /\ IdentityInv => IdentityIsIndexed
    BY IdleIndexed DEF IdentityIsIndexed, Indexed
  <1> QED  BY <1>1, TransferInvariance, IdentityInvariance, PTL

-----------------------------------------------------------------------------
(* What a clean import has brought *)

\* An archive is a file: it lists finitely many copies and templates.
ArchivesFinite == IsFiniteSet(Contents) /\ IsFiniteSet(Templates)

\* No two rows have the same id.
DistinctIds(rows) == \A p, q \in Paths : rows[p].id = rows[q].id /\ rows[p].id # 0 => p = q

HasChunks(p) == Exists(p) => Present(docs[p].text)

\* A command that has created its row goes on to store the chunks.
Storing(p) ==
    \E c \in Procs : /\ pc[c] = "replace" /\ job[c].cmd = "ingest"
                     /\ job[c].path = p /\ Alive(c)

\* Nothing of the archive went missing on the way.
Arrived(t) == \A n \in Contents : Present(t.raw[n]) => Survives(t, n)

\* What an import owes the document d once it is done with it.
Delivered(c, d) ==
    d.raw # None /\ Present(tar.raw[d.raw])
        => Brought(d, PathOf(d), import[c].policy, import[c].firstId)

\* The documents an import is done with are here, unless it has met an error;
\* those to come are as they were; every row but the one it is embedding has
\* its chunks, and so has the row a failure would put back.
Brings(c) ==
    /\ Arrived(tar)
    /\ pc[c] \in Step \cup {"adopt"} => import[c].doc \in import[c].todo
    /\ pc[c] \in Step /\ import[c].prior.id # 0 => Present(import[c].prior.text)
    /\ \A p \in Paths : HasChunks(p) \/ (pc[c] \in Step /\ p = PathOf(import[c].doc))
    /\ \A d \in import[c].todo :
           \/ docs[PathOf(d)].id < import[c].firstId
           \/ pc[c] \in Step /\ d = import[c].doc
    /\ ~import[c].errs => \A d \in Offered(tar) \ import[c].todo : Delivered(c, d)

DeliveryInv ==
    /\ tar.blocks \in Nat
    /\ DistinctIds(docs) /\ DistinctIds(tar.docs) /\ DistinctIds(export.tar.docs)
    /\ ~Importing => \A p \in Paths : HasChunks(p) \/ Storing(p)
    /\ \A c \in Procs : import[c].on => Brings(c)

\* The archive lists a finite set entry by entry.
LEMMA SetListed ==
  ASSUME NEW S, IsFiniteSet(S)
  PROVE  /\ Cardinality(S) \in Nat
         /\ Ext!SetToSeq(S) \in [1 .. Cardinality(S) -> S]
         /\ \A x \in S : \E i \in 1 .. Cardinality(S) : Ext!SetToSeq(S)[i] = x
  <1> DEFINE n == Cardinality(S)
             s == Ext!SetToSeq(S)
  <1>1. n \in Nat /\ ExistsBijection(1 .. n, S)
    BY FS_CardinalityType
  <1>2. PICK f \in Bijection(1 .. n, S) : TRUE
    BY <1>1 DEF ExistsBijection
  <1>3. f \in [1 .. n -> S] /\ Ext!IsInjective(f)
    BY <1>2 DEF Bijection, Injection, IsInjective, Ext!IsInjective
  <1>4. s \in [1 .. n -> S] /\ Ext!IsInjective(s)
    <2>1. \E g \in [1 .. n -> S] : Ext!IsInjective(g)
      BY <1>3
    <2>2. Ext!Cardinality(S) = n
      BY DEF Ext!Cardinality, Cardinality
    <2>3. s = CHOOSE g \in [1 .. n -> S] : Ext!IsInjective(g)
      BY <2>2 DEF Ext!SetToSeq
    <2> HIDE DEF s, n
    <2> QED  BY <2>1, <2>3
  <1>5. s \in Injection(1 .. n, S)
    BY <1>4 DEF Injection, IsInjective, Ext!IsInjective
  <1> HIDE DEF s
  <1>6. IsFiniteSet(1 .. n) /\ Cardinality(1 .. n) = n
    BY <1>1, FS_Interval
  <1>7. s \in Surjection(1 .. n, S)
    BY <1>1, <1>5, <1>6, FS_Injection
  <1> QED  BY <1>1, <1>4, <1>7 DEF Surjection, s

LEMMA MiddleOf ==
  ASSUME NEW U, NEW r \in Seq(U), NEW s \in Seq(U), NEW t \in Seq(U)
  PROVE  /\ Len(r \o s \o t) = Len(r) + Len(s) + Len(t)
         /\ \A i \in 1 .. Len(s) : (r \o s \o t)[Len(r) + i] = s[i]
  <1>1. /\ r \o s \in Seq(U) /\ Len(r \o s) = Len(r) + Len(s)
        /\ \A i \in 1 .. Len(s) : (r \o s)[Len(r) + i] = s[i]
    OBVIOUS
  <1>2. ASSUME NEW front \in Seq(U)
        PROVE  /\ Len(front \o t) = Len(front) + Len(t)
               /\ \A i \in 1 .. Len(front) : (front \o t)[i] = front[i]
    OBVIOUS
  <1>3. \A i \in 1 .. Len(s) : Len(r) + i \in 1 .. Len(r) + Len(s)
    OBVIOUS
  <1> QED  BY <1>1, <1>2, <1>3

LEMMA EntriesListed ==
  ASSUME ArchivesFinite, NEW t
  PROVE  /\ Len(Entries(t)) \in Nat
         /\ \A n \in Raws(t) : \E i \in 1 .. Len(Entries(t)) : Entries(t)[i] = n
  <1> DEFINE T == {n \in Templates : Present(t.template[n])}
             A == Ext!SetToSeq(Raws(t))
             B == Ext!SetToSeq(T)
             a == Cardinality(Raws(t))
             b == Cardinality(T)
             head == <<"config", "db">>
             U == {"config", "db"} \cup Raws(t) \cup T
  <1>1. IsFiniteSet(Raws(t)) /\ IsFiniteSet(T)
    BY FS_Subset DEF ArchivesFinite, Raws
  <1>2. a \in Nat /\ A \in [1 .. a -> Raws(t)] /\ b \in Nat /\ B \in [1 .. b -> T]
    BY <1>1, SetListed
  <1>3. \A n \in Raws(t) : \E i \in 1 .. a : A[i] = n
    BY <1>1, SetListed
  <1>4. Entries(t) = head \o A \o B
    BY DEF Entries
  <1> HIDE DEF A, B, a, b, T
  <1>5. A \in Seq(U) /\ B \in Seq(U) /\ Len(A) = a /\ Len(B) = b
    BY <1>2
  <1>6. head \in Seq(U) /\ Len(head) = 2
    OBVIOUS
  <1> HIDE DEF head, U
  <1>7. /\ Len(head \o A \o B) = Len(head) + Len(A) + Len(B)
        /\ \A i \in 1 .. Len(A) : (head \o A \o B)[Len(head) + i] = A[i]
    <2>1. \A r, x, y \in Seq(U) :
            /\ Len(r \o x \o y) = Len(r) + Len(x) + Len(y)
            /\ \A i \in 1 .. Len(x) : (r \o x \o y)[Len(r) + i] = x[i]
      BY MiddleOf
    <2>2. head \in Seq(U) /\ A \in Seq(U) /\ B \in Seq(U)
      BY <1>5, <1>6
    <2> QED  BY <2>1, <2>2, Zenon
  <1>8. /\ Len(Entries(t)) = 2 + a + b
        /\ \A i \in 1 .. a : Entries(t)[2 + i] = A[i]
    BY <1>2, <1>4, <1>5, <1>6, <1>7
  <1>9. \A n \in Raws(t) : \E i \in 1 .. Len(Entries(t)) : Entries(t)[i] = n
    <2> SUFFICES ASSUME NEW n \in Raws(t)
                 PROVE  \E i \in 1 .. Len(Entries(t)) : Entries(t)[i] = n
      OBVIOUS
    <2>1. PICK i \in 1 .. a : A[i] = n
      BY <1>3
    <2>2. 2 + i \in 1 .. Len(Entries(t)) /\ Entries(t)[2 + i] = n
      BY <1>2, <1>8, <2>1
    <2> QED  BY <2>2
  <1> QED  BY <1>2, <1>8, <1>9

\* An archive that passes the check of its end holds all it lists.
LEMMA CheckedArrives ==
  ASSUME ArchivesFinite, NEW t, t.blocks \in Nat, CheckComplete(t)
  PROVE  Arrived(t)
  <1>1. Intact(t) = Len(Entries(t))
    BY EntriesListed DEF CheckComplete, Intact
  <1> SUFFICES ASSUME NEW n \in Contents, Present(t.raw[n]) PROVE Survives(t, n)
    BY DEF Arrived
  <1>2. n \in Raws(t)
    BY DEF Raws
  <1> QED  BY <1>1, <1>2, EntriesListed DEF Survives

\* Each document of the archive has a path of its own.
LEMMA OfferedPaths ==
  ASSUME TransferInv, DistinctIds(tar.docs), NEW d \in Offered(tar), NEW e \in Offered(tar),
         PathOf(d) = PathOf(e)
  PROVE  d = e
  <1>1. ASSUME NEW x \in Offered(tar)
        PROVE  \E q \in Paths : /\ x = [tar.docs[q] EXCEPT !.raw = ArchivedName(tar.docs[q])]
                                /\ q = PathOf(x)
    <2>1. PICK q \in Paths : /\ tar.docs[q].id # 0
                             /\ x = [tar.docs[q] EXCEPT !.raw = ArchivedName(tar.docs[q])]
      BY DEF Offered
    <2>2. tar.docs[q] \in Row
      BY DEF TransferInv, BundlesShape, ArchiveShape
    <2>3. x.id = tar.docs[q].id
      BY <2>1, <2>2 DEF Row
    <2>4. PathOf(x) \in Paths /\ tar.docs[PathOf(x)].id = x.id
      BY <2>3 DEF PathOf
    <2>5. PathOf(x) = q
      BY <2>1, <2>3, <2>4 DEF DistinctIds
    <2> QED  BY <2>1, <2>5
  <1> QED  BY <1>1

\* An import keeps to the archive and the policy it started with.
Resumes(c) ==
    /\ import'[c].policy = import[c].policy /\ import'[c].firstId = import[c].firstId
    /\ import[c].errs => import'[c].errs
    /\ noted \subseteq noted' /\ tar' = tar

LEMMA SameArchive ==
  ASSUME tar' = tar
  PROVE  /\ Offered(tar)' = Offered(tar) /\ Arrived(tar)' = Arrived(tar)
         /\ DistinctIds(tar.docs)' = DistinctIds(tar.docs)
         /\ \A d : PathOf(d)' = PathOf(d)
  <1>1. Offered(tar)' = Offered(tar)
    BY DEF Offered, ArchivedName
  <1>2. Arrived(tar)' = Arrived(tar)
    BY DEF Arrived, Survives, Intact, Entries, Raws
  <1>3. DistinctIds(tar.docs)' = DistinctIds(tar.docs)
    BY DEF DistinctIds
  <1> QED  BY <1>1, <1>2, <1>3 DEF PathOf

LEMMA StaysDelivered ==
  ASSUME NEW c \in Procs, Resumes(c), NEW d, Delivered(c, d), docs'[PathOf(d)] = docs[PathOf(d)]
  PROVE  Delivered(c, d)'
  <1>1. PathOf(d)' = PathOf(d)
    BY SameArchive DEF Resumes
  <1> QED  BY <1>1 DEF Resumes, Delivered, Brought, Exists

\* A step that touches no row, and is done with no document.
LEMMA BringsStill ==
  ASSUME NEW c \in Procs, Brings(c), Resumes(c), docs' = docs,
         import'[c].todo = import[c].todo,
         pc'[c] \in Step \cup {"adopt"} => import'[c].doc \in import[c].todo,
         pc[c] \in Step <=> pc'[c] \in Step,
         pc[c] \in Step => /\ import'[c].doc = import[c].doc
                           /\ import'[c].prior = import[c].prior
  PROVE  Brings(c)'
  <1>1. /\ Offered(tar)' = Offered(tar) /\ Arrived(tar)' /\ \A d : PathOf(d)' = PathOf(d)
    BY SameArchive DEF Resumes, Brings
  <1>2. \A p \in Paths : HasChunks(p)' = HasChunks(p)
    BY DEF HasChunks, Exists
  <1>3. \A p \in Paths : HasChunks(p)' \/ (pc'[c] \in Step /\ p = PathOf(import[c].doc)')
    <2>1. pc[c] \in Step => PathOf(import[c].doc)' = PathOf(import[c].doc)
      BY DEF PathOf, Resumes
    <2> QED  BY <1>2, <2>1 DEF Brings
  <1>4. \A d \in import'[c].todo :
           \/ docs'[PathOf(d)'].id < import'[c].firstId
           \/ pc'[c] \in Step /\ d = import'[c].doc
    BY <1>1 DEF Brings, Resumes
  <1>5. ~import'[c].errs => \A d \in Offered(tar)' \ import'[c].todo : Delivered(c, d)'
    BY <1>1, StaysDelivered DEF Brings, Resumes
  <1> QED  BY <1>1, <1>3, <1>4, <1>5 DEF Brings

\* A step that works on one document of the archive, or is done with it.
LEMMA BringsOn ==
  ASSUME TransferInv, DistinctIds(tar.docs), NEW c \in Procs, import[c].on, Brings(c), Resumes(c),
         NEW d \in import[c].todo, pc[c] \in Step => d = import[c].doc,
         \A q \in Paths \ {PathOf(d)} : docs'[q] = docs[q],
         \/ /\ pc'[c] \in Step /\ import'[c].doc = d /\ import'[c].todo = import[c].todo
            /\ import'[c].prior.id # 0 => Present(import'[c].prior.text)
         \/ /\ pc'[c] = "offer" /\ import'[c].todo = import[c].todo \ {d}
            /\ docs'[PathOf(d)].id # 0 => Present(docs'[PathOf(d)].text)
            /\ ~import'[c].errs => Delivered(c, d)'
  PROVE  Brings(c)'
  <1> DEFINE p == PathOf(d)
  <1>1. /\ Offered(tar)' = Offered(tar) /\ Arrived(tar)' /\ \A e : PathOf(e)' = PathOf(e)
    BY SameArchive DEF Resumes, Brings
  <1>2. import[c].todo \subseteq Offered(tar)
    BY DEF TransferInv, ImportsHold, ImportHolds
  <1>3. \A e \in Offered(tar) : e # d => PathOf(e) \in Paths \ {p}
    BY <1>2, OfferedPaths, OfferedRows
  <1>4. \A e \in Offered(tar) : e # d => docs'[PathOf(e)] = docs[PathOf(e)]
    BY <1>3
  <1>5. "offer" \notin Step
    BY DEF Step
  <1>6. \A q \in Paths \ {p} : docs'[q].id # 0 => Present(docs'[q].text)
    BY DEF Brings, HasChunks, Exists
  <1>7. pc'[c] \in Step \/ (docs'[p].id # 0 => Present(docs'[p].text))
    BY <1>5
  <1>8. \A q \in Paths : HasChunks(q)' \/ (pc'[c] \in Step /\ q = PathOf(import[c].doc)')
    <2>1. pc'[c] \in Step => PathOf(import[c].doc)' = p
      BY <1>5 DEF PathOf, Resumes
    <2> HIDE DEF p
    <2> QED  BY <1>6, <1>7, <2>1 DEF HasChunks, Exists
  <1>9. \A e \in import'[c].todo :
           \/ docs'[PathOf(e)'].id < import'[c].firstId
           \/ pc'[c] \in Step /\ e = import'[c].doc
    <2>1. \A e \in import[c].todo : e = d \/ docs[PathOf(e)].id < import[c].firstId
      BY DEF Brings
    <2> QED  BY <1>1, <1>2, <1>4, <1>5, <2>1 DEF Resumes
  <1>10. ~import'[c].errs => \A e \in Offered(tar)' \ import'[c].todo : Delivered(c, e)'
    <2>1. ~import'[c].errs => \A e \in Offered(tar) \ import[c].todo : Delivered(c, e)'
      BY <1>4, StaysDelivered DEF Brings, Resumes
    <2> QED  BY <1>1, <1>5, <2>1
  <1>11. pc'[c] \in Step \cup {"adopt"} => import'[c].doc \in import'[c].todo
    BY <1>5
  <1> QED  BY <1>1, <1>5, <1>8, <1>9, <1>10, <1>11 DEF Brings

-----------------------------------------------------------------------------
(* What each step of an import brings *)

\* A step of an import that leaves the archives as they were.
LEMMA ImportDelivers ==
  ASSUME TransferInv', DeliveryInv, NEW c \in Procs, import'[c].on, Resumes(c), export' = export,
         DistinctIds(docs)', Brings(c)'
  PROVE  DeliveryInv'
  <1>1. tar'.blocks \in Nat /\ DistinctIds(tar.docs)' /\ DistinctIds(export.tar.docs)'
    BY DEF DeliveryInv, DistinctIds, Resumes
  <1>2. Importing' /\ \A o \in Procs \ {c} : ~import'[o].on
    BY DEF Importing, TransferInv, ImportsAlone
  <1> QED  BY <1>1, <1>2 DEF DeliveryInv

\* The steps of an import before it takes up a document.
LEMMA OwnStepDelivers ==
  ASSUME TransferInv, TransferInv', DeliveryInv, NEW c \in Procs, import[c].on,
         pc[c] \in ImportSteps \ {"adopt"}, pc'[c] \in ImportSteps,
         UNCHANGED <<docs, noted, tar, export>>,
         import'[c].on, import'[c].policy = import[c].policy,
         import'[c].firstId = import[c].firstId, import'[c].todo = import[c].todo,
         import[c].errs => import'[c].errs,
         pc'[c] = "adopt" => import'[c].doc \in import[c].todo
  PROVE  DeliveryInv'
  <1>1. pc[c] \notin Step /\ pc'[c] \notin Step
    BY DEF ImportSteps, Step
  <1>2. Brings(c) /\ Resumes(c)
    BY DEF DeliveryInv, Resumes
  <1>3. Brings(c)'
    BY <1>1, <1>2, BringsStill
  <1>4. DistinctIds(docs)'
    BY DEF DeliveryInv, DistinctIds
  <1> QED  BY <1>2, <1>3, <1>4, ImportDelivers

LEMMA UnpackDelivers ==
  ASSUME TransferInv, TransferInv', DeliveryInv, NEW c \in Procs, import[c].on,
         \/ SkipPresent(c) \/ CreateRaw(c) \/ FillRaw(c) \/ Unpacked(c)
         \/ KeepTemplate(c) \/ RemoveTemplate(c) \/ CopyTemplate(c) \/ TemplatesDone(c)
         \/ \E d \in import[c].todo : TakeDocument(c, d)
  PROVE  DeliveryInv'
  <1> DEFINE i == import[c]
  <1>1. i \in ImportLocals
    BY ImportTyped
  <1>2. UNCHANGED <<docs, noted, tar, export>>
    BY DEF SkipPresent, CreateRaw, FillRaw, Unpacked, KeepTemplate, RemoveTemplate,
       CopyTemplate, TemplatesDone, TakeDocument, vars, db, bundles
  <1>3. /\ pc[c] \in ImportSteps \ {"adopt"} /\ pc'[c] \in ImportSteps
        /\ pc'[c] = "adopt" => \E d \in i.todo : TakeDocument(c, d)
    BY DEF SkipPresent, CreateRaw, FillRaw, Unpacked, KeepTemplate, RemoveTemplate,
       CopyTemplate, TemplatesDone, TakeDocument, vars, Goto, ImportSteps,
       TransferInv, CommandsShape
  <1>4. /\ import'[c].on /\ import'[c].policy = i.policy /\ import'[c].firstId = i.firstId
        /\ import'[c].todo = i.todo /\ (i.errs => import'[c].errs)
    <2>1. CASE SkipPresent(c) \/ CreateRaw(c) \/ FillRaw(c) \/ Unpacked(c)
      BY <1>1, <2>1 DEF SkipPresent, CreateRaw, FillRaw, Unpacked, bundles,
         TransferInv, BundlesShape, ImportLocals
    <2>2. CASE KeepTemplate(c) \/ TemplatesDone(c)
      BY <1>1, <2>2 DEF KeepTemplate, TemplatesDone, bundles,
         TransferInv, BundlesShape, ImportLocals
    <2>5. CASE RemoveTemplate(c)
      <3>1. PICK t \in i.templates :
              import' = [import EXCEPT ![c].templates = @ \ {t}, ![c].taken = {t}]
        BY <2>5 DEF RemoveTemplate
      <3> QED  BY <1>1, <3>1 DEF TransferInv, BundlesShape, ImportLocals
    <2>3. CASE CopyTemplate(c)
      <3>1. PICK whole \in BOOLEAN :
              import' = [import EXCEPT ![c].taken = {}, ![c].errs = @ \/ ~whole]
        BY <2>3 DEF CopyTemplate
      <3>2. import'[c].errs = (i.errs \/ ~whole)
        BY <1>1, <3>1, Zenon DEF TransferInv, BundlesShape, ImportLocals
      <3> QED  BY <1>1, <3>1, <3>2 DEF TransferInv, BundlesShape, ImportLocals
    <2>4. ASSUME NEW d \in i.todo, TakeDocument(c, d)
          PROVE  /\ import'[c].on /\ import'[c].policy = i.policy
                 /\ import'[c].firstId = i.firstId /\ import'[c].todo = i.todo
                 /\ i.errs => import'[c].errs
      <3>1. import' = [import EXCEPT ![c].doc = d, ![c].prior = docs[PathOf(d)]]
        BY <2>4 DEF TakeDocument
      <3> QED  BY <1>1, <3>1 DEF TransferInv, BundlesShape, ImportLocals
    <2> QED  BY <2>1, <2>2, <2>3, <2>4, <2>5
  <1>5. ASSUME NEW d \in i.todo, TakeDocument(c, d)
        PROVE  import'[c].doc \in i.todo
    BY <1>1, <1>5 DEF TakeDocument, TransferInv, BundlesShape, ImportLocals
  <1> QED  BY <1>2, <1>3, <1>4, <1>5, OwnStepDelivers

\* A document that is passed over is here already, or the archive has no copy.
LEMMA SkipDelivers ==
  ASSUME TransferInv, TransferInv', DeliveryInv, NEW c \in Procs, import[c].on,
         NEW d \in import[c].todo, SkipDocument(c, d)
  PROVE  DeliveryInv'
  <1> DEFINE p == PathOf(d)
  <1>1. /\ pc[c] = "offer" /\ import' = [import EXCEPT ![c].todo = @ \ {d}]
        /\ \/ d.raw = None \/ ~Survives(tar, d.raw)
           \/ Exists(p) /\ import[c].policy = "skip"
        /\ UNCHANGED <<docs, noted, tar, export, pc>>
    BY DEF SkipDocument, vars, db
  <1>2. /\ import'[c].on /\ import'[c].policy = import[c].policy
        /\ import'[c].firstId = import[c].firstId /\ import'[c].errs = import[c].errs
        /\ import'[c].todo = import[c].todo \ {d}
    BY <1>1 DEF TransferInv, BundlesShape, ImportLocals
  <1>3. Brings(c) /\ Resumes(c) /\ DistinctIds(tar.docs) /\ DistinctIds(docs)'
    BY <1>1, <1>2 DEF DeliveryInv, Resumes, DistinctIds
  <1>4. d \in Offered(tar) /\ d \in Row /\ p \in Paths
    BY OfferedRows DEF TransferInv, ImportsHold, ImportHolds
  <1>5. HasChunks(p) /\ docs[p].id < import[c].firstId
    BY <1>1, <1>3, <1>4 DEF Brings, Step
  <1>6. Delivered(c, d)
    <2>1. d.raw # None /\ Present(tar.raw[d.raw]) => Survives(tar, d.raw)
      BY <1>3, <1>4 DEF Brings, Arrived, Row, Name
    <2>2. docs[p].id \in Nat /\ import[c].firstId \in Nat
      BY <1>4, ImportTyped DEF ImportLocals, TransferInv, TablesShape, Row
    <2>3. ~(docs[p].id >= import[c].firstId)
      BY <1>5, <2>2
    <2> QED  BY <1>1, <1>5, <2>1, <2>3 DEF Delivered, Brought, HasChunks
  <1>7. Delivered(c, d)'
    BY <1>1, <1>3, <1>6, StaysDelivered
  <1>8. docs'[p].id # 0 => Present(docs'[p].text)
    BY <1>1, <1>5 DEF HasChunks, Exists
  <1> HIDE DEF p
  <1>9. Brings(c)'
    BY <1>1, <1>2, <1>3, <1>7, <1>8, BringsOn DEF Step, p
  <1> QED  BY <1>1, <1>2, <1>3, <1>9, ImportDelivers

\* A document that is given up on leaves what was there, and an error.
LEMMA GivenUp ==
  ASSUME TransferInv, TransferInv', DeliveryInv, NEW c \in Procs, import[c].on,
         NEW d \in import[c].todo, HasChunks(PathOf(d)),
         pc[c] \in Step => d = import[c].doc, pc[c] # "adopt", pc'[c] = "offer",
         import' = [import EXCEPT ![c].todo = @ \ {d}, ![c].errs = TRUE],
         UNCHANGED <<docs, noted, tar, export>>
  PROVE  DeliveryInv'
  <1> DEFINE p == PathOf(d)
  <1>1. /\ import'[c].on /\ import'[c].policy = import[c].policy
        /\ import'[c].firstId = import[c].firstId /\ import'[c].errs
        /\ import'[c].todo = import[c].todo \ {d}
    BY DEF TransferInv, BundlesShape, ImportLocals
  <1>2. Brings(c) /\ Resumes(c) /\ DistinctIds(tar.docs) /\ DistinctIds(docs)'
    BY <1>1 DEF DeliveryInv, Resumes, DistinctIds
  <1>3. docs'[p].id # 0 => Present(docs'[p].text)
    BY DEF HasChunks, Exists
  <1> HIDE DEF p
  <1>4. Brings(c)'
    BY <1>1, <1>2, <1>3, BringsOn DEF p
  <1> QED  BY <1>1, <1>2, <1>4, ImportDelivers

LEMMA OfferFailsDelivers ==
  ASSUME TransferInv, TransferInv', DeliveryInv, NEW c \in Procs, import[c].on,
         NEW d \in import[c].todo, OfferFails(c, d)
  PROVE  DeliveryInv'
  <1>1. /\ pc[c] = "offer" /\ pc'[c] = "offer"
        /\ import' = [import EXCEPT ![c].todo = @ \ {d}, ![c].errs = TRUE]
        /\ UNCHANGED <<docs, noted, tar, export>>
    BY DEF OfferFails, vars, db
  <1>2. PathOf(d) \in Paths
    BY OfferedRows DEF TransferInv, ImportsHold, ImportHolds
  <1>3. HasChunks(PathOf(d))
    BY <1>1, <1>2 DEF DeliveryInv, Brings, Step
  <1> QED  BY <1>1, <1>3, GivenUp DEF Step

\* The row a document is given: a new one, or the one it replaces.
LEMMA AdoptDelivers ==
  ASSUME TransferInv, TransferInv', DeliveryInv, NEW c \in Procs, import[c].on, Adopt(c)
  PROVE  DeliveryInv'
  <1> DEFINE d == import[c].doc
             p == PathOf(d)
             prior == import[c].prior
             new == prior.id = 0
             id == IF new THEN nextId ELSE prior.id
             r == [(IF new THEN NoRow ELSE docs[p]) EXCEPT !.id = id, !.sha = d.sha, !.raw = d.raw]
  <1>1. /\ pc[c] = "adopt" /\ docs' = [docs EXCEPT ![p] = r]
        /\ \E j : Goto(c, "next", j)
        /\ UNCHANGED <<noted, tar, export, import>>
    BY DEF Adopt, bundles
  <1>2. /\ d \in Offered(tar) /\ prior = docs[p]
        /\ Brings(c) /\ Resumes(c) /\ DistinctIds(tar.docs) /\ DistinctIds(docs)
    BY <1>1 DEF TransferInv, ImportsHold, ImportHolds, DeliveryInv, Resumes
  <1>3. p \in Paths /\ docs[p] \in Row /\ docs \in [Paths -> Row] /\ \A q \in Paths : docs[q].id # nextId
    BY <1>2, OfferedRows DEF TransferInv, TablesShape, Row
  <1>4. d \in import[c].todo /\ (prior.id # 0 => Present(prior.text))
    BY <1>1, <1>2, <1>3 DEF Brings, HasChunks, Exists, Step
  <1>5. r.id = id
    <2>1. NoRow \in Row
      BY DEF Row, NoRow, Copy, NoCopy, Name
    <2> QED  BY <1>3, <2>1 DEF Row
  <1> HIDE DEF r
  <1>6. docs'[p].id = id /\ \A q \in Paths \ {p} : docs'[q] = docs[q]
    BY <1>1, <1>3, <1>5
  <1>7. DistinctIds(docs)'
    <2>1. \A q \in Paths \ {p} : docs[q].id # 0 => docs[q].id # id
      BY <1>2, <1>3 DEF DistinctIds
    <2> HIDE DEF id, p
    <2> QED  BY <1>2, <1>6, <2>1 DEF DistinctIds
  <1>8. pc'[c] = "next"
    BY <1>1 DEF Goto, TransferInv, CommandsShape
  <1>9. Brings(c)'
    BY <1>1, <1>2, <1>4, <1>6, <1>8, BringsOn DEF Step
  <1> QED  BY <1>1, <1>2, <1>7, <1>9, ImportDelivers

LEMMA EmbedDelivers ==
  ASSUME TransferInv, TransferInv', DeliveryInv, NEW c \in Procs, Embed(c)
  PROVE  DeliveryInv'
  <1> DEFINE d == import[c].doc
             p == PathOf(d)
  <1>1. pc[c] \in Step /\ Acts(c) /\ UNCHANGED bundles /\ import[c].on
    BY EmbedActs
  <1>2. Shape /\ EmbedsOne(c) /\ p \in Paths /\ job[c].cmd = "reindex"
    BY <1>1, ShapeOfEmbedding, OfferedRows DEF EmbedsOne
  <1>3. UNCHANGED <<noted, tar, export, import>>
    BY <1>1 DEF bundles
  <1>4. Brings(c) /\ Resumes(c) /\ DistinctIds(tar.docs) /\ DistinctIds(docs)
    BY <1>1, <1>3 DEF DeliveryInv, Resumes
  <1>5. Shape' /\ DistinctIds(docs)'
    BY <1>1, <1>2, <1>4, StepShape, IdsUniqueStep DEF Acts, Next, IdsUnique, DistinctIds
  <1>6. \A q \in Paths \ {p} : docs'[q] = docs[q]
    <2> SUFFICES ASSUME NEW q \in Paths \ {p}, docs'[q] # docs[q] PROVE FALSE
      OBVIOUS
    <2>1. q = job[c].path
      BY <1>2, EmbedRows
    <2> QED  BY <1>2, <2>1, StoreAssumption DEF EmbedsOne
  <1>7. pc'[c] \in Step
    BY <1>5 DEF Shape, TypeOK
  <1>8. d \in import[c].todo /\ (import[c].prior.id # 0 => Present(import[c].prior.text))
    BY <1>1, <1>4 DEF Brings
  <1>9. Brings(c)'
    BY <1>1, <1>3, <1>4, <1>6, <1>7, <1>8, BringsOn
  <1> QED  BY <1>1, <1>3, <1>4, <1>5, <1>9, ImportDelivers

LEMMA FailsDelivers ==
  ASSUME TransferInv, TransferInv', DeliveryInv, NEW c \in Procs, EmbedFails(c)
  PROVE  DeliveryInv'
  <1>1. /\ pc[c] \in {"text", "replace", "meta"} /\ import[c].on /\ GiveUp(c)
        /\ UNCHANGED <<docs, noted, tar, export, import>>
    BY DEF EmbedFails, db, bundles
  <1>2. Shape /\ job[c].cmd = "reindex"
    BY <1>1, ShapeOfEmbedding DEF EmbedsOne, Step
  <1>3. pc'[c] = "next"
    BY <1>1, <1>2, Moved DEF GiveUp
  <1>4. Brings(c) /\ Resumes(c) /\ DistinctIds(docs)'
    BY <1>1 DEF DeliveryInv, Resumes, DistinctIds
  <1>5. Brings(c)'
    <2>1. import[c].doc \in import[c].todo
      BY <1>1, <1>4 DEF Brings, Step
    <2> QED  BY <1>1, <1>3, <1>4, <2>1, BringsStill DEF Step
  <1> QED  BY <1>1, <1>4, <1>5, ImportDelivers

\* A failed document leaves the row it found, chunks and all, or none.
LEMMA RollbackDelivers ==
  ASSUME TransferInv, TransferInv', IdentityInv, DeliveryInv, NEW c \in Procs, Rollback(c)
  PROVE  DeliveryInv'
  <1> DEFINE d == import[c].doc
             p == PathOf(d)
             prior == import[c].prior
             r == IF prior.id = 0 THEN NoRow
                  ELSE [docs[p] EXCEPT !.sha = prior.sha, !.raw = prior.raw]
  <1>1. /\ ~job[c].clean /\ pc[c] = "next" /\ import[c].on /\ job[c].todo = {}
        /\ docs' = [docs EXCEPT ![job[c].path] =
               IF prior.id = 0 THEN NoRow
               ELSE [docs[job[c].path] EXCEPT !.sha = prior.sha, !.raw = prior.raw]]
        /\ import' = [import EXCEPT ![c].todo = @ \ {d}, ![c].errs = TRUE]
        /\ Goto(c, "offer", NoJob)
        /\ UNCHANGED <<noted, tar, export>>
    BY DEF Rollback, Embedding
  <1>2. HasInHand(c) /\ p \in Paths /\ Shape
    BY <1>1, EmbeddingInOrder DEF Step
  <1>3. job[c].path = p /\ docs \in [Paths -> Row]
    BY <1>1, <1>2 DEF HasInHand, HandHas, Shape, TypeOK
  <1>4. /\ import'[c].on /\ import'[c].policy = import[c].policy
        /\ import'[c].firstId = import[c].firstId /\ import'[c].errs
        /\ import'[c].todo = import[c].todo \ {d}
    BY <1>1 DEF TransferInv, BundlesShape, ImportLocals
  <1>5. Brings(c) /\ Resumes(c) /\ DistinctIds(tar.docs) /\ DistinctIds(docs)
    BY <1>1, <1>4 DEF DeliveryInv, Resumes
  <1>6. d \in import[c].todo /\ (prior.id # 0 => Present(prior.text))
    BY <1>1, <1>5 DEF Brings, Step
  <1>7. prior.id # 0 => docs[p].text = prior.text
    <2>1. ~Replaced(pc[c], job[c])
      BY <1>1 DEF Replaced
    <2> QED  BY <1>2, <2>1 DEF HasInHand, HandHas
  <1>8. r.id = 0 \/ (r.id = docs[p].id /\ prior.id # 0 /\ r.text = docs[p].text)
    BY <1>2, <1>3 DEF Row, NoRow
  <1>9. docs'[p] = r /\ \A q \in Paths \ {p} : docs'[q] = docs[q]
    BY <1>1, <1>2, <1>3
  <1> HIDE DEF d, p, prior, r
  <1>10. docs'[p].id # 0 => Present(docs'[p].text)
    BY <1>6, <1>7, <1>8, <1>9
  <1>11. DistinctIds(docs)'
    BY <1>5, <1>8, <1>9 DEF DistinctIds
  <1>12. pc'[c] = "offer"
    BY <1>1, <1>2, Moved
  <1>13. Brings(c)'
    BY <1>1, <1>4, <1>5, <1>6, <1>9, <1>10, <1>12, BringsOn DEF p, d
  <1> QED  BY <1>1, <1>4, <1>5, <1>11, <1>13, ImportDelivers

\* A document that was embedded is here from the archive's bytes.
LEMMA WriteMetadataDelivers ==
  ASSUME TransferInv, TransferInv', IdentityInv, DeliveryInv, NEW c \in Procs, WriteMetadata(c)
  PROVE  DeliveryInv'
  <1>0. PICK d, p : d = import[c].doc /\ p = PathOf(d)
    OBVIOUS
  <1>1. /\ job[c].clean /\ pc[c] = "next" /\ import[c].on /\ job[c].todo = {}
        /\ noted' = IF d.id \in tar.noted THEN noted \cup {job[c].id} ELSE noted
        /\ import' = [import EXCEPT ![c].todo = @ \ {d}]
        /\ Goto(c, "offer", NoJob)
        /\ UNCHANGED <<docs, tar, export>>
    BY <1>0 DEF WriteMetadata, Embedding, db
  <1>2. HasInHand(c) /\ EmbedsOne(c) /\ p \in Paths /\ Shape
    BY <1>0, <1>1, EmbeddingInOrder DEF Step
  <1>3. job[c].id = docs[p].id /\ docs[p].id # 0
    BY <1>0, <1>1, <1>2 DEF EmbedsOne, Exists
  <1>4. docs[p].sha = d.sha /\ docs[p].text = Whole(d.raw)
    <2>1. Replaced(pc[c], job[c])
      BY <1>1 DEF Replaced
    <2> QED  BY <1>0, <1>2, <2>1 DEF HasInHand, HandHas
  <1>5. /\ import'[c].on /\ import'[c].policy = import[c].policy
        /\ import'[c].firstId = import[c].firstId /\ import'[c].errs = import[c].errs
        /\ import'[c].todo = import[c].todo \ {d}
    BY <1>1 DEF TransferInv, BundlesShape, ImportLocals
  <1>6. /\ Brings(c) /\ Resumes(c) /\ DistinctIds(tar.docs) /\ DistinctIds(docs)'
    BY <1>1, <1>5 DEF DeliveryInv, Resumes, DistinctIds
  <1>7. d \in import[c].todo
    BY <1>0, <1>1, <1>6 DEF Brings, Step
  <1>8. d \in Row /\ d.raw # None
    <2>1. d \in Offered(tar)
      BY <1>1, <1>7 DEF TransferInv, ImportsHold, ImportHolds
    <2> QED  BY <1>0, <1>1, <2>1, OfferedRows, EmbeddingInOrder DEF Unpacks, Step
  <1>9. Present(docs[p].text)
    BY <1>4, <1>8 DEF Present, Whole
  <1>10. Present(tar.raw[d.raw]) => docs[p].text = tar.raw[d.raw]
    BY <1>4, <1>8 DEF IdentityInv, Faithful, Row, Name
  <1>11. d.id \in tar.noted => docs[p].id \in noted'
    BY <1>1, <1>3
  <1>12. Delivered(c, d)'
    <2>1. PathOf(d)' = p
      BY <1>0, <1>1 DEF PathOf
    <2>2. docs'[p].id # 0 /\ Present(docs'[p].text) /\ docs'[p].sha = d.sha
      BY <1>1, <1>3, <1>4, <1>9
    <2>3. Present(tar'.raw[d.raw]) => docs'[p].text = tar'.raw[d.raw]
      BY <1>1, <1>10
    <2>4. d.id \in tar'.noted => docs'[p].id \in noted'
      BY <1>1, <1>11
    <2> QED  BY <2>1, <2>2, <2>3, <2>4 DEF Delivered, Brought, Exists
  <1>13. \A q \in Paths : docs'[q] = docs[q]
    BY <1>1
  <1>14. docs'[p].id # 0 => Present(docs'[p].text)
    BY <1>1, <1>9
  <1>15. pc'[c] = "offer"
    BY <1>1, <1>2, Moved
  <1>16. Brings(c)'
    BY <1>0, <1>1, <1>5, <1>6, <1>7, <1>12, <1>13, <1>14, <1>15, BringsOn
  <1> QED  BY <1>1, <1>5, <1>6, <1>16, ImportDelivers

\* A document whose metadata fails stays as it was embedded.
LEMMA MetadataFailsDelivers ==
  ASSUME TransferInv, TransferInv', IdentityInv, DeliveryInv, NEW c \in Procs, MetadataFails(c)
  PROVE  DeliveryInv'
  <1> DEFINE d == import[c].doc
  <1>1. /\ job[c].clean /\ pc[c] = "next" /\ import[c].on /\ job[c].todo = {}
        /\ import' = [import EXCEPT ![c].todo = @ \ {d}, ![c].errs = TRUE]
        /\ Goto(c, "offer", NoJob)
        /\ UNCHANGED <<docs, noted, tar, export>>
    BY DEF MetadataFails, Embedding, db
  <1>2. HasInHand(c) /\ Unpacks(c) /\ Shape
    BY <1>1, EmbeddingInOrder DEF Step
  <1>3. d \in import[c].todo
    BY <1>1 DEF DeliveryInv, Brings, Step
  <1>4. HasChunks(PathOf(d))
    <2>1. Replaced(pc[c], job[c])
      BY <1>1 DEF Replaced
    <2>2. docs[PathOf(d)].text = Whole(d.raw) /\ d.raw # None
      BY <1>1, <1>2, <2>1 DEF HasInHand, HandHas, Unpacks, Step
    <2> QED  BY <2>2 DEF HasChunks, Present, Whole
  <1>5. pc'[c] = "offer"
    BY <1>1, <1>2, Moved
  <1> QED  BY <1>1, <1>3, <1>4, <1>5, GivenUp

LEMMA EndDelivers ==
  ASSUME RollsBack, TransferInv, TransferInv', DeliveryInv, NEW c \in Procs, import[c].on,
         FinishImport(c) \/ BreakOff(c) \/ Stop(c)
  PROVE  DeliveryInv'
  <1>1. /\ pc[c] \in {"unpack", "templates", "copying", "offer"}
        /\ import' = [import EXCEPT ![c] = NoImport]
        /\ Goto(c, "idle", NoJob) /\ UNCHANGED <<docs, tar, export>>
    BY DEF FinishImport, BreakOff, Stop, EndImport, End, RollsBack, db
  <1>2. \A p \in Paths : HasChunks(p)'
    <2>1. \A p \in Paths : HasChunks(p)
      BY <1>1 DEF DeliveryInv, Brings, Step
    <2> QED  BY <1>1, <2>1 DEF HasChunks, Exists
  <1>3. ~Importing'
    <2>1. \A o \in Procs \ {c} : ~import[o].on
      BY DEF TransferInv, ImportsAlone
    <2> QED  BY <1>1, <2>1 DEF Importing, NoImport, TransferInv, BundlesShape
  <1> QED  BY <1>1, <1>2, <1>3 DEF DeliveryInv, DistinctIds, Importing

LEMMA IdleHasChunks ==
  ASSUME TransferInv, DeliveryInv, AllIdle
  PROVE  ~Importing /\ \A p \in Paths : HasChunks(p)
  <1>1. \A p \in Paths : ~Storing(p)
    BY DEF AllIdle, Storing
  <1> QED  BY <1>1, IdleNotImporting DEF DeliveryInv

LEMMA StartDelivers ==
  ASSUME ArchivesFinite, TransferInv, TransferInv', DeliveryInv, NEW c \in Procs,
         NEW policy \in Policies, StartImport(c, policy)
  PROVE  DeliveryInv'
  <1> DEFINE i == [NoImport EXCEPT !.on = TRUE, !.policy = policy, !.todo = Offered(tar),
                                   !.raws = {n \in Contents : Survives(tar, n)},
                                   !.templates = {t \in Templates : Survives(tar, t)},
                                   !.firstId = nextId]
  <1>1. /\ AllIdle /\ CheckComplete(tar) /\ import' = [import EXCEPT ![c] = i]
        /\ Goto(c, "unpack", NoJob) /\ UNCHANGED <<docs, tar, export>>
    BY DEF StartImport, db
  <1>2. i.on /\ i.todo = Offered(tar) /\ i.firstId = nextId
    BY DEF NoImport
  <1> HIDE DEF i
  <1>3. ~Importing /\ \A p \in Paths : HasChunks(p)
    BY <1>1, IdleHasChunks
  <1>4. Arrived(tar)
    BY <1>1, CheckedArrives DEF DeliveryInv
  <1>5. import'[c] = i /\ pc'[c] = "unpack" /\ \A o \in Procs \ {c} : import'[o] = import[o]
    BY <1>1 DEF Goto, TransferInv, BundlesShape, CommandsShape
  <1>6. Brings(c)'
    <2>1. Offered(tar)' = Offered(tar) /\ Arrived(tar)' /\ \A d : PathOf(d)' = PathOf(d)
      BY <1>1, <1>4, SameArchive
    <2>2. \A d \in Offered(tar) : docs'[PathOf(d)'].id < nextId
      BY <1>1, <2>1, OfferedRows DEF TransferInv, TablesShape
    <2>3. \A p \in Paths : HasChunks(p)'
      BY <1>1, <1>3 DEF HasChunks, Exists
    <2> QED  BY <1>2, <1>5, <2>1, <2>2, <2>3 DEF Brings, Step
  <1>7. Importing' /\ \A o \in Procs \ {c} : ~import'[o].on
    BY <1>2, <1>3, <1>5 DEF Importing
  <1> QED  BY <1>1, <1>6, <1>7 DEF DeliveryInv, DistinctIds

LEMMA NewMachineDelivers ==
  ASSUME TransferInv, DeliveryInv, NewMachine
  PROVE  DeliveryInv'
  <1>1. PICK size \in 0 .. FileSize(tar) : tar' = [tar EXCEPT !.blocks = size]
    BY DEF NewMachine
  <1>2. AllIdle /\ docs' = [p \in Paths |-> NoRow] /\ UNCHANGED <<export, import>>
    BY DEF NewMachine
  <1>3. tar'.docs = tar.docs /\ tar'.blocks = size /\ size \in Nat
    BY <1>1 DEF TransferInv, BundlesShape, ArchiveShape
  <1>4. \A p \in Paths : docs'[p].id = 0
    BY <1>2 DEF NoRow
  <1>5. ~Importing'
    BY <1>2, IdleNotImporting DEF Importing
  <1> QED  BY <1>2, <1>3, <1>4, <1>5 DEF DeliveryInv, DistinctIds, HasChunks, Exists, Importing

\* Beside the commands nothing changes but the archives and the metadata.
LEMMA BesideDelivers ==
  ASSUME DeliveryInv, UNCHANGED <<docs, pc, job, import>>, noted \subseteq noted',
         tar'.blocks \in Nat, DistinctIds(tar.docs)', DistinctIds(export.tar.docs)',
         tar' = tar \/ ~Importing
  PROVE  DeliveryInv'
  <1>1. DistinctIds(docs)'
    BY DEF DeliveryInv, DistinctIds
  <1>2. ~Importing' => \A p \in Paths : HasChunks(p)' \/ Storing(p)'
    BY DEF DeliveryInv, Importing, HasChunks, Storing, Alive, Exists
  <1>3. ASSUME NEW c \in Procs, import'[c].on
        PROVE  Brings(c)'
    <2>1. Brings(c) /\ Resumes(c)
      BY <1>3 DEF DeliveryInv, Resumes, Importing
    <2>2. pc[c] \in Step \cup {"adopt"} => import[c].doc \in import[c].todo
      BY <2>1 DEF Brings
    <2> QED  BY <2>1, <2>2, BringsStill
  <1> QED  BY <1>1, <1>2, <1>3 DEF DeliveryInv

LEMMA ExportDelivers ==
  ASSUME ArchivesFinite, TransferInv, DeliveryInv, Exports
  PROVE  DeliveryInv'
  <1>1. /\ UNCHANGED <<docs, pc, job, import, noted>>
        /\ ArchiveShape(export.tar) /\ (export.on => ~tar.made /\ ~Importing)
        /\ tar.blocks \in Nat /\ DistinctIds(docs) /\ DistinctIds(tar.docs) /\ DistinctIds(export.tar.docs)
    BY DEF Exports, StartExport, ReadPart, OpenPart, ReadFile, Publish, AbandonExport,
       DeliveryInv, TransferInv, BundlesShape, vars, db
  <1>2. ASSUME tar' = tar, export'.tar.docs \in {docs, export.tar.docs}
        PROVE  DeliveryInv'
    BY <1>1, <1>2, BesideDelivers DEF DistinctIds
  <1>3. CASE StartExport
    <2>1. tar' = tar /\ export'.tar = export.tar
      BY <1>3 DEF StartExport, TransferInv, BundlesShape, ExportTyped
    <2> QED  BY <1>2, <2>1
  <1>4. CASE OpenPart
    BY <1>2, <1>4, OpensPart
  <1>5. ASSUME NEW n \in export.left, ReadFile(n)
        PROVE  DeliveryInv'
    BY <1>2, <1>5, ReadsFile
  <1>6. DistinctIds(NoTar.docs)
    BY DEF DistinctIds, NoTar, NoRow
  <1>7. CASE AbandonExport
    BY <1>1, <1>6, <1>7, BesideDelivers DEF AbandonExport, DistinctIds, NoExport
  <1>8. CASE Publish
    <2> DEFINE size == FileSize(export.tar)
    <2>1. tar' = [export.tar EXCEPT !.made = TRUE, !.blocks = size] /\ export' = NoExport /\ export.on
      BY <1>8 DEF Publish
    <2>2. size \in Nat
      BY EntriesListed DEF FileSize
    <2> HIDE DEF size
    <2>3. tar'.docs = export.tar.docs /\ tar'.blocks = size
      BY <1>1, <2>1 DEF ArchiveShape
    <2> QED  BY <1>1, <1>6, <2>1, <2>2, <2>3, BesideDelivers DEF DistinctIds, NoExport
  <1> QED  BY <1>3, <1>4, <1>5, <1>7, <1>8 DEF Exports, ReadPart

LEMMA EditsDeliver ==
  ASSUME TransferInv, DeliveryInv, UserEdits \/ \E p \in Paths : SetMetadata(p)
  PROVE  DeliveryInv'
  <1>1. UNCHANGED <<docs, pc, job, import, tar, export>> /\ noted \subseteq noted'
    BY DEF UserEdits, SetMetadata, Edit, bundles, vars, db
  <1> QED  BY <1>1, BesideDelivers DEF DeliveryInv, DistinctIds

\* A command that has created its row goes on to store the chunks.
LEMMA StoresNext ==
  ASSUME Shape, NEW c \in Procs, CommandStep(c), NEW p \in Paths,
         pc[c] = "replace", job[c].path = p, Alive(c)
  PROVE  HasChunks(p)'
  <1>1. ReplaceForDocument(c)
    BY DEF CommandStep, IngestStep, CopySourceToRaw, AlreadyArchived, CopyToTemp,
       NoSourceToCopy, RenameToRaw, ReadOrExtract, CacheHit, Extract, NoSourceToExtract,
       CreateCache, FillCache, CheckDimension, CreateDoc, WriteAutoMetadata, CommitSHA,
       ReindexStep, Locate, Skip, SetRawPath, FinishReindex, DeleteRow, RemoveCache
  <1>2. Present(job[c].text)
    BY Locals DEF Fits
  <1>3. docs' = [docs EXCEPT ![p].text = job[c].text, ![p].dim = NewDim(c)]
    BY <1>1 DEF ReplaceForDocument
  <1>4. docs'[p].text = job[c].text
    BY <1>3 DEF Shape, TypeOK, Row
  <1> QED  BY <1>2, <1>4 DEF HasChunks

LEMMA RowsStored ==
  ASSUME Shape, OneRuns, NEW c \in Procs, StartCommand(c) \/ CommandStep(c), NEW p \in Paths,
         HasChunks(p) \/ Storing(p), Storing(p) => CommandStep(c)
  PROVE  HasChunks(p)' \/ Storing(p)'
  <1>0. docs \in [Paths -> Row]
    BY DEF Shape, TypeOK
  <1>1. CASE docs'[p] = docs[p] /\ HasChunks(p)
    BY <1>1 DEF HasChunks, Exists
  <1>2. CASE Storing(p)
    <2>1. PICK o \in Procs : pc[o] = "replace" /\ job[o].path = p /\ Alive(o)
      BY <1>2 DEF Storing
    <2>2. CommandStep(c) /\ pc[c] # "idle"
      BY <1>2 DEF CommandStep, IngestStep, CopySourceToRaw, AlreadyArchived, CopyToTemp,
         NoSourceToCopy, RenameToRaw, ReadOrExtract, CacheHit, Extract, NoSourceToExtract,
         CreateCache, FillCache, CheckDimension, CreateDoc, ReplaceForDocument,
         WriteAutoMetadata, CommitSHA, ReindexStep, Locate, Skip, SetRawPath, FinishReindex,
         DeleteRow, RemoveCache
    <2>3. o = c
      BY <2>1, <2>2 DEF OneRuns
    <2> QED  BY <2>1, <2>2, <2>3, StoresNext
  <1>3. CASE docs'[p] = NoRow
    BY <1>3 DEF HasChunks, Exists, NoRow
  <1>4. CASE Creates(c, p)
    <2>1. CreateDoc(c) /\ job[c].cmd = "ingest" /\ job[c].path = p
      BY <1>4, Locals DEF Creates, Fits, StartCommand, StartIngest, StartPreprocess,
         StartReindex, StartDelete, CommandStep, IngestStep, CopySourceToRaw, AlreadyArchived,
         CopyToTemp, NoSourceToCopy, RenameToRaw, ReadOrExtract, CacheHit, Extract,
         NoSourceToExtract, CreateCache, FillCache, CheckDimension, ReplaceForDocument,
         WriteAutoMetadata, CommitSHA, ReindexStep, Locate, Skip, SetRawPath, FinishReindex,
         DeleteRow, RemoveCache
    <2>2. /\ ~Exists(p) /\ docs'[p] = [NoRow EXCEPT !.id = nextId, !.raw = job[c].raw]
      BY <1>4 DEF Creates
    <2>3. Goto(c, "replace", [job[c] EXCEPT !.id = nextId])
      BY <2>1, <2>2 DEF CreateDoc
    <2>4. pc'[c] = "replace" /\ job'[c] = [job[c] EXCEPT !.id = nextId]
      BY <2>3, Moved
    <2>5. job'[c].cmd = "ingest" /\ job'[c].path = p /\ job'[c].id = nextId
      BY <2>1, <2>4, Locals DEF Job
    <2>6. docs'[p].id = nextId /\ nextId # 0
      BY <2>2 DEF NoRow, Shape, TypeOK
    <2> QED  BY <2>4, <2>5, <2>6 DEF Storing, Alive, Exists
  <1>5. CASE Replaces(c, p)
    <2>1. docs'[p].text = job[c].text /\ Present(job[c].text)
      BY <1>0, <1>5, Locals DEF Replaces, Row, Fits
    <2> QED  BY <2>1 DEF HasChunks
  <1>6. CASE (Commits(c, p) \/ Locates(c, p)) /\ HasChunks(p)
    <2>1. docs'[p].text = docs[p].text /\ docs'[p].id = docs[p].id
      BY <1>0, <1>6 DEF Commits, Locates, Row
    <2> QED  BY <1>6, <2>1 DEF HasChunks, Exists
  <1> QED  BY <1>1, <1>2, <1>3, <1>4, <1>5, <1>6, RowChanges DEF RowChange, Acts

LEMMA LocalDelivers ==
  ASSUME FilesHold, TransferInv, IdentityInv, DeliveryInv, NEW c \in Procs, LocalCommand(c)
  PROVE  DeliveryInv'
  <1>1. /\ ~Importing /\ UNCHANGED <<tar, export, import>>
        /\ (AllIdle /\ StartCommand(c)) \/ CommandStep(c)
    BY DEF LocalCommand, bundles
  <1>2. Shape /\ \A o \in Procs : pc[o] \in Step
    BY <1>1, NotImporting, Locals
  <1>3. OneRuns /\ \A p \in Paths : HasChunks(p) \/ Storing(p)
    BY <1>1, <1>2 DEF IdentityInv, InOrder, DeliveryInv
  <1>4. DistinctIds(docs)'
    BY <1>1, <1>2, IdsUniqueStep DEF Next, DeliveryInv, IdsUnique, DistinctIds
  <1>5. \A p \in Paths : HasChunks(p)' \/ Storing(p)'
    <2> SUFFICES ASSUME NEW p \in Paths PROVE HasChunks(p)' \/ Storing(p)'
      OBVIOUS
    <2>1. Storing(p) => CommandStep(c)
      BY <1>1 DEF Storing, AllIdle
    <2> QED  BY <1>1, <1>2, <1>3, <2>1, RowsStored
  <1> QED  BY <1>1, <1>4, <1>5 DEF DeliveryInv, DistinctIds, Importing

-----------------------------------------------------------------------------
LEMMA InitDeliveryInv == TransferInit => DeliveryInv
  <1> SUFFICES ASSUME TransferInit PROVE DeliveryInv
    OBVIOUS
  <1>1. \A p \in Paths : docs[p].id = 0
    BY DEF TransferInit, Init, NoRow
  <1>2. DistinctIds(NoTar.docs) /\ NoTar.blocks = 0
    BY DEF DistinctIds, NoTar, NoRow
  <1>3. \A c \in Procs : ~import[c].on
    BY DEF TransferInit, NoImport
  <1> QED  BY <1>1, <1>2, <1>3
           DEF DeliveryInv, DistinctIds, HasChunks, Exists, TransferInit, NoExport

LEMMA StepDeliveryInv ==
  ASSUME RollsBack, ArchivesFinite, TransferInv, TransferInv', IdentityInv, DeliveryInv,
         [TransferNext]_allVars
  PROVE  DeliveryInv'
  <1>0. FilesHold
    BY DEF RollsBack
  <1>1. CASE UNCHANGED allVars
    BY <1>1, BesideDelivers DEF allVars, vars, db, bundles, DeliveryInv, DistinctIds
  <1>2. ASSUME NEW c \in Procs, ImportStep(c)
        PROVE  DeliveryInv'
    <2>1. import[c].on
      BY <1>2, ImportStepOn
    <2>2. CASE \E d \in import[c].todo : SkipDocument(c, d)
      BY <2>1, <2>2, SkipDelivers
    <2>3. CASE FinishImport(c) \/ Adopt(c) \/ Embed(c)
      BY <2>1, <2>3, EndDelivers, AdoptDelivers, EmbedDelivers
    <2>4. CASE Rollback(c) \/ WriteMetadata(c)
      BY <2>4, RollbackDelivers, WriteMetadataDelivers
    <2> QED  BY <1>2, <2>1, <2>2, <2>3, <2>4, UnpackDelivers DEF ImportStep
  <1>3. ASSUME NEW c \in Procs, Breaks(c)
        PROVE  DeliveryInv'
    BY <1>3, FailsDelivers, MetadataFailsDelivers, OfferFailsDelivers, EndDelivers, ImportStepOn
       DEF Breaks
  <1>4. ASSUME NEW c \in Procs, LocalCommand(c) \/ \E policy \in Policies : StartImport(c, policy)
        PROVE  DeliveryInv'
    BY <1>0, <1>4, LocalDelivers, StartDelivers
  <1>5. CASE UserEdits \/ NewMachine \/ \E p \in Paths : SetMetadata(p)
    BY <1>5, EditsDeliver, NewMachineDelivers
  <1>6. CASE Exports
    BY <1>6, ExportDelivers
  <1> QED  BY <1>1, <1>2, <1>3, <1>4, <1>5, <1>6 DEF TransferNext, Exports, Breaks

\* While an import runs, the documents it is done with are here or it has
\* counted an error, and those to come are as they were.
THEOREM DeliveryInvariance == RollsBack /\ ArchivesFinite => (TransferSpec => []DeliveryInv)
  <1> SUFFICES ASSUME RollsBack, ArchivesFinite PROVE TransferSpec => []DeliveryInv
    OBVIOUS
  <1>1. TransferInit => DeliveryInv
    BY InitDeliveryInv
  <1>2. TransferInv /\ TransferInv' /\ IdentityInv /\ DeliveryInv /\ [TransferNext]_allVars
            => DeliveryInv'
    BY StepDeliveryInv
  <1> QED  BY <1>1, <1>2, TransferInvariance, IdentityInvariance, PTL DEF TransferSpec

\* An import that reports no error has left every document of the archive that
\* has a copy, and that it came to, indexed here, and those it replaced or
\* created indexed from the archive's bytes, with the user's metadata, for any
\* number of documents, of failures before it and of imports before it
\* (import.go:126-128, 568-571).  It came to all of them when it ran to its end;
\* one that Ctrl-C broke off between two documents reports no error either, and
\* brought what it had come to (import.go:527-529).
THEOREM CleanImportDeliversAlways ==
  RollsBack /\ ArchivesFinite => (TransferSpec => CleanImportDelivers)
  <1> SUFFICES ASSUME RollsBack, ArchivesFinite PROVE TransferSpec => CleanImportDelivers
    OBVIOUS
  <1> DEFINE Clean == \A c \in Procs : (FinishImport(c) \/ BreakOff(c)) /\ ~import[c].errs =>
        \A d \in Offered(tar) \ import[c].todo : d.raw # None /\ Present(tar.raw[d.raw]) =>
            Brought(d, PathOf(d), import[c].policy, import[c].firstId)
  <1>1. TransferInv /\ DeliveryInv => [Clean]_allVars
    <2> SUFFICES ASSUME TransferInv, DeliveryInv, NEW c \in Procs, FinishImport(c) \/ BreakOff(c),
                        ~import[c].errs, NEW d \in Offered(tar) \ import[c].todo
                 PROVE  Delivered(c, d)
      BY DEF Delivered
    <2>1. pc[c] = "offer"
      BY DEF FinishImport, BreakOff
    <2>2. import[c].on
      BY <2>1, ImportOn DEF ImportSteps
    <2> QED  BY <2>2 DEF DeliveryInv, Brings
  <1> QED  BY <1>1, TransferInvariance, DeliveryInvariance, PTL DEF CleanImportDelivers
===============================================================================
