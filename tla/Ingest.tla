------------------------------- MODULE Ingest -------------------------------
(***************************************************************************)
(* Ingester.IngestFile, one action per step that reads or writes shared    *)
(* state, and the steps it shares with ReindexDocument: extracting text    *)
(* into the cache, replacing the chunks, writing the metadata.             *)
(*                                                                         *)
(* Chunking and embedding touch nothing shared; embedChunks either returns *)
(* every chunk or fails (module EmbedPool), and a failure is Abandon.      *)
(***************************************************************************)
EXTENDS Store

CONSTANTS
    Archive,    \* ingest.raw_dir is set
    NoRaw,      \* the values of --no-raw a user may pass
    Forced       \* the values of --force a user may pass

ASSUME IngestAssumption ==
    /\ Archive \in BOOLEAN
    /\ NoRaw \subseteq BOOLEAN
    /\ Forced \subseteq BOOLEAN

\* tbuk ingest / tbuk update of path p up to the decision to go on: hash the
\* file, look its row up, return when there is no file or nothing changed.
\* (The hash and the lookup are one step. Apart they would differ only where
\* the file changes between them, "race", and a second process writes the row.)
StartIngest(c, p, noRaw, force) ==
    /\ pc[c] = "idle"
    /\ file[p] # None
    /\ Exists(p) /\ docs[p].sha = file[p] => force
    /\ Goto(c, IF Archive /\ ~noRaw THEN "archive" ELSE "text",
            [NoJob EXCEPT !.cmd = "ingest", !.path = p, !.id = docs[p].id,
                          !.sha = file[p], !.raw = docs[p].raw, !.dim = config])
    /\ UNCHANGED <<user, disk, db>>

-----------------------------------------------------------------------------
(* copySourceToRaw *)

\* Mutant: any answer of the stat is taken for "there".
AssumeArchived(c) ==
    /\ pc[c] = "archive"
    /\ Goto(c, "text", [job[c] EXCEPT !.raw = job[c].sha])
    /\ UNCHANGED <<user, disk, db>>

\* A copy under the content's name is trusted.
AlreadyArchived(c) ==
    /\ pc[c] = "archive"
    /\ Present(raw[job[c].sha])
    /\ Goto(c, "text", [job[c] EXCEPT !.raw = job[c].sha])
    /\ UNCHANGED <<user, disk, db>>

\* Mutant: the copy is written straight under its final name.
CopyInPlace(c) ==
    /\ pc[c] = "archive"
    /\ ~Present(raw[job[c].sha])
    /\ file[job[c].path] # None
    /\ Goto(c, "rename", [job[c] EXCEPT !.tmp = file[job[c].path]])
    /\ raw' = [raw EXCEPT ![job[c].sha] = Torn(file[job[c].path])]
    /\ UNCHANGED <<user, db, cache, older>>

\* The live file is read again, into a temporary file nobody else opens.
CopyToTemp(c) ==
    /\ pc[c] = "archive"
    /\ ~Present(raw[job[c].sha])
    /\ file[job[c].path] # None
    /\ Goto(c, "rename", [job[c] EXCEPT !.tmp = file[job[c].path]])
    /\ UNCHANGED <<user, disk, db>>

NoSourceToCopy(c) ==
    /\ pc[c] = "archive"
    /\ ~Present(raw[job[c].sha])
    /\ file[job[c].path] = None
    /\ End(c)
    /\ UNCHANGED <<user, disk, db>>

RenameToRaw(c) ==
    /\ pc[c] = "rename"
    /\ Goto(c, "text", [job[c] EXCEPT !.raw = job[c].sha])
    /\ raw' = [raw EXCEPT ![job[c].sha] = Whole(job[c].tmp)]
    /\ UNCHANGED <<user, db, cache, older>>

CopySourceToRaw(c) ==
    AlreadyArchived(c) \/ CopyToTemp(c) \/ NoSourceToCopy(c) \/ RenameToRaw(c)

-----------------------------------------------------------------------------
(* readOrExtract and extractAndCache *)

\* What follows the text: ingest checks the dimension, reindex does not, and
\* preprocess is done when it has cached it.
Embedded(c) == IF job[c].cmd = "ingest" THEN "guard" ELSE "replace"

\* The bytes the extractor opens: an archived copy, or the live file.
Source(c) ==
    IF job[c].src = "raw" THEN raw[job[c].raw]
    ELSE IF file[job[c].path] = None THEN NoCopy ELSE Whole(file[job[c].path])

\* IngestFile asks the cache before it extracts; ReindexDocument has asked,
\* and preprocess does not.
CacheHit(c) ==
    /\ pc[c] = "text"
    /\ job[c].cmd = "ingest"
    /\ Present(cache[job[c].sha])
    /\ Goto(c, "guard", [job[c] EXCEPT !.text = cache[job[c].sha]])
    /\ UNCHANGED <<user, disk, db>>

Extract(c) ==
    /\ pc[c] = "text"
    /\ job[c].cmd = "ingest" => ~Present(cache[job[c].sha])
    /\ Present(Source(c))
    /\ Goto(c, IF job[c].sha = None THEN Embedded(c) ELSE "write",
            [job[c] EXCEPT !.text = Source(c)])
    /\ UNCHANGED <<user, disk, db>>

NoSourceToExtract(c) ==
    /\ pc[c] = "text"
    /\ job[c].cmd = "ingest" => ~Present(cache[job[c].sha])
    /\ ~Present(Source(c))
    /\ GiveUp(c)
    /\ UNCHANGED <<user, disk, db>>

\* os.WriteFile creates or truncates the cache file, then fills it.
CreateCache(c) ==
    /\ pc[c] = "write"
    /\ Goto(c, "caching", job[c])
    /\ cache' = [cache EXCEPT ![job[c].sha] = Torn(job[c].text.of)]
    /\ UNCHANGED <<user, db, raw, older>>

FillCache(c) ==
    /\ pc[c] = "caching"
    /\ IF job[c].cmd = "preprocess" THEN End(c) ELSE Goto(c, Embedded(c), job[c])
    /\ cache' = [cache EXCEPT ![job[c].sha] = job[c].text]
    /\ UNCHANGED <<user, db, raw, older>>

ReadOrExtract(c) ==
    CacheHit(c) \/ Extract(c) \/ NoSourceToExtract(c) \/ CreateCache(c) \/ FillCache(c)

-----------------------------------------------------------------------------
(* The database *)

\* Mutant: the dimension guard is not there.
NoGuard(c) ==
    /\ pc[c] = "guard"
    /\ Goto(c, IF job[c].id = 0 THEN "create" ELSE "replace", job[c])
    /\ UNCHANGED <<user, disk, db>>

\* Mutant: the hash is recorded before the chunks are stored.
RecordFirst(c) ==
    /\ pc[c] = "guard"
    /\ docs' = IF job[c].id = 0 THEN docs
               ELSE [docs EXCEPT ![job[c].path].sha = job[c].sha]
    /\ Goto(c, IF job[c].id = 0 THEN "create" ELSE "replace", job[c])
    /\ UNCHANGED <<user, disk, nextId>>

CheckDimension(c) ==
    /\ pc[c] = "guard"
    /\ IF NewDim(c) = 0 \/ StoredDims(job[c].id) \subseteq {NewDim(c)}
       THEN Goto(c, IF job[c].id = 0 THEN "create" ELSE "replace", job[c])
       ELSE GiveUp(c)
    /\ UNCHANGED <<user, disk, db>>

\* Mutant: the row is created with the hash of the file.
CreateWithSHA(c) ==
    /\ pc[c] = "create"
    /\ ~Exists(job[c].path)
    /\ docs' = [docs EXCEPT ![job[c].path] =
                   [NoRow EXCEPT !.id = nextId, !.sha = job[c].sha, !.raw = job[c].raw]]
    /\ nextId' = nextId + 1
    /\ Goto(c, "replace", [job[c] EXCEPT !.id = nextId])
    /\ UNCHANGED <<user, disk>>

\* Mutant: the id of the new row is not read back.
CreateWithoutID(c) ==
    /\ pc[c] = "create"
    /\ ~Exists(job[c].path)
    /\ docs' = [docs EXCEPT ![job[c].path] =
                   [NoRow EXCEPT !.id = nextId, !.raw = job[c].raw]]
    /\ nextId' = nextId + 1
    /\ Goto(c, "replace", job[c])
    /\ UNCHANGED <<user, disk>>

\* A new row has an empty hash; path is UNIQUE.
CreateDoc(c) ==
    /\ pc[c] = "create"
    /\ IF Exists(job[c].path)
       THEN GiveUp(c) /\ UNCHANGED db
       ELSE /\ docs' = [docs EXCEPT ![job[c].path] =
                           [NoRow EXCEPT !.id = nextId, !.raw = job[c].raw]]
            /\ nextId' = nextId + 1
            /\ Goto(c, "replace", [job[c] EXCEPT !.id = nextId])
    /\ UNCHANGED <<user, disk>>

\* Mutant: the old chunks go in one transaction, the new come in another.
ReplaceInTwo(c) ==
    /\ pc[c] = "replace"
    /\ Alive(c)
    /\ IF Present(docs[job[c].path].text) /\ docs[job[c].path].text # job[c].text
       THEN /\ docs' = [docs EXCEPT ![job[c].path].text = NoCopy,
                                    ![job[c].path].dim = 0]
            /\ Goto(c, "replace", job[c])
       ELSE /\ docs' = [docs EXCEPT ![job[c].path].text = job[c].text,
                                    ![job[c].path].dim = NewDim(c)]
            /\ Goto(c, "meta", job[c])
    /\ UNCHANGED <<user, disk, nextId>>

\* ReplaceForDocument, one transaction; a missing row is a foreign-key error
\* (without a chunk to insert, the metadata meets it next, to the same end).
ReplaceForDocument(c) ==
    /\ pc[c] = "replace"
    /\ IF Alive(c)
       THEN /\ docs' = [docs EXCEPT ![job[c].path].text = job[c].text,
                                    ![job[c].path].dim = NewDim(c)]
            /\ Goto(c, "meta", job[c])
       ELSE GiveUp(c) /\ UNCHANGED docs
    /\ UNCHANGED <<user, disk, nextId>>

\* The automatic metadata is a function of the path: only its failure shows.
WriteAutoMetadata(c) ==
    /\ pc[c] = "meta"
    /\ IF Alive(c)
       THEN Goto(c, IF job[c].cmd = "ingest" THEN "commit" ELSE "next", job[c])
       ELSE GiveUp(c)
    /\ UNCHANGED <<user, disk, db>>

\* Mutant: the location of a new archived copy is not recorded.
CommitKeepsRaw(c) ==
    /\ pc[c] = "commit"
    /\ docs' = IF Alive(c) THEN [docs EXCEPT ![job[c].path].sha = job[c].sha] ELSE docs
    /\ End(c)
    /\ UNCHANGED <<user, disk, nextId>>

\* docs.Update by id, which reports no error when the row has gone.
CommitSHA(c) ==
    /\ pc[c] = "commit"
    /\ docs' = IF Alive(c)
               THEN [docs EXCEPT ![job[c].path].sha = job[c].sha,
                                 ![job[c].path].raw = job[c].raw]
               ELSE docs
    /\ End(c)
    /\ UNCHANGED <<user, disk, nextId>>

IngestStep(c) ==
    \/ CopySourceToRaw(c)
    \/ ReadOrExtract(c)
    \/ CheckDimension(c)
    \/ CreateDoc(c)
    \/ ReplaceForDocument(c)
    \/ WriteAutoMetadata(c)
    \/ CommitSHA(c)

\* The step under way fails, Ctrl-C cancels the command or the process dies:
\* nothing already written is undone.  During the cache write only a failed
\* write or a crash does this, and the truncated file stays behind.
Abandon(c) ==
    /\ pc[c] # "idle"
    /\ End(c) \/ (pc[c] # "next" /\ GiveUp(c))
    /\ UNCHANGED <<user, disk, db>>
=============================================================================
