---------------------------- MODULE KnowledgeBase ----------------------------
(***************************************************************************)
(* The commands that write a knowledge base, together: ingest and update,  *)
(* reindex, delete, beside a user who edits and removes the source files,  *)
(* clears the cache, upgrades the extractor and changes the embedding      *)
(* configuration.                                                          *)
(***************************************************************************)
EXTENDS Reindex

CONSTANTS
    Commands,   \* the commands users run: "ingest", "preprocess", "reindex", "delete"
    Faults,     \* "fail": a step fails, is cancelled, or the process dies;
                \* "torn": so does the cache write, half way;
                \* "race": files change while a command runs
    Reverts,    \* files may go back to, or share, contents seen before
    MaxIds      \* a bound on deletions: none starts at this many ids

ASSUME KnowledgeBaseAssumption ==
    /\ Commands \subseteq {"ingest", "preprocess", "reindex", "delete"}
    /\ Faults \subseteq {"fail", "torn", "race"}
    /\ Reverts \in BOOLEAN
    /\ MaxIds \in Nat

-----------------------------------------------------------------------------
(* tbuk preprocess: extract a file into the cache, whatever is there *)

StartPreprocess(c, p) ==
    /\ pc[c] = "idle"
    /\ file[p] # None
    /\ Goto(c, "text", [NoJob EXCEPT !.cmd = "preprocess", !.path = p, !.sha = file[p]])
    /\ UNCHANGED <<user, disk, db>>

-----------------------------------------------------------------------------
(* tbuk delete *)

StartDelete(c, p) ==
    /\ pc[c] = "idle"
    /\ nextId < MaxIds
    /\ Exists(p)
    /\ Goto(c, "delrow",
            [NoJob EXCEPT !.cmd = "delete", !.path = p, !.id = docs[p].id, !.sha = docs[p].sha])
    /\ UNCHANGED <<user, disk, db>>

\* The chunks go with the row; the raw copy stays.
DeleteRow(c) ==
    /\ pc[c] = "delrow"
    /\ docs' = IF Alive(c) THEN [docs EXCEPT ![job[c].path] = NoRow] ELSE docs
    /\ IF job[c].sha = None THEN End(c) ELSE Goto(c, "delcache", job[c])
    /\ UNCHANGED <<user, disk, nextId>>

RemoveCache(c) ==
    /\ pc[c] = "delcache"
    /\ cache' = [cache EXCEPT ![job[c].sha] = NoCopy]
    /\ older' = [older EXCEPT ![job[c].sha] = NoCopy]
    /\ End(c)
    /\ UNCHANGED <<user, db, raw>>

-----------------------------------------------------------------------------
(* The user and the machine *)

CanEdit == AllIdle \/ "race" \in Faults

Edit(p, content) ==
    /\ CanEdit
    /\ content # file[p]
    /\ Reverts \/ content \notin seen
    /\ file' = [file EXCEPT ![p] = content]
    /\ seen' = seen \cup {content}
    /\ UNCHANGED <<disk, db, config, pc, job>>

Remove(p) ==
    /\ CanEdit
    /\ file[p] # None
    /\ file' = [file EXCEPT ![p] = None]
    /\ UNCHANGED <<disk, db, config, pc, job, seen>>

\* A build with another ExtractorVersion: every cached text becomes older.
UpgradeExtractor ==
    /\ AllIdle
    /\ older' = [c \in Contents |-> IF Present(cache[c]) THEN cache[c] ELSE older[c]]
    /\ cache' = [c \in Contents |-> NoCopy]
    /\ UNCHANGED <<user, db, raw, pc, job>>

ClearCache ==
    /\ AllIdle
    /\ cache' = [c \in Contents |-> NoCopy]
    /\ older' = [c \in Contents |-> NoCopy]
    /\ UNCHANGED <<user, db, raw, pc, job>>

\* A command reads the configuration once, as it starts.
Reconfigure(d) ==
    /\ AllIdle
    /\ d # config
    /\ config' = d
    /\ UNCHANGED <<disk, db, file, pc, job, seen>>

-----------------------------------------------------------------------------
StartCommand(c) ==
    \/ /\ "ingest" \in Commands
       /\ \E p \in Paths, noRaw \in NoRaw, force \in Forced : StartIngest(c, p, noRaw, force)
    \/ "preprocess" \in Commands /\ \E p \in Paths : StartPreprocess(c, p)
    \/ "reindex" \in Commands /\ StartReindex(c)
    \/ "delete" \in Commands /\ \E p \in Paths : StartDelete(c, p)

CommandStep(c) ==
    IngestStep(c) \/ ReindexStep(c) \/ DeleteRow(c) \/ RemoveCache(c)

Fault(c) ==
    /\ (IF pc[c] = "caching" THEN "torn" ELSE "fail") \in Faults
    /\ Abandon(c)

User ==
    \/ \E p \in Paths : Remove(p) \/ \E content \in Contents : Edit(p, content)
    \/ UpgradeExtractor
    \/ ClearCache
    \/ \E d \in Dims : Reconfigure(d)

Next == User \/ \E c \in Procs : StartCommand(c) \/ CommandStep(c) \/ Fault(c)

Spec == Init /\ [][Next]_vars

\* A running command takes its next step, the machine's faults come to an
\* end, and a user whose file is not indexed runs tbuk update on it again.
Fairness ==
    /\ <>[][\A c \in Procs : ~Fault(c)]_vars
    /\ \A c \in Procs :
        /\ WF_vars(CommandStep(c))
        /\ \A p \in Paths : SF_vars(StartIngest(c, p, FALSE, FALSE))

FairSpec == Spec /\ Fairness

-----------------------------------------------------------------------------
\* A document whose hash is recorded has had its chunks stored: the hash is
\* written last, so an ingest that failed is retried and never skipped
\* (ingester.go:183-189).
RecordedMeansStored ==
    \A p \in Paths : docs[p].sha # None => Present(docs[p].text)

\* No file under a content-addressed name of the archive is truncated, at
\* whatever step a command stopped (ingester.go:439-442).
ArchiveIsWhole == \A c \in Contents : Present(raw[c]) => raw[c].whole

\* A row that names an archived copy names one that is there: the copy is
\* made before anything of the document is written (ingester.go:134-136).
ArchivedBeforeIndexed ==
    \A p \in Paths : docs[p].raw # None => Present(raw[docs[p].raw])

\* A copy in the archive or the cache holds the content it is named after.
ContentAddressed ==
    \A c \in Contents : \A copy \in {raw[c], cache[c], older[c]} :
        Present(copy) => copy.of = c

\* The recorded archive location is the copy of the recorded content.
RecordedCopyIsCurrent ==
    \A p \in Paths : docs[p].sha # None /\ docs[p].raw # None => docs[p].raw = docs[p].sha

\* Whatever ingest would skip as unchanged is indexed from its present text
\* (ingester.go:183-189, 214-215).
SkipMeansIndexed ==
    \A p \in Paths : file[p] # None /\ docs[p].sha = file[p] => docs[p].text = Whole(file[p])

DimsUniform == Cardinality(StoredDims(0)) <= 1

\* Only reindex can mix dimensions: a step of an ingest or a delete leaves the
\* vectors all of one, or brings in no dimension that is not stored.  So a
\* uniform knowledge base stays uniform, and none makes a mixed one worse
\* (ingester.go:157-160).
IngestKeepsUniform ==
    [][(\A c \in Procs : job[c].cmd # "reindex")
           => DimsUniform' \/ StoredDims(0)' \subseteq StoredDims(0)]_vars

\* A reindex that skipped nothing and met no error leaves every stored vector
\* at the dimension it started with (reindex.go:99-101).
ReindexRepairs ==
    [][\A c \in Procs : job[c].cmd = "reindex" /\ pc[c] = "next" /\ job[c].clean
                          /\ job[c].todo = {}
           => StoredDims(0) \subseteq {job[c].dim}]_vars

\* Replacing the chunks is atomic and late: a failed re-ingest or reindex
\* never empties the index of a document that had one (ingester.go:203-205).
IndexNeverLost ==
    [][\A p \in Paths : Present(docs[p].text) /\ docs'[p].id = docs[p].id
           => Present(docs'[p].text)]_vars

\* Whatever failed before, a file that stops changing and is ingested again
\* ends up indexed from its present text: no failure leaves a row that every
\* later ingest skips (ingester.go:187-189).
EventuallyIndexed ==
    \A p \in Paths :
        []<>(file[p] # None => docs[p].sha = file[p] /\ docs[p].text = Whole(file[p]))
=============================================================================
