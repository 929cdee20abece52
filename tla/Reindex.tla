------------------------------- MODULE Reindex -------------------------------
(***************************************************************************)
(* tbuk reindex: every document's text is read back from the extracted-    *)
(* text cache, the raw archive or its live file, and its chunks replaced.  *)
(* The rows are listed once, at the start; neither the hash nor the        *)
(* stored dimension is compared with anything.                             *)
(***************************************************************************)
EXTENDS Ingest

StartReindex(c) ==
    /\ pc[c] = "idle"
    /\ Goto(c, "next",
            [NoJob EXCEPT !.cmd = "reindex", !.dim = config,
                          !.todo = {Load(p) : p \in {q \in Paths : Exists(q)}}])
    /\ UNCHANGED <<user, disk, db>>

\* The name resolveSource looks for in the archive: the recorded one, or for
\* a row that records none, the one a copy would have been given.
ArchivedName(d) == IF d.raw # None THEN d.raw ELSE d.sha

InArchive(d) == Archive /\ ArchivedName(d) # None /\ Present(raw[ArchivedName(d)])

HasSource(d) == InArchive(d) \/ file[d.path] # None

CachedText(d) == d.sha # None /\ Present(cache[d.sha])

StaleText(d) == d.sha # None /\ Present(older[d.sha])

\* Documents are taken in id order.
IsNext(c, d) == d \in job[c].todo /\ \A e \in job[c].todo : d.id <= e.id

\* Mutant: the live file is preferred to the archived copy.
TakeLiveFirst(c, d) ==
    [job[c] EXCEPT
        !.path = d.path, !.id = d.id, !.sha = d.sha,
        !.raw = IF InArchive(d) THEN ArchivedName(d) ELSE d.raw,
        !.todo = job[c].todo \ {d},
        !.src = IF CachedText(d) \/ ~HasSource(d) THEN "cache"
                ELSE IF file[d.path] # None THEN "live" ELSE "raw",
        !.text = IF CachedText(d) THEN cache[d.sha]
                 ELSE IF HasSource(d) \/ d.sha = None THEN NoCopy ELSE older[d.sha]]

\* The locals of ReindexDocument(d) once its text is known or located.
Take(c, d) ==
    [job[c] EXCEPT
        !.path = d.path, !.id = d.id, !.sha = d.sha,
        !.raw = IF InArchive(d) THEN ArchivedName(d) ELSE d.raw,
        !.todo = job[c].todo \ {d},
        !.src = IF CachedText(d) \/ ~HasSource(d) THEN "cache"
                ELSE IF InArchive(d) THEN "raw" ELSE "live",
        !.text = IF CachedText(d) THEN cache[d.sha]
                 ELSE IF HasSource(d) \/ d.sha = None THEN NoCopy ELSE older[d.sha]]

\* Where ReindexDocument goes once the archive's location is recorded.
AfterLocate(j) == IF j.src = "cache" THEN "replace" ELSE "text"

Locate(c, d) ==
    /\ pc[c] = "next"
    /\ IsNext(c, d)
    /\ CachedText(d) \/ HasSource(d) \/ StaleText(d)
    /\ LET j == Take(c, d)
       IN  Goto(c, IF InArchive(d) /\ ArchivedName(d) # d.raw
                           THEN "setraw" ELSE AfterLocate(j), j)
    /\ UNCHANGED <<user, disk, db>>

\* ErrSourceUnavailable: the document is left untouched and the run goes on.
Skip(c, d) ==
    /\ pc[c] = "next"
    /\ IsNext(c, d)
    /\ ~(CachedText(d) \/ HasSource(d) \/ StaleText(d))
    /\ Goto(c, "next",
            [job[c] EXCEPT !.todo = job[c].todo \ {d}, !.clean = FALSE])
    /\ UNCHANGED <<user, disk, db>>

SetRawPath(c) ==
    /\ pc[c] = "setraw"
    /\ Goto(c, AfterLocate(job[c]), job[c])
    /\ docs' = IF Alive(c) THEN [docs EXCEPT ![job[c].path].raw = job[c].raw] ELSE docs
    /\ UNCHANGED <<user, disk, nextId>>

FinishReindex(c) ==
    /\ pc[c] = "next"
    /\ job[c].todo = {}
    /\ End(c)
    /\ UNCHANGED <<user, disk, db>>

ReindexStep(c) ==
    \/ \E d \in job[c].todo : Locate(c, d) \/ Skip(c, d)
    \/ SetRawPath(c)
    \/ FinishReindex(c)
=============================================================================
