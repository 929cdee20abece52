------------------------------- MODULE Store -------------------------------
(***************************************************************************)
(* The state one knowledge base keeps on disk, shared by every command:    *)
(* the user's files, the raw archive (~/.tbuk/raw), the extracted-text     *)
(* cache (~/.tbuk/extracted), and the documents and chunks tables.         *)
(*                                                                         *)
(* A content stands for a file's bytes, for their SHA-256 (no collisions)  *)
(* and for the text extracted from them.  A stored copy is a record        *)
(* [of, whole]: the content it holds and whether the write that made it    *)
(* ran to its end.  The chunks of a document are the copy they were split  *)
(* from and the dimension of their vectors, 0 when there are none.         *)
(***************************************************************************)
EXTENDS Naturals, FiniteSets

CONSTANTS
    Procs,      \* running tbuk commands
    Paths,      \* normalised paths of source files
    Contents,   \* what a file can hold
    Blank,      \* the contents whose extracted text has no chunk
    Dims,       \* dimensions the embedding configuration can produce
    None        \* no content, no name, no path

ASSUME StoreAssumption ==
    /\ Blank \subseteq Contents
    /\ Dims \subseteq Nat \ {0}
    /\ None \notin Contents
    /\ None \notin Paths

VARIABLES
    file,       \* file[p]: the content at path p, None when there is no file
    seen,       \* the contents any file has had
    config,     \* the dimension the configured embedder produces
    raw,        \* raw[c]: the archived copy named after content c
    cache,      \* cache[c]: text cached under c by this extractor version
    older,      \* older[c]: text cached under c by an earlier version
    docs,       \* docs[p]: the documents row of path p with its chunks
    nextId,     \* the next AUTOINCREMENT id of the documents table
    pc,         \* pc[c]: the next step of command c
    job         \* job[c]: the local variables of command c

user == <<file, seen, config>>
disk == <<raw, cache, older>>
db   == <<docs, nextId>>
vars == <<user, disk, db, pc, job>>

Name == Contents \cup {None}

Copy == [of : Name, whole : BOOLEAN]
NoCopy == [of |-> None, whole |-> FALSE]
Whole(c) == [of |-> c, whole |-> TRUE]
Torn(c)  == [of |-> c, whole |-> FALSE]
Present(copy) == copy.of # None

\* A documents row; id 0 means the table has no row for the path.
Row == [id : Nat, sha : Name, raw : Name, text : Copy, dim : Dims \cup {0}]
NoRow == [id |-> 0, sha |-> None, raw |-> None, text |-> NoCopy, dim |-> 0]
Exists(p) == docs[p].id # 0

\* Mutant: rows are found by path, whichever row that is by now.
AliveByPath(c) == Exists(job[c].path)

\* The row a command loaded is still there: ids are never used twice.
Alive(c) == Exists(job[c].path) /\ docs[job[c].path].id = job[c].id

\* A row as DocumentRepo.List loads it.
Loaded == [path : Paths, id : Nat, sha : Name, raw : Name]
Load(p) == [path |-> p, id |-> docs[p].id, sha |-> docs[p].sha, raw |-> docs[p].raw]

Job == [cmd : {"none", "ingest", "preprocess", "reindex", "delete"},
        path : Paths \cup {None}, id : Nat, sha : Name, raw : Name, tmp : Name, src : {"live", "raw", "cache"},
        text : Copy, dim : Dims \cup {0}, todo : SUBSET Loaded, clean : BOOLEAN]
NoJob == [cmd |-> "none", path |-> None, id |-> 0, sha |-> None, raw |-> None,
          tmp |-> None, src |-> "live", text |-> NoCopy, dim |-> 0,
          todo |-> {}, clean |-> TRUE]

Step == {"idle", "archive", "rename", "text", "write", "caching", "guard",
         "create", "replace", "meta", "commit", "next", "setraw", "delrow", "delcache"}

\* The steps that write to a row hold the id the database gave it.
RowStep(step) == step \in {"replace", "meta", "commit", "setraw", "delrow"}

TypeOK ==
    /\ file \in [Paths -> Name]
    /\ seen \subseteq Contents
    /\ config \in Dims
    /\ raw \in [Contents -> Copy]
    /\ cache \in [Contents -> Copy]
    /\ older \in [Contents -> Copy]
    /\ docs \in [Paths -> Row]
    /\ nextId \in Nat \ {0}
    /\ pc \in [Procs -> Step]
    /\ job \in [Procs -> Job]
    /\ \A c \in Procs : RowStep(pc[c]) => job[c].id \in 1 .. nextId - 1

Init ==
    /\ file = [p \in Paths |-> None]
    /\ seen = {}
    /\ config \in Dims
    /\ raw = [c \in Contents |-> NoCopy]
    /\ cache = [c \in Contents |-> NoCopy]
    /\ older = [c \in Contents |-> NoCopy]
    /\ docs = [p \in Paths |-> NoRow]
    /\ nextId = 1
    /\ pc = [c \in Procs |-> "idle"]
    /\ job = [c \in Procs |-> NoJob]

-----------------------------------------------------------------------------
(* Moves of a command's program counter. *)

AllIdle == \A c \in Procs : pc[c] = "idle"

\* The next step of command c is `to' and its locals are j.
Goto(c, to, j) ==
    /\ pc' = [pc EXCEPT ![c] = to]
    /\ job' = [job EXCEPT ![c] = j]

\* The command returns.
End(c) == Goto(c, "idle", NoJob)

\* Mutant: reindex does not count the document it failed on.
GiveUpSilently(c) ==
    IF job[c].cmd = "reindex" THEN Goto(c, "next", job[c]) ELSE End(c)

\* An error return: ingest and delete end there; reindex records the error
\* and carries on with the next document.
GiveUp(c) ==
    IF job[c].cmd = "reindex"
    THEN Goto(c, "next", [job[c] EXCEPT !.clean = FALSE])
    ELSE End(c)

\* The dimension of the chunks command c is about to store.
NewDim(c) == IF job[c].text.of \in Blank THEN 0 ELSE job[c].dim

\* EmbeddingDimension(excludeID): the distinct dimensions stored for every
\* document but the one with that id (ids start at 1, so 0 excludes none).
StoredDims(exclude) ==
    {docs[p].dim : p \in {q \in Paths : Exists(q) /\ docs[q].id # exclude}} \ {0}
=============================================================================
