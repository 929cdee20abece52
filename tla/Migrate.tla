------------------------------ MODULE Migrate -------------------------------
(***************************************************************************)
(* storage.Open and runMigrations, as two processes reach them with the    *)
(* same database file: SQLite's transactions are the only thing between    *)
(* them, and either may be killed at any point.                            *)
(***************************************************************************)
EXTENDS Naturals, Sequences, SequencesExt

CONSTANTS
    Openers,        \* the processes opening the database
    Migrations,     \* the versions this tbuk carries, in order
    Databases       \* what a file may hold beforehand: the versions recorded, and
                    \* which of them by a build whose schema was not yet this one

ASSUME MigrateAssumption ==
    /\ "free" \notin Openers
    /\ Migrations \in Seq(Nat) /\ Migrations # <<>>
    /\ \A i, j \in 1 .. Len(Migrations) : i < j => Migrations[i] < Migrations[j]
    /\ \A d \in Databases :
        /\ d \in [recorded : SUBSET Nat, old : SUBSET Nat]
        /\ d.old \subseteq d.recorded

VARIABLES
    file,       \* what is committed: versions recorded, schemas applied as this
                \* tbuk has them, and those that came in an older shape
    lock,       \* who holds the write lock, or "free"
    open        \* open[o]: where o's Open is, its transaction

opening == <<file, lock, open>>

Versions == (UNION {d.recorded : d \in Databases}) \cup ToSet(Migrations)
Latest == Migrations[Len(Migrations)]

\* next: the migration in hand; staged: what its transaction has written.
Closed == [at |-> "closed", next |-> 1, staged |-> {}]

MigrateTypeOK ==
    /\ file \in [recorded : SUBSET Versions, applied : SUBSET Versions, old : SUBSET Versions]
    /\ lock \in Openers \cup {"free"}
    /\ open \in [Openers -> [at : {"closed", "bootstrap", "version", "check", "begin",
                                   "record", "commit", "ready", "failed", "killed"},
                             next : 1 .. Len(Migrations) + 1, staged : SUBSET Versions]]
    /\ \A o \in Openers : open[o].staged # {} => lock = o

MigrateInit ==
    /\ \E d \in Databases :
        file = [recorded |-> d.recorded, applied |-> d.recorded \ d.old, old |-> d.old]
    /\ lock = "free"
    /\ open = [o \in Openers |-> Closed]

Goes(o, at) == open' = [open EXCEPT ![o].at = at]
Version(o) == Migrations[open[o].next]

\* Also again, after an Open that came to nothing.
OpenDatabase(o) ==
    /\ open[o].at \in {"closed", "failed", "killed"}
    /\ open' = [open EXCEPT ![o] = [Closed EXCEPT !.at = "bootstrap"]]
    /\ UNCHANGED <<file, lock>>

\* CREATE TABLE IF NOT EXISTS schema_migrations: a write, when there is none.
Bootstrap(o) ==
    /\ open[o].at = "bootstrap"
    /\ lock = "free"
    /\ Goes(o, "version")
    /\ UNCHANGED <<file, lock>>

\* A database of a newer tbuk is refused.
ReadVersion(o) ==
    /\ open[o].at = "version"
    /\ Goes(o, IF \E v \in file.recorded : v > Latest THEN "failed" ELSE "check")
    /\ UNCHANGED <<file, lock>>

CheckApplied(o) ==
    /\ open[o].at = "check"
    /\ IF open[o].next > Len(Migrations) THEN Goes(o, "ready")
       ELSE IF Version(o) \in file.recorded
            THEN open' = [open EXCEPT ![o].next = @ + 1]
            ELSE Goes(o, "begin")
    /\ UNCHANGED <<file, lock>>

\* Mutant: the schema is applied on the connection, not in the transaction.
ApplyAtOnce(o) ==
    /\ open[o].at = "begin"
    /\ lock = "free"
    /\ file' = [file EXCEPT !.applied = @ \cup {Version(o)}]
    /\ Goes(o, "record")
    /\ UNCHANGED lock

\* The transaction and the schema: CREATE ... IF NOT EXISTS writes, and so
\* locks, only when somebody else has not created it meanwhile.
ApplySchema(o) ==
    /\ open[o].at = "begin"
    /\ IF Version(o) \in file.applied
       THEN Goes(o, "record") /\ UNCHANGED lock
       ELSE /\ lock = "free"
            /\ lock' = o
            /\ open' = [open EXCEPT ![o].at = "record", ![o].staged = {Version(o)}]
    /\ UNCHANGED file

\* INSERT of the version, whose primary key the loser of a race violates.
RecordVersion(o) ==
    /\ open[o].at = "record"
    /\ lock \in {"free", o}
    /\ IF Version(o) \in file.recorded
       THEN /\ open' = [open EXCEPT ![o].at = "failed", ![o].staged = {}]
            /\ lock' = "free"
       ELSE /\ Goes(o, "commit")
            /\ lock' = o
    /\ UNCHANGED file

Commit(o) ==
    /\ open[o].at = "commit"
    /\ file' = [file EXCEPT !.recorded = @ \cup {Version(o)}, !.applied = @ \cup open[o].staged]
    /\ lock' = "free"
    /\ open' = [open EXCEPT ![o] = [at |-> "check", next |-> @.next + 1, staged |-> {}]]

\* A query fails, or the busy timeout of five seconds runs out; or the
\* process is killed.  Either way SQLite rolls the transaction back.
Abandon(o, at) ==
    /\ open[o].at \in {"bootstrap", "version", "check", "begin", "record", "commit"}
    /\ open' = [open EXCEPT ![o].at = at, ![o].staged = {}]
    /\ lock' = IF lock = o THEN "free" ELSE lock
    /\ UNCHANGED file

MigrateStep(o) ==
    \/ Bootstrap(o) \/ ReadVersion(o) \/ CheckApplied(o)
    \/ ApplySchema(o) \/ RecordVersion(o) \/ Commit(o)
    \/ Abandon(o, "failed") \/ Abandon(o, "killed")

-----------------------------------------------------------------------------
\* Whoever raced whom and whoever was killed where, a version is recorded
\* exactly when its schema is there: but for those the file came with in an
\* older shape, which no Open brings up to date (migrate.go:30-34).  An Open
\* that returned a database returned one that records every version this tbuk
\* knows and none newer; and it leaves the database of a newer tbuk as it was
\* (migrate.go:19-21, 251-254, 272-275).
SchemaIsRecorded ==
    /\ file.applied = file.recorded \ file.old
    /\ \A o \in Openers : open[o].at = "ready" =>
        /\ ToSet(Migrations) \subseteq file.recorded
        /\ \A v \in file.recorded : v <= Latest
    /\ (\E v \in file.recorded : v > Latest) => \A o \in Openers : open[o].at # "commit"
=============================================================================
