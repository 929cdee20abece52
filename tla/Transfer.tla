------------------------------- MODULE Transfer -------------------------------
(***************************************************************************)
(* tbuk export and tbuk import over the knowledge base of KnowledgeBase:   *)
(* a tar archive of the tables, the raw copies and the prompt templates,   *)
(* written while other commands run, carried to another machine whole or   *)
(* cut short, and imported as often as the user likes.                     *)
(*                                                                         *)
(* An import embeds each document with Ingester.ReindexDocument: it runs   *)
(* the steps of module Reindex over a list of one row, and takes over      *)
(* again where a reindex would go on to the next document.                 *)
(***************************************************************************)
EXTENDS KnowledgeBase, Sequences

CONSTANTS
    Templates,      \* names of prompt templates
    BuiltinText,    \* what those hold that tbuk init installs
    Policies,       \* the values of --on-conflict a user passes
    ImportFaults    \* "embed": a document's text cannot be read or embedded;
                    \* "db": what the embedding writes after its chunks cannot be;
                    \* "row": its row, or metadata of the user's own, cannot be written;
                    \* "stop": Ctrl-C cuts a document short, or the process dies

ASSUME TransferAssumption ==
    /\ Policies \subseteq {"skip", "overwrite"}
    /\ ImportFaults \subseteq {"embed", "db", "row", "stop"}
    /\ Archive
    /\ BuiltinText \in Contents

VARIABLES
    noted,      \* ids of the documents that carry metadata of the user's own
    template,   \* template[t]: the directory installed under name t
    tar,        \* the published archive
    export,     \* the locals of the export under way
    import      \* import[c]: the locals of an import run by c

bundles == <<noted, template, tar, export, import>>
allVars == <<vars, bundles>>

Ext == INSTANCE SequencesExt

\* What an archive holds; blocks is how much of the file is there.
NoTar == [made |-> FALSE, docs |-> [p \in Paths |-> NoRow], noted |-> {},
          raw |-> [n \in Contents |-> NoCopy],
          template |-> [t \in Templates |-> NoCopy], blocks |-> 0]

NoExport == [on |-> FALSE, part |-> 0, left |-> {}, tar |-> NoTar]
NoImport == [on |-> FALSE, policy |-> "skip", raws |-> {}, templates |-> {}, taken |-> {},
             todo |-> {}, doc |-> NoRow, prior |-> NoRow, firstId |-> 1, errs |-> FALSE]

\* The templates tbuk init installs.
Builtin == [t \in Templates |-> Whole(BuiltinText)]

TransferInit ==
    /\ Init
    /\ noted = {}
    \* (To bound the model, templates edited since tbuk init.)
    /\ template \in [Templates -> {Whole(n) : n \in Contents \ {BuiltinText}}]
    /\ tar = NoTar
    /\ export = NoExport
    /\ import = [c \in Procs |-> NoImport]

Importing == \E c \in Procs : import[c].on

-----------------------------------------------------------------------------
(* The archive as a file: one header block and one body block per entry,   *)
(* and two zero blocks at the end.                                         *)

Raws(t) == {n \in Contents : Present(t.raw[n])}

Entries(t) ==
    <<"config", "db">> \o Ext!SetToSeq(Raws(t))
        \o Ext!SetToSeq({n \in Templates : Present(t.template[n])})

FileSize(t) == 2 * Len(Entries(t)) + 2

\* The entries walkHeaders finds with their bodies in the file.
Intact(t) == IF t.blocks \div 2 < Len(Entries(t)) THEN t.blocks \div 2 ELSE Len(Entries(t))

\* Mutant: a clean end of file is the end of the archive.
CheckBodies(t) == Intact(t) < Len(Entries(t)) => t.blocks = 2 * Intact(t)

\* No header without its body, and the two blocks that end an archive.
CheckComplete(t) ==
    /\ Intact(t) < Len(Entries(t)) => t.blocks = 2 * Intact(t)
    /\ t.blocks >= 2 * Intact(t) + 2

\* An archive cut short is only ever refused: the model goes no further then.
CutShort == tar.made /\ tar.blocks < FileSize(tar)

\* The raw copies and templates among the entries the file still holds.
Survives(t, name) == \E i \in 1 .. Intact(t) : Entries(t)[i] = name

-----------------------------------------------------------------------------
(* tbuk export *)

\* Mutant: the directories are read before the database.
DirectoriesFirst == <<"raw", "template", "db">>

\* The order in which Create reads what it archives. (The database with its
\* -wal is one read: no checkpoint comes between their two copies.)
Parts == <<"db", "raw", "template">>

StartExport ==
    /\ ~tar.made /\ ~export.on
    /\ export' = [export EXCEPT !.on = TRUE]
    /\ UNCHANGED <<vars, noted, template, tar, import>>

\* What a walk of the directory would come by, as it begins.
Listing(part) ==
    CASE part = "db" -> {"db"}
      [] part = "raw" -> {n \in Contents : Present(raw[n])}
      [] OTHER -> {t \in Templates : Present(template[t])}

OpenPart ==
    /\ export.on /\ export.left = {} /\ export.part < Len(Parts)
    /\ export' = [export EXCEPT !.part = @ + 1, !.left = Listing(Parts[export.part + 1])]
    /\ UNCHANGED <<vars, noted, template, tar, import>>

\* (A template is one file here: only an import writes templates.)
ReadFile(n) ==
    /\ export.on
    /\ export' = [export EXCEPT !.left = @ \ {n}, !.tar =
          CASE Parts[export.part] = "db" -> [@ EXCEPT !.docs = docs, !.noted = noted]
            [] Parts[export.part] = "raw" -> [@ EXCEPT !.raw[n] = raw[n]]
            [] OTHER -> [@ EXCEPT !.template[n] = template[n]]]
    /\ UNCHANGED <<vars, noted, template, tar, import>>

ReadPart == OpenPart \/ \E n \in export.left : ReadFile(n)

\* Verified, then renamed into place.
Publish ==
    /\ export.on /\ export.left = {} /\ export.part = Len(Parts)
    /\ tar' = [export.tar EXCEPT !.made = TRUE, !.blocks = FileSize(export.tar)]
    /\ CheckComplete(tar')
    /\ export' = NoExport
    /\ UNCHANGED <<vars, noted, template, import>>

\* Whatever stops an export, nothing of it is published.
AbandonExport ==
    /\ export.on
    /\ export' = NoExport
    /\ UNCHANGED <<vars, noted, template, tar, import>>

\* The archive is carried to an empty knowledge base, and may arrive short.
\* (To bound the model, the user there writes one content.)
NewMachine ==
    /\ AllIdle
    /\ tar.made
    /\ tar.blocks = FileSize(tar)
    /\ \E blocks \in 0 .. FileSize(tar) : tar' = [tar EXCEPT !.blocks = blocks]
    /\ template' \in {[t \in Templates |-> NoCopy], Builtin}
    /\ file' = [p \in Paths |-> None]
    /\ seen' = Contents \ {BuiltinText}
    /\ raw' = [n \in Contents |-> NoCopy]
    /\ cache' = [n \in Contents |-> NoCopy]
    /\ older' = [n \in Contents |-> NoCopy]
    /\ docs' = [p \in Paths |-> NoRow]
    /\ nextId' = 1
    /\ noted' = {}
    /\ UNCHANGED <<config, pc, job, export, import>>

-----------------------------------------------------------------------------
(* tbuk import: the archive's files *)

\* The documents an archive lists, each with the name its copy is found by:
\* the recorded one, or the one a copy would have been given.
Offered(t) ==
    {[t.docs[p] EXCEPT !.raw = ArchivedName(t.docs[p])] :
        p \in {q \in Paths : t.docs[q].id # 0}}

PathOf(d) == CHOOSE p \in Paths : tar.docs[p].id = d.id

StartImport(c, policy) ==
    /\ AllIdle
    /\ tar.made
    /\ CheckComplete(tar)
    /\ Survives(tar, "db")
    /\ import' = [import EXCEPT ![c] =
          [NoImport EXCEPT !.on = TRUE, !.policy = policy, !.todo = Offered(tar),
                           !.raws = {n \in Contents : Survives(tar, n)},
                           !.templates = {t \in Templates : Survives(tar, t)},
                           !.firstId = nextId]]
    /\ Goto(c, "unpack", NoJob)
    /\ UNCHANGED <<user, disk, db, noted, template, tar, export>>

\* A copy under the content's name is left alone.
SkipPresent(c) ==
    /\ pc[c] = "unpack"
    /\ \E n \in import[c].raws :
        /\ Present(raw[n])
        /\ import' = [import EXCEPT ![c].raws = @ \ {n}]
    /\ UNCHANGED <<vars, noted, template, tar, export>>

\* Any other is created under its final name, then filled.
CreateRaw(c) ==
    /\ pc[c] = "unpack"
    /\ \E n \in import[c].raws :
        /\ ~Present(raw[n])
        /\ raw' = [raw EXCEPT ![n] = Torn(tar.raw[n].of)]
        /\ Goto(c, "filling", [job[c] EXCEPT !.tmp = n])
    /\ UNCHANGED <<user, cache, older, db, bundles>>

FillRaw(c) ==
    /\ pc[c] = "filling"
    /\ raw' = [raw EXCEPT ![job[c].tmp] = tar.raw[job[c].tmp]]
    /\ import' = [import EXCEPT ![c].raws = @ \ {job[c].tmp}]
    /\ Goto(c, "unpack", NoJob)
    /\ UNCHANGED <<user, cache, older, db, noted, template, tar, export>>

Unpacked(c) ==
    /\ pc[c] = "unpack"
    /\ import[c].raws = {}
    /\ Goto(c, "templates", NoJob)
    /\ UNCHANGED <<user, disk, db, bundles>>

-----------------------------------------------------------------------------
(* tbuk import: the templates, each replaced whole *)

KeepTemplate(c) ==
    /\ pc[c] = "templates"
    /\ import[c].policy = "skip"
    /\ \E t \in import[c].templates :
        /\ Present(template[t])
        /\ import' = [import EXCEPT ![c].templates = @ \ {t}]
    /\ UNCHANGED <<vars, noted, template, tar, export>>

RemoveTemplate(c) ==
    /\ pc[c] = "templates"
    /\ \E t \in import[c].templates :
        /\ Present(template[t]) => import[c].policy = "overwrite"
        /\ template' = [template EXCEPT ![t] = NoCopy]
        /\ import' = [import EXCEPT ![c].templates = @ \ {t}, ![c].taken = {t}]
    /\ Goto(c, "copying", NoJob)
    /\ UNCHANGED <<user, disk, db, noted, tar, export>>

\* A copy that fails half way leaves what it wrote.
CopyTemplate(c) ==
    /\ pc[c] = "copying"
    /\ \E whole \in BOOLEAN, t \in import[c].taken :
        /\ template' = [template EXCEPT ![t] = [tar.template[t] EXCEPT !.whole = whole]]
        /\ import' = [import EXCEPT ![c].taken = {}, ![c].errs = @ \/ ~whole]
    /\ Goto(c, "templates", NoJob)
    /\ UNCHANGED <<user, disk, db, noted, tar, export>>

TemplatesDone(c) ==
    /\ pc[c] = "templates"
    /\ import[c].templates = {}
    /\ Goto(c, "offer", NoJob)
    /\ UNCHANGED <<user, disk, db, bundles>>

-----------------------------------------------------------------------------
(* tbuk import: the documents *)

IsNextOffer(c, d) == d \in import[c].todo /\ \A e \in import[c].todo : d.id <= e.id

\* The row cannot be looked up, or not be written.
OfferFails(c, d) ==
    /\ "row" \in ImportFaults
    /\ pc[c] = "offer"
    /\ IsNextOffer(c, d)
    /\ d.raw # None /\ Survives(tar, d.raw)
    /\ import' = [import EXCEPT ![c].todo = @ \ {d}, ![c].errs = TRUE]
    /\ UNCHANGED <<vars, noted, template, tar, export>>

\* The archive holds no copy, or the document is there and stays.
SkipDocument(c, d) ==
    /\ pc[c] = "offer"
    /\ IsNextOffer(c, d)
    /\ \/ d.raw = None \/ ~Survives(tar, d.raw)
       \/ Exists(PathOf(d)) /\ import[c].policy = "skip"
    /\ import' = [import EXCEPT ![c].todo = @ \ {d}]
    /\ UNCHANGED <<vars, noted, template, tar, export>>

\* Mutant: what is there is replaced whatever the policy.
AlwaysReplace(c, d) ==
    /\ pc[c] = "offer"
    /\ IsNextOffer(c, d)
    /\ d.raw # None /\ Survives(tar, d.raw)
    /\ import' = [import EXCEPT ![c].doc = d, ![c].prior = docs[PathOf(d)]]
    /\ Goto(c, "adopt", NoJob)
    /\ UNCHANGED <<user, disk, db, noted, template, tar, export>>

\* Otherwise the row it replaces is kept aside.
TakeDocument(c, d) ==
    /\ pc[c] = "offer"
    /\ IsNextOffer(c, d)
    /\ d.raw # None /\ Survives(tar, d.raw)
    /\ Exists(PathOf(d)) => import[c].policy = "overwrite"
    /\ import' = [import EXCEPT ![c].doc = d, ![c].prior = docs[PathOf(d)]]
    /\ Goto(c, "adopt", NoJob)
    /\ UNCHANGED <<user, disk, db, noted, template, tar, export>>

\* Mutant: an id is given out again.
AdoptReusingId(c) ==
    /\ pc[c] = "adopt"
    /\ LET d == import[c].doc
           p == PathOf(d)
           new == import[c].prior.id = 0
           id == IF new THEN nextId ELSE import[c].prior.id
       IN  /\ docs' = [docs EXCEPT ![p] =
                 [(IF new THEN NoRow ELSE docs[p]) EXCEPT !.id = id, !.sha = d.sha, !.raw = d.raw]]
           /\ Goto(c, "next", [NoJob EXCEPT
                 !.cmd = "reindex", !.dim = config,
                 !.todo = {[path |-> p, id |-> id, sha |-> d.sha, raw |-> d.raw]}])
    /\ UNCHANGED <<user, disk, nextId, bundles>>

\* The archive's identity becomes the row's, before the chunks are replaced.
Adopt(c) ==
    /\ pc[c] = "adopt"
    /\ LET d == import[c].doc
           p == PathOf(d)
           new == import[c].prior.id = 0
           id == IF new THEN nextId ELSE import[c].prior.id
       IN  /\ docs' = [docs EXCEPT ![p] =
                 [(IF new THEN NoRow ELSE docs[p]) EXCEPT !.id = id, !.sha = d.sha, !.raw = d.raw]]
           /\ nextId' = IF new THEN nextId + 1 ELSE nextId
           /\ Goto(c, "next", [NoJob EXCEPT
                 !.cmd = "reindex", !.dim = config,
                 !.todo = {[path |-> p, id |-> id, sha |-> d.sha, raw |-> d.raw]}])
    /\ UNCHANGED <<user, disk, bundles>>

\* ReindexDocument, up to where a reindex would look for another document.
Embed(c) ==
    /\ import[c].on
    /\ \/ IngestStep(c)
       \/ \E d \in job[c].todo : Locate(c, d) \/ Skip(c, d)
       \/ SetRawPath(c)
    /\ UNCHANGED bundles

\* (Each failure of a new document uses up an id: MaxIds bounds them too.)
EmbedFails(c) ==
    /\ import[c].on
    /\ nextId <= MaxIds
    /\ \/ "embed" \in ImportFaults /\ pc[c] \in {"text", "replace"}
       \/ "db" \in ImportFaults /\ pc[c] = "meta"
    /\ GiveUp(c)
    /\ UNCHANGED <<user, disk, db, bundles>>

Embedding(c) == import[c].on /\ pc[c] = "next" /\ job[c].todo = {}

\* Mutant: a failed document keeps the identity it was given.
NoRollback(c) ==
    /\ Embedding(c) /\ ~job[c].clean
    /\ import' = [import EXCEPT ![c].todo = @ \ {import[c].doc}, ![c].errs = TRUE]
    /\ Goto(c, "offer", NoJob)
    /\ UNCHANGED <<user, disk, db, noted, template, tar, export>>

\* Mutant: the row an import created is not removed when it fails.
RollbackKeepsNew(c) ==
    /\ Embedding(c) /\ ~job[c].clean
    /\ LET p == job[c].path
       IN  docs' = [docs EXCEPT ![p] =
             IF import[c].prior.id = 0 THEN [docs[p] EXCEPT !.sha = None]
             ELSE [docs[p] EXCEPT !.sha = import[c].prior.sha, !.raw = import[c].prior.raw]]
    /\ import' = [import EXCEPT ![c].todo = @ \ {import[c].doc}, ![c].errs = TRUE]
    /\ Goto(c, "offer", NoJob)
    /\ UNCHANGED <<user, disk, nextId, noted, template, tar, export>>

\* A new row goes, an adopted one gets its identity back.
Rollback(c) ==
    /\ Embedding(c) /\ ~job[c].clean
    /\ LET p == job[c].path
       IN  docs' = [docs EXCEPT ![p] =
             IF import[c].prior.id = 0 THEN NoRow
             ELSE [docs[p] EXCEPT !.sha = import[c].prior.sha, !.raw = import[c].prior.raw]]
    /\ import' = [import EXCEPT ![c].todo = @ \ {import[c].doc}, ![c].errs = TRUE]
    /\ Goto(c, "offer", NoJob)
    /\ UNCHANGED <<user, disk, nextId, noted, template, tar, export>>

\* The user's metadata, last.
WriteMetadata(c) ==
    /\ Embedding(c) /\ job[c].clean
    /\ noted' = IF import[c].doc.id \in tar.noted THEN noted \cup {job[c].id} ELSE noted
    /\ import' = [import EXCEPT ![c].todo = @ \ {import[c].doc}]
    /\ Goto(c, "offer", NoJob)
    /\ UNCHANGED <<user, disk, db, template, tar, export>>

\* It cannot be written: the document stays all the same, with an error.
MetadataFails(c) ==
    /\ "row" \in ImportFaults
    /\ Embedding(c) /\ job[c].clean
    /\ import' = [import EXCEPT ![c].todo = @ \ {import[c].doc}, ![c].errs = TRUE]
    /\ Goto(c, "offer", NoJob)
    /\ UNCHANGED <<user, disk, db, noted, template, tar, export>>

EndImport(c) ==
    /\ import' = [import EXCEPT ![c] = NoImport]
    /\ End(c)
    /\ UNCHANGED <<user, disk, db, noted, template, tar, export>>

FinishImport(c) ==
    /\ pc[c] = "offer"
    /\ import[c].todo = {}
    /\ EndImport(c)

\* Ctrl-C, noticed before a document: the rest is left, and nothing counts
\* that as an error.
BreakOff(c) ==
    /\ pc[c] = "offer"
    /\ import[c].todo # {}
    /\ EndImport(c)

\* The import fails as a whole, or dies, while it unpacks: between two files.
\* With "stop" anywhere: Ctrl-C cancels the context a rollback would need, and
\* a process that dies rolls nothing back.
Stop(c) ==
    /\ import[c].on
    /\ "stop" \in ImportFaults \/ pc[c] \in {"unpack", "templates", "copying"}
    /\ EndImport(c)

ImportStep(c) ==
    \/ SkipPresent(c) \/ CreateRaw(c) \/ FillRaw(c) \/ Unpacked(c)
    \/ KeepTemplate(c) \/ RemoveTemplate(c) \/ CopyTemplate(c) \/ TemplatesDone(c)
    \/ \E d \in import[c].todo : SkipDocument(c, d) \/ TakeDocument(c, d)
    \/ Adopt(c) \/ Embed(c)
    \/ Rollback(c) \/ WriteMetadata(c) \/ FinishImport(c)

-----------------------------------------------------------------------------
\* tbuk meta set.
SetMetadata(p) ==
    /\ AllIdle
    /\ ~tar.made
    /\ Exists(p)
    /\ noted' = noted \cup {docs[p].id}
    /\ UNCHANGED <<vars, template, tar, export, import>>

\* One command writes at a time, and an export may run beside an ingest or a
\* delete: what two writers do to each other is in module KnowledgeBase.
LocalCommand(c) ==
    /\ ~Importing /\ ~CutShort
    /\ \/ AllIdle /\ StartCommand(c)
       \/ CommandStep(c)
    /\ UNCHANGED bundles

UserEdits ==
    /\ ~Importing /\ ~CutShort
    /\ \E p \in Paths, content \in Contents : Edit(p, content)
    /\ UNCHANGED bundles

TransferNext ==
    \/ UserEdits
    \/ NewMachine
    \/ StartExport \/ ReadPart \/ Publish \/ AbandonExport
    \/ \E p \in Paths : SetMetadata(p)
    \/ \E c \in Procs :
        \/ LocalCommand(c)
        \/ \E policy \in Policies : StartImport(c, policy)
        \/ ImportStep(c)
        \/ EmbedFails(c) \/ MetadataFails(c) \/ BreakOff(c) \/ Stop(c)
        \/ \E d \in import[c].todo : OfferFails(c, d)

TransferSpec == TransferInit /\ [][TransferNext]_allVars

\* A running import takes its next step, its failures and its interruptions
\* come to an end, and the user imports the archive again.
ImportFairness ==
    /\ <>[][\A c \in Procs :
            /\ ~EmbedFails(c) /\ ~BreakOff(c) /\ ~Stop(c)
            /\ \A d \in import[c].todo : ~OfferFails(c, d)]_allVars
    /\ \A c \in Procs :
        /\ WF_allVars(ImportStep(c))
        /\ WF_allVars(LocalCommand(c) /\ pc[c] # "idle")
        /\ SF_allVars(StartImport(c, "skip"))

FairTransferSpec == TransferSpec /\ ImportFairness

-----------------------------------------------------------------------------
TransferTypeOK ==
    /\ docs \in [Paths -> Row]
    /\ raw \in [Contents -> Copy]
    /\ noted \subseteq 1 .. nextId - 1
    /\ template \in [Templates -> Copy]
    /\ tar.docs \in [Paths -> Row] /\ tar.raw \in [Contents -> Copy]
    /\ \A c \in Procs : import[c].doc \in Row /\ import[c].prior \in Row

\* Every document an exported archive lists with a copy has that copy, whole,
\* in the archive, whatever ran beside the export: the database is read before
\* the raw copies (export.go:51-59), and import can bring it all back.
ExportCarriesCopies ==
    tar.made => \A p \in Paths :
        tar.docs[p].raw # None => tar.raw[tar.docs[p].raw] = Whole(tar.docs[p].raw)

\* Between commands a recorded hash stands beside the chunks of that content:
\* a document that failed to embed has given back the identity it had adopted
\* (import.go:568-571, 666-672).
IdentityIsIndexed ==
    AllIdle => \A p \in Paths : docs[p].sha # None => docs[p].text = Whole(docs[p].sha)

\* What Done with no error means (import.go:285-309): of every document of the
\* archive that has a copy, and that the import came to, the row is here and
\* indexed; those it replaced or created are indexed from the archive's bytes,
\* with the user's metadata. An import that ran to its end came to them all.
\* One broken off by Ctrl-C reports no error either, although the documents it
\* had yet to come to are not here (import.go:527-529): those it says nothing of.
Brought(d, p, policy, firstId) ==
    /\ Exists(p) /\ Present(docs[p].text)
    /\ policy = "overwrite" \/ docs[p].id >= firstId =>
        /\ docs[p].sha = d.sha /\ docs[p].text = tar.raw[d.raw]
        /\ d.id \in tar.noted => docs[p].id \in noted
CleanImportDelivers ==
    [][\A c \in Procs : (FinishImport(c) \/ BreakOff(c)) /\ ~import[c].errs =>
        \A d \in Offered(tar) \ import[c].todo : d.raw # None /\ Present(tar.raw[d.raw]) =>
            Brought(d, PathOf(d), import[c].policy, import[c].firstId)]_allVars

\* Importing again what is already here changes nothing: under the default
\* policy no step of an import touches a row, a raw copy or a template that
\* was there when it started (import.go:126-128).
SkipChangesNothing ==
    [][\A c \in Procs : import[c].on /\ import[c].policy = "skip" =>
        /\ \A p \in Paths : docs[p].id \in 1 .. import[c].firstId - 1 => docs'[p] = docs[p]
        /\ \A n \in Contents : Present(raw[n]) /\ pc[c] # "filling" => raw'[n] = raw[n]
        /\ \A t \in Templates : Present(template[t]) => template'[t] = template[t]]_allVars

\* However often documents fail to embed, an archive that arrived whole and is
\* imported again ends up here: no failed import leaves a row that every later
\* one takes for "already indexed" (import.go:568-570).
EventuallyImported ==
    []<>(tar.made /\ CheckComplete(tar) =>
            \A d \in Offered(tar) : d.raw # None /\ Present(tar.raw[d.raw]) =>
                Exists(PathOf(d)) /\ Present(docs[PathOf(d)].text))

\* Nothing half-imported is left: no row has the archive's hash and no chunks
\* (import.go:568-570).
NothingHalfImported ==
    AllIdle => \A p \in Paths : docs[p].sha # None => Present(docs[p].text)
===============================================================================
