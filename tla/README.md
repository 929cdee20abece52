# A verification project for timbuktu (`tbuk`)

`tbuk` keeps a personal knowledge base: it ingests files, splits and embeds their text, and answers
questions over it. This directory holds TLA+ models of its stateful parts, the TLC configurations that
check them on small instances, and TLAPS proofs of what matters most. Paths such as `ingester.go:206`
are relative to the package named in the text, under `src/internal/`.

    tlc -workers 2 -config kb_single.cfg MCKnowledge      # one run
    tlapm KnowledgeBaseProofs.tla                          # one set of proofs

## 1. Inventory

| Part | State it keeps | Operations | What is hard | What makes it correct |
|---|---|---|---|---|
| **ingest** (`ingest/ingester.go`, `cli/ingest.go`, `update.go`) | nothing of its own; writes archive, cache, documents, chunks | `IngestFile`: hash, skip, archive, extract, embed, guard, create, replace, metadata, commit | a stop at any step; the file changing under it; a second command | what is skipped as unchanged is indexed from that content; a recorded hash means stored chunks |
| **raw archive** (`~/.tbuk/raw`) | copies named by hash | `copySourceToRaw`, trusted by name | crash during the copy | a name never holds a partial or a foreign copy |
| **extracted-text cache** (`~/.tbuk/extracted`) | text by hash and extractor version | written by ingest, reindex, `preprocess`; removed by `delete` | non-atomic write; version upgrades | as the archive |
| **embedding pool** (`embedChunks`) | results per batch, first error, wait group, semaphore | start, call, fail, cancel, join | goroutine interleavings, cancellation | every vector or none; bounded concurrency; it ends |
| **reindex** (`ingest/reindex.go`) | the rows listed at the start | locate a source, set `raw_path`, replace | one document failing; stale rows; mixed dimensions | nothing lost; a clean run leaves one dimension |
| **delete** (`cli/delete.go`) | – | row, then cache file | stop in between; content shared by two documents | no other row is touched |
| **storage** (`storage/*.go`) | SQLite tables with AUTOINCREMENT ids, UNIQUE paths and names, cascades, FTS triggers | repositories, migrations | two processes on one file | each transaction all or nothing |
| **conversation threads** (`storage/session.go`, `cli/chat.go`, `cli/session.go`, `openThread` in `cli/ask.go`) | sessions, turns; the chat's thread in memory | open, append, prune, replay, rename, delete | concurrent asks, threads deleted under a chat | each thread is a log pruned at its old end |
| **ask** (`cli/ask.go`) | – | plan, retrieve, fit to the window, stream, record | overflow ladder, streams cut short | no half answer recorded; the newest turns and best chunks survive |
| **providers** (`llm/`, `embeddings/`) | an HTTP body and a channel each | stream tokens; retry | abandoned consumers, timeouts, clean early EOF | the goroutine ends; retries are bounded |
| **export / import** (`export/`, `importer/`, `cli/import.go`) | a tar archive; files and rows it brings | create, verify, extract, adopt, rollback | stops between extracting, adopting and embedding | an import can be repeated until it is complete |
| **search, retrieval, query planning** (`search/`, `retrieval/`, `rewrite/`) | – | rank, exclude, fuse, condense, expand | ties, empty plans, deadlines | deterministic order; a fallback for every failure |
| **chunking, squeeze, normalize, searchtext, preprocess extractors** | – | pure text functions | boundaries | coverage, progress |
| **evaluation** (`eval/`, `cli/eval.go`) | – | plan, retrieve, answer, judge and score each case; report; repeat | one case failing among many, numbers with nothing behind them | an outage is never a score; each rate is over what earned it |
| **config, prompts, templates, doctor, list, stats, meta, scripts** | files | load, validate, print | – | – |

The commands do not talk to each other: they share the file system and one SQLite database, in WAL mode
and with a busy timeout, so every interaction is an interleaving of file operations and committed
transactions. Within a command the only concurrency is the embedding pool and the provider's streaming
goroutine. Ctrl-C cancels a context (`cli/root.go`); a crash is always possible.

## 2. Modules

| Module | Models | Uses |
|---|---|---|
| `Store` | the shared state: files, archive, cache, documents with their chunks, and each command's program counter and locals | – |
| `Ingest` | `IngestFile` step by step, and the steps it shares with reindex | `Store` |
| `Reindex` | `ReindexAll`, `ReindexDocument` | `Ingest` |
| `KnowledgeBase` | all commands on the index, `preprocess` and `delete` included, with the user, faults, fairness and the properties | `Reindex` |
| `Transfer` | `tbuk export` and `tbuk import` over the same state: the archive part by part, unpacking, templates, adopting, embedding, rollback | `KnowledgeBase` |
| `EmbedAll` | what embedding promises: every vector and then the store, or a failure | – |
| `EmbedPool` | `embedChunks` and its caller; refines `EmbedAll` | `EmbedAll` |
| `ThreadLog` | what threads promise: logs that grow at one end and are pruned at the other | – |
| `Sessions` | threads, and the commands that share them; refines `ThreadLog` | `ThreadLog` |
| `Stream` | `LLM.Chat` of the providers: the request, the reading goroutine, its unbuffered channel, cancellation | – |
| `Ordering` | sorting a set and filtering a sequence, by the place each member takes | – |
| `Planner` | `rewrite`: window, condense, expand, with fallbacks and deadlines | `Stream`, `Ordering` |
| `FitContext` | the ladder of `fitToContext`, and the declarative "best prompt that fits" | – |
| `Retry` | `doWithRetry` under the embedding clients | – |
| `Search` | vector, keyword and hybrid search over a corpus that changes between their queries; `FuseRRF` | `Retry`, `Ordering` |
| `Ask` | `RunAsk`, from the plan to the recorded turn | `Planner`, `FitContext`, `Search` |
| `Chunker` | `Chunker.Split`, its token budgets, boundaries and overlap | – |
| `Migrate` | `storage.Open` by several processes at once | – |
| `Eval` | `tbuk eval`: the cases planned, retrieved, answered and judged; their scores; the report; repeated runs | `Stream`, `Ordering` |
| `Command` | one run of the program: the open, then an ask, a search, an evaluation or a split, with Ctrl-C and other processes | `Ask`, `Chunker`, `Eval`, `Migrate` |
| `SharedLemmas` | least elements, functions defined along an interval, what `Ordering` returns | `Ordering`, `TLAPS` |
| `KnowledgeBaseProofs`, `IndexProofs` | the proofs about the index: for any commands, and under the conditions of section 3 | `KnowledgeBase` |
| `TransferProofs` | the proofs about export and import | `Transfer`, `IndexProofs` |
| `EmbedPoolProofs`, `SessionsProofs`, `ChunkerProofs` | the proofs about the pool, the threads and the split | the module named |
| `CommandProofs` | the proofs about one run of the program, opens, retries and splits included | `Command`, `ChunkerProofs` |
| `MCKnowledge`, `MCTransfer`, `MCEmbedPool`, `MCSessions`, `MCCommand` | small instances for TLC | the above |

### How state and actions correspond to the code

**The index.** *A content* stands for a file's bytes, their SHA-256 and their extracted text at once (no
collisions). A stored copy is `[of, whole]`: which content, and whether the write that made it ran to the end. A
documents row is `[id, sha, raw, text, dim]`; its chunks are represented by the copy they were split from and
the dimension of their vectors. Every read or write of shared state is an action of its own, so commands
interleave exactly where the code touches files or the database, with one exception: `StartIngest` hashes the
file (`ingester.go:121`) and looks its row up (126) in one step. Apart, the two would differ only where a file
changes between them, which needs `"race"`, *and* a second process writes its row there; no run allows both,
and the theorems take the step as it is.
Chunking and embedding, which touch neither files nor the database, are folded into the following step, and
`embedChunks` is modelled on its own in `EmbedPool`. `job[c]` holds the locals of command `c`: the row as it was
loaded, the hash taken at the start, the temporary file, the text.

`Abandon` is any early return that is not a condition of the model: a failed read or write, a provider
error, Ctrl-C, a crash. It leaves what was written and drops the locals. In a reindex it may also move on
to the next document, as `ReindexDocuments` does. A documents row is looked up by the id the command
loaded (`Alive`): `Update` on a row that has gone affects nothing and reports no error, an insert of
chunks for it fails on the foreign key. The modelled schema gives ids out once.

The user edits and removes files, clears the cache, upgrades the binary (a new extractor version, which
moves each cached text to `older`) and changes `embedding.dimension`. Those happen between commands;
files also change during commands when `Faults` contains `"race"`.

**Export and import.** `Transfer` adds the archive `tar` to that state, with the part of it that arrived
(`blocks`: a header and a body per entry, and two blocks at the end), the locals of an export and of an import.
An export comes to the database, the raw copies and the templates in turn (`Parts`): `OpenPart` is the listing a
walk begins with, `ReadFile` takes one file of it, in any order, and other commands run in between. It may be
given up anywhere (`AbandonExport`), and only `Publish` makes an archive. The database and its `-wal` are one read:
that no checkpoint moves pages from one to the other between their two copies is assumed.
`NewMachine` carries the archive to an empty knowledge base, whole or cut short at any block. An import runs
the very steps of `Reindex` over a list of one row for each document (`Embed`), because the code calls
`ReindexDocument`; `Rollback` and `WriteMetadata` take over where a reindex would look for the next document.
An import may fail to look a row up or to write it (`OfferFails`), to embed (`EmbedFails`) and to write the user's
metadata (`MetadataFails`, which keeps the document); each counts an error and goes on to the next document.
It ends in three ways: `FinishImport` came to every document; `BreakOff` is Ctrl-C noticed before one
(`import.go:527-529`), where the code stops, reports what it counted, and returns no error of its own; `Stop` is
everything else: a failure while unpacking, Ctrl-C inside a document, or a crash. There nothing is rolled back, since
the rollback would need the context that is gone, or the process that is.

**The pool.** `EmbedPool` has one action per blocking point of `embedChunks`: the context check, the semaphore,
the spawn, the worker's own context check, the call with its two outcomes, the deferred release and `Done`,
and the caller's wait. `EmbedOK` and `EmbedFail` include the writes under the mutex and the cancellation.

**Threads.** `Sessions` has one action per SQL statement, and `AppendTurn` two, since its transaction begins
deferred: the read of `MAX(turn_index)` takes a snapshot, and SQLite refuses the insert when any commit came in
between (`stale`). The insert also checks the foreign key and the unique index. A chat keeps its thread by
id, with the turns it will replay; an error in a chat returns to the prompt with both unchanged.

**An ask.** `call[c]` is the goroutine of one model call (condense, expand, answer) with the token it is
sending, how its stream ended and whether its context is done. The channel is unbuffered, so a receive is one
step of both sides (`Received`), and `Yield` is `sendToken` giving up because the context is done: which of the
two a `select` takes when both are ready is left open. The provider may answer, refuse, hang, report an error
or stop without a word. `Planner` holds the place of `Condense` and `Expand` and their fallbacks; a text is its
key (what is left of it once case and spacing are folded) and a spelling. `Ask` then searches each query,
fuses, trims, fits the prompt, and follows the loop over the tokens to the recorded turn. `FitContext` is pure:
what a chunk costs, whole or squeezed, is a constant. The locals of a part are dropped when it is done.

**A search** is one action per statement it runs: the ranking of the stored vectors, the loading of the ranked
chunks, the keyword leg, the query for the excluded ones. Between them other processes replace and delete
documents. How near a chunk is to a query is any order; which terms it holds is not. The query's vector
comes from `Retry`, whose `attempt`, `wait` and last sleep are those of `doWithRetry`.

**A split** is one action per iteration of `Split`. A text is a sequence of runes with weights in quarters of a
token; offsets count runes, where the code's count bytes on rune starts.

**An evaluation** (`Eval`) has one action per blocking step of `RunEval`: the plan of a case, its retrieval, its
answer, its verdict. A label is given by the passages that satisfy it; `Discounts` are `1 / log2(rank + 1)` in
thousandths, so gains are integers; the properties rest only on their order. A rate keeps its total and the
number of cases behind it. A failed retrieval or answer ends the run (`FailCase`); a failed judge leaves its case
unjudged (`JudgeCase`). An answer whose stream was cut short is an answer too: the row's `whole` remembers it, and
no step of the code asks. That planning, searching and streaming themselves fail and end as they do is the business
of `Planner`, `Search` and `Stream`; here each is one step with the outcomes those modules allow.

**An open** (`Migrate`) has one action per statement of `runMigrations`. `lock` is SQLite's write lock, taken
by the first write of a transaction; an opener that waits too long fails; a kill rolls back what it staged.
A file comes with the versions it records and, in `old`, those of them that an earlier build recorded over a schema
of another shape: `schemaSQL` is edited in place under one version (`migrate.go:21-35`), so such files exist, and
an open takes them as they are. What a command then meets on the missing column or table is not modelled: `Begin`
goes on only with a file whose `old` is empty.

## 3. Runs

| Run | Bounds | Question |
|---|---|---|
| `kb_single` | 1 command at a time, 2 paths, 3 contents, 2 dimensions, all commands, failures and crashes at every step | all promises of the index, the archive and the cache |
| `kb_pair` | 2 commands at once on 1 path, `--no-raw`, `--force`, a content without chunks, failures | which promises survive a second process |
| `kb_retry` | 1 command at a time, 3 contents, files that change while commands run; fair | a retried file ends up indexed |
| `embed_pool` | 4 batches, limit 2; fair | the pool refines `EmbedAll` and ends |
| `sessions` | 2 clients, 2 names, 2 threads, 4 turns, `max_turns` = `history_turns` = 2, failures | threads are logs |
| `import` | 2 documents, 2 contents, 1 template; ingests between the files an export reads, an archive cut at any block, both policies, documents that cannot be embedded or written, unpacking stopped between two files, Ctrl-C between two documents; fair | an archive is complete; an import brings each document it comes to or says so, and can be repeated |
| `command` | 10 kinds of ask, 5 searches over 0 or 2 chunks with one replaced or deleted meanwhile, 340 texts of up to 4 runes with 9 budgets, 10 evaluations of up to 3 cases with up to 2 runs each, 2 openers of 5 databases with 2 migrations, 2 retries; Ctrl-C anywhere; fair | plans, prompts, answers, searches, evaluations, splits, retries and opens |
| `kb_skip_stale`, `kb_no_raw`, `kb_torn_cache`, `kb_race`, `import_stranded` | 1 command, 1 path, 2 contents | the disagreements of section 5 |

Why the bounds are enough to be interesting: three contents let a document go through two updates, and two paths
share a content; two dimensions are what mixing needs; four batches over a limit of two give a full pool, a
waiting spawner and a batch never started; four turns with `max_turns` 2 prune twice in one thread. `MaxIds`
bounds the deletions and, in `import`, the failures; `MaxThreads` and `MaxAppends` the threads and turns. Two
documents let one fail and the other succeed, and let a document be already there. In `command`, windows of 2,
5, 6 and 8 tokens against two turns and two chunks stop the ladder at each kind of rung and below it; texts of
four runes hold a separator, a heavy rune and an overlap as long as a chunk; databases are empty, half migrated,
of an older shape (half migrated or with all versions recorded) and newer than the program; `MaxChunks` lets one
chunk be stored anew during a search; the evaluations take every stage, a label that two passages satisfy, a
passage that satisfies two labels, a label outside the index, an index that is empty, cases with nothing to
score and sets that are refused. `MaxRetries` is 2 where the clients use 3: each retry after the first is like
the one before.

`Reverts = FALSE` in the passing runs: a file never returns to, and two files never share by a later edit, a
content seen before; with `Reverts` TRUE `SkipMeansIndexed` fails as section 5 says, and the other invariants of
`kb_single` are proved for both values. Symmetry is used in runs that check only safety. Deadlock checking is
off: a system with no command running and all bounds used up may stop.

Properties checked (their comments state them in full):

* `RecordedMeansStored`, `ArchiveIsWhole`, `ArchivedBeforeIndexed`: hold with any number of processes.
* `ContentAddressed`, `RecordedCopyIsCurrent`: hold with any number of processes when files do not change under
  a command, with an archive, and without `--no-raw`. Dropping a condition gives one of the counterexamples of
  section 5.
* `SkipMeansIndexed` needs besides that one command runs at a time (two are enough for a reindex to store
  the text of the hash it listed over a newer ingest, `reindex.go:64`), that no cache write is torn, and that no
  content comes back.
* `IngestKeepsUniform`, `ReindexRepairs`: only a reindex can mix vector dimensions; an ingest brings no new dimension
  into a mixed base either, and a reindex without an error repairs it; with any number of processes that read one
  configuration. The guard and the insert are
  separate statements, so two processes of different configurations can still mix them.
* `IndexNeverLost`: no step takes the chunks of a document away and leaves its row.
* `EventuallyIndexed`: liveness, below.
* `BoundedInFlight`, `CompleteUnlessCancelled`, `AllOrNothing` (refinement), `StopEnds`, `Termination`.
* `ImplementsLog` (refinement), `NeverAnotherThread`, `ReplayedWasRecorded`.
* `ExportCarriesCopies`: every copy a listed document needs is in the archive, although the files are read one
  after the other while commands write. `CleanImportDelivers`, `SkipChangesNothing`, `IdentityIsIndexed`,
  `EventuallyImported`: an import that ends without an error brought every document it came to, which is all of
  them unless Ctrl-C broke it off; `--on-conflict skip` touches nothing that was there; outside an import a row
  with the archive's identity has chunks; and failed documents do not stay behind for later imports to skip.
  `import` leaves out two things the proofs do not: deletes beside an export (the instance is then several times as
  large) and, for the properties that hold under them, crashes.
* `PlanIsUsable`, `PlanningEnds`, `FitIsPreferred`, `RecordedAnswerIsWhole`, `CancelledCallsEnd`: the ask.
* `ExcludedStaysOut`, `RetryWaitsAsAsked`: search and its one request. `ChunksCoverText`: the split.
  `SchemaIsRecorded`: what races and kills of an open may not do; that a recorded schema has the present shape is
  no part of it, because the code does not see to that. `ReportIsHonest`: what a report of `tbuk eval` may be
  believed for; that every answer in it is whole is not among it.

### Fairness

`kb_retry`: a running command takes its next step (weak fairness: nothing in the code waits for another
command for ever); faults stop at some point, which is the premise of any retry; and the user runs
`tbuk update` again and again on the path (strong fairness on `StartIngest` without `--force`, since the start
is disabled while a command runs). The property is that the file is then always again either indexed from its
present text or absent. An editor that never stops is allowed by the property only as long as there are
contents left (`Reverts = FALSE` makes edits finite).

`embed_pool`: the Go scheduler runs a goroutine that can run (weak fairness of the caller and of each
worker's prompt steps). A provider call is *not* assumed to return, since the HTTP clients have no timeout
(`embeddings/openai.go:46`): only once the context is cancelled is it assumed to come back. `StopEnds` says
that an error or a cancellation then ends the whole call; `Termination` says the pool ends if calls return.

`import`: an import takes its next step, the user repeats it (strong fairness of `StartImport` with `skip`), and
failures and interruptions, Ctrl-C between documents included, come to an end. Nothing is assumed of exports: one
may never finish, and then there is no archive to bring in.

`command`: the planner runs (weak fairness); the `select` of its loop does not for ever prefer a token to a done
context; its deadlines fall (they are timers); a read whose context is done fails sooner or later (strong
fairness, since a line may still come in first), and a blocked send is then given up. *Nothing* is assumed of the
provider, which may hang with the connection open.

## 4. Proofs

For every number of processes, paths, contents and dimensions, every set of faults and both values of
`Reverts`, from `StoreAssumption`, `IngestAssumption` and `KnowledgeBaseAssumption` and nothing else:

* `TypeCorrect`, `Invariance`, `RecordedMeansStoredAlways`, `ArchiveIsWholeAlways`,
  `ArchivedBeforeIndexedAlways`, `IndexNeverLostAlways` in `KnowledgeBaseProofs`.

  None of these is inductive alone. `RecordedMeansStored` needs `ChunksBehind`: a command past replacing the
  chunks still finds them there, *if* the row at its path is the one it loaded. That in turn needs
  `IdsIssued`: an id is given out once, so a row that was deleted and created again cannot be taken for the
  old one. `ArchivedBeforeIndexed` needs `CopiesKnown`: every location a command carries, or has listed for a
  reindex, names a copy that is there, and no command removes one. `IndexNeverLost` and the rest need
  `JobsFit`: what each step may assume of its locals, above all that a command about to replace chunks has a
  text. `IInv` is the conjunction of these with the invariants. The proofs of the step take one action at a
  time, first for the shape of the state and then for each part of it an action can disturb.

* `PoolTypeCorrect`, `PoolInvariance`, `Complete`, `BoundedAlways`, `Refinement` in `EmbedPoolProofs`, for every
  number of batches and every limit, from `PoolAssumption`. `PInv` says that a goroutine that has left either
  wrote its slot or saw the pool stopped, that the loop ends early only when stopped, and that the caller goes on
  only when all goroutines are done; so a list returned without an error or a cancellation is complete. The
  bound strengthens "calls in flight" to "holders of the semaphore" and counts with cardinalities of finite sets.
  The refinement of `EmbedAll` then looks at the two steps that decide the outcome.

* `SessionsInvariance`, `SessionsRefinement`, `NeverAnotherThreadAlways` in `SessionsProofs`, for any clients,
  names and limits, from `SessionsAssumption`. The refinement of `ThreadLog` rests on `InOrder`: the turns of a
  thread are indexed in the order of their ids and without a gap. It stays so because an append that is not
  `stale` writes at the place behind the last turn (`SnapshotsHold`), and every commit makes all other appends
  stale. With no gap, a turn has as many newer turns as there are places behind its own, so pruning by index
  leaves exactly the newest `max_turns`: a bijection and the cardinality of an interval. That no command meets
  another thread under its id needs every id a command holds, or could get from the order of use (`Recency`),
  to be below the next one.

* `HistoryInvariance`, `ReplayedWasRecordedAlways`, `ThreadsTypeCorrect` there too. `HInv` adds what a client
  has in hand: turns in the order of recording, each in the thread still or older than all that is kept there.
  Others may prune, record or delete meanwhile: pruning takes the oldest, ids only grow, and a deleted thread's
  id names nothing else. That `ByIndex` returns every turn of a thread, in order, follows from `InOrder`.

* `IndexProofs`, on the invariant of `KnowledgeBaseProofs`. `DimInvariance`: a command past its dimension guard
  knows that a table without its row is of one dimension, and one that works through a reindex which rows are
  still to come; hence `IngestKeepsUniformAlways` and `ReindexRepairsAlways`, under one configuration. An
  ingest goes past its guard only where all other vectors are of its dimension, so its insert leaves one; an insert
  without vectors, or a delete, brings in none.
  `CopyInvariance`: where files change between commands only and the archive is used (`FilesHold`), everything a
  command carries, in its temporary file, its text or its list, is of the content whose hash it carries; hence
  `ContentAddressedAlways` and `RecordedCopyIsCurrentAlways`. `SkipMeansIndexedAlways` adds what one command at a
  time may assume of a row it has not yet recorded.

* `TransferProofs`: `TransferInvariance`, `TransferTypeCorrect`, `SkipChangesNothingAlways` and
  `ExportCarriesCopiesAlways`, for all documents, archives, cuts and policies. Import hands the steps of a
  reindex the locals those need (`JobsFit` again), and works on the row of its document alone. An export that has
  read the database finds every copy its rows name in the listing of the archive, and reads each (`Gathered`): copies
  are never removed, and under `FilesHold` they hold what they are named after.

* `IdentityInvariance`, `IdentityIsIndexedAlways` there, under `RollsBack`: `FilesHold`, no `"stop"`, and failures
  after the chunks were replaced (`"db"`) only under the policy `skip`. Both conditions are the code's own limits. A
  Ctrl-C cancels the context the rollback would need (run `import_stranded`); and a rollback after a late failure of
  an overwrite puts the old hash back beside the archive's chunks. The row an import has in hand carries the
  archive's identity, first beside its old chunks and then beside the archive's (`HandHas`); all other rows are
  untouched. That a reindex in the import extracts the archive's bytes needs each copy to be unpacked before its
  document is offered (`Unpacks`) and the archive to be true to its names, which an export makes it.

* `DeliveryInvariance`, `CleanImportDeliversAlways`, under `RollsBack` and `ArchivesFinite` (an archive is a
  file). An archive that passes the check of its completeness gave up each copy it lists (`CheckedArrives`),
  since the list of a finite set names each member. Its rows have distinct ids, so each of its documents has a
  path of its own (`OfferedPaths`) and no document undoes what an earlier one brought. `Brings` then says that
  each document done with is here, with its metadata, or an error was counted, and that a document still to come
  is older than the import's first new id: what is skipped under `skip` was there before, and such a row has
  chunks, because the only command that creates a row without them stores them next (`Storing`) and none is
  between the two while an import runs. The theorem is about both ends that report no error: `FinishImport`,
  where nothing is left to come to, and `BreakOff`.

* `CommandProofs` is about `CommandSpec`, the whole program, from the assumptions on its constants. Each part
  has an invariant that is kept by the steps of the part and left alone by all others.

  - *Opens* (`MigrateInvariance`, `SchemaIsRecordedAlways`), for every number of openers, every list of migrations
    and every database to start from. What an opener has staged is the version it is at, and only while it holds
    the write lock; so at most one version is ever between applied and recorded, and only inside a transaction.
    What the file had in an older shape stays so: a recorded version is never applied again. That a ready opener
    left every version recorded needs those below its place to be.
  - *Retries* (`RetryInvariance`, `RetryWaitsAlways`), for every bound and backoff and all waits a provider may
    ask for: the wait in hand is that of the last failure, whichever refusals and transport errors came before.
  - *The split* (`ChunksCoverTextAlways`), for any text, weights, separators, `chunk.size` and `chunk.overlap`.
    `ChunkerProofs` first says what the helpers return (`TokenEndIs`, `TokenStartIs`, `FindBoundaryIs`), then that
    a further chunk ends beyond the last: its window reaches at least as far, and a boundary at or before that end
    is one the last chunk would have taken. `Quarters` is a recursive function on an interval; that it has the
    values its definition gives, and adds up, is by a least counterexample (`RecursionExists`, `LeastNatural`).
  - *Search* (`SearchInvariance`, `ExcludedStaysOutAlways`): rows come and go between the queries of a search, but
    an id is never given out twice, so a chunk is as it was read or is gone. The fused order is total, because scores
    are integers and ties go to the lower id; so `FuseRRF` is a list of each chunk once (`OrderedIs`).
  - *The answer* (`AnswerInvariance`, `RecordedAnswerIsWholeAlways`): until Ctrl-C only its provider ends the
    answer's stream (`Attended`), and an ask whose loop is over has seen its stream end or was interrupted;
    recording begins under the command's context, so an interrupted ask records nothing.
  - *The plan* (`PlanInvariance`, `PlanIsUsableAlways`): where an expansion may begin, the plan is one query that
    is the window or a rewrite with text in it (`Begun`); what `Dedupe` makes of any paraphrases is then
    `Good`, and stays so when the blank ones are dropped.
  - *The prompt* (`PromptInvariance`, `FitIsPreferredAlways`): `LadderIs` gives the rungs of the ladder place by
    place, `BetterIsTriedFirst` says a better prompt stands on an earlier rung; so the first that fits is the best.
  - *The evaluation* (`EvalInvariance`, `ReportIsHonestAlways`): the cases before the one in hand are done, passed
    over or not asked for, each once. A case's score is at most that of the best ranking, for any discounts that do
    not grow with the rank: the gains of any list are bounded, place by place from the top, by those of the `Ordered`
    list of all gains, and summation by parts carries the bound to the discounted sums. Sums are recursive
    functions on an interval, as in the split.
  - *Types* (`CommandTypeCorrect`), which follow from the invariants of the parts.

`Ordering` exists for these proofs: the library's `SortSeq` and `SelectSeq` are recursive and say nothing a prover
can use, whereas a list given by the place of each member has its properties by counting.

So a theorem states every invariant and every action property of the passing runs. Model-checked only: all
liveness (`EventuallyIndexed`, `StopEnds`, `Termination`, `EventuallyImported`, `CancelledCallsEnd`,
`PlanningEnds`), which rests on fairness and is beyond the prover.

## 5. Where the code and what is said of it part

Each of the first five is the counterexample of a run.

1. **`kb_skip_stale`** – `ingester.go:183-189` and `214-215` say the hash is recorded last so that a document is
   never "up to date" over old chunks. The converse gap is open: the row keeps the *previous* hash while the new
   chunks are stored (206) and until it is updated (221). Stop there, put the file back as it was, and every
   later ingest skips it over the chunks of the abandoned version.
2. **`kb_no_raw`** – `README.md:488-492` says an empty `raw_path` means no copy is known, "ingested with
   `--no-raw`". An *update* with `--no-raw` keeps the location of the old copy beside the new hash (218); a
   reindex with an empty cache then indexes the old bytes and caches them under the new hash.
3. **`kb_torn_cache`** – the raw copy is written to a temporary file and renamed, for the reason given at
   442-443; the extracted text is not (430), and is trusted in the same way (366).
4. **`kb_race`** – the file is hashed (121), then read again to be copied (458) and extracted (423). An edit in
   between stores other bytes under the hash, against 440-441 and 449.
5. **`import_stranded`** – `import.go:568-571` says a failed document is rolled back so that nothing half-imported
   is left for later imports to skip. After Ctrl-C the rollback (572) runs under the cancelled context and fails
   too: the row stays, without chunks.

Met while modelling, with no run of their own:

* `migrate.go:21-35`, `158-189`: `schemaSQL` is edited in place under version 2, so a knowledge base of an earlier
  build records the version, opens without an error, and lacks `chunks.search_text` or the session tables; an ingest
  or a threaded ask then fails on what is missing. Only `doctor` asks, and a script repairs it.
* `import.go:583-587`: metadata that cannot be written counts as an error, but the document stays, so a repeated
  import under `skip` passes over it and never writes them.
* `import.go:671-673` says a rolled-back row's chunks "were never replaced". A failure inside `ReindexDocument` after
  the replacement (its automatic metadata) makes the rollback of an overwrite put the old hash over the archive's
  chunks.
* `import.go:565` embeds without the dimension guard an ingest has.
* `import.go:527-529`: Ctrl-C between two documents ends the import with `Done` and no error, although documents
  of the archive are missing; only the counts tell.
* `export.go:48`: the database and its `-wal` file are copied one after the other, with nothing to keep a
  checkpoint out of between.
* `importer.go:352`: raw copies are filled under their final name; a crash or a full disk leaves a short one,
  which the next import skips as present and embeds, without an error.
* `ask.go:430-431`: with no chunks retrieved and a last pair that does not fit, `fitToContext` reports an overflow
  although the prompt without the pair might fit.
* `llm.go:49-52`, `ask.go:819-823`: on Ctrl-C the stream may close its channel without an error token; an ask
  outside a thread then prints what came so far and exits 0.
* A stream that ends without its terminator is taken, and recorded, as complete; a rewrite cut by its deadline is
  used when the closed channel is seen first.
* `hybrid.go:25`: a chunk replaced between the vector leg and the query for the excluded ones is returned although
  its text was excluded (it is no longer in the corpus by then).
* `migrate.go:268`: of two processes that open a new database at once one fails, on the primary key of
  `schema_migrations`.
* `many.go:12-14` says a chunk several queries agree on outranks one only one of them found; by reciprocal ranks it
  does not when they agree on it far down.
* `metrics.go:25` calls `Found` the distinct labels satisfied; a chunk that satisfies two is credited with one.
* `eval.go:191-194`: `checkIndexedLabels` is skipped when `Indexed` is empty, and for an empty knowledge base it is:
  the run scores zeroes, although 183-190 and `eval_test.go:855-861` say the guard is there for that case.
* `report.go:517-537`: a ceiling can be printed below the precision above it, against 511-516: two chunks of one
  labelled document both count for precision, and rows scored on generation alone enter the ceiling's denominator.
* `eval.go:684-692`: a stream that closes with neither terminator nor error is scored as an answer, so Ctrl-C at that
  moment scores a part of one, against 318-325.
* `report.go:594-703`: `Diff` compares rates with nothing behind them (the hit of a run that scored no retrieval).
* `root.go:143-146`: a second Ctrl-C is caught like the first while a command does not watch its context.

## 6. Not modelled, and why

In the modelled parts: `--source-dir` and `--dry-run` of reindex (an override of the lookup, and no writes); the
values of metadata (a function of the path) and user metadata other than whether there is any; file extensions
in archive names (a row's `raw_path` is its content's name); a read that overlaps a write of the same file; a
user deleting archived copies; `os.WriteFile` under an empty hash; several older extractor versions, collapsed
into one; the rows' sizes and times. `Sessions` leaves out the text of turns, templates and citations, and
treats a commit by any other command on the database as a failed append (`Abandon`). `Transfer` leaves out
`--dry-run`, the prompts of `--on-conflict ask`, the confirmation of a fresh configuration, and the wording and
paths of archive errors. `Search` leaves out the minimum score, metadata filters and the parsing of query
syntax; the corpus changes only during `tbuk search`. `Ask` leaves out the text of templates and what squeezing
makes of a text. `Eval` leaves out citations and groundedness, latencies, the statistics of a spread,
`--baseline`, output and the embedders of the test fixtures. `Command` lets another process open the database
only until this one has. The llama.cpp embedding client has no retry and is not in `Retry`.

Left out as a whole, with reasons, in `PROJECT.json`: text functions over characters, YAML, templates, printing,
the scripts, and the REPL's blocking read of stdin, over which the signal handler has no power.

## 7. Plan

Done: the index (**Store**, **Ingest**, **Reindex**, **KnowledgeBase**), the pool, threads, **Transfer** for export
and import, the ask (**Stream**, **Planner**, **FitContext**, **Search**, **Ask**), **Retry**, **Chunker**,
**Eval**, **Migrate**, their composition in **Command**, and the proofs of section 4.

Left, the most useful first:

1. **Diff** of an evaluation against a baseline, and the ceiling of its precision.
2. **Squeeze** and the normalisation of records against reference definitions over short texts.
