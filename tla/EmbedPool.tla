------------------------------ MODULE EmbedPool ------------------------------
(***************************************************************************)
(* Ingester.embedChunks: one goroutine per batch, at most Limit of them at *)
(* a time, each writing its own slot; the first error cancels the rest.    *)
(* The caller then stores what came back, in one transaction, under the    *)
(* context embedChunks derived its own from.                               *)
(***************************************************************************)
EXTENDS Naturals, FiniteSets

CONSTANTS
    N,          \* batches: ceil(chunks / embedBatchSize)
    Limit       \* ingest.embed_concurrency, raised to 1

ASSUME PoolAssumption == N \in Nat \ {0} /\ Limit \in Nat \ {0}

VARIABLES
    main,       \* the caller's place in embedChunks and after it
    next,       \* the batch the loop is at
    work,       \* work[b]: the place of batch b's goroutine
    perBatch,   \* perBatch[b]: the slot, 0 while nil
    firstErr,   \* some fail() has been recorded
    ctxDone,    \* the pool's own context is cancelled
    parentDone, \* the caller's context is cancelled (Ctrl-C)
    index       \* the chunks stored for the document, 0 before this run

vars == <<main, next, work, perBatch, firstErr, ctxDone, parentDone, index>>

Batch == 1 .. N

\* Mutant: the deferred receive from the semaphore is missing.
HeldForever == {b \in Batch : work[b] # "none"}

\* The goroutines holding a slot of the semaphore.
Holding == {b \in Batch : work[b] \in {"started", "embedding", "leaving"}}
Spawned == {b \in Batch : work[b] # "none"}

Main == {"loop", "acquire", "wait", "error", "chunks", "stored", "failed"}
Work == {"none", "started", "embedding", "leaving", "released", "done"}

TypeOK ==
    /\ main \in Main
    /\ next \in 1 .. N + 1
    /\ work \in [Batch -> Work]
    /\ perBatch \in [Batch -> 0 .. N]
    /\ firstErr \in BOOLEAN
    /\ ctxDone \in BOOLEAN
    /\ parentDone \in BOOLEAN
    /\ index \in [Batch -> 0 .. N]
    /\ \A b \in Batch : work[b] # "none" <=> b < next

Init ==
    /\ main = "loop"
    /\ next = 1
    /\ work = [b \in Batch |-> "none"]
    /\ perBatch = [b \in Batch |-> 0]
    /\ firstErr = FALSE
    /\ ctxDone = FALSE
    /\ parentDone = FALSE
    /\ index = [b \in Batch |-> 0]

-----------------------------------------------------------------------------
(* The loop of embedChunks *)

\* The context is looked at before the semaphore is waited for.
CheckContext ==
    /\ main = "loop"
    /\ main' = IF next > N \/ ctxDone THEN "wait" ELSE "acquire"
    /\ UNCHANGED <<next, work, perBatch, firstErr, ctxDone, parentDone, index>>

\* Mutant: the goroutine is started before the semaphore is taken.
SpawnUnbounded ==
    /\ main = "acquire"
    /\ work' = [work EXCEPT ![next] = "started"]
    /\ next' = next + 1
    /\ main' = "loop"
    /\ UNCHANGED <<perBatch, firstErr, ctxDone, parentDone, index>>

\* sem <- struct{}{} waits for a slot, whatever becomes of the context.
Spawn ==
    /\ main = "acquire"
    /\ Cardinality(Holding) < Limit
    /\ work' = [work EXCEPT ![next] = "started"]
    /\ next' = next + 1
    /\ main' = "loop"
    /\ UNCHANGED <<perBatch, firstErr, ctxDone, parentDone, index>>

\* wg.Wait returns; so does embedChunks.
Return ==
    /\ main = "wait"
    /\ \A b \in Spawned : work[b] = "done"
    /\ main' = IF firstErr THEN "error" ELSE "chunks"
    /\ ctxDone' = TRUE
    /\ UNCHANGED <<next, work, perBatch, firstErr, parentDone, index>>

-----------------------------------------------------------------------------
(* The goroutine of batch b *)

\* A batch that starts after the cancellation leaves its slot nil.
Start(b) ==
    /\ work[b] = "started"
    /\ work' = [work EXCEPT ![b] = IF ctxDone THEN "leaving" ELSE "embedding"]
    /\ UNCHANGED <<main, next, perBatch, firstErr, ctxDone, parentDone, index>>

\* Mutant: results are appended in the order they arrive.
AppendResult(b) ==
    /\ work[b] = "embedding"
    /\ perBatch' = [perBatch EXCEPT ![1 + Cardinality({i \in Batch : perBatch[i] # 0})] = b]
    /\ work' = [work EXCEPT ![b] = "leaving"]
    /\ UNCHANGED <<main, next, firstErr, ctxDone, parentDone, index>>

\* The embedder returned one vector per text.
EmbedOK(b) ==
    /\ work[b] = "embedding"
    /\ perBatch' = [perBatch EXCEPT ![b] = b]
    /\ work' = [work EXCEPT ![b] = "leaving"]
    /\ UNCHANGED <<main, next, firstErr, ctxDone, parentDone, index>>

\* Mutant: the error is recorded and nobody is cancelled.
FailQuietly(b) ==
    /\ work[b] = "embedding"
    /\ firstErr' = TRUE
    /\ work' = [work EXCEPT ![b] = "leaving"]
    /\ UNCHANGED <<main, next, perBatch, ctxDone, parentDone, index>>

\* The embedder failed, was cancelled, or returned another number of vectors.
EmbedFail(b) ==
    /\ work[b] = "embedding"
    /\ firstErr' = TRUE
    /\ ctxDone' = TRUE
    /\ work' = [work EXCEPT ![b] = "leaving"]
    /\ UNCHANGED <<main, next, perBatch, parentDone, index>>

\* The deferred calls run last in, first out: the slot, then the WaitGroup.
Release(b) ==
    /\ work[b] = "leaving"
    /\ work' = [work EXCEPT ![b] = "released"]
    /\ UNCHANGED <<main, next, perBatch, firstErr, ctxDone, parentDone, index>>

Done(b) ==
    /\ work[b] = "released"
    /\ work' = [work EXCEPT ![b] = "done"]
    /\ UNCHANGED <<main, next, perBatch, firstErr, ctxDone, parentDone, index>>

Worker(b) == Start(b) \/ EmbedOK(b) \/ EmbedFail(b) \/ Release(b) \/ Done(b)

-----------------------------------------------------------------------------
(* Ctrl-C, and the caller *)

Cancel ==
    /\ ~parentDone
    /\ parentDone' = TRUE
    /\ ctxDone' = TRUE
    /\ UNCHANGED <<main, next, work, perBatch, firstErr, index>>

\* Mutant: the transaction is opened under a context of its own.
StoreRegardless ==
    /\ main = "chunks"
    /\ index' = perBatch
    /\ main' = "stored"
    /\ UNCHANGED <<next, work, perBatch, firstErr, ctxDone, parentDone>>

\* ReplaceForDocument: a transaction does not begin under a cancelled context.
Store ==
    /\ main = "chunks"
    /\ ~parentDone
    /\ index' = perBatch
    /\ main' = "stored"
    /\ UNCHANGED <<next, work, perBatch, firstErr, ctxDone, parentDone>>

Fail ==
    /\ main \in {"error", "chunks"}
    /\ main' = "failed"
    /\ UNCHANGED <<next, work, perBatch, firstErr, ctxDone, parentDone, index>>

Caller == CheckContext \/ Spawn \/ Return \/ Store \/ Fail

Next == Caller \/ Cancel \/ \E b \in Batch : Worker(b)

Spec == Init /\ [][Next]_vars

\* The scheduler's part of a goroutine, and a request whose context is done:
\* it returns, with an answer that was on its way or with an error.
Prompt(b) == Start(b) \/ Release(b) \/ Done(b)
Interrupted(b) == ctxDone /\ (EmbedOK(b) \/ EmbedFail(b))

\* Goroutines are scheduled.  No embedding client has a timeout (openai.go:46),
\* so a call is bound to return only once its context is cancelled.
Fairness ==
    /\ WF_vars(Caller)
    /\ \A b \in Batch : WF_vars(Prompt(b)) /\ WF_vars(Interrupted(b))

FairSpec == Spec /\ Fairness

-----------------------------------------------------------------------------
\* Never more embedder calls in flight than ingest.embed_concurrency.
BoundedInFlight == Cardinality({b \in Batch : work[b] = "embedding"}) <= Limit

\* embedChunks without an error and without a Ctrl-C has every slot filled, in
\* order: only the cancelled caller is handed a shorter list.
CompleteUnlessCancelled ==
    main \in {"chunks", "stored"} /\ ~parentDone => \A b \in Batch : perBatch[b] = b

\* The document's chunks are all stored in order, or left alone.
outcome == IF main \in {"stored", "failed"} THEN main ELSE "pending"
All == INSTANCE EmbedAll
AllOrNothing == All!Spec

\* The first error or a Ctrl-C ends the ingest, however long the other calls
\* would have taken: the error cancels them, and neither the semaphore nor the
\* WaitGroup is left waiting for a goroutine that never lets go
\* (ingester.go:232-233).
StopEnds == firstErr \/ parentDone ~> main \in {"stored", "failed"}

\* The pool never deadlocks: when every call returns, the ingest ends.
Termination ==
    (\A b \in Batch : []<>(work[b] # "embedding")) => <>(main \in {"stored", "failed"})
=============================================================================
