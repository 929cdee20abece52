--------------------------- MODULE EmbedPoolProofs ---------------------------
(***************************************************************************)
(* Proofs about EmbedPool for any number of batches and any concurrency.   *)
(***************************************************************************)
EXTENDS EmbedPool, FiniteSetTheorems, TLAPS

Stopped == firstErr \/ parentDone

\* What makes a list that embedChunks returned without an error complete: the
\* loop ends early, and a goroutine leaves its slot nil, only when stopped.
PInv ==
    /\ TypeOK
    /\ main = "acquire" => next <= N
    /\ main \in {"loop", "acquire", "wait"} /\ ctxDone => Stopped
    /\ main \notin {"loop", "acquire"} => next = N + 1 \/ Stopped
    /\ \A b \in Batch : work[b] \in {"leaving", "released", "done"}
           => perBatch[b] = b \/ Stopped
    /\ main \in {"error", "chunks", "stored", "failed"}
           => \A b \in Batch : work[b] \in {"none", "done"}
    /\ main \in {"chunks", "stored"} => ~firstErr
    /\ CompleteUnlessCancelled
    /\ main \in {"loop", "acquire", "wait", "error", "chunks", "failed"}
           => index = [b \in Batch |-> 0]

LEMMA PoolInit == Init => PInv
  <1> SUFFICES ASSUME Init PROVE PInv
    OBVIOUS
  <1>1. TypeOK
    <2>1. main \in Main /\ next \in 1 .. N + 1 /\ next = 1
      BY PoolAssumption DEF Init, Main
    <2>2. work \in [Batch -> Work] /\ perBatch \in [Batch -> 0 .. N] /\ index \in [Batch -> 0 .. N]
      BY PoolAssumption DEF Init, Work
    <2>3. \A b \in Batch : work[b] = "none" /\ ~(b < 1)
      BY PoolAssumption DEF Init, Batch
    <2> QED  BY <2>1, <2>2, <2>3 DEF Init, TypeOK
  <1>2. main = "loop" /\ ~ctxDone /\ \A b \in Batch : work[b] = "none"
    BY DEF Init
  <1>3. index = [b \in Batch |-> 0]
    BY DEF Init
  <1> QED  BY <1>1, <1>2, <1>3 DEF PInv, CompleteUnlessCancelled

LEMMA PoolStep == PInv /\ [Next]_vars => PInv'
  <1> SUFFICES ASSUME PInv, [Next]_vars PROVE PInv'
    OBVIOUS
  <1> USE PoolAssumption DEF PInv, TypeOK, Main, Work, Batch, Spawned, Stopped,
          CompleteUnlessCancelled
  <1>1. CASE CheckContext
    BY <1>1 DEF CheckContext
  <1>2. CASE Spawn
    BY <1>2 DEF Spawn
  <1>3. CASE Return
    BY <1>3 DEF Return
  <1>4. ASSUME NEW b \in Batch, Start(b)
        PROVE  PInv'
    BY <1>4 DEF Start
  <1>5. ASSUME NEW b \in Batch, EmbedOK(b)
        PROVE  PInv'
    BY <1>5 DEF EmbedOK
  <1>6. ASSUME NEW b \in Batch, EmbedFail(b)
        PROVE  PInv'
    BY <1>6 DEF EmbedFail
  <1>7. ASSUME NEW b \in Batch, Release(b) \/ Done(b)
        PROVE  PInv'
    BY SMTT(20), <1>7 DEF Release, Done
  <1>8. CASE Cancel
    BY <1>8 DEF Cancel
  <1>9. CASE Store
    BY <1>9 DEF Store
  <1>10. CASE Fail
    BY <1>10 DEF Fail
  <1>11. CASE UNCHANGED vars
    BY <1>11 DEF vars
  <1> QED  BY <1>1, <1>2, <1>3, <1>4, <1>5, <1>6, <1>7, <1>8, <1>9, <1>10, <1>11
           DEF Next, Caller, Worker

\* PInv holds in every reachable state.
THEOREM PoolInvariance == Spec => []PInv
  BY PoolInit, PoolStep, PTL DEF Spec

\* Every index, counter and worker stays in its type (ingester.go:228-323).
THEOREM PoolTypeCorrect == Spec => []TypeOK
  <1>1. PInv => TypeOK
    BY DEF PInv
  <1> QED  BY PoolInvariance, <1>1, PTL

\* Without an error and without a Ctrl-C, embedChunks returns every chunk in
\* the order of the text, whatever the order the embedder answers in
\* (ingester.go:228-233).
THEOREM Complete == Spec => []CompleteUnlessCancelled
  <1>1. PInv => CompleteUnlessCancelled
    BY DEF PInv
  <1> QED  BY PoolInvariance, <1>1, PTL

-----------------------------------------------------------------------------
(* The semaphore *)

AtMostLimit == Cardinality(Holding) <= Limit

LEMMA HoldingFinite == ASSUME TypeOK PROVE IsFiniteSet(Holding)
  <1>1. IsFiniteSet(Batch)
    BY PoolAssumption, FS_Interval DEF Batch
  <1> QED  BY <1>1, FS_Subset DEF Holding

LEMMA LimitStep == PInv /\ AtMostLimit /\ [Next]_vars => AtMostLimit'
  <1> SUFFICES ASSUME PInv, AtMostLimit, [Next]_vars PROVE AtMostLimit'
    OBVIOUS
  <1> USE PoolAssumption
  <1>0. /\ IsFiniteSet(Holding)
        /\ Cardinality(Holding) \in Nat
    BY HoldingFinite, FS_CardinalityType DEF PInv
  <1>1. Holding' \subseteq Holding => AtMostLimit'
    <2> SUFFICES ASSUME Holding' \subseteq Holding PROVE AtMostLimit'
      OBVIOUS
    <2>1. Cardinality(Holding') \in Nat /\ Cardinality(Holding') <= Cardinality(Holding)
      BY <1>0, FS_Subset, FS_CardinalityType
    <2> QED  BY <1>0, <2>1 DEF AtMostLimit
  <1>2. CASE Spawn
    <2>1. Holding' = Holding \cup {next} /\ next \notin Holding
      BY <1>2 DEF Spawn, Holding, PInv, TypeOK, Spawned, Batch
    <2>2. Cardinality(Holding') = Cardinality(Holding) + 1
      BY <1>0, <2>1, FS_AddElement
    <2> QED  BY <1>0, <1>2, <2>2 DEF Spawn, AtMostLimit
  <1>3. ASSUME NEW b \in Batch, Worker(b)
        PROVE  Holding' \subseteq Holding
    BY <1>3 DEF Worker, Start, EmbedOK, EmbedFail, Release, Done, Holding, PInv, TypeOK
  <1>4. CASE CheckContext \/ Return \/ Store \/ Fail \/ Cancel \/ UNCHANGED vars
    BY <1>1, <1>4 DEF CheckContext, Return, Store, Fail, Cancel, vars, Holding
  <1> QED  BY <1>1, <1>2, <1>3, <1>4 DEF Next, Caller

\* No more embedder calls are in flight than ingest.embed_concurrency allows,
\* for every limit and any number of batches (ingester.go:65-66, 268-277).
THEOREM BoundedAlways == Spec => []BoundedInFlight
  <1>1. Init => AtMostLimit
    <2> SUFFICES ASSUME Init PROVE AtMostLimit
      OBVIOUS
    <2>1. Holding = {}
      BY DEF Init, Holding
    <2> QED  BY <2>1, FS_EmptySet, PoolAssumption DEF AtMostLimit
  <1>2. PInv /\ AtMostLimit => BoundedInFlight
    <2> SUFFICES ASSUME PInv, AtMostLimit PROVE BoundedInFlight
      OBVIOUS
    <2> DEFINE calls == {b \in Batch : work[b] = "embedding"}
    <2>1. calls \subseteq Holding /\ IsFiniteSet(Holding)
      BY HoldingFinite DEF Holding, PInv
    <2>2. /\ Cardinality(calls) \in Nat /\ Cardinality(Holding) \in Nat
          /\ Cardinality(calls) <= Cardinality(Holding)
      BY <2>1, FS_Subset, FS_CardinalityType
    <2> QED  BY <2>2, PoolAssumption DEF AtMostLimit, BoundedInFlight
  <1> QED  BY <1>1, <1>2, PoolInvariance, LimitStep, PTL DEF Spec

-----------------------------------------------------------------------------
(* The pool and its caller implement EmbedAll *)

LEMMA StoreRefines ==
  ASSUME PInv, [Next]_vars
  PROVE  [All!Next]_<<index, outcome>>
  <1>1. CASE Store
    <2>1. main = "chunks" /\ ~parentDone /\ index' = perBatch /\ main' = "stored"
      BY <1>1 DEF Store
    <2>2. perBatch = [i \in 1 .. N |-> i]
      BY <2>1 DEF PInv, TypeOK, CompleteUnlessCancelled, Batch
    <2>3. All!StoreAll
      BY <2>1, <2>2 DEF All!StoreAll, outcome
    <2> QED  BY <2>3 DEF All!Next
  <1>2. CASE Fail
    BY <1>2 DEF Fail, All!Next, All!Fail, outcome
  <1>3. CASE CheckContext \/ Spawn \/ Return \/ Cancel \/ UNCHANGED vars
    BY <1>3 DEF CheckContext, Spawn, Return, Cancel, vars, outcome
  <1>4. ASSUME NEW b \in Batch, Worker(b)
        PROVE  UNCHANGED <<index, outcome>>
    BY <1>4 DEF Worker, Start, EmbedOK, EmbedFail, Release, Done, outcome
  <1> QED  BY <1>1, <1>2, <1>3, <1>4 DEF Next, Caller

\* A document's chunks are replaced by all the new ones, in order, or left
\* alone: the pool and its caller implement EmbedAll (ingester.go:203-205).
THEOREM Refinement == Spec => AllOrNothing
  <1>1. Init => All!Init
    BY DEF Init, All!Init, outcome, Batch
  <1> QED  BY <1>1, PoolInvariance, StoreRefines, PTL DEF Spec, AllOrNothing, All!Spec
=============================================================================
