---------------------------- MODULE SessionsProofs ----------------------------
(***************************************************************************)
(* Proofs about Sessions for any clients, names and limits: whatever asks, *)
(* chats, renames and deletions are interleaved, the threads are logs.     *)
(***************************************************************************)
EXTENDS Sessions, SharedLemmas

Turns(s) == threads[s].turns

\* Locals name threads whose ids are below n, if any.
Fits(j, n) ==
    /\ {"thread", "index", "found"} \subseteq DOMAIN j
    /\ j.thread \in 0 .. n - 1 /\ j.found \in 0 .. n - 1

Locals ==
    /\ pc = [c \in Clients |-> pc[c]]
    /\ job = [c \in Clients |-> job[c]]
    /\ \A c \in Clients : Fits(job[c], nextThread)

\* The rows, their ids and the names no two of them share.
Tables ==
    /\ threads = [s \in Rows |-> [name |-> threads[s].name, turns |-> Turns(s)]]
    /\ nextThread \in Nat \ {0} /\ nextTurn \in Nat \ {0}
    /\ Rows \subseteq 1 .. nextThread - 1 /\ Rows \subseteq 1 .. MaxThreads
    /\ \A r, s \in Rows : threads[r].name = threads[s].name => r = s

\* Every thread is listed once in the order of last use.
Listing(order, S) == order \in Seq(S) /\ ToSet(order) = S /\ IsInjective(order)
Recency == Listing(recent, Rows)

\* Turns indexed in the order they were recorded in, with no gap, up to a last.
InOrder(turns, next) ==
    /\ turns \subseteq [id : 1 .. next - 1, index : Nat]
    /\ IsFiniteSet(turns)
    /\ \A t, u \in turns : t.id < u.id <=> t.index < u.index
    /\ \A t, u \in turns : \A i \in t.index .. u.index : \E v \in turns : v.index = i
    /\ turns # {} => \E last \in turns : \A t \in turns : t.index <= last.index

\* The place a turn at this index would take is the one behind the last.
Behind(turns, index) ==
    /\ index \in Nat
    /\ \A t \in turns : t.index < index
    /\ turns # {} => \E t \in turns : t.index + 1 = index

\* What an append has read is still so as long as its snapshot is current.
SnapshotsHold ==
    \A c \in Clients \ stale :
        pc[c] = "insert" /\ job[c].thread \in Rows => Behind(Turns(job[c].thread), job[c].index)

SInv ==
    /\ Locals
    /\ Tables
    /\ Recency
    /\ \A s \in Rows : InOrder(Turns(s), nextTurn)
    /\ SnapshotsHold

LEMMA EmptyFits == \A n \in Nat \ {0} : Fits(NoJob, n)
  BY DEF NoJob, Fits

LEMMA SessionsInit == Init => SInv
  <1> SUFFICES ASSUME Init PROVE SInv
    OBVIOUS
  <1>1. Locals /\ SnapshotsHold
    BY EmptyFits DEF Init, Locals, SnapshotsHold
  <1>2. Rows = {}
    BY DEF Init, Rows
  <1>3. Tables
    BY <1>2 DEF Init, Tables
  <1>4. Recency
    BY <1>2 DEF Init, Recency, Listing, ToSet, IsInjective
  <1> QED  BY <1>1, <1>2, <1>3, <1>4 DEF SInv

-----------------------------------------------------------------------------
(* What a step may do *)

Alone(c) ==
    /\ \A d \in Clients \ {c} : pc'[d] = pc[d] /\ job'[d] = job[d]
    /\ Locals'

\* It leaves the tables alone, and begins no insert.
Local(c) ==
    /\ UNCHANGED <<threads, recent, nextThread, nextTurn>>
    /\ stale' \in {stale, stale \ {c}}
    /\ pc'[c] # "insert"

Opened(c) ==
    /\ nextThread <= MaxThreads
    /\ Named(job[c].name) = {}
    /\ threads' = Added(nextThread, job[c].name)
    /\ recent' = Append(recent, nextThread)
    /\ nextThread' = nextThread + 1
    /\ UNCHANGED nextTurn

Recorded(c) ==
    /\ pc[c] = "insert" /\ c \notin stale
    /\ job[c].thread \in Rows
    /\ threads' = [threads EXCEPT ![job[c].thread].turns =
                      @ \cup {[id |-> nextTurn, index |-> job[c].index]}]
    /\ recent' = Touched(job[c].thread)
    /\ nextTurn' = nextTurn + 1
    /\ UNCHANGED nextThread

Trimmed(c) ==
    /\ job[c].thread \in Rows
    /\ Pruned(Turns(job[c].thread)) # Turns(job[c].thread)
    /\ threads' = [threads EXCEPT ![job[c].thread].turns = Pruned(@)]
    /\ UNCHANGED <<recent, nextThread, nextTurn>>

Renamed(c) ==
    /\ Named(job[c].to) \subseteq Named(job[c].name)
    /\ threads' = [s \in Rows |-> IF s \in Named(job[c].name)
                                  THEN [threads[s] EXCEPT !.name = job[c].to] ELSE threads[s]]
    /\ UNCHANGED <<recent, nextThread, nextTurn>>

Deleted(c) ==
    /\ \E s \in Named(job[c].name) : recent' = Without(s)
    /\ threads' = [s \in Rows \ Named(job[c].name) |-> threads[s]]
    /\ UNCHANGED <<nextThread, nextTurn>>

Write(c) ==
    /\ Commit(c)
    /\ pc'[c] # "insert"
    /\ Opened(c) \/ Recorded(c) \/ Trimmed(c) \/ Renamed(c) \/ Deleted(c)

LEMMA GotoAlone ==
  ASSUME SInv, NEW c \in Clients, NEW to, NEW j, Goto(c, to, j),
         nextThread' \in {nextThread, nextThread + 1}, Fits(j, nextThread')
  PROVE  Alone(c) /\ pc'[c] = to /\ job'[c] = j
  <1>1. /\ pc' = [d \in Clients |-> IF d = c THEN to ELSE pc[d]]
        /\ job' = [d \in Clients |-> IF d = c THEN j ELSE job[d]]
    BY DEF SInv, Locals, Goto
  <1>2. \A d \in Clients : Fits(job[d], nextThread')
    BY DEF SInv, Locals, Tables, Fits
  <1> QED  BY <1>1, <1>2 DEF Locals, Alone

LEMMA Unmoved ==
  ASSUME SInv, NEW c \in Clients, NEW to, NEW j, Goto(c, to, j), to # "insert",
         UNCHANGED <<db, stale>>, Fits(j, nextThread)
  PROVE  Alone(c) /\ Local(c)
  <1>1. UNCHANGED <<threads, recent, nextThread, nextTurn, stale>>
    BY DEF db
  <1> QED  BY <1>1, GotoAlone DEF Local

\* What the ids of rows, of the last thread used and of a client's own are.
LEMMA IdsBelow ==
  ASSUME SInv
  PROVE  /\ nextThread \in Nat \ {0}
         /\ \A s \in Rows : s \in 0 .. nextThread - 1
         /\ recent # <<>> => Last(recent) \in 0 .. nextThread - 1
         /\ \A c \in Clients : Fits(job[c], nextThread)
         /\ Fits(NoJob, nextThread)
  <1>1. recent \in Seq(Rows) /\ Rows \subseteq 1 .. nextThread - 1 /\ nextThread \in Nat \ {0}
    BY DEF SInv, Recency, Listing, Tables
  <1>2. recent # <<>> => Last(recent) \in Rows
    BY <1>1 DEF Last
  <1> QED  BY <1>1, <1>2, EmptyFits DEF SInv, Locals

\* An error and the end of a command.
LEMMA FailAlone ==
  ASSUME SInv, NEW c \in Clients, Fail(c) \/ End(c), UNCHANGED nextThread
  PROVE  Alone(c) /\ pc'[c] \in {"idle", "prompt"}
  <1>1. CASE End(c)
    BY <1>1, GotoAlone, IdsBelow DEF End
  <1>2. CASE Fail(c) /\ job[c].repl
    <2> DEFINE j == [NoJob EXCEPT !.cmd = "chat", !.repl = TRUE,
                                  !.thread = job[c].thread, !.mem = job[c].mem]
    <2>1. Fits(j, nextThread)
      BY IdsBelow DEF Fits
    <2>2. Goto(c, "prompt", j)
      BY <1>2 DEF Fail
    <2> HIDE DEF j
    <2> QED  BY <2>1, <2>2, GotoAlone
  <1> QED  BY <1>1, <1>2 DEF Fail

LEMMA StartsAlone ==
  ASSUME SInv, NEW c \in Clients, StartCommand(c) \/ ChatLine(c)
  PROVE  Alone(c) /\ Local(c)
  <1>1. CASE StartContinue(c)
    <2> DEFINE j == [NoJob EXCEPT !.cmd = "ask", !.found = Last(recent)]
    <2>1. Fits(j, nextThread)
      BY <1>1, IdsBelow DEF Fits, StartContinue
    <2> HIDE DEF j
    <2>2. Goto(c, "turns", j) /\ UNCHANGED <<db, stale>>
      BY <1>1 DEF StartContinue, j
    <2> QED  BY <2>1, <2>2, Unmoved
  <1>2. ASSUME NEW n \in Names, StartAsk(c, n)
        PROVE  Alone(c) /\ Local(c)
    <2> DEFINE j == [NoJob EXCEPT !.cmd = "ask", !.name = n]
    <2>1. Fits(j, nextThread)
      BY IdsBelow DEF Fits
    <2> HIDE DEF j
    <2>2. Goto(c, "lookup", j) /\ UNCHANGED <<db, stale>>
      BY <1>2 DEF StartAsk, j
    <2> QED  BY <2>1, <2>2, Unmoved
  <1>3. CASE StartChat(c)
    <2>1. Fits([NoJob EXCEPT !.cmd = "chat", !.repl = TRUE], nextThread)
      BY IdsBelow DEF Fits
    <2>2. \A n \in Names : Fits([NoJob EXCEPT !.cmd = "chat", !.name = n], nextThread)
      BY IdsBelow DEF Fits
    <2> QED  BY <1>3, <2>1, <2>2, Unmoved DEF StartChat
  <1>4. ASSUME NEW from \in Names, NEW to \in Names, StartRename(c, from, to)
        PROVE  Alone(c) /\ Local(c)
    <2> DEFINE j == [NoJob EXCEPT !.cmd = "rename", !.name = from, !.to = to]
    <2>1. Fits(j, nextThread)
      BY IdsBelow DEF Fits
    <2> HIDE DEF j
    <2>2. /\ Goto(c, "rename", j) \/ Goto(c, "target", j)
          /\ UNCHANGED <<db, stale>>
      BY <1>4 DEF StartRename, j
    <2> QED  BY <2>1, <2>2, Unmoved
  <1>5. ASSUME NEW n \in Names, StartDelete(c, n)
        PROVE  Alone(c) /\ Local(c)
    <2>1. PICK s \in Named(n) :
            Goto(c, "delete", [NoJob EXCEPT !.cmd = "delete", !.name = n, !.found = s])
      BY <1>5 DEF StartDelete
    <2>2. Fits([NoJob EXCEPT !.cmd = "delete", !.name = n, !.found = s], nextThread)
      BY IdsBelow DEF Fits, Named
    <2> QED  BY <1>5, <2>1, <2>2, Unmoved DEF StartDelete
  <1>6. CASE AskLine(c)
    BY <1>6, IdsBelow, Unmoved DEF AskLine
  <1>7. CASE Forget(c)
    <2>1. Fits([job[c] EXCEPT !.mem = <<>>], nextThread)
      BY IdsBelow DEF Fits
    <2> QED  BY <1>7, <2>1, Unmoved DEF Forget
  <1>8. CASE NewThread(c)
    <2>1. Fits([job[c] EXCEPT !.thread = 0, !.mem = <<>>], nextThread)
      BY IdsBelow DEF Fits
    <2>2. \A n \in Names : Fits([job[c] EXCEPT !.name = n], nextThread)
      BY IdsBelow DEF Fits
    <2> QED  BY <1>8, <2>1, <2>2, Unmoved DEF NewThread
  <1> QED  BY <1>1, <1>2, <1>3, <1>4, <1>5, <1>6, <1>7, <1>8 DEF StartCommand, ChatLine

LEMMA ReadsAlone ==
  ASSUME SInv, NEW c \in Clients,
         Lookup(c) \/ ReadTurns(c) \/ Answer(c) \/ CheckTarget(c) \/ Abandon(c)
  PROVE  Alone(c) /\ Local(c)
  <1>1. CASE Lookup(c)
    <2>1. CASE Goto(c, "create", job[c])
      BY <1>1, <2>1, IdsBelow, Unmoved DEF Lookup
    <2>2. ASSUME NEW s \in Named(job[c].name), Goto(c, "turns", [job[c] EXCEPT !.found = s])
          PROVE  Alone(c) /\ Local(c)
      <3>1. Fits([job[c] EXCEPT !.found = s], nextThread)
        BY IdsBelow DEF Fits, Named
      <3> QED  BY <1>1, <2>2, <3>1, Unmoved DEF Lookup
    <2> QED  BY <1>1, <2>1, <2>2 DEF Lookup
  <1>2. CASE ReadTurns(c)
    <2> DEFINE j == [NoJob EXCEPT !.cmd = job[c].cmd, !.repl = job[c].cmd = "chat",
                                  !.thread = job[c].found,
                                  !.mem = Replay(Stored(job[c].found))]
    <2>1. Fits(j, nextThread)
      BY IdsBelow DEF Fits
    <2> HIDE DEF j
    <2>2. /\ Goto(c, "prompt", j) \/ Goto(c, "answer", j)
          /\ UNCHANGED <<db, stale>>
      BY <1>2 DEF ReadTurns, j
    <2> QED  BY <2>1, <2>2, Unmoved
  <1>3. CASE Answer(c)
    <2> DEFINE j == [job[c] EXCEPT !.mem = Replay(Append(@, 0))]
    <2>1. Fits(j, nextThread) /\ Fits(job[c], nextThread)
      BY IdsBelow DEF Fits
    <2> HIDE DEF j
    <2>2. /\ Goto(c, "prompt", j) \/ Goto(c, "begin", job[c])
          /\ UNCHANGED <<db, stale>>
      BY <1>3 DEF Answer, j
    <2> QED  BY <2>1, <2>2, Unmoved
  <1>4. CASE CheckTarget(c)
    <2>1. CASE End(c)
      BY <1>4, <2>1, IdsBelow, Unmoved DEF CheckTarget, End
    <2>2. CASE Goto(c, "rename", job[c])
      BY <1>4, <2>2, IdsBelow, Unmoved DEF CheckTarget
    <2> QED  BY <1>4, <2>1, <2>2 DEF CheckTarget
  <1>5. CASE Abandon(c)
    <2>1. UNCHANGED <<threads, recent, nextThread, nextTurn>> /\ stale' = stale \ {c}
      BY <1>5 DEF Abandon, NoCommit, db
    <2>2. Alone(c) /\ pc'[c] \in {"idle", "prompt"}
      BY <1>5, <2>1, FailAlone DEF Abandon
    <2> QED  BY <2>1, <2>2 DEF Local
  <1> QED  BY <1>1, <1>2, <1>3, <1>4, <1>5

LEMMA WritesAlone ==
  ASSUME SInv, NEW c \in Clients,
         Create(c) \/ InsertTurn(c) \/ PruneTurns(c) \/ RenameThread(c) \/ DeleteThread(c)
  PROVE  Alone(c) /\ (Local(c) \/ Write(c))
  <1>1. CASE Create(c)
    <2>1. CASE Fail(c) /\ UNCHANGED <<db, stale>>
      <3>1. UNCHANGED <<threads, recent, nextThread, nextTurn, stale>>
        BY <2>1 DEF db
      <3> QED  BY <2>1, <3>1, FailAlone DEF Local
    <2>2. CASE Named(job[c].name) = {}
      <3> DEFINE j == [job[c] EXCEPT !.found = nextThread]
      <3>1. Opened(c) /\ Commit(c) /\ Goto(c, "turns", j)
        BY <1>1, <2>2 DEF Create, Opened
      <3>2. Fits(j, nextThread + 1)
        BY IdsBelow DEF Fits
      <3> HIDE DEF j
      <3>3. nextThread' = nextThread + 1
        BY <3>1 DEF Opened
      <3>4. Alone(c) /\ pc'[c] = "turns"
        BY <3>1, <3>2, <3>3, GotoAlone
      <3> QED  BY <3>1, <3>4 DEF Write
    <2> QED  BY <1>1, <2>1, <2>2 DEF Create
  <1>2. CASE InsertTurn(c)
    <2>1. CASE Fail(c) /\ NoCommit(c) /\ UNCHANGED db
      <3>1. UNCHANGED <<threads, recent, nextThread, nextTurn>> /\ stale' = stale \ {c}
        BY <2>1 DEF db, NoCommit
      <3> QED  BY <2>1, <3>1, FailAlone DEF Local
    <2>2. CASE ~(Fail(c) /\ NoCommit(c) /\ UNCHANGED db)
      <3> DEFINE j == [job[c] EXCEPT !.turn = nextTurn]
      <3>1. Recorded(c) /\ Commit(c) /\ Goto(c, "prune", j)
        BY <1>2, <2>2 DEF InsertTurn, Recorded
      <3>2. Fits(j, nextThread)
        BY IdsBelow DEF Fits
      <3> HIDE DEF j
      <3>3. nextThread' = nextThread
        BY <3>1 DEF Recorded
      <3>4. Alone(c) /\ pc'[c] = "prune"
        BY <3>1, <3>2, <3>3, GotoAlone
      <3> QED  BY <3>1, <3>4 DEF Write
    <2> QED  BY <2>1, <2>2
  <1>3. CASE PruneTurns(c)
    <2>0. UNCHANGED <<recent, nextThread, nextTurn>>
      BY <1>3 DEF PruneTurns
    <2>1. Alone(c) /\ pc'[c] \in {"idle", "prompt"}
      <3>1. CASE End(c)
        BY <2>0, <3>1, FailAlone
      <3>2. CASE ~End(c)
        <4> DEFINE j == [NoJob EXCEPT !.cmd = "chat", !.repl = TRUE, !.thread = job[c].thread,
                                      !.mem = Replay(Append(job[c].mem, job[c].turn))]
        <4>1. Fits(j, nextThread)
          BY IdsBelow DEF Fits
        <4>2. Goto(c, "prompt", j)
          BY <1>3, <3>2 DEF PruneTurns
        <4> HIDE DEF j
        <4> QED  BY <2>0, <4>1, <4>2, GotoAlone
      <3> QED  BY <3>1, <3>2
    <2> QED  BY <1>3, <2>0, <2>1 DEF PruneTurns, Write, Trimmed, Local, Turns
  <1>4. CASE RenameThread(c)
    <2>1. Alone(c) /\ pc'[c] \in {"idle", "prompt"}
      BY <1>4, FailAlone DEF RenameThread
    <2> QED  BY <1>4, <2>1 DEF RenameThread, Write, Renamed, Local
  <1>5. CASE DeleteThread(c)
    <2>1. Alone(c) /\ pc'[c] \in {"idle", "prompt"}
      BY <1>5, FailAlone DEF DeleteThread
    <2> QED  BY <1>5, <2>1 DEF DeleteThread, Write, Deleted, Local
  <1> QED  BY <1>1, <1>2, <1>3, <1>4, <1>5

\* Every step of a client is one of three kinds.
LEMMA StepKinds ==
  ASSUME SInv, Next
  PROVE  \E c \in Clients : (Alone(c) /\ (Local(c) \/ Write(c))) \/ BeginAppend(c)
  BY StartsAlone, ReadsAlone, WritesAlone DEF Next, CommandStep

-----------------------------------------------------------------------------
(* The turns of one thread *)

\* A turn behind the last keeps a thread in order.
LEMMA AppendInOrder ==
  ASSUME NEW turns, NEW i, NEW n \in Nat \ {0}, InOrder(turns, n), Behind(turns, i)
  PROVE  InOrder(turns \cup {[id |-> n, index |-> i]}, n + 1)
  <1> DEFINE new == [id |-> n, index |-> i]
             all == turns \cup {new}
  <1>1. /\ i \in Nat
        /\ \A t \in turns : t.id \in 1 .. n - 1 /\ t.index \in Nat /\ t.index < i
        /\ new.id = n /\ new.index = i
    BY DEF InOrder, Behind
  <1>2. all \subseteq [id : 1 .. n, index : Nat]
    BY DEF InOrder, Behind
  <1>3. IsFiniteSet(all)
    BY FS_AddElement DEF InOrder
  <1>4. \A t, u \in all : t.id < u.id <=> t.index < u.index
    BY <1>1 DEF InOrder
  <1>5. ASSUME NEW t \in all, NEW u \in all, NEW k \in t.index .. u.index
        PROVE  \E v \in all : v.index = k
    <2>1. CASE k = i
      BY <1>1, <2>1
    <2>2. CASE k # i /\ u # new
      BY <1>1, <2>2 DEF InOrder
    <2>3. CASE k # i /\ u = new
      <3>1. t \in turns /\ k < i
        BY <1>1, <2>3
      <3>2. PICK w \in turns : w.index + 1 = i
        BY <3>1 DEF Behind
      <3>3. k \in t.index .. w.index
        BY <1>1, <3>1, <3>2
      <3> QED  BY <3>1, <3>2, <3>3 DEF InOrder
    <2> QED  BY <2>1, <2>2, <2>3
  <1>6. \A t \in all : t.index <= new.index
    BY <1>1
  <1> HIDE DEF new
  <1>7. /\ all \subseteq [id : 1 .. (n + 1) - 1, index : Nat]
        /\ new \in all
    BY <1>2
  <1> QED  BY <1>3, <1>4, <1>5, <1>6, <1>7 DEF InOrder, new

\* Pruning leaves the end of a thread.
LEMMA PrunedIsEnd ==
  ASSUME NEW turns, NEW n \in Nat, InOrder(turns, n)
  PROVE  /\ Pruned(turns) \subseteq turns
         /\ \A t \in Pruned(turns), u \in turns : t.index <= u.index => u \in Pruned(turns)
         /\ \A last \in turns :
               (\A t \in turns : t.index <= last.index) => last \in Pruned(turns)
  <1> DEFINE kept == Pruned(turns)
  <1>1. \A v \in turns : v.index \in Nat
    BY DEF InOrder
  <1>2. CASE MaxTurns = 0
    BY <1>2 DEF Pruned
  <1>3. CASE MaxTurns # 0
    <2>1. ASSUME NEW t \in kept, NEW u \in turns, t.index <= u.index
          PROVE  u \in kept
      <3>1. t \in turns /\ \A v \in turns : t.index + MaxTurns > v.index
        BY <1>3 DEF Pruned
      <3>2. \A v \in turns : u.index + MaxTurns > v.index
        BY <1>1, <2>1, <3>1, SessionsAssumption
      <3> QED  BY <1>3, <3>2 DEF Pruned
    <2>2. ASSUME NEW last \in turns, \A t \in turns : t.index <= last.index
          PROVE  last \in kept
      <3>1. \A t \in turns : last.index + MaxTurns > t.index
        BY <1>1, <1>3, <2>2, SessionsAssumption
      <3> QED  BY <1>3, <3>1 DEF Pruned
    <2> QED  BY <1>3, <2>1, <2>2 DEF Pruned
  <1> QED  BY <1>2, <1>3

\* So it keeps a thread in order.
LEMMA PrunedInOrder ==
  ASSUME NEW turns, NEW n \in Nat, InOrder(turns, n)
  PROVE  /\ InOrder(Pruned(turns), n)
         /\ \A i : Behind(turns, i) => Behind(Pruned(turns), i)
  <1> DEFINE kept == Pruned(turns)
  <1>1. /\ kept \subseteq turns
        /\ \A t \in kept, u \in turns : t.index <= u.index => u \in kept
    BY PrunedIsEnd
  <1>2. ASSUME NEW last \in turns, \A t \in turns : t.index <= last.index
        PROVE  last \in kept
    BY <1>2, PrunedIsEnd
  <1> HIDE DEF kept
  <1>3. \A t \in turns : t.index \in Nat
    BY DEF InOrder
  <1>4. InOrder(kept, n)
    <2>1. kept \subseteq [id : 1 .. n - 1, index : Nat] /\ IsFiniteSet(kept)
      BY <1>1, FS_Subset DEF InOrder
    <2>2. \A t, u \in kept : t.id < u.id <=> t.index < u.index
      BY <1>1 DEF InOrder
    <2>3. ASSUME NEW t \in kept, NEW u \in kept, NEW k \in t.index .. u.index
          PROVE  \E v \in kept : v.index = k
      <3>1. PICK v \in turns : v.index = k
        BY <1>1 DEF InOrder
      <3> QED  BY <1>1, <1>3, <3>1
    <2>4. kept # {} => \E last \in kept : \A t \in kept : t.index <= last.index
      BY <1>1, <1>2 DEF InOrder
    <2> QED  BY <2>1, <2>2, <2>3, <2>4 DEF InOrder
  <1>5. ASSUME NEW i, Behind(turns, i)
        PROVE  Behind(kept, i)
    <2>1. i \in Nat /\ \A t \in kept : t.index < i
      BY <1>1, <1>5 DEF Behind
    <2>2. ASSUME kept # {}
          PROVE  \E t \in kept : t.index + 1 = i
      <3>1. PICK t \in turns : t.index + 1 = i
        BY <1>1, <1>5, <2>2 DEF Behind
      <3>2. \A u \in turns : u.index <= t.index
        BY <1>3, <1>5, <3>1 DEF Behind
      <3> QED  BY <1>2, <3>1, <3>2
    <2> QED  BY <2>1, <2>2 DEF Behind
  <1> QED  BY <1>4, <1>5 DEF kept

\* What AppendTurn reads is the place behind the last turn.
ReadIndex(indexes) ==
    IF indexes = {} THEN 0
    ELSE 1 + CHOOSE m \in indexes : \A i \in indexes : i <= m

LEMMA ReadIsNext ==
  ASSUME NEW turns, NEW n \in Nat, InOrder(turns, n)
  PROVE  Behind(turns, ReadIndex({t.index : t \in turns}))
  <1>1. \A t \in turns : t.index \in Nat
    BY DEF InOrder
  <1>2. CASE turns = {}
    BY <1>2 DEF Behind, ReadIndex
  <1>3. CASE turns # {}
    <2> DEFINE indexes == {t.index : t \in turns}
               top == CHOOSE m \in indexes : \A i \in indexes : i <= m
    <2>1. \E m \in indexes : \A i \in indexes : i <= m
      BY <1>3 DEF InOrder
    <2>2. top \in indexes /\ \A i \in indexes : i <= top
      BY <2>1
    <2>3. ReadIndex(indexes) = 1 + top
      BY <1>3 DEF ReadIndex
    <2>4. (\A t \in turns : t.index <= top) /\ \E t \in turns : t.index = top
      BY <2>2
    <2> HIDE DEF top
    <2>5. top \in Nat
      BY <1>1, <2>4
    <2>6. Behind(turns, 1 + top)
      BY <1>1, <2>4, <2>5 DEF Behind
    <2> QED  BY <2>3, <2>6
  <1> QED  BY <1>2, <1>3

-----------------------------------------------------------------------------
(* The invariant *)

LEMMA BeginAlone ==
  ASSUME SInv, NEW c \in Clients, BeginAppend(c)
  PROVE  /\ Alone(c) /\ UNCHANGED <<db, stale>>
         /\ job'[c].thread \in Rows => Behind(Turns(job'[c].thread), job'[c].index)
  <1> DEFINE indexes == IF job[c].thread \in Rows
                        THEN {t.index : t \in threads[job[c].thread].turns} ELSE {}
             index == ReadIndex(indexes)
             read == [job[c] EXCEPT !.index = index]
  <1>1. Goto(c, "insert", read) /\ UNCHANGED <<db, stale>>
    BY DEF BeginAppend, ReadIndex
  <1>2. job[c].thread \in Rows => Behind(Turns(job[c].thread), index)
    <2> SUFFICES ASSUME job[c].thread \in Rows
                 PROVE  Behind(Turns(job[c].thread), index)
      OBVIOUS
    <2>1. InOrder(Turns(job[c].thread), nextTurn)
      BY DEF SInv
    <2>2. indexes = {t.index : t \in Turns(job[c].thread)}
      BY DEF Turns
    <2>3. nextTurn \in Nat
      BY DEF SInv, Tables
    <2> HIDE DEF indexes
    <2> QED  BY <2>1, <2>2, <2>3, ReadIsNext
  <1> HIDE DEF index
  <1>3. /\ Fits(read, nextThread)
        /\ read.thread = job[c].thread /\ read.index = index
    BY IdsBelow DEF Fits
  <1> HIDE DEF read
  <1>4. nextThread' = nextThread
    BY <1>1 DEF db
  <1> QED  BY <1>1, <1>2, <1>3, <1>4, GotoAlone

\* A command's write leaves every other append with an outdated snapshot.
LEMMA WriteSnapshots ==
  ASSUME SInv, NEW c \in Clients, Alone(c), Write(c)
  PROVE  SnapshotsHold'
  <1>1. \A d \in Clients \ stale' : pc'[d] # "insert"
    BY DEF Alone, Write, Commit
  <1> QED  BY <1>1 DEF SnapshotsHold

LEMMA WriteTables ==
  ASSUME SInv, NEW c \in Clients, Write(c)
  PROVE  Tables' /\ \A s \in Rows' : InOrder(threads'[s].turns, nextTurn')
  <1>0. /\ Tables /\ SessionsAssumption
        /\ \A s \in Rows : InOrder(threads[s].turns, nextTurn)
    BY SessionsAssumption DEF SInv, Turns
  <1>1. CASE Opened(c)
    <2> DEFINE n == job[c].name
    <2>1. threads' = [r \in Rows \cup {nextThread} |->
                        IF r = nextThread THEN [name |-> n, turns |-> {}] ELSE threads[r]]
      BY <1>1 DEF Opened, Added
    <2>2. Rows' = Rows \cup {nextThread} /\ nextThread \notin Rows
      BY <1>0, <2>1 DEF Rows, Tables
    <2>3. /\ threads'[nextThread] = [name |-> n, turns |-> {}]
          /\ \A s \in Rows : threads'[s] = threads[s] /\ threads[s].name # n
      BY <1>1, <2>1, <2>2 DEF Opened, Named
    <2>4. nextThread \in 1 .. MaxThreads /\ nextThread' = nextThread + 1 /\ nextTurn' = nextTurn
      BY <1>0, <1>1 DEF Opened, Tables, SessionsAssumption
    <2>5. /\ nextThread' \in Nat \ {0} /\ nextTurn' \in Nat \ {0}
          /\ Rows' \subseteq 1 .. nextThread' - 1 /\ Rows' \subseteq 1 .. MaxThreads
      BY <1>0, <2>2, <2>4 DEF Tables
    <2>6. \A r, s \in Rows' : threads'[r].name = threads'[s].name => r = s
      BY <1>0, <2>2, <2>3 DEF Tables
    <2>7. threads' = [s \in Rows' |-> [name |-> threads'[s].name, turns |-> threads'[s].turns]]
      BY <1>0, <2>1, <2>2, <2>3 DEF Tables, Turns
    <2>8. InOrder({}, nextTurn)
      BY FS_EmptySet DEF InOrder
    <2>9. \A s \in Rows' : InOrder(threads'[s].turns, nextTurn')
      <3>1. threads'[nextThread].turns = {}
        BY <2>3
      <3> QED  BY <1>0, <2>2, <2>3, <2>4, <2>8, <3>1
    <2> QED  BY <2>5, <2>6, <2>7, <2>9 DEF Tables, Turns
  <1>2. CASE Recorded(c)
    <2> DEFINE s == job[c].thread
               more == threads[s].turns \cup {[id |-> nextTurn, index |-> job[c].index]}
    <2>1. s \in Rows /\ Behind(threads[s].turns, job[c].index)
      BY <1>2 DEF Recorded, SInv, SnapshotsHold, Turns
    <2>0. threads' = [threads EXCEPT ![s].turns = more]
      BY <1>2 DEF Recorded
    <2> HIDE DEF more
    <2>2. /\ Rows' = Rows
          /\ \A r \in Rows : threads'[r] = IF r = s
                THEN [name |-> threads[s].name, turns |-> more]
                ELSE threads[r]
      BY <1>0, <2>0, <2>1 DEF Tables, Turns, Rows
    <2>3. nextThread' = nextThread /\ nextTurn' = nextTurn + 1 /\ nextTurn \in Nat \ {0}
      BY <1>0, <1>2 DEF Recorded, Tables
    <2>4. ASSUME NEW r \in Rows
          PROVE  InOrder(threads'[r].turns, nextTurn')
      <3>1. CASE r = s
        <4>1. InOrder(more, nextTurn + 1)
          BY <1>0, <2>1, <2>3, AppendInOrder DEF more
        <4> QED  BY <2>1, <2>2, <2>3, <3>1, <4>1
      <3>2. CASE r # s
        BY <1>0, <2>2, <2>3, <3>2 DEF InOrder
      <3> QED  BY <3>1, <3>2
    <2>5. threads' = [r \in Rows' |-> [name |-> threads'[r].name, turns |-> threads'[r].turns]]
      BY <1>0, <2>0, <2>1, <2>2 DEF Tables, Turns
    <2>6. \A r \in Rows : threads'[r].name = threads[r].name
      BY <2>2
    <2> QED  BY <1>0, <2>2, <2>3, <2>4, <2>5, <2>6 DEF Tables, Turns
  <1>3. CASE Trimmed(c)
    <2> DEFINE s == job[c].thread
    <2>1. s \in Rows
      BY <1>3 DEF Trimmed
    <2>2. /\ Rows' = Rows
          /\ \A r \in Rows : threads'[r] = IF r = s
                THEN [name |-> threads[s].name, turns |-> Pruned(threads[s].turns)]
                ELSE threads[r]
      BY <1>0, <1>3, <2>1 DEF Trimmed, Tables, Turns, Rows
    <2>3. nextThread' = nextThread /\ nextTurn' = nextTurn /\ nextTurn \in Nat \ {0}
      BY <1>0, <1>3 DEF Trimmed, Tables
    <2>4. \A r \in Rows : InOrder(threads'[r].turns, nextTurn')
      BY <1>0, <2>2, <2>3, PrunedInOrder
    <2>5. threads' = [r \in Rows' |-> [name |-> threads'[r].name, turns |-> threads'[r].turns]]
      BY <1>0, <1>3, <2>1, <2>2 DEF Trimmed, Tables, Turns
    <2>6. \A r \in Rows : threads'[r].name = threads[r].name
      BY <2>2
    <2> QED  BY <1>0, <2>2, <2>3, <2>4, <2>5, <2>6 DEF Tables, Turns
  <1>4. CASE Renamed(c)
    <2>1. /\ Rows' = Rows
          /\ \A r \in Rows : threads'[r] =
                [name |-> IF r \in Named(job[c].name) THEN job[c].to ELSE threads[r].name,
                 turns |-> threads[r].turns]
      BY <1>0, <1>4 DEF Renamed, Tables, Turns, Rows
    <2>2. nextThread' = nextThread /\ nextTurn' = nextTurn
      BY <1>4 DEF Renamed
    <2>3. threads' = [r \in Rows' |-> [name |-> threads'[r].name, turns |-> threads'[r].turns]]
      BY <1>4, <2>1 DEF Renamed
    <2>4. \A q, r \in Rows : threads'[q].name = threads'[r].name => q = r
      BY <1>0, <1>4, <2>1 DEF Renamed, Tables, Named
    <2> QED  BY <1>0, <2>1, <2>2, <2>3, <2>4 DEF Tables, Turns
  <1>5. CASE Deleted(c)
    <2>1. Rows' \subseteq Rows /\ \A r \in Rows' : threads'[r] = threads[r]
      BY <1>5 DEF Deleted, Rows
    <2>2. nextThread' = nextThread /\ nextTurn' = nextTurn
      BY <1>5 DEF Deleted
    <2>3. threads' = [r \in Rows' |-> [name |-> threads'[r].name, turns |-> threads'[r].turns]]
      <3>1. threads' = [r \in Rows' |-> threads[r]]
        BY <1>5 DEF Deleted, Rows
      <3> QED  BY <1>0, <2>1, <3>1 DEF Tables, Turns
    <2> QED  BY <1>0, <2>1, <2>2, <2>3 DEF Tables, Turns
  <1> QED  BY <1>1, <1>2, <1>3, <1>4, <1>5 DEF Write

\* A thread leaves the order of use and the others stay in it.
LEMMA WithoutRow ==
  ASSUME NEW S, Listing(recent, S), NEW s \in S
  PROVE  Listing(Without(s), S \ {s})
  <1> DEFINE at == CHOOSE i \in DOMAIN recent : recent[i] = s
             before == SubSeq(recent, 1, at - 1)
             after == SubSeq(recent, at + 1, Len(recent))
             both == before \o after
             Old(i) == IF i < at THEN i ELSE i + 1
  <1>0. recent \in Seq(S)
    BY DEF Listing
  <1>1. at \in 1 .. Len(recent) /\ recent[at] = s
    <2>1. recent \in Seq(S) /\ \E i \in DOMAIN recent : recent[i] = s
      BY DEF Listing, ToSet
    <2> QED  BY <2>1
  <1>2. Without(s) = both
    BY DEF Without, RemoveAt
  <1> HIDE DEF at
  <1>3. /\ Len(recent) \in Nat /\ DOMAIN recent = 1 .. Len(recent)
        /\ \A i \in 1 .. Len(recent) : recent[i] \in S
        /\ \A i, k \in 1 .. Len(recent) : recent[i] = recent[k] => i = k
        /\ \A r \in S : \E i \in 1 .. Len(recent) : recent[i] = r
    BY DEF Listing, ToSet, IsInjective
  <1>4. /\ before \in Seq(S) /\ Len(before) = at - 1
        /\ \A i \in 1 .. at - 1 : before[i] = recent[i]
    <2>1. \A i \in 1 .. at - 1 : recent[i] \in S
      BY <1>1, <1>3
    <2> QED  BY <1>0, <1>1, <1>3, <2>1, SubSeqProperties
  <1>5. /\ after \in Seq(S) /\ Len(after) = Len(recent) - at
        /\ \A i \in 1 .. Len(recent) - at : after[i] = recent[at + i]
    <2>1. \A i \in at + 1 .. Len(recent) : recent[i] \in S
      BY <1>1, <1>3
    <2>2. Len(recent) \in Nat /\ at \in 1 .. Len(recent)
      BY <1>1, <1>3
    <2> QED  BY <1>0, <2>1, <2>2, SubSeqProperties
  <1> HIDE DEF before, after
  <1>6. /\ both \in Seq(S)
        /\ Len(both) = Len(recent) - 1
        /\ \A i \in 1 .. Len(recent) - 1 : both[i] =
               IF i <= at - 1 THEN before[i] ELSE after[i - (at - 1)]
    <2>1. /\ both \in Seq(S)
          /\ Len(both) = Len(before) + Len(after)
          /\ \A i \in 1 .. Len(before) + Len(after) : both[i] =
                 IF i <= Len(before) THEN before[i] ELSE after[i - Len(before)]
      BY <1>4, <1>5, ConcatProperties
    <2>2. Len(before) + Len(after) = Len(recent) - 1
      BY <1>1, <1>3, <1>4, <1>5
    <2> QED  BY <1>4, <2>1, <2>2
  <1>7. DOMAIN both = 1 .. Len(recent) - 1
    BY <1>6
  <1> HIDE DEF both
  <1>8. ASSUME NEW i \in 1 .. Len(recent) - 1
        PROVE  Old(i) \in 1 .. Len(recent) /\ Old(i) # at /\ both[i] = recent[Old(i)]
    <2>1. CASE i < at
      <3>1. i \in 1 .. at - 1 /\ i <= at - 1
        BY <1>1, <1>3, <2>1
      <3> QED  BY <1>1, <1>3, <1>4, <1>6, <2>1, <3>1
    <2>2. CASE ~(i < at)
      <3>1. /\ ~(i <= at - 1) /\ i - (at - 1) \in 1 .. Len(recent) - at
            /\ at + (i - (at - 1)) = i + 1 /\ i + 1 \in 1 .. Len(recent) /\ i + 1 # at
        BY <1>1, <1>3, <2>2
      <3> QED  BY <1>5, <1>6, <2>2, <3>1
    <2> QED  BY <2>1, <2>2
  <1>9. ASSUME NEW r \in S \ {s}
        PROVE  \E k \in 1 .. Len(recent) - 1 : both[k] = r
    <2>1. PICK i \in 1 .. Len(recent) : recent[i] = r
      BY <1>3
    <2>2. i # at
      BY <1>1, <2>1
    <2>3. CASE i < at
      <3>1. i \in 1 .. Len(recent) - 1 /\ Old(i) = i
        BY <1>1, <1>3, <2>3
      <3> QED  BY <1>8, <2>1, <3>1
    <2>4. CASE i > at
      <3>1. i - 1 \in 1 .. Len(recent) - 1 /\ Old(i - 1) = i
        BY <1>1, <1>3, <2>4
      <3> QED  BY <1>8, <2>1, <3>1
    <2> QED  BY <1>1, <2>2, <2>3, <2>4
  <1>10. \A i \in 1 .. Len(recent) - 1 : both[i] \in S \ {s}
    BY <1>1, <1>3, <1>8
  <1>11. IsInjective(both)
    <2> SUFFICES ASSUME NEW i \in 1 .. Len(recent) - 1, NEW k \in 1 .. Len(recent) - 1,
                        both[i] = both[k]
                 PROVE  i = k
      BY <1>7 DEF IsInjective
    <2>1. Old(i) = Old(k)
      BY <1>3, <1>8
    <2> QED  BY <1>1, <1>3, <2>1
  <1>12. both \in Seq(S \ {s})
    BY <1>6, <1>7, <1>10
  <1>13. ToSet(both) = S \ {s}
    BY <1>7, <1>9, <1>10 DEF ToSet
  <1> QED  BY <1>2, <1>11, <1>12, <1>13 DEF Listing

\* A thread that is not listed is put last.
LEMMA AppendRow ==
  ASSUME NEW S, NEW order, Listing(order, S), NEW s, s \notin S
  PROVE  Listing(Append(order, s), S \cup {s})
  <1> DEFINE longer == Append(order, s)
             n == Len(order)
  <1>1. order \in Seq(S) /\ order \in Seq(S \cup {s})
    BY SeqMonotonic DEF Listing
  <1>2. /\ longer \in Seq(S \cup {s})
        /\ n \in Nat /\ Len(longer) = n + 1
        /\ \A i \in 1 .. n : longer[i] = order[i]
        /\ longer[n + 1] = s
    BY <1>1, AppendProperties
  <1>3. /\ DOMAIN order = 1 .. n /\ DOMAIN longer = 1 .. n + 1
        /\ \A i \in 1 .. n : order[i] \in S
    BY <1>1, <1>2
  <1> HIDE DEF longer, n
  <1>4. \A i \in 1 .. n + 1 : i \in 1 .. n \/ i = n + 1
    BY <1>2
  <1>5. 1 .. n \subseteq 1 .. n + 1 /\ n + 1 \in 1 .. n + 1
    BY <1>2
  <1>6. ToSet(longer) = S \cup {s}
    BY <1>2, <1>3, <1>4, <1>5 DEF Listing, ToSet
  <1>7. IsInjective(longer)
    BY <1>2, <1>3, <1>4 DEF Listing, IsInjective
  <1> QED  BY <1>2, <1>6, <1>7 DEF Listing, longer

LEMMA WriteRecency ==
  ASSUME SInv, NEW c \in Clients, Write(c)
  PROVE  Recency'
  <1>0. Listing(recent, Rows) /\ Tables /\ nextThread \notin Rows
    BY DEF SInv, Recency, Tables
  <1>1. CASE Opened(c)
    BY <1>0, <1>1, AppendRow DEF Opened, Added, Rows, Recency
  <1>2. CASE Recorded(c)
    <2> DEFINE s == job[c].thread
    <2>1. s \in Rows /\ recent' = Append(Without(s), s)
      BY <1>2 DEF Recorded, Touched
    <2>2. Rows' = Rows
      BY <1>0, <1>2, <2>1 DEF Recorded, Rows, Tables
    <2>3. Listing(Without(s), Rows \ {s})
      BY <1>0, <2>1, WithoutRow
    <2> HIDE DEF s
    <2>4. Listing(Append(Without(s), s), (Rows \ {s}) \cup {s})
      BY <2>3, AppendRow
    <2>5. (Rows \ {s}) \cup {s} = Rows
      BY <2>1
    <2> QED  BY <2>1, <2>2, <2>4, <2>5 DEF Recency
  <1>3. CASE Trimmed(c) \/ Renamed(c)
    BY <1>0, <1>3 DEF Trimmed, Renamed, Recency, Rows, Tables
  <1>4. CASE Deleted(c)
    <2>1. PICK s \in Named(job[c].name) : recent' = Without(s)
      BY <1>4 DEF Deleted
    <2>2. s \in Rows /\ Named(job[c].name) = {s}
      BY <1>0, <2>1 DEF Named, Tables
    <2>3. Rows' = Rows \ {s}
      BY <1>4, <2>2 DEF Deleted, Rows
    <2> QED  BY <1>0, <2>1, <2>2, <2>3, WithoutRow DEF Recency
  <1> QED  BY <1>1, <1>2, <1>3, <1>4 DEF Write

LEMMA SessionsStep == SInv /\ [Next]_vars => SInv'
  <1> SUFFICES ASSUME SInv, [Next]_vars PROVE SInv'
    OBVIOUS
  <1>1. CASE UNCHANGED vars
    BY <1>1 DEF vars, db, SInv, Locals, Tables, Recency, SnapshotsHold, Turns, Rows
  <1>2. ASSUME NEW c \in Clients, Alone(c), Local(c)
        PROVE  SInv'
    <2>1. SnapshotsHold'
      BY <1>2 DEF SInv, SnapshotsHold, Alone, Local, Turns, Rows
    <2> QED  BY <1>2, <2>1 DEF SInv, Alone, Local, Tables, Recency, Turns, Rows
  <1>3. ASSUME NEW c \in Clients, BeginAppend(c)
        PROVE  SInv'
    <2>1. SnapshotsHold'
      BY <1>3, BeginAlone DEF SInv, SnapshotsHold, Alone, Turns, Rows, db
    <2> QED  BY <1>3, <2>1, BeginAlone DEF SInv, Alone, Tables, Recency, Turns, Rows, db
  <1>4. ASSUME NEW c \in Clients, Alone(c), Write(c)
        PROVE  SInv'
    BY <1>4, WriteSnapshots, WriteTables, WriteRecency DEF SInv, Alone, Turns
  <1> QED  BY <1>1, <1>2, <1>3, <1>4, StepKinds DEF SInv

\* The turns of a thread are indexed in the order in which they were recorded
\* and without a gap, an append whose snapshot is current writes behind the
\* last of them, and no two threads share a name, whatever asks, chats,
\* renames, deletions and prunings are interleaved (session.go:182-205).
THEOREM SessionsInvariance == Spec => []SInv
  BY SessionsInit, SessionsStep, PTL DEF Spec

-----------------------------------------------------------------------------
(* No thread takes the place of another *)

\* A row that a step adds has an id that was never used.
LEMMA NewRow ==
  ASSUME SInv, [Next]_vars, NEW s \in Rows'
  PROVE  s \in Rows \/ s = nextThread
  <1>1. CASE UNCHANGED vars
    BY <1>1 DEF vars, db, Rows
  <1>2. ASSUME NEW c \in Clients, Local(c) \/ BeginAppend(c)
        PROVE  s \in Rows
    BY <1>2 DEF Local, BeginAppend, db, Rows
  <1>3. ASSUME NEW c \in Clients, Write(c)
        PROVE  s \in Rows \/ s = nextThread
    <2>1. CASE Opened(c)
      BY <2>1 DEF Opened, Added, Rows
    <2>2. CASE Recorded(c) \/ Trimmed(c) \/ Renamed(c) \/ Deleted(c)
      BY <2>2 DEF Recorded, Trimmed, Renamed, Deleted, Rows, SInv, Tables
    <2> QED  BY <1>3, <2>1, <2>2 DEF Write
  <1> QED  BY <1>1, <1>2, <1>3, StepKinds

\* A command that holds a thread by its id never finds in its place a thread
\* created after its own was deleted, for the ids of threads are handed out
\* in order and never again (migrate.go:128).
THEOREM NeverAnotherThreadAlways == Spec => NeverAnotherThread
  <1>1. ASSUME SInv, [Next]_vars, NEW c \in Clients,
               NEW s \in {job[c].thread, job[c].found}, s \in Rows'
        PROVE  s \in Rows
    <2>1. s \in 0 .. nextThread - 1 /\ nextThread \in Nat \ {0}
      BY <1>1, IdsBelow DEF Fits
    <2>2. s # nextThread
      BY <2>1
    <2> QED  BY <1>1, <2>2, NewRow
  <1>2. SInv /\ [Next]_vars =>
          [\A c \in Clients : \A s \in {job[c].thread, job[c].found} : s \in Rows' => s \in Rows]_vars
    BY <1>1
  <1> QED  BY <1>2, SessionsInvariance, PTL DEF Spec, NeverAnotherThread

-----------------------------------------------------------------------------
(* The refinement *)

Ids(turns) == {t.id : t \in turns}

\* As many turns are newer than one as there are places behind its own.
LEMMA NewerTurns ==
  ASSUME NEW turns, NEW n \in Nat, InOrder(turns, n), NEW t \in turns, NEW last \in turns,
         \A u \in turns : u.index <= last.index
  PROVE  Cardinality({i \in Ids(turns) : i > t.id}) = last.index - t.index
  <1> DEFINE newer == {i \in Ids(turns) : i > t.id}
             places == t.index + 1 .. last.index
             At(k) == CHOOSE u \in turns : u.index = k
             f == [k \in places |-> At(k).id]
  <1>1. \A u \in turns : u.id \in Nat /\ u.index \in Nat
    BY DEF InOrder
  <1>2. ASSUME NEW k \in places
        PROVE  At(k) \in turns /\ At(k).index = k
    <2>1. k \in t.index .. last.index
      BY <1>1
    <2>2. \E u \in turns : u.index = k
      BY <2>1 DEF InOrder
    <2> QED  BY <2>2
  <1> HIDE DEF At
  <1>3. f \in [places -> newer]
    BY <1>1, <1>2 DEF InOrder, Ids
  <1>4. \A j, k \in places : f[j] = f[k] => j = k
    <2> SUFFICES ASSUME NEW j \in places, NEW k \in places, At(j).id = At(k).id
                 PROVE  j = k
      OBVIOUS
    <2>1. At(j).index = At(k).index
      BY <1>1, <1>2 DEF InOrder
    <2> QED  BY <1>2, <2>1
  <1>5. ASSUME NEW i \in newer
        PROVE  \E k \in places : f[k] = i
    <2>1. PICK u \in turns : u.id = i
      BY DEF Ids
    <2>2. u.index \in places
      BY <1>1, <2>1 DEF InOrder
    <2>3. At(u.index).id = u.id
      BY SMTT(20), <1>1, <1>2, <2>2 DEF InOrder
    <2> QED  BY <2>1, <2>2, <2>3
  <1>6. ExistsBijection(places, newer)
    <2> HIDE DEF f, places, newer
    <2> QED  BY <1>3, <1>4, <1>5 DEF ExistsBijection, Bijection, Injection, Surjection,
                                    IsInjective
  <1>7. IsFiniteSet(places) /\ Cardinality(places) = last.index - t.index
    <2>1. t.index + 1 \in Int /\ last.index \in Int /\ t.index <= last.index
      BY <1>1
    <2>2. /\ IsFiniteSet(places)
          /\ Cardinality(places) = IF t.index + 1 > last.index THEN 0
                                   ELSE last.index - (t.index + 1) + 1
      BY <2>1, FS_Interval
    <2> HIDE DEF places
    <2> QED  BY <1>1, <2>1, <2>2
  <1> HIDE DEF places, newer
  <1> QED  BY <1>6, <1>7, FS_Bijection DEF newer

LEMMA SameCount == \A S : Log!Cardinality(S) = Cardinality(S)
  BY DEF Cardinality, Log!Cardinality

\* Pruning by index leaves the newest turns, MaxTurns of them at most.
LEMMA PrunedIsNewest ==
  ASSUME NEW turns, NEW n \in Nat, InOrder(turns, n), MaxTurns # 0
  PROVE  Ids(Pruned(turns)) = Log!Newest(Ids(turns))
  <1>1. \A u \in turns : u.id \in Nat /\ u.index \in Nat
    BY DEF InOrder
  <1>2. ASSUME NEW t \in turns
        PROVE  t \in Pruned(turns) <=> t.id \in Log!Newest(Ids(turns))
    <2>1. PICK last \in turns : \A u \in turns : u.index <= last.index
      BY DEF InOrder
    <2>2. Cardinality({i \in Ids(turns) : i > t.id}) = last.index - t.index
      BY <2>1, NewerTurns
    <2>3. t.id \in Log!Newest(Ids(turns)) <=> last.index - t.index < MaxTurns
      BY <2>2, SameCount DEF Log!Newest, Ids
    <2>4. t \in Pruned(turns) <=> t.index + MaxTurns > last.index
      BY <1>1, <2>1, SessionsAssumption DEF Pruned
    <2> QED  BY <1>1, <2>3, <2>4, SessionsAssumption
  <1>3. Pruned(turns) \subseteq turns
    BY DEF Pruned
  <1>4. Log!Newest(Ids(turns)) \subseteq Ids(turns)
    BY DEF Log!Newest
  <1> QED  BY <1>2, <1>3, <1>4 DEF Ids

\* The logs as ThreadLog sees them.
Logs == [s \in Rows |-> Ids(threads[s].turns)]

LEMMA WriteRefines ==
  ASSUME SInv, NEW c \in Clients, Write(c)
  PROVE  [Log!Next]_(Log!vars)
  <1>0. /\ Tables /\ SessionsAssumption
        /\ \A s \in Rows : InOrder(threads[s].turns, nextTurn)
    BY SessionsAssumption DEF SInv, Turns
  <1>1. CASE Opened(c)
    <2>1. /\ nextThread \in 1 .. MaxThreads /\ nextThread \notin Rows
          /\ nextTurn' = nextTurn
      BY <1>0, <1>1 DEF Opened, Tables, SessionsAssumption
    <2>2. threads' = [r \in Rows \cup {nextThread} |->
                        IF r = nextThread THEN [name |-> job[c].name, turns |-> {}] ELSE threads[r]]
      BY <1>1 DEF Opened, Added
    <2>3. Rows' = Rows \cup {nextThread} /\ threads'[nextThread].turns = {}
      BY <2>2 DEF Rows
    <2>4. Logs' = [r \in Rows \cup {nextThread} |-> IF r = nextThread THEN {} ELSE Logs[r]]
      BY <2>1, <2>2, <2>3 DEF Logs, Ids
    <2>5. DOMAIN Logs = Rows
      BY DEF Logs
    <2> QED  BY <2>1, <2>4, <2>5 DEF Log!Next, Log!Open, Logs, Ids
  <1>2. CASE Recorded(c)
    <2> DEFINE s == job[c].thread
               new == [id |-> nextTurn, index |-> job[c].index]
               more == threads[s].turns \cup {new}
    <2>1. s \in Rows /\ nextTurn' = nextTurn + 1 /\ nextTurn \in Nat \ {0}
      BY <1>0, <1>2 DEF Recorded, Tables
    <2>2. threads' = [threads EXCEPT ![s].turns = more]
      BY <1>2 DEF Recorded
    <2>3. Ids(more) = Ids(threads[s].turns) \cup {nextTurn}
      <3>1. new.id = nextTurn
        OBVIOUS
      <3> HIDE DEF new
      <3> QED  BY <3>1 DEF Ids
    <2> HIDE DEF more
    <2>4. /\ Rows' = Rows
          /\ \A r \in Rows : threads'[r].turns = IF r = s THEN more ELSE threads[r].turns
      BY <1>0, <2>1, <2>2 DEF Tables, Turns, Rows
    <2>5. Logs' = [Logs EXCEPT ![s] = @ \cup {nextTurn}]
      BY <2>1, <2>3, <2>4 DEF Logs
    <2>6. nextTurn' - 1 = (nextTurn - 1) + 1 /\ nextTurn' - 1 = nextTurn
      BY <2>1
    <2>7. s \in DOMAIN Logs
      BY <2>1 DEF Logs
    <2> QED  BY <2>5, <2>6, <2>7 DEF Log!Next, Log!Record, Logs, Ids
  <1>3. CASE Trimmed(c)
    <2> DEFINE s == job[c].thread
    <2>1. s \in Rows /\ nextTurn' = nextTurn /\ nextTurn \in Nat
      BY <1>0, <1>3 DEF Trimmed, Tables
    <2>2. /\ Rows' = Rows
          /\ \A r \in Rows : threads'[r].turns =
                IF r = s THEN Pruned(threads[s].turns) ELSE threads[r].turns
      BY <1>0, <1>3, <2>1 DEF Trimmed, Tables, Turns, Rows
    <2>3. MaxTurns # 0
      BY <1>3 DEF Trimmed, Pruned
    <2>4. Ids(Pruned(threads[s].turns)) = Log!Newest(Ids(threads[s].turns))
      BY <1>0, <2>1, <2>3, PrunedIsNewest
    <2>5. Logs' = [Logs EXCEPT ![s] = Log!Newest(@)]
      BY <2>1, <2>2, <2>4 DEF Logs
    <2>6. s \in DOMAIN Logs /\ MaxTurns > 0
      BY <2>1, <2>3, SessionsAssumption DEF Logs
    <2> QED  BY <2>1, <2>5, <2>6 DEF Log!Next, Log!Trim, Logs, Ids
  <1>4. CASE Renamed(c)
    <2>1. Rows' = Rows /\ \A r \in Rows : threads'[r].turns = threads[r].turns
      BY <1>0, <1>4 DEF Renamed, Tables, Turns, Rows
    <2>2. Logs' = Logs /\ nextTurn' = nextTurn
      BY <1>4, <2>1 DEF Renamed, Logs
    <2> QED  BY <2>2 DEF Log!vars, Logs, Ids
  <1>5. CASE Deleted(c)
    <2>1. PICK s \in Named(job[c].name) : TRUE
      BY <1>5 DEF Deleted
    <2>2. s \in Rows /\ Named(job[c].name) = {s}
      BY <1>0, <2>1 DEF Named, Tables
    <2>3. Rows' = Rows \ {s} /\ \A r \in Rows' : threads'[r] = threads[r]
      BY <1>5, <2>2 DEF Deleted, Rows
    <2>4. Logs' = [r \in DOMAIN Logs \ {s} |-> Logs[r]] /\ s \in DOMAIN Logs
      BY <2>2, <2>3 DEF Logs
    <2>5. nextTurn' = nextTurn
      BY <1>5 DEF Deleted
    <2> QED  BY <2>4, <2>5 DEF Log!Next, Log!Remove, Logs, Ids
  <1> QED  BY <1>1, <1>2, <1>3, <1>4, <1>5 DEF Write

LEMMA StepRefines == SInv /\ [Next]_vars => [Log!Next]_(Log!vars)
  <1> SUFFICES ASSUME SInv, [Next]_vars PROVE [Log!Next]_(Log!vars)
    OBVIOUS
  <1>1. CASE UNCHANGED vars
    BY <1>1 DEF vars, db, Log!vars, Rows
  <1>2. ASSUME NEW c \in Clients, Local(c)
        PROVE  [Log!Next]_(Log!vars)
    BY <1>2 DEF Local, Log!vars, Rows
  <1>3. ASSUME NEW c \in Clients, BeginAppend(c)
        PROVE  [Log!Next]_(Log!vars)
    BY <1>3 DEF BeginAppend, db, Log!vars, Rows
  <1> QED  BY <1>1, <1>2, <1>3, StepKinds, WriteRefines DEF SInv

\* Whatever commands share the threads, each thread is a log: turns are added
\* at its end, none is overwritten, and pruning drops exactly the turns older
\* than the newest max_turns (session.go:182-188, 259-261).
THEOREM SessionsRefinement == Spec => ImplementsLog
  <1>1. Init => Log!Init
    BY DEF Init, Log!Init, Rows
  <1> QED  BY <1>1, SessionsInvariance, StepRefines, PTL DEF Spec, ImplementsLog, Log!Spec

-----------------------------------------------------------------------------
(* What a client replays *)

\* The turns of a thread can be read by index, and come in the order of their
\* ids: they fill the places from the first to the last.
LEMMA ByIndexSorts ==
  ASSUME NEW turns, NEW n \in Nat, InOrder(turns, n)
  PROVE  /\ Cardinality(turns) \in Nat
         /\ ByIndex(turns) \in [1 .. Cardinality(turns) -> turns]
         /\ \A i, j \in 1 .. Cardinality(turns) :
               i < j => ByIndex(turns)[i].index < ByIndex(turns)[j].index
  <1> DEFINE Sorts(f) ==
               /\ f \in [1 .. Cardinality(turns) -> turns]
               /\ \A i, j \in DOMAIN f : i < j => f[i].index < f[j].index
  <1>1. Cardinality(turns) \in Nat
    BY FS_CardinalityType DEF InOrder
  <1>2. \E f : Sorts(f)
    <2>1. CASE turns = {}
      <3>1. Cardinality(turns) = 0
        BY <2>1, FS_EmptySet
      <3>2. Sorts([i \in 1 .. 0 |-> 0])
        BY <3>1
      <3> QED  BY <3>2
    <2>2. CASE turns # {}
      <3>1. \A t \in turns : t.index \in Nat /\ t.id \in Nat
        BY DEF InOrder
      <3>2. PICK first \in turns : \A t \in turns : first.index <= t.index
        <4> DEFINE indexes == {t.index : t \in turns}
        <4>1. indexes \subseteq Nat /\ indexes # {}
          BY <2>2, <3>1
        <4>2. PICK m \in indexes : \A k \in indexes : m <= k
          BY <4>1, LeastNatural
        <4> QED  BY <4>2
      <3>3. PICK last \in turns : \A t \in turns : t.index <= last.index
        BY <2>2 DEF InOrder
      <3> DEFINE size == last.index - first.index + 1
                 At(k) == CHOOSE t \in turns : t.index = k
                 f == [i \in 1 .. size |-> At(first.index + i - 1)]
      <3>4. size \in Nat
        BY <3>1, <3>2
      <3>5. ASSUME NEW i \in 1 .. size
            PROVE  f[i] \in turns /\ f[i].index = first.index + i - 1
        <4>1. first.index + i - 1 \in first.index .. last.index
          BY <3>1, <3>2
        <4>2. \E t \in turns : t.index = first.index + i - 1
          BY <4>1 DEF InOrder
        <4> QED  BY <4>2
      <3>6. f \in [1 .. size -> turns]
        BY <3>5
      <3>7. ASSUME NEW t \in turns
            PROVE  \E i \in 1 .. size : f[i] = t
        <4> DEFINE i == t.index - first.index + 1
        <4>1. i \in 1 .. size /\ first.index + i - 1 = t.index
          BY <3>1, <3>2, <3>3
        <4>2. f[i] \in turns /\ f[i].index = t.index
          BY <3>5, <4>1
        <4> HIDE DEF f, i
        <4>3. f[i].id = t.id
          BY <3>1, <4>2 DEF InOrder
        <4>4. f[i] = t
          BY <4>2, <4>3 DEF InOrder
        <4> QED  BY <4>1, <4>4
      <3> HIDE DEF f, size
      <3>8. \A i, j \in 1 .. size : i < j => f[i].index < f[j].index
        BY <3>1, <3>4, <3>5
      <3>9. Cardinality(turns) = size
        <4>1. \A i, j \in 1 .. size : f[i] = f[j] => i = j
          BY <3>1, <3>4, <3>5
        <4>2. ExistsBijection(1 .. size, turns)
          BY <3>6, <3>7, <4>1 DEF ExistsBijection, Bijection, Injection, Surjection, IsInjective
        <4> QED  BY <3>4, <4>2, FS_CountingElements
      <3>10. Sorts(f)
        BY <3>6, <3>8, <3>9
      <3> QED  BY <3>10
    <2> QED  BY <2>1, <2>2
  <1>3. ByIndex(turns) = CHOOSE f \in [1 .. Cardinality(turns) -> turns] :
                             \A i, j \in DOMAIN f : i < j => f[i].index < f[j].index
    BY DEF ByIndex
  <1>4. Sorts(ByIndex(turns))
    BY <1>2, <1>3
  <1> QED  BY <1>1, <1>4

\* A turn of these, or one older than all that are left of them.
Covers(turns, id) ==
    \/ \E t \in turns : t.id = id
    \/ turns # {} /\ \A t \in turns : id < t.id

\* Turns recalled from thread s, in the order of recording.
Recalled(s, seq, tables, next) ==
    /\ s # 0 => \A i \in 1 .. Len(seq) :
                   seq[i] \in 1 .. next - 1 /\ \A k \in 1 .. i - 1 : seq[k] < seq[i]
    /\ s \in DOMAIN tables => \A i \in 1 .. Len(seq) : Covers(tables[s].turns, seq[i])

\* What a client has in hand, the turn it has just recorded included.
InHand(at, j) == IF at = "prune" THEN Append(j.mem, j.turn) ELSE j.mem

Sound(at, j, tables, next) ==
    /\ at \in Step /\ j \in Job
    /\ at \in {"lookup", "create"} => j.name \in Names
    /\ at \in {"target", "rename"} => j.to \in Names
    /\ j.repl => j.cmd = "chat"
    /\ Len(j.mem) <= HistoryTurns
    /\ Recalled(j.thread, InHand(at, j), tables, next)

Typed ==
    /\ \A s \in Rows : threads[s].name \in Names
    /\ stale \subseteq {c \in Clients : pc[c] = "insert"}

HInv ==
    /\ SInv
    /\ Typed
    /\ \A c \in Clients : Sound(pc[c], job[c], threads, nextTurn)

LEMMA NothingInHand ==
  ASSUME NEW at \in {"idle", "prompt"}, NEW tables, NEW next
  PROVE  Sound(at, NoJob, tables, next) /\ NoJob \in Job
  <1>1. NoJob \in Job
    BY DEF NoJob, Job
  <1>2. NoJob.thread = 0 /\ NoJob.mem = <<>> /\ NoJob.repl = FALSE
    BY DEF NoJob
  <1>3. \A s : Recalled(s, <<>>, tables, next)
    BY DEF Recalled
  <1>4. InHand(at, NoJob) = <<>>
    BY <1>2 DEF InHand
  <1>5. Len(NoJob.mem) <= HistoryTurns
    BY <1>2, SessionsAssumption
  <1> QED  BY <1>1, <1>2, <1>3, <1>4, <1>5 DEF Sound, Step

LEMMA HistoryInit == Init => HInv
  <1> SUFFICES ASSUME Init PROVE HInv
    OBVIOUS
  <1>1. \A c \in Clients : pc[c] = "idle" /\ job[c] = NoJob
    BY DEF Init
  <1>2. \A c \in Clients : Sound(pc[c], job[c], threads, nextTurn)
    BY <1>1, NothingInHand
  <1>3. Typed
    BY DEF Init, Typed, Rows
  <1> QED  BY <1>2, <1>3, SessionsInit DEF HInv

\* The end of a sequence is as well recalled as all of it.
LEMMA ReplayRecalled ==
  ASSUME NEW s, NEW seq \in Seq(Nat), NEW tables, NEW next, Recalled(s, seq, tables, next)
  PROVE  /\ Replay(seq) \in Seq(Nat) /\ Len(Replay(seq)) <= HistoryTurns
         /\ Recalled(s, Replay(seq), tables, next)
  <1>1. Len(seq) \in Nat /\ HistoryTurns \in Nat /\ \A i \in 1 .. Len(seq) : seq[i] \in Nat
    BY SessionsAssumption
  <1>2. CASE Len(seq) <= HistoryTurns
    BY <1>1, <1>2 DEF Replay
  <1>3. CASE ~(Len(seq) <= HistoryTurns)
    <2> DEFINE from == Len(seq) - HistoryTurns
               end == SubSeq(seq, from + 1, Len(seq))
    <2>1. from \in Nat /\ from + HistoryTurns = Len(seq)
      BY <1>1, <1>3
    <2>2. Replay(seq) = end
      BY <1>3 DEF Replay
    <2>3. \A i \in from + 1 .. Len(seq) : seq[i] \in Nat
      BY <1>1, <2>1
    <2> HIDE DEF from
    <2>4. /\ end \in Seq(Nat)
          /\ Len(end) = IF from + 1 <= Len(seq) THEN Len(seq) - (from + 1) + 1 ELSE 0
          /\ \A i \in 1 .. Len(seq) - (from + 1) + 1 : end[i] = seq[from + 1 + i - 1]
      BY <1>1, <2>1, <2>3, SubSeqProperties
    <2> HIDE DEF end
    <2>5. Len(end) = HistoryTurns /\ \A i \in 1 .. HistoryTurns : end[i] = seq[from + i]
      <3>1. Len(seq) - (from + 1) + 1 = HistoryTurns
        BY <1>1, <2>1
      <3>2. \A i \in 1 .. HistoryTurns : from + 1 + i - 1 = from + i
        BY <2>1
      <3>3. from + 1 <= Len(seq) \/ HistoryTurns = 0
        BY <1>1, <2>1
      <3> QED  BY <1>1, <2>1, <2>4, <3>1, <3>2, <3>3
    <2>6. \A i \in 1 .. HistoryTurns : from + i \in 1 .. Len(seq)
      BY <1>1, <2>1
    <2>7. \A i \in 1 .. HistoryTurns : \A k \in 1 .. i - 1 :
            k \in 1 .. HistoryTurns /\ from + k \in 1 .. from + i - 1
      BY <1>1, <2>1
    <2>8. Recalled(s, end, tables, next)
      <3>1. ASSUME s # 0, NEW i \in 1 .. HistoryTurns
            PROVE  end[i] \in 1 .. next - 1 /\ \A k \in 1 .. i - 1 : end[k] < end[i]
        <4> DEFINE at == from + i
        <4>1. at \in 1 .. Len(seq) /\ end[i] = seq[at]
          BY <2>5, <2>6
        <4>2. ASSUME NEW k \in 1 .. i - 1
              PROVE  end[k] = seq[from + k] /\ from + k \in 1 .. at - 1
          <5>1. k \in 1 .. HistoryTurns
            BY <2>7
          <5>2. end[k] = seq[from + k]
            BY <2>5, <5>1
          <5> QED  BY <2>1, <5>1, <5>2
        <4> HIDE DEF at
        <4>3. seq[at] \in 1 .. next - 1 /\ \A m \in 1 .. at - 1 : seq[m] < seq[at]
          BY <3>1, <4>1 DEF Recalled
        <4> QED  BY <4>1, <4>2, <4>3
      <3>2. ASSUME s \in DOMAIN tables, NEW i \in 1 .. HistoryTurns
            PROVE  Covers(tables[s].turns, end[i])
        BY <2>5, <2>6, <3>2 DEF Recalled
      <3> QED  BY <2>5, <3>1, <3>2 DEF Recalled
    <2> QED  BY <1>1, <2>2, <2>4, <2>5, <2>8
  <1> QED  BY <1>2, <1>3

\* One more turn, newer than those in hand.
LEMMA AppendRecalled ==
  ASSUME NEW s, NEW seq \in Seq(Nat), NEW id \in Nat, NEW tables, NEW next,
         Recalled(s, seq, tables, next),
         s # 0 => id \in 1 .. next - 1 /\ \A i \in 1 .. Len(seq) : seq[i] < id,
         s \in DOMAIN tables => Covers(tables[s].turns, id)
  PROVE  Append(seq, id) \in Seq(Nat) /\ Recalled(s, Append(seq, id), tables, next)
  <1> DEFINE longer == Append(seq, id)
             n == Len(seq)
  <1>1. /\ longer \in Seq(Nat)
        /\ n \in Nat /\ Len(longer) = n + 1
        /\ \A i \in 1 .. n : longer[i] = seq[i]
        /\ longer[n + 1] = id
    BY AppendProperties
  <1> HIDE DEF longer
  <1>2. \A i \in 1 .. n + 1 : i \in 1 .. n \/ i = n + 1
    BY <1>1
  <1>3. \A i \in 1 .. n + 1 : \A k \in 1 .. i - 1 : k \in 1 .. n
    BY <1>1
  <1>4. ASSUME s # 0, NEW i \in 1 .. n + 1
        PROVE  longer[i] \in 1 .. next - 1 /\ \A k \in 1 .. i - 1 : longer[k] < longer[i]
    BY <1>1, <1>2, <1>3, <1>4 DEF Recalled
  <1>5. ASSUME s \in DOMAIN tables, NEW i \in 1 .. n + 1
        PROVE  Covers(tables[s].turns, longer[i])
    BY <1>1, <1>2, <1>5 DEF Recalled
  <1> QED  BY <1>1, <1>4, <1>5 DEF Recalled, longer

\* What is read from a thread is recalled from it.
LEMMA StoredRecalled ==
  ASSUME SInv, NEW s \in 0 .. nextThread - 1
  PROVE  Stored(s) \in Seq(Nat) /\ Recalled(s, Stored(s), threads, nextTurn)
  <1>1. CASE s \notin Rows
    <2>1. Stored(s) = <<>> /\ Len(<<>>) = 0
      BY <1>1 DEF Stored
    <2> QED  BY <1>1, <2>1 DEF Recalled, Rows
  <1>2. CASE s \in Rows
    <2> DEFINE turns == threads[s].turns
               sorted == ByIndex(turns)
               size == Cardinality(turns)
    <2>1. InOrder(turns, nextTurn) /\ nextTurn \in Nat
      BY <1>2 DEF SInv, Tables, Turns
    <2>2. /\ size \in Nat /\ sorted \in [1 .. size -> turns]
          /\ \A i, j \in 1 .. size : i < j => sorted[i].index < sorted[j].index
      BY <2>1, ByIndexSorts
    <2>3. Stored(s) = [i \in 1 .. size |-> sorted[i].id]
      BY <1>2, <2>2 DEF Stored
    <2>4. \A t \in turns : t.id \in 1 .. nextTurn - 1
      BY <2>1 DEF InOrder
    <2> HIDE DEF sorted, size
    <2>5. /\ Stored(s) \in Seq(Nat) /\ Len(Stored(s)) = size
          /\ \A i \in 1 .. size : Stored(s)[i] = sorted[i].id /\ sorted[i] \in turns
      BY <2>2, <2>3, <2>4
    <2>6. ASSUME NEW i \in 1 .. size, NEW k \in 1 .. i - 1
          PROVE  Stored(s)[k] < Stored(s)[i]
      <3>1. k \in 1 .. size /\ k < i
        BY <2>2
      <3>2. sorted[k].index < sorted[i].index
        BY <2>2, <3>1
      <3> QED  BY <2>1, <2>5, <3>1, <3>2 DEF InOrder
    <2>7. \A i \in 1 .. size : Stored(s)[i] \in 1 .. nextTurn - 1 /\ Covers(turns, Stored(s)[i])
      BY <2>4, <2>5 DEF Covers
    <2> QED  BY <2>5, <2>6, <2>7 DEF Recalled
  <1> QED  BY <1>1, <1>2

\* Whatever a step does to the tables, what was recalled from a thread still
\* is: turns join behind, and go from the front.
LEMMA TablesRecall ==
  ASSUME SInv, [Next]_vars, NEW s \in 0 .. nextThread - 1, NEW seq,
         Recalled(s, seq, threads, nextTurn)
  PROVE  Recalled(s, seq, threads', nextTurn')
  <1>0. /\ Tables /\ nextTurn \in Nat \ {0} /\ s # nextThread
        /\ \A r \in Rows : InOrder(threads[r].turns, nextTurn)
    BY DEF SInv, Tables, Turns
  <1>1. CASE UNCHANGED <<threads, nextTurn>>
    BY <1>1
  <1>2. ASSUME nextTurn' \in {nextTurn, nextTurn + 1},
               ASSUME s \in Rows', NEW id \in 1 .. nextTurn - 1, s \in Rows,
                      Covers(threads[s].turns, id)
               PROVE  Covers(threads'[s].turns, id),
               s \in Rows' => s \in Rows
        PROVE  Recalled(s, seq, threads', nextTurn')
    <2>1. ASSUME s # 0, NEW i \in 1 .. Len(seq)
          PROVE  seq[i] \in 1 .. nextTurn' - 1 /\ \A k \in 1 .. i - 1 : seq[k] < seq[i]
      <3>1. seq[i] \in 1 .. nextTurn - 1 /\ \A k \in 1 .. i - 1 : seq[k] < seq[i]
        BY <2>1 DEF Recalled
      <3> QED  BY <1>0, <1>2, <3>1
    <2>2. ASSUME s \in Rows', NEW i \in 1 .. Len(seq)
          PROVE  Covers(threads'[s].turns, seq[i])
      <3>1. s \in Rows /\ s # 0
        BY <1>0, <1>2, <2>2 DEF Tables
      <3>2. seq[i] \in 1 .. nextTurn - 1 /\ Covers(threads[s].turns, seq[i])
        BY <3>1 DEF Recalled, Rows
      <3> QED  BY <1>2, <2>2, <3>1, <3>2
    <2> QED  BY <2>1, <2>2 DEF Recalled, Rows
  <1>3. ASSUME NEW c \in Clients, Write(c)
        PROVE  Recalled(s, seq, threads', nextTurn')
    <2>1. CASE Opened(c)
      <3>1. Rows' = Rows \cup {nextThread} /\ nextTurn' = nextTurn
        BY <2>1 DEF Opened, Added, Rows
      <3>2. s \in Rows => threads'[s] = threads[s]
        BY <1>0, <2>1 DEF Opened, Added
      <3> QED  BY <1>0, <1>2, <3>1, <3>2
    <2>2. CASE Recorded(c)
      <3> DEFINE r == job[c].thread
                 new == [id |-> nextTurn, index |-> job[c].index]
                 more == threads[r].turns \cup {new}
      <3>1. r \in Rows /\ threads' = [threads EXCEPT ![r].turns = more] /\ nextTurn' = nextTurn + 1
        BY <2>2 DEF Recorded
      <3>2. new.id = nextTurn
        OBVIOUS
      <3> HIDE DEF new
      <3>3. ASSUME NEW id \in 1 .. nextTurn - 1, Covers(threads[r].turns, id)
            PROVE  Covers(more, id)
        BY <1>0, <3>2, <3>3 DEF Covers
      <3> HIDE DEF more
      <3>4. Rows' = Rows /\ \A q \in Rows : threads'[q].turns = IF q = r THEN more ELSE threads[q].turns
        BY <1>0, <3>1 DEF Tables, Rows, Turns
      <3> QED  BY <1>2, <3>1, <3>3, <3>4
    <2>3. CASE Trimmed(c)
      <3> DEFINE r == job[c].thread
                 turns == threads[r].turns
      <3>1. r \in Rows /\ threads' = [threads EXCEPT ![r].turns = Pruned(turns)] /\ nextTurn' = nextTurn
        BY <2>3 DEF Trimmed
      <3>2. InOrder(turns, nextTurn)
        BY <1>0, <3>1
      <3>3. /\ Pruned(turns) \subseteq turns
            /\ \A t \in Pruned(turns), u \in turns : t.index <= u.index => u \in Pruned(turns)
            /\ turns # {} => Pruned(turns) # {}
        BY <1>0, <3>2, PrunedIsEnd DEF InOrder
      <3>4. /\ \A t, u \in turns : t.id < u.id <=> t.index < u.index
            /\ \A t \in turns : t.id \in Nat /\ t.index \in Nat
        BY <3>2 DEF InOrder
      <3>5. Rows' = Rows /\ \A q \in Rows :
                threads'[q].turns = IF q = r THEN Pruned(turns) ELSE threads[q].turns
        BY <1>0, <3>1 DEF Tables, Rows, Turns
      <3> HIDE DEF turns
      <3>6. ASSUME NEW id \in 1 .. nextTurn - 1, Covers(turns, id)
            PROVE  Covers(Pruned(turns), id)
        <4>1. CASE \E t \in turns : t.id = id /\ t \notin Pruned(turns)
          <5>1. PICK t \in turns : t.id = id /\ t \notin Pruned(turns)
            BY <4>1
          <5>2. \A u \in Pruned(turns) : t.id < u.id
            BY <3>3, <3>4, <5>1
          <5> QED  BY <3>3, <5>1, <5>2 DEF Covers
        <4>2. CASE ~\E t \in turns : t.id = id /\ t \notin Pruned(turns)
          BY <3>3, <3>6, <4>2 DEF Covers
        <4> QED  BY <4>1, <4>2
      <3> QED  BY <1>2, <3>1, <3>5, <3>6 DEF turns
    <2>4. CASE Renamed(c)
      <3>1. Rows' = Rows /\ nextTurn' = nextTurn /\ \A r \in Rows : threads'[r].turns = threads[r].turns
        BY <1>0, <2>4 DEF Renamed, Tables, Turns, Rows
      <3> QED  BY <1>2, <3>1
    <2>5. CASE Deleted(c)
      <3>1. Rows' \subseteq Rows /\ nextTurn' = nextTurn /\ \A r \in Rows' : threads'[r] = threads[r]
        BY <2>5 DEF Deleted, Rows
      <3> QED  BY <1>2, <3>1
    <2> QED  BY <1>3, <2>1, <2>2, <2>3, <2>4, <2>5 DEF Write
  <1> QED  BY <1>1, <1>3, StepKinds DEF Local, BeginAppend, vars, db

\* A client goes on with what is sound over the tables as they were.
Moves(c) == \E at, j : Goto(c, at, j) /\ Sound(at, j, threads, nextTurn)

\* What it has in hand begins with what it will replay.
LEMMA RecalledInHand ==
  ASSUME HInv, NEW c \in Clients
  PROVE  /\ job[c] \in Job /\ Len(job[c].mem) <= HistoryTurns
         /\ Recalled(job[c].thread, job[c].mem, threads, nextTurn)
  <1> DEFINE mem == job[c].mem
             s == job[c].thread
  <1>1. /\ job[c] \in Job /\ Len(mem) <= HistoryTurns
        /\ Recalled(s, InHand(pc[c], job[c]), threads, nextTurn)
    BY DEF HInv, Sound
  <1>2. CASE pc[c] # "prune"
    BY <1>1, <1>2 DEF InHand
  <1>3. CASE pc[c] = "prune"
    <2>1. mem \in Seq(Nat) /\ job[c].turn \in Nat
      BY <1>1 DEF Job
    <2>2. Recalled(s, Append(mem, job[c].turn), threads, nextTurn)
      BY <1>1, <1>3 DEF InHand
    <2> HIDE DEF mem
    <2>3. /\ Len(Append(mem, job[c].turn)) = Len(mem) + 1 /\ Len(mem) \in Nat
          /\ \A i \in 1 .. Len(mem) : Append(mem, job[c].turn)[i] = mem[i]
      BY <2>1, AppendProperties
    <2>4. \A i \in 1 .. Len(mem) :
            i \in 1 .. Len(mem) + 1 /\ \A k \in 1 .. i - 1 : k \in 1 .. Len(mem)
      BY <2>3
    <2>5. ASSUME s # 0, NEW i \in 1 .. Len(mem)
          PROVE  mem[i] \in 1 .. nextTurn - 1 /\ \A k \in 1 .. i - 1 : mem[k] < mem[i]
      BY <2>2, <2>3, <2>4, <2>5 DEF Recalled
    <2>6. ASSUME s \in DOMAIN threads, NEW i \in 1 .. Len(mem)
          PROVE  Covers(threads[s].turns, mem[i])
      BY <2>2, <2>3, <2>4, <2>6 DEF Recalled
    <2>7. Recalled(s, mem, threads, nextTurn)
      BY <2>5, <2>6 DEF Recalled
    <2> QED  BY <1>1, <2>7 DEF mem
  <1> QED  BY <1>2, <1>3

NoTurns(j) == j.mem = <<>>

\* It goes on with the turns it recalled, or with none.
LEMMA SameTurns ==
  ASSUME HInv, NEW c \in Clients, NEW at \in Step \ {"prune"}, NEW j \in Job,
         at \in {"lookup", "create"} => j.name \in Names,
         at \in {"target", "rename"} => j.to \in Names,
         j.repl => j.cmd = "chat",
         \/ NoTurns(j)
         \/ j.mem = job[c].mem /\ j.thread = job[c].thread
  PROVE  Sound(at, j, threads, nextTurn)
  <1>1. Len(<<>>) <= HistoryTurns /\ Recalled(j.thread, <<>>, threads, nextTurn)
    BY SessionsAssumption DEF Recalled
  <1>2. Len(j.mem) <= HistoryTurns /\ Recalled(j.thread, j.mem, threads, nextTurn)
    BY <1>1, RecalledInHand DEF NoTurns
  <1>3. InHand(at, j) = j.mem
    BY DEF InHand
  <1> QED  BY <1>2, <1>3 DEF Sound

LEMMA GoesOn ==
  ASSUME HInv, NEW c \in Clients, NEW at, NEW j \in Job, Goto(c, at, j),
         at \in Step, at # "prune",
         at \in {"lookup", "create"} => j.name \in Names,
         at \in {"target", "rename"} => j.to \in Names,
         j.repl => j.cmd = "chat",
         \/ NoTurns(j)
         \/ j.mem = job[c].mem /\ j.thread = job[c].thread
  PROVE  Moves(c)
  BY SameTurns DEF Moves

LEMMA EndMoves ==
  ASSUME HInv, NEW c \in Clients, Fail(c) \/ End(c)
  PROVE  Moves(c)
  <1>1. CASE End(c)
    BY <1>1, NothingInHand DEF End, Moves
  <1>2. CASE Fail(c) /\ job[c].repl
    <2> DEFINE j == [NoJob EXCEPT !.cmd = "chat", !.repl = TRUE,
                                  !.thread = job[c].thread, !.mem = job[c].mem]
    <2>1. job[c] \in Job /\ job[c].cmd = "chat"
      BY <1>2 DEF HInv, Sound
    <2>2. /\ j \in Job /\ j.repl = TRUE /\ j.cmd = "chat"
          /\ j.mem = job[c].mem /\ j.thread = job[c].thread
      BY <2>1 DEF Job, NoJob
    <2>3. Goto(c, "prompt", j)
      BY <1>2 DEF Fail
    <2> HIDE DEF j
    <2> QED  BY <2>2, <2>3, GoesOn DEF Step
  <1> QED  BY <1>1, <1>2 DEF Fail

LEMMA StartsMove ==
  ASSUME HInv, NEW c \in Clients, StartCommand(c) \/ ChatLine(c)
  PROVE  Moves(c)
  <1>0. /\ job[c] \in Job /\ (job[c].repl => job[c].cmd = "chat")
        /\ NoJob \in Job /\ NoJob.mem = <<>> /\ NoJob.repl = FALSE
    BY NothingInHand DEF HInv, Sound, NoJob
  <1>1. CASE "ask" \in Commands /\ StartContinue(c)
    <2> DEFINE j == [NoJob EXCEPT !.cmd = "ask", !.found = Last(recent)]
    <2>1. Last(recent) \in Nat
      BY <1>1, IdsBelow DEF StartContinue, HInv
    <2>2. j \in Job /\ NoTurns(j) /\ j.repl = FALSE
      BY <1>0, <1>1, <2>1 DEF Job, NoTurns
    <2>3. Goto(c, "turns", j)
      BY <1>1 DEF StartContinue
    <2> HIDE DEF j
    <2> QED  BY <2>2, <2>3, GoesOn DEF Step
  <1>2. ASSUME "ask" \in Commands, NEW n \in Names, StartAsk(c, n)
        PROVE  Moves(c)
    <2> DEFINE j == [NoJob EXCEPT !.cmd = "ask", !.name = n]
    <2>1. j \in Job /\ NoTurns(j) /\ j.repl = FALSE /\ j.name = n
      BY <1>0, <1>2 DEF Job, NoTurns
    <2>2. Goto(c, "lookup", j)
      BY <1>2 DEF StartAsk
    <2> HIDE DEF j
    <2> QED  BY <2>1, <2>2, GoesOn DEF Step
  <1>3. CASE "chat" \in Commands /\ StartChat(c)
    <2>1. CASE Goto(c, "prompt", [NoJob EXCEPT !.cmd = "chat", !.repl = TRUE])
      <3> DEFINE j == [NoJob EXCEPT !.cmd = "chat", !.repl = TRUE]
      <3>1. j \in Job /\ NoTurns(j) /\ j.cmd = "chat"
        BY <1>0, <1>3 DEF Job, NoTurns
      <3>2. Goto(c, "prompt", j)
        BY <2>1
      <3> HIDE DEF j
      <3> QED  BY <3>1, <3>2, GoesOn DEF Step
    <2>2. ASSUME NEW n \in Names, Goto(c, "lookup", [NoJob EXCEPT !.cmd = "chat", !.name = n])
          PROVE  Moves(c)
      <3> DEFINE j == [NoJob EXCEPT !.cmd = "chat", !.name = n]
      <3>1. j \in Job /\ NoTurns(j) /\ j.repl = FALSE /\ j.name = n
        BY <1>0, <1>3 DEF Job, NoTurns
      <3>2. Goto(c, "lookup", j)
        BY <2>2
      <3> HIDE DEF j
      <3> QED  BY <3>1, <3>2, GoesOn DEF Step
    <2> QED  BY <1>3, <2>1, <2>2 DEF StartChat
  <1>4. ASSUME "rename" \in Commands, NEW from \in Names, NEW to \in Names, StartRename(c, from, to)
        PROVE  Moves(c)
    <2> DEFINE j == [NoJob EXCEPT !.cmd = "rename", !.name = from, !.to = to]
    <2>1. j \in Job /\ NoTurns(j) /\ j.repl = FALSE /\ j.to = to
      BY <1>0, <1>4 DEF Job, NoTurns
    <2>2. Goto(c, "rename", j) \/ Goto(c, "target", j)
      BY <1>4 DEF StartRename
    <2> HIDE DEF j
    <2> QED  BY <2>1, <2>2, GoesOn DEF Step
  <1>5. ASSUME "delete" \in Commands, NEW n \in Names, StartDelete(c, n)
        PROVE  Moves(c)
    <2>1. PICK s \in Named(n) :
            Goto(c, "delete", [NoJob EXCEPT !.cmd = "delete", !.name = n, !.found = s])
      BY <1>5 DEF StartDelete
    <2> DEFINE j == [NoJob EXCEPT !.cmd = "delete", !.name = n, !.found = s]
    <2>2. s \in Nat
      BY IdsBelow DEF Named, HInv
    <2>3. j \in Job /\ NoTurns(j) /\ j.repl = FALSE
      BY <1>0, <1>5, <2>2 DEF Job, NoTurns
    <2>4. Goto(c, "delete", j)
      BY <2>1
    <2> HIDE DEF j
    <2> QED  BY <2>3, <2>4, GoesOn DEF Step
  <1>6. CASE AskLine(c)
    BY <1>0, <1>6, GoesOn DEF AskLine, Step
  <1>7. CASE Forget(c)
    <2> DEFINE j == [job[c] EXCEPT !.mem = <<>>]
    <2>1. j \in Job /\ NoTurns(j) /\ j.repl = job[c].repl /\ j.cmd = job[c].cmd
      BY <1>0 DEF Job, NoTurns
    <2>2. Goto(c, "prompt", j)
      BY <1>7 DEF Forget
    <2> HIDE DEF j
    <2> QED  BY <1>0, <2>1, <2>2, GoesOn DEF Step
  <1>8. CASE NewThread(c)
    <2>1. CASE Goto(c, "prompt", [job[c] EXCEPT !.thread = 0, !.mem = <<>>])
      <3> DEFINE j == [job[c] EXCEPT !.thread = 0, !.mem = <<>>]
      <3>1. j \in Job /\ NoTurns(j) /\ j.repl = job[c].repl /\ j.cmd = job[c].cmd
        BY <1>0 DEF Job, NoTurns
      <3>2. Goto(c, "prompt", j)
        BY <2>1
      <3> HIDE DEF j
      <3> QED  BY <1>0, <3>1, <3>2, GoesOn DEF Step
    <2>2. ASSUME NEW n \in Names, Goto(c, "lookup", [job[c] EXCEPT !.name = n])
          PROVE  Moves(c)
      <3> DEFINE j == [job[c] EXCEPT !.name = n]
      <3>1. /\ j \in Job /\ j.name = n /\ j.repl = job[c].repl /\ j.cmd = job[c].cmd
            /\ j.mem = job[c].mem /\ j.thread = job[c].thread
        BY <1>0 DEF Job
      <3>2. Goto(c, "lookup", j)
        BY <2>2
      <3> HIDE DEF j
      <3> QED  BY <1>0, <3>1, <3>2, GoesOn DEF Step
    <2> QED  BY <1>8, <2>1, <2>2 DEF NewThread
  <1> QED  BY <1>1, <1>2, <1>3, <1>4, <1>5, <1>6, <1>7, <1>8 DEF StartCommand, ChatLine

\* Reading a thread, remembering an unsaved turn, beginning an append.
LEMMA ReadsMove ==
  ASSUME HInv, NEW c \in Clients,
         \/ Lookup(c) \/ ReadTurns(c) \/ Answer(c) \/ BeginAppend(c) \/ CheckTarget(c)
         \/ Abandon(c)
  PROVE  Moves(c)
  <1>0. /\ job[c] \in Job /\ (job[c].repl => job[c].cmd = "chat")
        /\ NoJob \in Job /\ NoJob.repl = FALSE /\ SInv
        /\ pc[c] = "lookup" => job[c].name \in Names
        /\ pc[c] = "target" => job[c].to \in Names
    BY NothingInHand DEF HInv, Sound, NoJob
  <1>1. CASE Lookup(c)
    <2>1. CASE Goto(c, "create", job[c])
      BY <1>0, <1>1, <2>1, GoesOn DEF Lookup, Step
    <2>2. ASSUME NEW s \in Named(job[c].name), Goto(c, "turns", [job[c] EXCEPT !.found = s])
          PROVE  Moves(c)
      <3> DEFINE j == [job[c] EXCEPT !.found = s]
      <3>1. s \in Nat
        BY <1>0, IdsBelow DEF Named
      <3>2. /\ j \in Job /\ j.repl = job[c].repl /\ j.cmd = job[c].cmd
            /\ j.mem = job[c].mem /\ j.thread = job[c].thread
        BY <1>0, <3>1 DEF Job
      <3>3. Goto(c, "turns", j)
        BY <2>2
      <3> HIDE DEF j
      <3> QED  BY <1>0, <3>2, <3>3, GoesOn DEF Step
    <2> QED  BY <1>1, <2>1, <2>2 DEF Lookup
  <1>2. CASE ReadTurns(c)
    <2> DEFINE s == job[c].found
               mem == Replay(Stored(s))
               repl == job[c].cmd = "chat"
               j == [NoJob EXCEPT !.cmd = job[c].cmd, !.repl = repl, !.thread = s, !.mem = mem]
               at == IF repl THEN "prompt" ELSE "answer"
    <2>1. s \in 0 .. nextThread - 1 /\ s \in Nat
      BY <1>0, IdsBelow DEF Fits
    <2>2. /\ mem \in Seq(Nat) /\ Len(mem) <= HistoryTurns
          /\ Recalled(s, mem, threads, nextTurn)
      BY <1>0, <2>1, StoredRecalled, ReplayRecalled
    <2>3. repl \in BOOLEAN /\ (repl => job[c].cmd = "chat")
      OBVIOUS
    <2>4. Goto(c, at, j)
      BY <1>2 DEF ReadTurns
    <2> HIDE DEF repl, mem, s
    <2>5. j \in Job /\ j.cmd = job[c].cmd /\ j.repl = repl /\ j.thread = s /\ j.mem = mem
      BY <1>0, <2>1, <2>2, <2>3 DEF Job
    <2>6. at \in Step /\ at \notin {"prune", "lookup", "create", "target", "rename"}
      BY DEF Step
    <2> HIDE DEF j, at
    <2>7. Sound(at, j, threads, nextTurn)
      BY <2>2, <2>3, <2>5, <2>6 DEF Sound, InHand
    <2> QED  BY <2>4, <2>7 DEF Moves
  <1>3. CASE Answer(c)
    <2>1. CASE job[c].thread = 0
      <3> DEFINE mem == Replay(Append(job[c].mem, 0))
                 j == [job[c] EXCEPT !.mem = mem]
      <3>1. Recalled(0, job[c].mem, threads, nextTurn) /\ job[c].mem \in Seq(Nat)
        <4>1. Recalled(0, InHand(pc[c], job[c]), threads, nextTurn) /\ pc[c] = "answer"
          BY <1>3, <2>1 DEF HInv, Sound, Answer
        <4> QED  BY <1>0, <4>1 DEF InHand, Job
      <3>2. 0 \notin DOMAIN threads
        BY <1>0 DEF SInv, Tables, Rows
      <3>3. /\ Append(job[c].mem, 0) \in Seq(Nat)
            /\ Recalled(0, Append(job[c].mem, 0), threads, nextTurn)
        BY <3>1, <3>2, AppendRecalled
      <3>4. /\ mem \in Seq(Nat) /\ Len(mem) <= HistoryTurns
            /\ Recalled(0, mem, threads, nextTurn)
        BY <3>3, ReplayRecalled
      <3>5. Goto(c, "prompt", j)
        BY <1>3, <2>1 DEF Answer
      <3> HIDE DEF mem
      <3>6. j \in Job /\ j.cmd = job[c].cmd /\ j.repl = job[c].repl /\ j.thread = 0 /\ j.mem = mem
        BY <1>0, <2>1, <3>4 DEF Job
      <3> HIDE DEF j
      <3>7. Sound("prompt", j, threads, nextTurn)
        BY <1>0, <3>4, <3>6 DEF Sound, InHand, Step
      <3> QED  BY <3>5, <3>7 DEF Moves
    <2>2. CASE job[c].thread # 0
      BY <1>0, <1>3, <2>2, GoesOn DEF Answer, Step
    <2> QED  BY <2>1, <2>2
  <1>4. CASE BeginAppend(c)
    <2>1. PICK index : Goto(c, "insert", [job[c] EXCEPT !.index = index]) /\ index \in Nat
      <3> DEFINE s == job[c].thread
                 indexes == IF s \in Rows THEN {t.index : t \in threads[s].turns} ELSE {}
                 index == IF indexes = {} THEN 0
                          ELSE 1 + CHOOSE m \in indexes : \A i \in indexes : i <= m
      <3>1. Goto(c, "insert", [job[c] EXCEPT !.index = index])
        BY <1>4 DEF BeginAppend
      <3>2. ASSUME indexes # {}
            PROVE  \E m \in indexes : \A i \in indexes : i <= m
        <4>1. s \in Rows /\ threads[s].turns # {} /\ InOrder(threads[s].turns, nextTurn)
          BY <1>0, <3>2 DEF SInv, Turns
        <4>2. PICK last \in threads[s].turns : \A t \in threads[s].turns : t.index <= last.index
          BY <4>1 DEF InOrder
        <4> QED  BY <4>1, <4>2
      <3>3. indexes \subseteq Nat
        <4>1. s \in Rows => \A t \in threads[s].turns : t.index \in Nat
          BY <1>0 DEF SInv, InOrder, Turns
        <4>2. CASE s \in Rows
          BY <4>1, <4>2
        <4>3. CASE s \notin Rows
          BY <4>3
        <4> QED  BY <4>2, <4>3
      <3> DEFINE top == CHOOSE m \in indexes : \A i \in indexes : i <= m
      <3> HIDE DEF indexes
      <3>4. indexes # {} => top \in Nat
        BY <3>2, <3>3
      <3> HIDE DEF top
      <3>5. index \in Nat
        BY <3>4 DEF top
      <3> QED  BY <3>1, <3>5
    <2> DEFINE j == [job[c] EXCEPT !.index = index]
    <2>2. /\ j \in Job /\ j.repl = job[c].repl /\ j.cmd = job[c].cmd
          /\ j.mem = job[c].mem /\ j.thread = job[c].thread
      BY <1>0, <2>1 DEF Job
    <2>3. Goto(c, "insert", j)
      BY <2>1
    <2> HIDE DEF j
    <2> QED  BY <1>0, <2>2, <2>3, GoesOn DEF Step
  <1>5. CASE CheckTarget(c)
    <2>1. CASE End(c)
      BY <2>1, EndMoves
    <2>2. CASE Goto(c, "rename", job[c])
      BY <1>0, <1>5, <2>2, GoesOn DEF CheckTarget, Step
    <2> QED  BY <1>5, <2>1, <2>2 DEF CheckTarget
  <1>6. CASE Abandon(c)
    BY <1>6, EndMoves DEF Abandon
  <1> QED  BY <1>1, <1>2, <1>3, <1>4, <1>5, <1>6

LEMMA WritesMove ==
  ASSUME HInv, NEW c \in Clients,
         Create(c) \/ InsertTurn(c) \/ PruneTurns(c) \/ RenameThread(c) \/ DeleteThread(c)
  PROVE  \/ Moves(c)
         \/ Recorded(c) /\ Goto(c, "prune", [job[c] EXCEPT !.turn = nextTurn])
  <1>0. /\ job[c] \in Job /\ (job[c].repl => job[c].cmd = "chat")
        /\ NoJob \in Job /\ NoJob.repl = FALSE /\ SInv
    BY NothingInHand DEF HInv, Sound, NoJob
  <1>1. CASE Create(c)
    <2>1. CASE Fail(c)
      BY <2>1, EndMoves
    <2>2. CASE Goto(c, "turns", [job[c] EXCEPT !.found = nextThread])
      <3> DEFINE j == [job[c] EXCEPT !.found = nextThread]
      <3>1. nextThread \in Nat
        BY <1>0, IdsBelow
      <3>2. /\ j \in Job /\ j.repl = job[c].repl /\ j.cmd = job[c].cmd
            /\ j.mem = job[c].mem /\ j.thread = job[c].thread
        BY <1>0, <3>1 DEF Job
      <3>3. Goto(c, "turns", j)
        BY <2>2
      <3> HIDE DEF j
      <3> QED  BY <1>0, <3>2, <3>3, GoesOn DEF Step
    <2> QED  BY <1>1, <2>1, <2>2 DEF Create
  <1>2. CASE InsertTurn(c)
    <2>1. CASE Fail(c)
      BY <2>1, EndMoves
    <2>2. CASE ~Fail(c)
      BY <1>2, <2>2 DEF InsertTurn, Recorded
    <2> QED  BY <2>1, <2>2
  <1>3. CASE PruneTurns(c)
    <2>1. CASE End(c)
      BY <2>1, EndMoves
    <2>2. CASE ~End(c)
      <3> DEFINE s == job[c].thread
                 mem == Replay(Append(job[c].mem, job[c].turn))
                 j == [NoJob EXCEPT !.cmd = "chat", !.repl = TRUE, !.thread = s, !.mem = mem]
      <3>1. Goto(c, "prompt", j) /\ job[c].cmd = "chat"
        BY <1>3, <2>2 DEF PruneTurns
      <3>2. Recalled(s, InHand(pc[c], job[c]), threads, nextTurn) /\ pc[c] = "prune"
        BY <1>3 DEF HInv, Sound, PruneTurns
      <3>3. /\ Append(job[c].mem, job[c].turn) \in Seq(Nat)
            /\ Recalled(s, Append(job[c].mem, job[c].turn), threads, nextTurn)
        <4>1. job[c].mem \in Seq(Nat) /\ job[c].turn \in Nat
          BY <1>0 DEF Job
        <4> QED  BY <3>2, <4>1, AppendProperties DEF InHand
      <3>4. /\ mem \in Seq(Nat) /\ Len(mem) <= HistoryTurns
            /\ Recalled(s, mem, threads, nextTurn)
        BY <3>3, ReplayRecalled
      <3>5. s \in Nat
        BY <1>0 DEF Job
      <3> HIDE DEF mem, s
      <3>6. j \in Job /\ j.cmd = "chat" /\ j.thread = s /\ j.mem = mem
        BY <1>0, <3>1, <3>4, <3>5 DEF Job
      <3> HIDE DEF j
      <3>7. Sound("prompt", j, threads, nextTurn)
        BY <3>4, <3>6 DEF Sound, InHand, Step
      <3> QED  BY <3>1, <3>7 DEF Moves
    <2> QED  BY <2>1, <2>2
  <1>4. CASE RenameThread(c) \/ DeleteThread(c)
    BY <1>4, EndMoves DEF RenameThread, DeleteThread
  <1> QED  BY <1>1, <1>2, <1>3, <1>4

\* The other clients, and what the tables and open transactions now are.
LEMMA TypedStep ==
  ASSUME HInv, [Next]_vars
  PROVE  Typed'
  <1>0. SInv /\ Typed
    BY DEF HInv
  <1>1. CASE UNCHANGED vars
    BY <1>0, <1>1 DEF vars, db, Typed, Rows
  <1>2. ASSUME NEW c \in Clients, Next, Alone(c),
               \/ Commit(c)
               \/ stale' \in {stale, stale \ {c}} /\ (pc[c] # "insert" \/ c \notin stale')
        PROVE  stale' \subseteq {d \in Clients : pc'[d] = "insert"}
    BY <1>0, <1>2 DEF Typed, Alone, Commit
  <1>3. ASSUME NEW c \in Clients, UNCHANGED threads
        PROVE  \A s \in Rows' : threads'[s].name \in Names
    BY <1>0, <1>3 DEF Typed, Rows
  <1>4. ASSUME NEW c \in Clients, StartCommand(c) \/ ChatLine(c)
        PROVE  Typed'
    <2>1. UNCHANGED <<db, stale>> /\ pc[c] \in {"idle", "prompt"}
      BY <1>4 DEF StartCommand, StartContinue, StartAsk, StartChat, StartRename, StartDelete,
                  ChatLine, AskLine, Forget, NewThread
    <2>2. Alone(c)
      BY <1>0, <1>4, StartsAlone
    <2> QED  BY <1>0, <2>1, <2>2 DEF Typed, Alone, Rows, db
  <1>5. ASSUME NEW c \in Clients,
               Lookup(c) \/ ReadTurns(c) \/ Answer(c) \/ CheckTarget(c) \/ Abandon(c)
        PROVE  Typed'
    <2>1. /\ UNCHANGED db
          /\ \/ UNCHANGED stale /\ pc[c] # "insert"
             \/ stale' = stale \ {c}
      BY <1>5 DEF Lookup, ReadTurns, Answer, CheckTarget, Abandon, NoCommit
    <2>2. Alone(c)
      BY <1>0, <1>5, ReadsAlone
    <2> QED  BY <1>0, <2>1, <2>2 DEF Typed, Alone, Rows, db
  <1>6. ASSUME NEW c \in Clients, BeginAppend(c)
        PROVE  Typed'
    <2>1. UNCHANGED <<db, stale>> /\ pc[c] = "begin" /\ Alone(c)
      BY <1>0, <1>6, BeginAlone DEF BeginAppend
    <2> QED  BY <1>0, <2>1 DEF Typed, Alone, Rows, db
  <1>7. ASSUME NEW c \in Clients,
               \/ Create(c) \/ InsertTurn(c) \/ PruneTurns(c) \/ RenameThread(c)
               \/ DeleteThread(c)
        PROVE  Typed'
    <2>0. Alone(c) /\ Tables
      BY <1>0, <1>7, WritesAlone DEF SInv
    <2>1. stale' \subseteq {d \in Clients : pc'[d] = "insert"}
      <3>1. \/ Commit(c)
            \/ UNCHANGED stale /\ pc[c] # "insert"
            \/ stale' = stale \ {c}
        BY <1>7 DEF Create, InsertTurn, PruneTurns, RenameThread, DeleteThread, NoCommit
      <3> QED  BY <1>0, <2>0, <3>1 DEF Typed, Alone, Commit
    <2>2. \A s \in Rows' : threads'[s].name \in Names
      <3>1. CASE UNCHANGED threads
        BY <1>3, <3>1
      <3>2. CASE Create(c) /\ ~UNCHANGED threads
        <4>1. threads' = Added(nextThread, job[c].name) /\ job[c].name \in Names
          BY <3>2 DEF Create, HInv, Sound, db
        <4> QED  BY <1>0, <4>1 DEF Added, Typed, Rows
      <3>3. CASE InsertTurn(c) /\ ~UNCHANGED threads
        <4> DEFINE more == threads[job[c].thread].turns
                             \cup {[id |-> nextTurn, index |-> job[c].index]}
        <4>1. threads' = [threads EXCEPT ![job[c].thread].turns = more]
          BY <3>3 DEF InsertTurn, db
        <4> HIDE DEF more
        <4> QED  BY <1>0, <2>0, <4>1 DEF Typed, Rows, Tables
      <3>4. CASE PruneTurns(c) /\ ~UNCHANGED threads
        <4>1. threads' = [threads EXCEPT ![job[c].thread].turns = Pruned(@)]
          BY <3>4 DEF PruneTurns
        <4> QED  BY <1>0, <2>0, <4>1 DEF Typed, Rows, Tables
      <3>5. CASE RenameThread(c) /\ ~UNCHANGED threads
        <4>1. /\ threads' = [s \in Rows |-> IF s \in Named(job[c].name)
                                THEN [threads[s] EXCEPT !.name = job[c].to] ELSE threads[s]]
              /\ job[c].to \in Names
          BY <3>5 DEF RenameThread, HInv, Sound
        <4>2. Rows' = Rows /\ \A s \in Rows : threads'[s].name \in {job[c].to, threads[s].name}
          BY <2>0, <4>1 DEF Rows, Tables
        <4> QED  BY <1>0, <4>1, <4>2 DEF Typed
      <3>6. CASE DeleteThread(c) /\ ~UNCHANGED threads
        BY <1>0, <3>6 DEF DeleteThread, Typed, Rows
      <3> QED  BY <1>7, <3>1, <3>2, <3>3, <3>4, <3>5, <3>6
    <2> QED  BY <2>1, <2>2 DEF Typed
  <1> QED  BY <1>1, <1>4, <1>5, <1>6, <1>7 DEF Next, CommandStep

LEMMA HistoryStep == HInv /\ [Next]_vars => HInv'
  <1> SUFFICES ASSUME HInv, [Next]_vars PROVE HInv'
    OBVIOUS
  <1>0. SInv /\ SInv' /\ Typed'
    BY SessionsStep, TypedStep DEF HInv
  <1>1. ASSUME NEW at, NEW j, Sound(at, j, threads, nextTurn), j.thread \in 0 .. nextThread - 1
        PROVE  Sound(at, j, threads', nextTurn')
    BY <1>0, <1>1, TablesRecall DEF Sound
  <1>2. \A d \in Clients : Sound(pc[d], job[d], threads', nextTurn')
    BY <1>0, <1>1, IdsBelow DEF HInv, Fits
  <1>3. CASE UNCHANGED vars
    BY <1>0, <1>2, <1>3 DEF HInv, vars
  <1>4. ASSUME NEW c \in Clients, Alone(c), Sound(pc'[c], job'[c], threads', nextTurn')
        PROVE  HInv'
    BY <1>0, <1>2, <1>4 DEF HInv, Alone
  <1>5. ASSUME NEW c \in Clients, Alone(c), Moves(c), job'[c].thread \in 0 .. nextThread - 1
        PROVE  HInv'
    <2>1. PICK at, j : Goto(c, at, j) /\ Sound(at, j, threads, nextTurn)
      BY <1>5 DEF Moves
    <2>2. pc'[c] = at /\ job'[c] = j
      BY <1>0, <2>1 DEF Goto, SInv, Locals
    <2> QED  BY <1>1, <1>4, <1>5, <2>1, <2>2
  <1>6. ASSUME NEW c \in Clients, UNCHANGED nextThread
        PROVE  job'[c].thread \in 0 .. nextThread - 1
    BY <1>0, <1>6, IdsBelow DEF SInv, Locals, Fits
  <1>7. ASSUME NEW c \in Clients, StartCommand(c) \/ ChatLine(c)
        PROVE  HInv'
    <2>1. Moves(c) /\ Alone(c) /\ UNCHANGED nextThread
      BY <1>0, <1>7, StartsMove, StartsAlone DEF Local
    <2> QED  BY <1>5, <1>6, <2>1
  <1>8. ASSUME NEW c \in Clients,
               \/ Lookup(c) \/ ReadTurns(c) \/ Answer(c) \/ BeginAppend(c) \/ CheckTarget(c)
               \/ Abandon(c)
        PROVE  HInv'
    <2>1. Moves(c)
      BY <1>8, ReadsMove
    <2>2. Alone(c) /\ UNCHANGED nextThread
      BY <1>0, <1>8, ReadsAlone, BeginAlone DEF Local, db
    <2> QED  BY <1>5, <1>6, <2>1, <2>2
  <1>9. ASSUME NEW c \in Clients,
               \/ Create(c) \/ InsertTurn(c) \/ PruneTurns(c) \/ RenameThread(c)
               \/ DeleteThread(c)
        PROVE  HInv'
    <2>0. Alone(c) /\ job[c] \in Job /\ job[c].thread \in 0 .. nextThread - 1
      BY <1>0, <1>9, WritesAlone, IdsBelow DEF HInv, Sound, Fits
    <2>1. CASE Moves(c)
      <3>1. CASE UNCHANGED nextThread
        BY <1>5, <1>6, <2>0, <2>1, <3>1
      <3>2. CASE ~UNCHANGED nextThread
        <4>1. Goto(c, "turns", [job[c] EXCEPT !.found = nextThread])
          BY <1>9, <3>2 DEF Create, InsertTurn, PruneTurns, RenameThread, DeleteThread, db
        <4>2. job'[c] = [job[c] EXCEPT !.found = nextThread]
          BY <1>0, <4>1 DEF Goto, SInv, Locals
        <4>3. job'[c].thread = job[c].thread
          BY <2>0, <4>2 DEF Job
        <4> QED  BY <1>5, <2>0, <2>1, <4>3
      <3> QED  BY <3>1, <3>2
    <2>2. CASE Recorded(c) /\ Goto(c, "prune", [job[c] EXCEPT !.turn = nextTurn])
      <3> DEFINE s == job[c].thread
                 mem == job[c].mem
                 j == [job[c] EXCEPT !.turn = nextTurn]
                 new == [id |-> nextTurn, index |-> job[c].index]
                 more == threads[s].turns \cup {new}
      <3>1. pc'[c] = "prune" /\ job'[c] = j
        BY <1>0, <2>2 DEF Goto, SInv, Locals
      <3>2. /\ s \in Rows /\ s # 0 /\ pc[c] = "insert"
            /\ nextTurn \in Nat \ {0} /\ nextTurn' = nextTurn + 1
            /\ threads = [r \in Rows |-> [name |-> threads[r].name, turns |-> Turns(r)]]
            /\ threads' = [threads EXCEPT ![s].turns = more]
        BY <1>0, <2>2 DEF Recorded, SInv, Tables
      <3>3. /\ j \in Job /\ j.repl = job[c].repl /\ j.cmd = job[c].cmd
            /\ j.mem = mem /\ j.thread = s /\ j.turn = nextTurn
        BY <2>0, <3>2 DEF Job
      <3>4. Recalled(s, mem, threads, nextTurn) /\ Len(mem) <= HistoryTurns /\ mem \in Seq(Nat)
        BY <2>0, <3>2 DEF HInv, Sound, InHand, Job
      <3>5. Recalled(s, mem, threads', nextTurn')
        BY <1>0, <2>0, <3>4, TablesRecall
      <3>6. nextTurn \in 1 .. nextTurn' - 1 /\ \A i \in 1 .. Len(mem) : mem[i] < nextTurn
        BY <3>2, <3>4 DEF Recalled
      <3>7. Covers(threads'[s].turns, nextTurn)
        <4>1. new \in more /\ new.id = nextTurn
          OBVIOUS
        <4> HIDE DEF new, more
        <4>2. threads'[s].turns = more
          BY <3>2
        <4> QED  BY <4>1, <4>2 DEF Covers
      <3> HIDE DEF j, mem, s, new, more
      <3>8. Recalled(s, Append(mem, nextTurn), threads', nextTurn')
        BY <3>2, <3>4, <3>5, <3>6, <3>7, AppendRecalled
      <3>9. j.repl => j.cmd = "chat"
        BY <3>3 DEF HInv, Sound
      <3>10. Sound("prune", j, threads', nextTurn')
        BY <3>3, <3>4, <3>8, <3>9 DEF Sound, InHand, Step
      <3> QED  BY <1>4, <2>0, <3>1, <3>10
    <2> QED  BY <1>9, <2>1, <2>2, WritesMove
  <1> QED  BY <1>3, <1>7, <1>8, <1>9 DEF Next, CommandStep

\* Beside SInv: what a client replays is what it recalled from its thread,
\* and stays so whatever other clients record, prune and delete meanwhile.
THEOREM HistoryInvariance == Spec => []HInv
  BY HistoryInit, HistoryStep, PTL DEF Spec

\* The tables and every client keep their type; in particular no two threads
\* share a name, no two turns an index, and every thread is listed once in the
\* order of use (session.go:72-100, 182-205).
THEOREM ThreadsTypeCorrect == Spec => []TypeOK
  <1>1. HInv => TypeOK
    <2> SUFFICES ASSUME HInv PROVE TypeOK
      OBVIOUS
    <2>1. /\ Tables /\ Typed /\ Listing(recent, Rows)
          /\ \A s \in Rows : InOrder(threads[s].turns, nextTurn)
      BY DEF HInv, SInv, Recency, Turns
    <2>2. pc \in [Clients -> Step] /\ job \in [Clients -> Job]
      BY DEF HInv, SInv, Locals, Sound
    <2>3. ASSUME NEW s \in Rows
          PROVE  /\ threads[s].turns \subseteq Turn
                 /\ \A t, u \in threads[s].turns : t.index = u.index => t = u
      <3>1. InOrder(threads[s].turns, nextTurn)
        BY <2>1
      <3>2. 1 .. nextTurn - 1 \subseteq Nat \ {0}
        BY <2>1 DEF Tables
      <3>3. threads[s].turns \subseteq [id : Nat \ {0}, index : Nat]
        BY <3>1, <3>2 DEF InOrder
      <3>4. ASSUME NEW t \in threads[s].turns, NEW u \in threads[s].turns, t.index = u.index
            PROVE  t = u
        <4>1. /\ t \in [id : Nat \ {0}, index : Nat] /\ u \in [id : Nat \ {0}, index : Nat]
              /\ t.id \in Nat /\ u.id \in Nat /\ t.index \in Nat
          BY <3>3
        <4>2. ~(t.id < u.id) /\ ~(u.id < t.id)
          BY <3>1, <3>4, <4>1 DEF InOrder
        <4>3. t.id = u.id
          BY <4>1, <4>2
        <4> QED  BY <3>4, <4>1, <4>3
      <3> QED  BY <3>3, <3>4 DEF Turn
    <2>4. Len(recent) = Cardinality(Rows)
      <3>1. recent \in Seq(Rows) /\ ToSet(recent) = Rows /\ IsInjective(recent)
        BY <2>1 DEF Listing
      <3>2. Len(recent) \in Nat /\ DOMAIN recent = 1 .. Len(recent)
        BY <3>1
      <3>3. recent \in [1 .. Len(recent) -> Rows] /\ \A r \in Rows : \E i \in 1 .. Len(recent) : recent[i] = r
        BY <3>1, <3>2 DEF ToSet
      <3>4. ExistsBijection(1 .. Len(recent), Rows)
        BY <3>1, <3>2, <3>3 DEF ExistsBijection, Bijection, Injection, Surjection, IsInjective
      <3> QED  BY <3>2, <3>4, FS_CountingElements
    <2> QED  BY <2>1, <2>2, <2>3, <2>4 DEF TypeOK, Typed, Tables, Listing
  <1> QED  BY <1>1, HistoryInvariance, PTL

\* What a client replays to the model is the end of what its thread recorded,
\* in that order, at most history_turns of it: each turn is in the thread
\* still or older than all that max_turns has kept there, and a turn that was
\* refused is not among them (chat.go:207-227).
THEOREM ReplayedWasRecordedAlways == Spec => []ReplayedWasRecorded
  <1>1. HInv => ReplayedWasRecorded
    <2> SUFFICES ASSUME HInv, NEW c \in Clients
                 PROVE  LET mem == job[c].mem  s == job[c].thread IN
                          /\ Len(mem) <= HistoryTurns
                          /\ s # 0 => \A i \in 1 .. Len(mem) : \A j \in 1 .. i - 1 : mem[j] < mem[i]
                          /\ s \in Rows => \A i \in 1 .. Len(mem) :
                                \/ \E t \in threads[s].turns : t.id = mem[i]
                                \/ threads[s].turns # {} /\ \A t \in threads[s].turns : mem[i] < t.id
      BY DEF ReplayedWasRecorded
    <2>1. Recalled(job[c].thread, job[c].mem, threads, nextTurn) /\ Len(job[c].mem) <= HistoryTurns
      BY RecalledInHand
    <2> QED  BY <2>1 DEF Recalled, Covers, Rows
  <1> QED  BY <1>1, HistoryInvariance, PTL
=============================================================================
