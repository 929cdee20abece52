------------------------------ MODULE Sessions ------------------------------
(***************************************************************************)
(* Conversation threads: the sessions and session_turns tables, and the    *)
(* commands that share them, `tbuk ask' with --session or --continue,      *)
(* `tbuk chat', `tbuk session rename' and `tbuk session delete', one       *)
(* action per database statement or transaction step.                      *)
(*                                                                         *)
(* A turn is its row id, handed out in the order of recording, and its     *)
(* turn_index.  AppendTurn reads the next index and inserts inside one     *)
(* deferred transaction: SQLite refuses the insert when anything was       *)
(* committed since the read (the client is then `stale').                  *)
(***************************************************************************)
EXTENDS Naturals, FiniteSets, Sequences, SequencesExt

CONSTANTS
    Clients,        \* running tbuk commands
    Names,          \* normalised thread names
    NoName,
    MaxTurns,       \* session.max_turns
    HistoryTurns,   \* session.history_turns
    Commands,       \* "ask", "chat", "rename", "delete"
    MaxThreads,     \* bounds: threads created and turns recorded
    MaxAppends

ASSUME SessionsAssumption ==
    /\ NoName \notin Names
    /\ MaxTurns \in Nat
    /\ HistoryTurns \in Nat
    /\ Commands \subseteq {"ask", "chat", "rename", "delete"}
    /\ MaxThreads \in Nat
    /\ MaxAppends \in Nat

VARIABLES
    threads,    \* threads[s]: the sessions row with id s and its turns
    recent,     \* the ids in the order of updated_at, newest last
    nextThread, \* the next AUTOINCREMENT id of each table
    nextTurn,
    stale,      \* clients whose open transaction reads an outdated snapshot
    pc,
    job

db == <<threads, recent, nextThread, nextTurn>>
vars == <<db, stale, pc, job>>

Turn == [id : Nat \ {0}, index : Nat]
Rows == DOMAIN threads
Named(n) == {s \in Rows : threads[s].name = n}

\* A client's locals: the thread it talks in (0: unsaved) with the turns it
\* replays (0: a turn that was never saved), the row it is opening or was
\* asked about, and the turn it is recording.
Job == [cmd : {"none"} \cup Commands, repl : BOOLEAN, thread : Nat, mem : Seq(Nat),
        name : Names \cup {NoName}, to : Names \cup {NoName}, found : Nat,
        index : Nat, turn : Nat]
NoJob == [cmd |-> "none", repl |-> FALSE, thread |-> 0, mem |-> <<>>, name |-> NoName,
          to |-> NoName, found |-> 0, index |-> 0, turn |-> 0]

Step == {"idle", "lookup", "create", "turns", "prompt", "answer", "begin", "insert",
         "prune", "target", "rename", "delete"}

TypeOK ==
    /\ Rows \subseteq 1 .. nextThread - 1
    /\ \A s \in Rows : threads[s].name \in Names /\ threads[s].turns \subseteq Turn
    /\ \A r, s \in Rows : threads[r].name = threads[s].name => r = s
    /\ \A s \in Rows : \A t, u \in threads[s].turns : t.index = u.index => t = u
    /\ recent \in Seq(Rows)
    /\ Len(recent) = Cardinality(Rows)
    /\ ToSet(recent) = Rows
    /\ nextThread \in Nat \ {0}
    /\ nextTurn \in Nat \ {0}
    /\ stale \subseteq {c \in Clients : pc[c] = "insert"}
    /\ pc \in [Clients -> Step]
    /\ job \in [Clients -> Job]

Init ==
    /\ threads = [s \in {} |-> [name |-> NoName, turns |-> {}]]
    /\ recent = <<>>
    /\ nextThread = 1
    /\ nextTurn = 1
    /\ stale = {}
    /\ pc = [c \in Clients |-> "idle"]
    /\ job = [c \in Clients |-> NoJob]

-----------------------------------------------------------------------------
Goto(c, to, j) ==
    /\ pc' = [pc EXCEPT ![c] = to]
    /\ job' = [job EXCEPT ![c] = j]

End(c) == Goto(c, "idle", NoJob)

\* An error ends a command; in the REPL it costs the line that met it, and
\* the thread and the turns in hand are left alone.
Fail(c) ==
    IF job[c].repl
    THEN Goto(c, "prompt", [NoJob EXCEPT !.cmd = "chat", !.repl = TRUE,
                                         !.thread = job[c].thread, !.mem = job[c].mem])
    ELSE End(c)

\* Client c commits a write: every other transaction under way is now behind.
Commit(c) == stale' = {d \in Clients \ {c} : pc[d] = "insert"}
NoCommit(c) == stale' = stale \ {c}

\* The turns of thread s as Turns returns them, and the ones replayed.
ByIndex(turns) ==
    CHOOSE sorted \in [1 .. Cardinality(turns) -> turns] :
        \A i, j \in DOMAIN sorted : i < j => sorted[i].index < sorted[j].index
Stored(s) ==
    IF s \notin Rows THEN <<>>
    ELSE LET sorted == ByIndex(threads[s].turns) IN [i \in DOMAIN sorted |-> sorted[i].id]
Replay(turns) ==
    IF Len(turns) <= HistoryTurns THEN turns
    ELSE SubSeq(turns, Len(turns) - HistoryTurns + 1, Len(turns))

-----------------------------------------------------------------------------
(* openThread *)

StartAsk(c, n) ==
    /\ pc[c] = "idle"
    /\ Goto(c, "lookup", [NoJob EXCEPT !.cmd = "ask", !.name = n])
    /\ UNCHANGED <<db, stale>>

\* --continue: the thread used last, an error when there is none.
StartContinue(c) ==
    /\ pc[c] = "idle"
    /\ recent # <<>>
    /\ Goto(c, "turns", [NoJob EXCEPT !.cmd = "ask", !.found = Last(recent)])
    /\ UNCHANGED <<db, stale>>

\* tbuk chat, unsaved or with --session.
StartChat(c) ==
    /\ pc[c] = "idle"
    /\ \/ Goto(c, "prompt", [NoJob EXCEPT !.cmd = "chat", !.repl = TRUE])
       \/ \E n \in Names : Goto(c, "lookup", [NoJob EXCEPT !.cmd = "chat", !.name = n])
    /\ UNCHANGED <<db, stale>>

Lookup(c) ==
    /\ pc[c] = "lookup"
    /\ IF Named(job[c].name) = {}
       THEN Goto(c, "create", job[c])
       ELSE \E s \in Named(job[c].name) : Goto(c, "turns", [job[c] EXCEPT !.found = s])
    /\ UNCHANGED <<db, stale>>

\* A row with the given id and no turns joins the table.
Added(s, n) == [r \in Rows \cup {s} |-> IF r = s THEN [name |-> n, turns |-> {}] ELSE threads[r]]

\* Mutant: the id after the highest one present, as without AUTOINCREMENT.
CreateReusingId(c) ==
    /\ pc[c] = "create"
    /\ nextThread <= MaxThreads
    /\ Named(job[c].name) = {}
    /\ LET s == CHOOSE i \in 1 .. nextThread :
                      (\A r \in Rows : r < i) /\ (i = 1 \/ i - 1 \in Rows)
       IN  /\ threads' = Added(s, job[c].name)
           /\ recent' = Append(recent, s)
           /\ Goto(c, "turns", [job[c] EXCEPT !.found = s])
    /\ nextThread' = nextThread + 1
    /\ Commit(c)
    /\ UNCHANGED nextTurn

\* Mutant: the name is not UNIQUE.
CreateSecond(c) ==
    /\ pc[c] = "create"
    /\ nextThread <= MaxThreads
    /\ threads' = Added(nextThread, job[c].name)
    /\ recent' = Append(recent, nextThread)
    /\ nextThread' = nextThread + 1
    /\ Goto(c, "turns", [job[c] EXCEPT !.found = nextThread])
    /\ Commit(c)
    /\ UNCHANGED nextTurn

\* SessionRepo.Create: name is UNIQUE, and ids are never used again.
Create(c) ==
    /\ pc[c] = "create"
    /\ nextThread <= MaxThreads
    /\ IF Named(job[c].name) # {}
       THEN Fail(c) /\ UNCHANGED <<db, stale>>
       ELSE /\ threads' = Added(nextThread, job[c].name)
            /\ recent' = Append(recent, nextThread)
            /\ nextThread' = nextThread + 1
            /\ Goto(c, "turns", [job[c] EXCEPT !.found = nextThread])
            /\ Commit(c)
            /\ UNCHANGED nextTurn

\* A thread deleted meanwhile reads as one without turns.
ReadTurns(c) ==
    /\ pc[c] = "turns"
    /\ LET opened == [NoJob EXCEPT !.cmd = job[c].cmd, !.repl = job[c].cmd = "chat",
                                   !.thread = job[c].found,
                                   !.mem = Replay(Stored(job[c].found))]
       IN  Goto(c, IF job[c].cmd = "chat" THEN "prompt" ELSE "answer", opened)
    /\ UNCHANGED <<db, stale>>

-----------------------------------------------------------------------------
(* RunAsk: one turn *)

\* The answer finished with some text in it; without a store behind the chat
\* the turn is only remembered.
Answer(c) ==
    /\ pc[c] = "answer"
    /\ IF job[c].thread = 0
       THEN Goto(c, "prompt", [job[c] EXCEPT !.mem = Replay(Append(@, 0))])
       ELSE Goto(c, "begin", job[c])
    /\ UNCHANGED <<db, stale>>

\* AppendTurn, the read: SELECT MAX(turn_index) + 1.
BeginAppend(c) ==
    /\ pc[c] = "begin"
    /\ nextTurn <= MaxAppends
    /\ LET indexes == IF job[c].thread \in Rows THEN {t.index : t \in threads[job[c].thread].turns}
                      ELSE {}
       IN  Goto(c, "insert", [job[c] EXCEPT
                     !.index = IF indexes = {} THEN 0
                               ELSE 1 + CHOOSE m \in indexes : \A i \in indexes : i <= m])
    /\ UNCHANGED <<db, stale>>

\* The order of use without thread s, and with s the last used.
Without(s) == RemoveAt(recent, CHOOSE i \in DOMAIN recent : recent[i] = s)
Touched(s) == Append(Without(s), s)

\* Mutant: INSERT OR REPLACE, outside any transaction.
InsertOrReplace(c) ==
    /\ pc[c] = "insert"
    /\ job[c].thread \in Rows
    /\ threads' = [threads EXCEPT ![job[c].thread].turns =
                      {t \in @ : t.index # job[c].index}
                          \cup {[id |-> nextTurn, index |-> job[c].index]}]
    /\ recent' = Touched(job[c].thread)
    /\ nextTurn' = nextTurn + 1
    /\ Goto(c, "prune", [job[c] EXCEPT !.turn = nextTurn])
    /\ Commit(c)
    /\ UNCHANGED nextThread

\* Mutant: a turn that could not be recorded is remembered all the same.
InsertOrRemember(c) ==
    /\ pc[c] = "insert"
    /\ c \in stale \/ job[c].thread \notin Rows
    /\ Goto(c, "prune", [job[c] EXCEPT !.turn = nextTurn])
    /\ NoCommit(c)
    /\ UNCHANGED db

\* AppendTurn, the write: INSERT, touch updated_at, COMMIT.  The snapshot
\* must be current, the thread must be there and the index must be free.
InsertTurn(c) ==
    /\ pc[c] = "insert"
    /\ LET s == job[c].thread
       IN  IF \/ c \in stale
              \/ s \notin Rows
              \/ \E t \in threads[s].turns : t.index = job[c].index
           THEN Fail(c) /\ NoCommit(c) /\ UNCHANGED db
           ELSE /\ threads' = [threads EXCEPT ![s].turns =
                                  @ \cup {[id |-> nextTurn, index |-> job[c].index]}]
                /\ recent' = Touched(s)
                /\ nextTurn' = nextTurn + 1
                /\ Goto(c, "prune", [job[c] EXCEPT !.turn = nextTurn])
                /\ Commit(c)
                /\ UNCHANGED nextThread

\* DELETE ... turn_index <= MAX(turn_index) - keep leaves these.
Pruned(turns) ==
    IF MaxTurns = 0 THEN turns
    ELSE {t \in turns : \A u \in turns : t.index + MaxTurns > u.index}

\* Prune, after which the REPL remembers the turn and an ask is over.
PruneTurns(c) ==
    /\ pc[c] = "prune"
    /\ LET s == job[c].thread
       IN  IF s \in Rows /\ Pruned(threads[s].turns) # threads[s].turns
           THEN /\ threads' = [threads EXCEPT ![s].turns = Pruned(@)]
                /\ Commit(c)
           ELSE UNCHANGED <<threads, stale>>
    /\ IF job[c].cmd = "chat"
       THEN Goto(c, "prompt", [NoJob EXCEPT !.cmd = "chat", !.repl = TRUE,
                                   !.thread = job[c].thread,
                                   !.mem = Replay(Append(job[c].mem, job[c].turn))])
       ELSE End(c)
    /\ UNCHANGED <<recent, nextThread, nextTurn>>

-----------------------------------------------------------------------------
(* RunChat *)

AskLine(c) ==
    /\ pc[c] = "prompt"
    /\ Goto(c, "answer", job[c])
    /\ UNCHANGED <<db, stale>>

Forget(c) ==
    /\ pc[c] = "prompt"
    /\ Goto(c, "prompt", [job[c] EXCEPT !.mem = <<>>])
    /\ UNCHANGED <<db, stale>>

\* /new, and /new NAME, which opens the thread the way --session does.
NewThread(c) ==
    /\ pc[c] = "prompt"
    /\ \/ Goto(c, "prompt", [job[c] EXCEPT !.thread = 0, !.mem = <<>>])
       \/ \E n \in Names : Goto(c, "lookup", [job[c] EXCEPT !.name = n])
    /\ UNCHANGED <<db, stale>>

-----------------------------------------------------------------------------
(* tbuk session rename, tbuk session delete *)

\* lookupSession: an unknown name is an error.
StartRename(c, from, to) ==
    /\ pc[c] = "idle"
    /\ Named(from) # {}
    /\ Goto(c, IF to = from THEN "rename" ELSE "target",
            [NoJob EXCEPT !.cmd = "rename", !.name = from, !.to = to])
    /\ UNCHANGED <<db, stale>>

CheckTarget(c) ==
    /\ pc[c] = "target"
    /\ IF Named(job[c].to) = {} THEN Goto(c, "rename", job[c]) ELSE End(c)
    /\ UNCHANGED <<db, stale>>

\* UPDATE ... WHERE name: the row that has the name by now, if any has.
RenameThread(c) ==
    /\ pc[c] = "rename"
    /\ IF Named(job[c].name) # {} /\ Named(job[c].to) \subseteq Named(job[c].name)
       THEN /\ threads' = [s \in Rows |-> IF s \in Named(job[c].name)
                                          THEN [threads[s] EXCEPT !.name = job[c].to]
                                          ELSE threads[s]]
            /\ Commit(c)
       ELSE UNCHANGED <<threads, stale>>
    /\ End(c)
    /\ UNCHANGED <<recent, nextThread, nextTurn>>

\* The thread is looked up and the user confirms.
StartDelete(c, n) ==
    /\ pc[c] = "idle"
    /\ \E s \in Named(n) :
        Goto(c, "delete", [NoJob EXCEPT !.cmd = "delete", !.name = n, !.found = s])
    /\ UNCHANGED <<db, stale>>

\* DELETE ... WHERE name, turns included.
DeleteThread(c) ==
    /\ pc[c] = "delete"
    /\ LET gone == Named(job[c].name)
       IN  IF gone = {} THEN UNCHANGED <<threads, recent, stale>>
           ELSE /\ threads' = [s \in Rows \ gone |-> threads[s]]
                /\ \E s \in gone : recent' = Without(s)
                /\ Commit(c)
    /\ End(c)
    /\ UNCHANGED <<nextThread, nextTurn>>

-----------------------------------------------------------------------------
StartCommand(c) ==
    \/ "ask" \in Commands /\ (StartContinue(c) \/ \E n \in Names : StartAsk(c, n))
    \/ "chat" \in Commands /\ StartChat(c)
    \/ "rename" \in Commands /\ \E from, to \in Names : StartRename(c, from, to)
    \/ "delete" \in Commands /\ \E n \in Names : StartDelete(c, n)

CommandStep(c) ==
    \/ Lookup(c) \/ Create(c) \/ ReadTurns(c)
    \/ Answer(c) \/ BeginAppend(c) \/ InsertTurn(c) \/ PruneTurns(c)
    \/ CheckTarget(c) \/ RenameThread(c) \/ DeleteThread(c)

ChatLine(c) == AskLine(c) \/ Forget(c) \/ NewThread(c)

\* The step fails (the provider, the database, an empty answer, a refused
\* confirmation), or Ctrl-C, /exit or a crash ends the command.
Abandon(c) ==
    /\ pc[c] # "idle"
    /\ End(c) \/ (pc[c] # "prompt" /\ Fail(c))
    /\ NoCommit(c)
    /\ UNCHANGED db

Next == \E c \in Clients : StartCommand(c) \/ CommandStep(c) \/ ChatLine(c) \/ Abandon(c)

Spec == Init /\ [][Next]_vars

-----------------------------------------------------------------------------
\* The tables are a set of logs: whatever asks, chats, renames and deletions
\* are interleaved, a turn is added at the end, none is overwritten, and
\* pruning drops exactly the turns older than the newest max_turns
\* (session.go:182-188, 259-261).
Log == INSTANCE ThreadLog WITH
    Threads <- 1 .. MaxThreads,
    log <- [s \in Rows |-> {t.id : t \in threads[s].turns}],
    made <- nextTurn - 1
ImplementsLog == Log!Spec

\* The schema's AUTOINCREMENT keeps a running ask or chat, which holds its
\* thread by id, out of a thread that somebody created after deleting its
\* own (migrate.go:128).
NeverAnotherThread ==
    [][\A c \in Clients : \A s \in {job[c].thread, job[c].found} : s \in Rows' => s \in Rows]_vars

\* What a client replays to the model is the end of what its thread recorded:
\* turns in the order of recording, at most history_turns of them, each in
\* the thread still or older than every turn max_turns has kept there; a
\* turn that was refused is not among them (chat.go:207-227).
ReplayedWasRecorded ==
    \A c \in Clients : LET mem == job[c].mem  s == job[c].thread IN
        /\ Len(mem) <= HistoryTurns
        /\ s # 0 => \A i \in 1 .. Len(mem) : \A j \in 1 .. i - 1 : mem[j] < mem[i]
        /\ s \in Rows => \A i \in 1 .. Len(mem) :
              \/ \E t \in threads[s].turns : t.id = mem[i]
              \/ threads[s].turns # {} /\ \A t \in threads[s].turns : mem[i] < t.id
=============================================================================
