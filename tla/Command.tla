------------------------------- MODULE Command -------------------------------
(***************************************************************************)
(* One run of tbuk: openApp, while another process may open the same       *)
(* database, then an ask, a search, an evaluation or the split of an       *)
(* ingest, while others reindex and delete documents and the user may      *)
(* press Ctrl-C.                                                           *)
(***************************************************************************)
EXTENDS Ask, Chunker, Eval, Migrate

CONSTANTS
    Tbuk,       \* this process, one of Openers
    Queries     \* what `tbuk search' is asked: mode, terms, exclusions, k

ASSUME CommandAssumption ==
    /\ Tbuk \in Openers
    /\ \A q \in Queries : q.mode \in {"hybrid", "vector", "keyword"} /\ q.k \in Nat

VARIABLE command    \* what this process is doing

vars == <<asking, searching, retry, chunker, evaluation, opening, command>>

CommandTypeOK ==
    /\ AskTypeOK
    /\ SearchTypeOK
    /\ RetryTypeOK
    /\ MigrateTypeOK
    /\ EvalTypeOK
    /\ command \in {"opening", "ask", "search", "split", "eval", "ended"}

Init ==
    /\ AskInit
    /\ SearchInit
    /\ RetryInit
    /\ ChunkerInit
    /\ EvalInit
    /\ MigrateInit
    /\ command = "opening"

\* Another process does not open the file while this one is past its Open.
Opening ==
    /\ command = "opening"
    /\ \E o \in Openers : OpenDatabase(o) \/ MigrateStep(o)
    /\ UNCHANGED <<asking, searching, retry, chunker, evaluation, command>>

Settled == \A o \in Openers \ {Tbuk} : open[o].at \in {"closed", "ready", "failed", "killed"}

\* The database is open: the rest of the command runs, the locals of Open are
\* gone.  (Of a knowledge base in an older shape only the open is modelled.)
Begin(c) ==
    /\ command = "opening"
    /\ open[Tbuk].at = "ready" /\ Settled
    /\ file.old = {}
    /\ command' = c
    /\ open' = [o \in Openers |-> Closed]
    /\ UNCHANGED <<file, lock>>

BeginAsk == Begin("ask") /\ StartAsk /\ UNCHANGED <<chunker, evaluation>>

BeginSearch ==
    /\ Begin("search")
    /\ \E q \in Queries : StartSearch(q.mode, q.wanted, q.unwanted, q.k)
    /\ UNCHANGED <<asking, chunker, evaluation>>

BeginSplit ==
    /\ Begin("split") /\ StartSplit
    /\ UNCHANGED <<asking, searching, retry, evaluation>>

BeginEval ==
    /\ Begin("eval") /\ StartEval
    /\ UNCHANGED <<asking, searching, retry, chunker>>

Quiet == UNCHANGED <<chunker, evaluation, opening, command>>

Asking == command = "ask" /\ AskStep /\ Quiet

Searching ==
    /\ command \in {"ask", "search"}
    /\ SearchStep
    /\ UNCHANGED asking /\ Quiet

Splitting ==
    /\ command = "split"
    /\ SplitStep
    /\ UNCHANGED <<asking, searching, retry, evaluation, opening, command>>

Evaluating ==
    /\ command = "eval"
    /\ EvalStep
    /\ UNCHANGED <<asking, searching, retry, chunker, opening, command>>

Over ==
    \/ command = "ask" /\ ask.at = "ended"
    \/ command = "search" /\ search.at \in {"found", "failed"}
    \/ command = "split" /\ ~splitting
    \/ command = "eval" /\ evaluation.at \in {"reported", "failed"}

End ==
    /\ Over
    /\ command' = "ended"
    /\ UNCHANGED <<asking, searching, retry, chunker, evaluation, opening>>

\* The goroutines and the provider of the ask's calls, which may outlive it.
Answering(c) ==
    /\ command \in {"ask", "ended"}
    /\ Provider(c) \/ Interrupt(c) \/ Yield(c)
    /\ UNCHANGED <<interrupted, opts, plan, ask, searching, retry>> /\ Quiet

TimeOut(c) ==
    /\ command = "ask"
    /\ Deadline(c)
    /\ UNCHANGED <<opts, ask, searching, retry>> /\ Quiet

PressCtrlC ==
    /\ command \in {"ask", "search", "eval"} /\ ~Over
    /\ CtrlC
    /\ UNCHANGED <<opts, plan, ask, searching, retry>> /\ Quiet

SearchInterrupted ==
    /\ interrupted
    /\ CancelSearch
    /\ UNCHANGED asking /\ Quiet

\* Bound: the corpus changes only while `tbuk search' runs its queries.
OtherProcesses ==
    /\ command = "search"
    /\ search.at \in {"embed", "rank", "hydrate", "keyword", "fuse"}
    /\ Others
    /\ UNCHANGED <<asking, retry>> /\ Quiet

Next ==
    \/ Opening \/ BeginAsk \/ BeginSearch \/ BeginSplit \/ BeginEval \/ End
    \/ Asking \/ Searching \/ Splitting \/ Evaluating
    \/ PressCtrlC \/ SearchInterrupted \/ OtherProcesses
    \/ \E c \in Calls : Answering(c) \/ TimeOut(c)

CommandSpec == Init /\ [][Next]_vars

-----------------------------------------------------------------------------
Planning == Asking /\ PlanStep
GivingUp(c) == Asking /\ GiveUpCall(c)
Cancelled(c) == Answering(c) /\ Interrupt(c)
Released(c) == Answering(c) /\ Yield(c)

\* The planner's goroutine runs, and its select does not forever prefer a
\* token to the done context; deadlines fall; a read whose context is done
\* fails sooner or later, and a send is given up.  Of the provider nothing is
\* assumed: it may hang.
CommandFairness ==
    /\ WF_vars(Planning)
    /\ \A c \in Calls \ {"answer"} : WF_vars(GivingUp(c)) /\ WF_vars(TimeOut(c))
    /\ \A c \in Calls : SF_vars(Cancelled(c)) /\ WF_vars(Released(c))

FairCommandSpec == CommandSpec /\ CommandFairness
=============================================================================
