------------------------------- MODULE Planner -------------------------------
(***************************************************************************)
(* rewrite.Planner: from the thread and the question to the queries that   *)
(* retrieval runs.  Window folds earlier questions in; Condense asks the   *)
(* model for one question that stands alone and falls back to the window;  *)
(* Expand asks it for more wordings of the first query.                    *)
(*                                                                         *)
(* A query is what is left of its text once case and spacing are folded,   *)
(* and one of its spellings; the key "" is a blank query.                  *)
(***************************************************************************)
EXTENDS Stream, Ordering

CONSTANTS
    Keys,           \* the texts of queries, case and spacing folded
    Rewrites,       \* what a condensed question may come out as, cleaned
    Paraphrases,    \* the lists of lines an expansion may come out as
    Invocations     \* the asks a user may start

Query == [key : Keys, spelling : Nat]

ASSUME PlannerAssumption ==
    /\ {"", "window"} \subseteq Keys
    /\ Rewrites \subseteq Query /\ Paraphrases \subseteq Seq(Query)
    /\ Invocations # {}
    /\ Invocations \subseteq
          [mode : {"off", "window", "condense"}, turns : Seq(Nat), threaded : BOOLEAN,
           expand : Nat, question : Query, topK : Nat, maxTokens : Nat, window : Nat,
           reserve : Nat, fixed : Nat, requireContext : BOOLEAN, buffered : BOOLEAN]

VARIABLES
    opts,       \* the ask under way
    plan        \* the planner's place, text and queries

Blank(q) == q.key = ""
Spelled(key, spelling) == [key |-> key, spelling |-> spelling]

NoPlan == [at |-> "idle", got |-> FALSE, queries |-> <<>>]

\* Window.Queries: the question, with the ones before it when there are any.
Window(question) ==
    IF opts.mode # "off" /\ opts.turns # <<>> THEN Spelled("window", 1) ELSE question

\* What retrieval runs on when the model is of no help.
Fallback == <<Window(opts.question)>>

\* plannerFor: an ask with nothing to plan has no planner.
NeedsPlanner == opts.threaded \/ opts.mode = "condense" \/ opts.expand > 0

\* Mutant: the paraphrases are appended as they come.
Unfolded(queries, limit) ==
    SubSeq(queries, 1, IF Len(queries) < limit THEN Len(queries) ELSE limit)

\* dedupeQueries: the first spelling of each, no blank one, at most limit.
Dedupe(queries, limit) ==
    LET first == {i \in 1 .. Len(queries) :
                    ~Blank(queries[i]) /\ \A j \in 1 .. i - 1 : queries[j].key # queries[i].key}
        kept == AtPlaces(queries, first)
    IN  SubSeq(kept, 1, IF Len(kept) < limit THEN Len(kept) ELSE limit)

Planned(queries) ==
    IF opts.expand = 0 THEN [plan EXCEPT !.at = "planned", !.queries = queries]
    ELSE [plan EXCEPT !.at = "toExpand", !.queries = queries]

StartPlan ==
    /\ plan.at = "idle"
    /\ \/ /\ ~NeedsPlanner
          /\ plan' = [plan EXCEPT !.at = "planned", !.queries = <<opts.question>>]
          /\ UNCHANGED call
       \/ /\ NeedsPlanner /\ opts.mode # "condense"
          /\ plan' = Planned(Fallback)
          /\ UNCHANGED call
       \/ /\ opts.mode = "condense"
          /\ plan' = [plan EXCEPT !.at = "condense"]
          /\ Chat("condense")
    /\ UNCHANGED interrupted

StartExpand ==
    /\ plan.at = "toExpand"
    /\ plan' = [plan EXCEPT !.at = "expand", !.got = FALSE]
    /\ Chat("expand")
    /\ UNCHANGED interrupted

-----------------------------------------------------------------------------
(* The loop over the tokens of a planner's call, the same in condense and  *)
(* in paraphrase.                                                          *)

\* Each failure is a fallback: the window, or the planned query alone.
GivenUp(c) ==
    IF c = "condense" THEN Planned(Fallback) ELSE [plan EXCEPT !.at = "planned"]

\* What the completion is good for, once cleaned and vetted.
Judged(c) ==
    IF ~plan.got THEN {GivenUp(c)}
    ELSE {GivenUp(c)} \cup
         IF c = "condense" THEN {Planned(<<q>>) : q \in {r \in Rewrites : ~Blank(r)}}
         ELSE {[plan EXCEPT !.at = "planned",
                            !.queries = Dedupe(plan.queries \o ps, Len(plan.queries) + opts.expand)] :
                  ps \in {p \in Paraphrases : Len(p) <= opts.expand}}

Calling(c) == c \in {"condense", "expand"} /\ plan.at = c

TakeToken(c) ==
    /\ Calling(c)
    /\ call[c].at = "offer"
    /\ \/ /\ call[c].token \in {"text", "thinking"}
          /\ plan' = [plan EXCEPT !.got = @ \/ call[c].token = "text"]
          /\ call' = [call EXCEPT ![c] = Received(c)]
       \/ /\ call[c].token = "error"
          /\ plan' = GivenUp(c)
          /\ call' = [call EXCEPT ![c] = [Received(c) EXCEPT !.cancelled = TRUE]]
       \/ /\ call[c].token = "done"
          /\ plan' \in Judged(c)
          /\ call' = [call EXCEPT ![c] = [Received(c) EXCEPT !.cancelled = TRUE]]
    /\ UNCHANGED interrupted

\* A closed channel is the end of the completion.
SeeClosed(c) ==
    /\ Calling(c)
    /\ call[c].at = "closed"
    /\ plan' \in Judged(c)
    /\ Cancel(c)
    /\ UNCHANGED interrupted

\* The call is refused, or its context is done.
GiveUpCall(c) ==
    /\ Calling(c)
    /\ call[c].at = "refused" \/ (call[c].at # "request" /\ call[c].cancelled)
    /\ plan' = GivenUp(c)
    /\ Cancel(c)
    /\ UNCHANGED interrupted

\* Mutant: the call runs under the command's context alone.
NoDeadline(c) == FALSE /\ UNCHANGED <<call, plan, interrupted>>

\* CondenseTimeout, ExpandTimeout.
Deadline(c) ==
    /\ Calling(c)
    /\ ~call[c].cancelled
    /\ Cancel(c)
    /\ UNCHANGED <<plan, interrupted>>

PlanStep ==
    \/ StartPlan \/ StartExpand
    \/ \E c \in Calls : TakeToken(c) \/ SeeClosed(c) \/ GiveUpCall(c)

-----------------------------------------------------------------------------
NonBlank(queries) == AtPlaces(queries, {i \in 1 .. Len(queries) : ~Blank(queries[i])})

\* The plan, or the words the user chose where nothing is left of it.
Usable(queries) ==
    IF NonBlank(queries) = <<>> THEN <<opts.question>> ELSE NonBlank(queries)

\* Whatever the model answers, and however late, retrieval has a plan: it
\* starts with the question, the window or the model's rewrite, runs no
\* blank query (unless the user asked nothing), none twice and no more than
\* were asked for (condense.go:43-46, expand.go:38-40, 175-180).
PlanIsUsable ==
    plan.at = "planned" => LET queries == Usable(plan.queries) IN
        /\ queries # <<>>
        /\ Len(queries) <= 1 + opts.expand
        /\ \A i \in 1 .. Len(queries) :
            /\ Blank(queries[i]) => Blank(opts.question)
            /\ \A j \in 1 .. i - 1 : queries[i].key # queries[j].key
        /\ \/ queries[1] \in {opts.question, Window(opts.question)}
           \/ opts.mode = "condense" /\ queries[1] \in Rewrites
           \/ Blank(Window(opts.question))

\* Planning comes to an end, even while the model hangs (condense.go:33-36,
\* expand.go:22-24).
PlanningEnds == plan.at # "idle" ~> plan.at = "planned"
=============================================================================
