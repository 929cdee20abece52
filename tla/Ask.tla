--------------------------------- MODULE Ask ---------------------------------
(***************************************************************************)
(* RunAsk: the queries the planner makes of the question, the searches     *)
(* they run, the prompt that fits, the model's answer token by token, and  *)
(* the turn that is recorded when the ask is part of a thread.             *)
(***************************************************************************)
EXTENDS Planner, FitContext, Search

CONSTANTS
    TermsOf,        \* the terms of a query, by its key
    ChunkTokens,    \* what a chunk costs, by its id
    SqueezedTokens  \* and once squeezed

ASSUME AskAssumption ==
    /\ {"condense", "expand", "answer"} \subseteq Calls
    /\ \A i \in 1 .. MaxChunks : SqueezedTokens[i] <= ChunkTokens[i]

VARIABLE ask    \* the locals of RunAsk

asking == <<call, interrupted, opts, plan, ask>>

\* lists: what each query found; chunks: what was retrieved of them; prompt:
\* what was made of that (none, or one); heard: the answer has text in it so far.
NoAsk == [at |-> "idle", queries |-> <<>>, lists |-> <<>>, chunks |-> <<>>,
          prompt |-> {}, heard |-> FALSE, outcome |-> "none"]

AskTypeOK ==
    /\ StreamTypeOK
    /\ opts \in Invocations
    /\ plan.at \in {"idle", "condense", "toExpand", "expand", "planned"}
    /\ plan.got \in BOOLEAN
    /\ ask.at \in {"idle", "plan", "retrieve", "answer", "finish", "ended"}
    /\ Len(ask.lists) <= Len(ask.queries)
    /\ IsInjective(ask.chunks)
    /\ ask.prompt \subseteq Prompt /\ Cardinality(ask.prompt) <= 1
    /\ ask.heard \in BOOLEAN
    /\ ask.outcome \in {"none", "answered", "recorded", "no context", "overflow", "error"}

AskInit ==
    /\ StreamInit
    /\ opts = CHOOSE i \in Invocations : TRUE
    /\ plan = NoPlan
    /\ ask = NoAsk

\* RunAsk returns: its context is cancelled.
Return(outcome) ==
    /\ ask' = [ask EXCEPT !.at = "ended", !.outcome = outcome]
    /\ Cancel("answer")

StartAsk ==
    /\ ask.at = "idle"
    /\ ask' = [ask EXCEPT !.at = "plan"]
    /\ opts' \in Invocations
    /\ UNCHANGED <<call, interrupted, plan, searching, retry>>

PlanQueries ==
    /\ ask.at = "plan"
    /\ PlanStep
    /\ UNCHANGED <<opts, ask, searching, retry>>

\* The plan, less what RetrieveMany has no use for; the planner's locals go.
PlanReady ==
    /\ ask.at = "plan" /\ plan.at = "planned"
    /\ ask' = [ask EXCEPT !.at = "retrieve",
                          !.queries = NonBlank(Usable(plan.queries))]
    /\ plan' = [NoPlan EXCEPT !.at = "planned"]
    /\ UNCHANGED <<call, interrupted, opts, searching, retry>>

-----------------------------------------------------------------------------
(* RetrieveMany: a hybrid search for each query, one after the other.      *)

Searched == Len(ask.lists) = Len(ask.queries)

RetrieveNext ==
    /\ ask.at = "retrieve" /\ ~Searched
    /\ StartSearch("hybrid", TermsOf[ask.queries[Len(ask.lists) + 1].key], {}, opts.topK)
    /\ UNCHANGED <<call, interrupted, opts, plan, ask>>

TakeResults ==
    /\ ask.at = "retrieve"
    /\ \/ /\ search.at = "found"
          /\ ask' = [ask EXCEPT !.lists = Append(@, search.found)]
          /\ UNCHANGED call
       \/ search.at = "failed" /\ Return("error")
    /\ search' = NoSearch
    /\ UNCHANGED <<interrupted, opts, plan, corpus, nextChunk, retry>>

\* One list is taken as it is; several are fused.
Retrieved ==
    IF Len(ask.lists) = 1 THEN ask.lists[1] ELSE First(opts.topK, FuseRRF(ask.lists))

-----------------------------------------------------------------------------
(* The prompt *)

Costs(tokens, chunks) == [i \in 1 .. Len(chunks) |-> tokens[chunks[i]]]

\* The chunks within the template's budget.
Budgeted(chunks) == First(Trimmed(Costs(ChunkTokens, chunks), opts.maxTokens), chunks)

Whole(chunks) == [turns |-> Len(opts.turns), squeezed |-> FALSE, kept |-> Len(chunks)]

\* The prompt the model is sent; none when nothing fits its window.
PromptFor(chunks) ==
    IF opts.window = 0 THEN {Whole(chunks)}
    ELSE Fitted(opts.fixed, opts.turns, Costs(ChunkTokens, chunks),
                Costs(SqueezedTokens, chunks), opts.window - opts.reserve)

\* Nothing was found, or nothing of it fits: an ask that requires context
\* ends here, any other is answered from what the model knows.
Ungrounded(chunks, prompt) ==
    opts.requireContext /\ (chunks = <<>> \/ \E p \in prompt : p.kept = 0)

AskModel ==
    /\ ask.at = "retrieve" /\ Searched /\ search.at = "idle"
    /\ LET chunks == Budgeted(Retrieved)
           prompt == PromptFor(chunks)
           ready == [NoAsk EXCEPT !.chunks = chunks, !.prompt = prompt]
       IN  IF Ungrounded(chunks, prompt)
           THEN ask' = [ready EXCEPT !.at = "ended", !.outcome = "no context"] /\ Cancel("answer")
           ELSE IF prompt = {}
           THEN ask' = [ready EXCEPT !.at = "ended", !.outcome = "overflow"] /\ Cancel("answer")
           ELSE ask' = [ready EXCEPT !.at = "answer"] /\ Chat("answer")
    /\ UNCHANGED <<interrupted, opts, plan, searching, retry>>

-----------------------------------------------------------------------------
(* The answer *)

\* The loop over the tokens: an error token fails the ask, the last token or
\* a closed channel ends the answer.
TakeAnswer ==
    /\ ask.at = "answer"
    /\ \/ /\ call["answer"].at = "offer"
          /\ CASE call["answer"].token = "error" ->
                    /\ ask' = [ask EXCEPT !.at = "ended", !.outcome = "error"]
                    /\ call' = [call EXCEPT !["answer"] = [Received("answer") EXCEPT !.cancelled = TRUE]]
               [] call["answer"].token = "done" ->
                    /\ ask' = [ask EXCEPT !.at = "finish"]
                    /\ call' = [call EXCEPT !["answer"] = Received("answer")]
               [] OTHER ->
                    /\ ask' = [ask EXCEPT !.heard = @ \/ call["answer"].token = "text"]
                    /\ call' = [call EXCEPT !["answer"] = Received("answer")]
       \/ /\ call["answer"].at = "closed"
          /\ ask' = [ask EXCEPT !.at = "finish"]
          /\ UNCHANGED call
       \/ call["answer"].at = "refused" /\ Return("error")
    /\ UNCHANGED <<interrupted, opts, plan, searching, retry>>

\* Mutant: the turn is recorded under a context of its own.
AlwaysRecordable == TRUE

\* The transaction of appendTurn begins: its context is the command's.
Recordable == ~interrupted

\* What is printed may be normalized first, which may fail; a turn with text
\* in it is recorded last.
FinishAnswer ==
    /\ ask.at = "finish"
    /\ \/ opts.buffered /\ Return("error")
       \/ (~opts.threaded \/ ~ask.heard) /\ Return("answered")
       \/ opts.threaded /\ ask.heard /\ Recordable /\ Return("recorded")
       \/ opts.threaded /\ ask.heard /\ Return("error")
    /\ UNCHANGED <<interrupted, opts, plan, searching, retry>>

AskStep ==
    \/ PlanQueries \/ PlanReady \/ RetrieveNext \/ TakeResults \/ AskModel
    \/ TakeAnswer \/ FinishAnswer

-----------------------------------------------------------------------------
\* A turn that was recorded holds every token of text the provider sent, and
\* some: neither Ctrl-C nor a failing stream leaves half an answer in a
\* thread (ask.go:817-822).  A stream that just stops counts as whole.
RecordedAnswerIsWhole ==
    ask.outcome = "recorded" =>
        /\ ask.heard
        /\ call["answer"].ending \in {"stop", "silent"}

\* Of the prompts there are, the one sent fits the window and none that fits
\* is better; and where something was retrieved, an ask fails for its size
\* only if none fits (ask.go:424-437).  A reserve that leaves nothing of the
\* window lets no prompt fit, not even an empty one (ask.go:434-436).
FitIsPreferred ==
    LET cost(p) == Cost(p, opts.fixed, opts.turns, Costs(ChunkTokens, ask.chunks),
                        Costs(SqueezedTokens, ask.chunks))
        budget == opts.window - opts.reserve
        fitting == {p \in Candidates(Len(opts.turns), Len(ask.chunks)) :
                       budget > 0 /\ cost(p) <= budget}
    IN  opts.window > 0 =>
        /\ \A p \in ask.prompt : cost(p) <= budget /\ \A q \in fitting : ~Better(q, p)
        /\ ask.outcome = "overflow" /\ ask.chunks # <<>> => fitting = {}
=============================================================================
