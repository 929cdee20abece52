-------------------------------- MODULE Eval --------------------------------
(***************************************************************************)
(* tbuk eval: each case of a label set is planned, retrieved, answered and *)
(* judged, and a report is made of the rows; with --repeat, of the runs.   *)
(*                                                                         *)
(* A label is given by the passages that satisfy it, a completion by how   *)
(* much of must_include is in it and by the judge's verdict on it.         *)
(***************************************************************************)
EXTENDS Stream, Ordering, SequencesExt

CONSTANTS
    Passages,       \* the chunks of the index
    Evaluations,    \* what a user may run: a label set and the options
    RankedLists,    \* the lists of passages a retrieval may return
    Discounts       \* 1 / log2(rank + 1) for each rank, in thousandths

JudgeScale == 2

\* only: the case --case names, 0 for none, past the last if there is no such;
\* topK <= 0: no cut; empty: no document is indexed.
EvalLabel == [matches : SUBSET Passages, grade : Int, indexed : BOOLEAN]
EvalCase == [labels : Seq(EvalLabel), gold : BOOLEAN, includes : Nat, reference : BOOLEAN]
EvalOptions ==
    [cases : Seq(EvalCase), stage : {"retrieval", "generation", "both"}, only : Nat, gold : BOOLEAN,
     planner : BOOLEAN, judge : BOOLEAN, topK : Int, repeat : Nat, empty : BOOLEAN]

ASSUME EvalAssumption ==
    /\ Evaluations # {} /\ Evaluations \subseteq EvalOptions
    /\ RankedLists \subseteq Seq(Passages)
    /\ Discounts \in Seq(Nat)
    /\ \A i, j \in 1 .. Len(Discounts) : i <= j => Discounts[j] <= Discounts[i]
    /\ \A r \in RankedLists : Len(r) <= Len(Discounts)
    /\ \A e \in Evaluations : \A c \in 1 .. Len(e.cases) :
        /\ Len(e.cases[c].labels) <= Len(Discounts)
        /\ \A i \in 1 .. Len(e.cases[c].labels) :
            LET label == e.cases[c].labels[i]
            IN  (e.empty => ~label.indexed) /\ (~label.indexed => label.matches = {})

VARIABLE evaluation \* the locals of RunEvalRepeated, RunEval and scoreAnswer

\* row: the case in hand; rows, skipped: the cases done with; reports: the runs.
NoRun == [at |-> "idle", opts |-> CHOOSE e \in Evaluations : TRUE, next |-> 1, row |-> <<>>,
          rows |-> <<>>, skipped |-> {}, reports |-> <<>>]

EvalInit == evaluation = NoRun

\* hit: some passage is relevant; dcg, ideal: in thousandths.  whole: the
\* answer's stream came to its last token, which no row of the code records.
Metrics == [scored : BOOLEAN, hit : BOOLEAN, found : Nat, relevant : Nat, retrieved : Nat,
            dcg : Nat, ideal : Nat]
CaseResult == [case : Nat, degraded : BOOLEAN, metrics : Metrics, answered : BOOLEAN,
               whole : BOOLEAN, includes : Nat, judged : BOOLEAN, score : 0 .. JudgeScale]
Average == [total : Nat, over : Nat]
Report == [rows : Seq(CaseResult), skipped : SUBSET Nat, hit : Average, includes : Average,
           correctness : Average, degraded : Nat]

EvalTypeOK ==
    /\ evaluation.at \in {"idle", "case", "retrieve", "answer", "judge", "reported", "failed"}
    /\ evaluation.opts \in Evaluations
    /\ evaluation.next \in 1 .. Len(evaluation.opts.cases) + 1
    /\ evaluation.at \in {"retrieve", "answer", "judge"} => evaluation.row \in CaseResult
    /\ evaluation.rows \in Seq(CaseResult) /\ evaluation.skipped \subseteq Nat
    /\ evaluation.reports \in Seq(Report)

Cases == evaluation.opts.cases
Case == Cases[evaluation.next]

ScoresRetrieval == evaluation.opts.stage \in {"retrieval", "both"}
ScoresGeneration == evaluation.opts.stage \in {"generation", "both"}

\* A case has labels, an answer, something it must include, or none of a kind.
ScorableAnswer(c) == c.reference \/ c.includes > 0
RetrievalCounts(c) == ScoresRetrieval /\ c.labels # <<>>
GenerationCounts(c) == ScoresGeneration /\ ScorableAnswer(c)

-----------------------------------------------------------------------------
(* Scoring a ranked list *)

\* gradeOf: a label without a grade has grade 1.
Grade(label) == IF label.grade <= 0 THEN 1 ELSE label.grade

\* 2^grade - 1.
Gain(grade) ==
    LET power[g \in 0 .. grade] == IF g = 0 THEN 1 ELSE 2 * power[g - 1]
    IN  power[grade] - 1

Gains(labels) == [i \in 1 .. Len(labels) |-> Gain(Grade(labels[i]))]

\* Sums s[i] over the positions i in S.
SumOver(s, S) ==
    LET upto[n \in 0 .. Len(s)] ==
            IF n = 0 THEN 0 ELSE upto[n - 1] + IF n \in S THEN s[n] ELSE 0
    IN  upto[Len(s)]

\* Of two labels the one of the higher grade is better, of equals the first.
Beats(labels, i, j) ==
    \/ Grade(labels[i]) > Grade(labels[j])
    \/ Grade(labels[i]) = Grade(labels[j]) /\ i < j

\* The gains of the labels, the best first.
SortedGains(labels) ==
    LET all == 1 .. Len(labels)
        best == Ordered(all, {p \in all \X all : Beats(labels, p[1], p[2])})
    IN  [n \in all |-> Gains(labels)[best[n]]]

\* The gain of the best ranking the labels allow within the cutoff, 1 if none.
IdealDCG(labels, cut) ==
    LET depth == IF cut < Len(labels) THEN cut ELSE Len(labels)
        ideal == SumOver([n \in 1 .. Len(labels) |-> Discounts[n] * SortedGains(labels)[n]],
                         1 .. depth)
    IN  IF ideal = 0 THEN 1 ELSE ideal

\* The labels a passage satisfies.
Satisfied(labels, passage) == {i \in 1 .. Len(labels) : passage \in labels[i].matches}

\* Mutant: a label earns its gain for every passage that satisfies it.
CreditAlways(labels, credited, passage) ==
    LET open == Satisfied(labels, passage)
    IN  {i \in open : \A j \in open \ {i} : Beats(labels, i, j)}

\* The label a passage is credited with: the best that is left, the first of
\* those, if any.
Credit(labels, credited, passage) ==
    LET open == Satisfied(labels, passage) \ credited
    IN  {i \in open : \A j \in open \ {i} : Beats(labels, i, j)}

NotScored == [scored |-> FALSE, hit |-> FALSE, found |-> 0, relevant |-> 0, retrieved |-> 0,
              dcg |-> 0, ideal |-> 1]

\* Score: one list against the labels of its case, cut at depth k.
Score(list, labels, k) ==
    LET cut == IF k <= 0 THEN Len(list) ELSE k
        results == SubSeq(list, 1, IF cut < Len(list) THEN cut ELSE Len(list))
        relevant == {r \in 1 .. Len(results) : Satisfied(labels, results[r]) # {}}
        credited[n \in 0 .. Len(results)] ==
            IF n = 0 THEN {} ELSE credited[n - 1] \cup Credit(labels, credited[n - 1], results[n])
        earned == [n \in 1 .. Len(results) |->
            Discounts[n] * SumOver(Gains(labels), Credit(labels, credited[n - 1], results[n]))]
    IN  [scored |-> TRUE, hit |-> relevant # {}, found |-> Cardinality(credited[Len(results)]),
         relevant |-> Cardinality(relevant), retrieved |-> Len(results),
         dcg |-> SumOver(earned, 1 .. Len(earned)), ideal |-> IdealDCG(labels, cut)]

-----------------------------------------------------------------------------
(* The report *)

\* A rate: the total over all rows, and how many of them had something to mark.
Rate(marks, counted) ==
    [total |-> SumOver(marks, DOMAIN marks), over |-> Cardinality(counted)]

\* Mutant: every answer counts, whether the judge marked it or not.
MarkedAnyway(row) == row.answered

\* An answer the judge failed on is not one it marked with zero.
Marked(row) == row.judged

\* NewReport: the headline is made of the rows.
NewReport(rows, skipped) ==
    LET all == 1 .. Len(rows)
        asked == {i \in all : rows[i].answered /\ Cases[rows[i].case].includes > 0}
    IN  [rows |-> rows, skipped |-> skipped,
         hit |-> Rate([i \in all |-> IF rows[i].metrics.hit THEN 1 ELSE 0],
                      {i \in all : rows[i].metrics.scored}),
         includes |-> Rate([i \in all |-> rows[i].includes], asked),
         correctness |-> Rate([i \in all |-> rows[i].score], {i \in all : Marked(rows[i])}),
         degraded |-> Cardinality({i \in all : rows[i].degraded})]

\* byID: the row of case c in a report.
RowOf(report, c) == CHOOSE row \in ToSet(report.rows) : row.case = c

\* caseSpreads: what was scored on retrieval in the first run and is in every
\* run; a judged score only where each run judged it.
CaseSpreads(reports) ==
    LET Complete(c) == \A r \in ToSet(reports) : \E row \in ToSet(r.rows) : row.case = c
        scored == {c \in 1 .. Len(Cases) : Complete(c) /\ RowOf(reports[1], c).metrics.scored}
        judged == {c \in scored : \A r \in ToSet(reports) : RowOf(r, c).judged}
    IN  [c \in scored |-> IF c \in judged
                          THEN [i \in 1 .. Len(reports) |-> RowOf(reports[i], c).score]
                          ELSE <<>>]

-----------------------------------------------------------------------------
(* What is refused before anything is searched *)

Labels(opts) == UNION {ToSet(opts.cases[c].labels) : c \in 1 .. Len(opts.cases)}

\* --case names nothing; not one label is in an index that holds documents; not
\* one answer can be marked.
Unscorable(opts) ==
    \/ opts.only \notin 0 .. Len(opts.cases)
    \/ /\ opts.stage # "generation" /\ ~opts.empty /\ Labels(opts) # {}
       /\ \A label \in Labels(opts) : ~label.indexed
    \/ /\ opts.stage # "retrieval"
       /\ \A c \in 1 .. Len(opts.cases) : ~ScorableAnswer(opts.cases[c])

StartEval ==
    /\ evaluation.at = "idle"
    /\ \E opts \in Evaluations :
          evaluation' = [NoRun EXCEPT !.opts = opts,
                                      !.at = IF Unscorable(opts) THEN "failed" ELSE "case"]

-----------------------------------------------------------------------------
(* A case *)

NewRow == [case |-> evaluation.next, degraded |-> FALSE, metrics |-> NotScored,
           answered |-> FALSE, whole |-> FALSE, includes |-> 0, judged |-> FALSE, score |-> 0]

More == evaluation.next <= Len(Cases)
LeftOut == evaluation.opts.only \notin {0, evaluation.next}

\* Nothing of the case counts at this stage, or it has no ceiling to measure.
NothingToScore ==
    \/ ~RetrievalCounts(Case) /\ ~GenerationCounts(Case)
    \/ evaluation.opts.gold /\ ~Case.gold

PassOver ==
    /\ evaluation.at = "case" /\ More
    /\ LeftOut \/ NothingToScore
    /\ evaluation' = [evaluation EXCEPT
          !.next = @ + 1, !.skipped = IF LeftOut THEN @ ELSE @ \cup {evaluation.next}]

\* The gold query needs no planner; a planner may fall back, or fail.
PlanCase ==
    /\ evaluation.at = "case" /\ More
    /\ ~LeftOut /\ ~NothingToScore
    /\ \/ evaluation' = [evaluation EXCEPT !.at = "retrieve", !.row = NewRow]
       \/ /\ evaluation.opts.planner /\ ~evaluation.opts.gold
          /\ evaluation' \in {[evaluation EXCEPT !.at = "failed"],
                [evaluation EXCEPT !.at = "retrieve", !.row = [NewRow EXCEPT !.degraded = TRUE]]}

Keep(row) ==
    [evaluation EXCEPT !.at = "case", !.next = @ + 1, !.row = <<>>, !.rows = Append(@, row)]

RetrieveCase ==
    /\ evaluation.at = "retrieve"
    /\ ~interrupted
    /\ \E list \in IF evaluation.opts.empty THEN {<<>>} ELSE RankedLists :
        LET row == [evaluation.row EXCEPT !.metrics =
                IF RetrievalCounts(Case) THEN Score(list, Case.labels, evaluation.opts.topK)
                ELSE NotScored]
        IN  evaluation' = IF GenerationCounts(Case)
                          THEN [evaluation EXCEPT !.at = "answer", !.row = row]
                          ELSE Keep(row)

\* Mutant: a case whose answer fails keeps its retrieval score.
SkipFailed ==
    /\ evaluation.at \in {"retrieve", "answer"}
    /\ evaluation' = Keep(evaluation.row)

\* An outage in retrieval, a request for an answer that is refused, and a
\* stream that ends with an error fail the run.
FailCase ==
    /\ evaluation.at \in {"retrieve", "answer"}
    /\ evaluation' = [evaluation EXCEPT !.at = "failed"]

\* A stream that closes before its last token, as at Ctrl-C or at a provider
\* that just stops, is not told from a whole one: both are the answer.
AnswerCase ==
    /\ evaluation.at = "answer"
    /\ \E whole \in BOOLEAN, found \in 0 .. Case.includes :
        LET row == [evaluation.row EXCEPT
                !.answered = TRUE, !.whole = whole,
                !.includes = IF Case.includes = 0 THEN 0 ELSE (100 * found) \div Case.includes]
        IN  evaluation' = IF evaluation.opts.judge
                          THEN [evaluation EXCEPT !.at = "judge", !.row = row]
                          ELSE Keep(row)

\* No reference, no model, no answer in time, Ctrl-C, no readable verdict: the
\* case stays unjudged.
JudgeCase ==
    /\ evaluation.at = "judge"
    /\ \/ evaluation' = Keep(evaluation.row)
       \/ /\ Case.reference
          /\ \E score \in 0 .. JudgeScale :
                evaluation' = Keep([evaluation.row EXCEPT !.judged = TRUE, !.score = score])

\* The run is over: its report, and the next run of --repeat.
FinishRun ==
    /\ evaluation.at = "case" /\ ~More
    /\ LET reports == Append(evaluation.reports, NewReport(evaluation.rows, evaluation.skipped))
       IN  evaluation' = [NoRun EXCEPT
              !.opts = evaluation.opts, !.reports = reports,
              !.at = IF Len(reports) < evaluation.opts.repeat THEN "case" ELSE "reported"]

EvalStep ==
    \/ PassOver \/ PlanCase \/ RetrieveCase \/ AnswerCase \/ JudgeCase \/ FailCase \/ FinishRun

-----------------------------------------------------------------------------
\* Of a report: no case is lost, or scored where it had nothing to score, and a
\* row of a case that asks for an answer has one, although not always a whole
\* one; no ranking beats the best there is, as crediting a label twice would,
\* and no passage is credited with two; a rate is over the cases that earned
\* it, so an outage of the judge never lowers it.
HonestReport(r) ==
    LET done == {row.case : row \in ToSet(r.rows)}
    IN  /\ done \cup r.skipped = {c \in 1 .. Len(Cases) : evaluation.opts.only \in {0, c}}
        /\ Len(r.rows) + Cardinality(r.skipped) = Cardinality(done \cup r.skipped)
        /\ \A row \in ToSet(r.rows) :
            /\ row.metrics.scored <=> RetrievalCounts(Cases[row.case])
            /\ row.answered <=> GenerationCounts(Cases[row.case])
            /\ row.whole => row.answered
            /\ row.metrics.dcg <= row.metrics.ideal
            /\ row.metrics.found <= row.metrics.relevant
        /\ \A rate \in {r.hit, r.includes, r.correctness} : rate.over = 0 => rate.total = 0
        /\ \A least \in 0 .. JudgeScale :
            (\A row \in ToSet(r.rows) : row.judged => row.score >= least)
                => r.correctness.total >= least * r.correctness.over

\* Of the runs: whatever the first scored is compared, and verdicts only where
\* every run has one.
HonestSpreads(reports) ==
    LET spreads == CaseSpreads(reports)
    IN  /\ DOMAIN spreads =
               {row.case : row \in {q \in ToSet(reports[1].rows) : q.metrics.scored}}
        /\ \A c \in DOMAIN spreads : spreads[c] # <<>> =>
               \A r \in ToSet(reports) : \E row \in ToSet(r.rows) : row.case = c /\ row.judged

\* What an evaluation reports is what it measured, of each run and of the runs
\* compared (eval.go:123-127, metrics.go:37-40, generate.go:377-383,
\* spread.go:278-281).  It says nothing of an answer cut short, which is scored
\* like any other (eval.go:684-692), nor of an index without documents, which
\* is not refused (eval.go:192).
ReportIsHonest ==
    evaluation.at = "reported" =>
        /\ \A r \in ToSet(evaluation.reports) : HonestReport(r)
        /\ Len(evaluation.reports) > 1 => HonestSpreads(evaluation.reports)
=============================================================================
