----------------------------- MODULE FitContext -----------------------------
(***************************************************************************)
(* fitToContext and the trims around it: which replayed turns and which    *)
(* retrieved chunks an ask sends, when the model's window is too small for *)
(* all of them.                                                            *)
(*                                                                         *)
(* A prompt is the last `turns' of the replayed history and the first      *)
(* `kept' chunks, squeezed or not; costs are in tokens and given: what     *)
(* counting and squeezing make of a text is data here.                     *)
(***************************************************************************)
EXTENDS Integers, Sequences

Smaller(a, b) == IF a < b THEN a ELSE b

\* The sum of s[from .. to].
Total(s, from, to) ==
    LET sum[i \in from - 1 .. to] == IF i < from THEN 0 ELSE sum[i - 1] + s[i]
    IN  IF to < from THEN 0 ELSE sum[to]

\* trimToTokenBudget: how many chunks the template's budget lets through, one
\* at least.
Trimmed(costs, budget) ==
    LET over == {i \in 2 .. Len(costs) : Total(costs, 1, i) > budget}
    IN  IF budget <= 0 \/ over = {} THEN Len(costs)
        ELSE (CHOOSE i \in over : \A j \in over : i <= j) - 1

Prompt == [turns : Nat, squeezed : BOOLEAN, kept : Nat]

\* promptTokens of what build makes: template and question, history, chunks.
Cost(p, fixed, turns, chunks, squeezed) ==
    fixed + Total(turns, Len(turns) - p.turns + 1, Len(turns))
          + Total(IF p.squeezed THEN squeezed ELSE chunks, 1, p.kept)

\* fitChunks: all the chunks squeezed, then fewer and fewer of them.
ChunkRungs(turns, n) ==
    [i \in 1 .. (IF n = 0 THEN 0 ELSE n + 1) |->
        [turns |-> turns, squeezed |-> TRUE, kept |-> n - (i - 1)]]

\* Mutant: the whole thread goes before any chunk does.
ThreadFirst(h, n) ==
    <<[turns |-> h, squeezed |-> FALSE, kept |-> n]>> \o ChunkRungs(0, n)

\* The prompts in the order they are tried: everything, without the oldest
\* turns, with the last turn and the chunks squeezed and dropped, and the
\* chunks again without the last turn.
Ladder(h, n) ==
    <<[turns |-> h, squeezed |-> FALSE, kept |-> n]>>
        \o [d \in 1 .. (IF h = 0 THEN 0 ELSE h - 1) |-> [turns |-> h - d, squeezed |-> FALSE, kept |-> n]]
        \o ChunkRungs(Smaller(h, 1), n)
        \o (IF h = 0 THEN <<>> ELSE ChunkRungs(0, n))

\* The first prompt of the ladder within the budget; none is an error.
Fitted(fixed, turns, chunks, squeezed, budget) ==
    LET rungs == Ladder(Len(turns), Len(chunks))
        fits == {i \in 1 .. Len(rungs) :
                    budget > 0 /\ Cost(rungs[i], fixed, turns, chunks, squeezed) <= budget}
    IN  IF fits = {} THEN {} ELSE {rungs[CHOOSE i \in fits : \A j \in fits : i <= j]}

-----------------------------------------------------------------------------
\* What the comments of fitToContext promise, read without its ladder: the
\* last turn outlives every chunk, older turns go before the text is touched,
\* squeezing comes before dropping.
Better(p, q) ==
    \/ p.turns > 0 /\ q.turns = 0
    \/ (p.turns > 0 <=> q.turns > 0) /\
        \/ ~p.squeezed /\ q.squeezed
        \/ p.squeezed = q.squeezed /\ p.kept > q.kept
        \/ p.squeezed = q.squeezed /\ p.kept = q.kept /\ p.turns > q.turns

\* The prompts there are to choose from: text that is left alone is left
\* whole, and is given up only with the older turns and the last one in place.
Candidates(h, n) ==
    {p \in [turns : 0 .. h, squeezed : BOOLEAN, kept : 0 .. n] :
        /\ ~p.squeezed => p.kept = n /\ (p.turns > 0 \/ h = 0)
        /\ p.squeezed => p.turns <= 1}
=============================================================================
