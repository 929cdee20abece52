------------------------------ MODULE MCCommand ------------------------------
(* A small instance of Command for TLC. *)
EXTENDS Command

\* Runes: a letter, a full stop, a space and an ideograph as heavy as a token.
MCWeight == ("a" :> 1) @@ ("." :> 1) @@ (" " :> 1) @@ ("K" :> 4)
MCTexts == {t \in UNION {[1 .. n -> DOMAIN MCWeight] : n \in 1 .. 4} : ToSet(t) # {" "}}
MCSeparators == {<<".", " ">>}

MCMigrations == <<2, 3>>
MCDatabases ==
    {[recorded |-> {}, old |-> {}], [recorded |-> {2}, old |-> {}], [recorded |-> {2}, old |-> {2}],
     [recorded |-> {2, 3}, old |-> {2}], [recorded |-> {4}, old |-> {}]}

MCBodies == {{"x"}, {"x", "y"}}
Wish(mode, wanted, unwanted, k) ==
    [mode |-> mode, wanted |-> wanted, unwanted |-> unwanted, k |-> k]
MCQueries ==
    {Wish("hybrid", {"x"}, {"y"}, 1), Wish("hybrid", {"x"}, {}, 2), Wish("hybrid", {}, {"y"}, 1),
     Wish("keyword", {"x"}, {"y"}, 1), Wish("vector", {"x"}, {"y"}, 1)}

Stored(d, words, dim) == [doc |-> d, words |-> words, dim |-> dim]
MCCorpora == {{}, {Stored("d1", {"x"}, 1), Stored("d2", {"x", "y"}, 1)}}

MCRewrites == {Spelled("r", 1), Spelled("", 1)}
MCParaphrases ==
    {<<>>, <<Spelled("p", 1)>>, <<Spelled("q", 2)>>, <<Spelled("p", 1), Spelled("p", 2)>>,
     <<Spelled("", 1), Spelled("r", 2)>>}
MCTermsOf == ("q" :> {"x"}) @@ ("window" :> {"x"}) @@ ("r" :> {"y"}) @@ ("p" :> {"y"})

MCChunkTokens == <<3, 2, 4>>
MCSqueezedTokens == <<2, 1, 2>>

Single ==
    [mode |-> "off", turns |-> <<>>, threaded |-> FALSE, expand |-> 0, question |-> Spelled("q", 1),
     topK |-> 1, maxTokens |-> 0, window |-> 0, reserve |-> 0, fixed |-> 1,
     requireContext |-> FALSE, buffered |-> FALSE]
Grounded == [Single EXCEPT !.requireContext = TRUE, !.topK = 2, !.maxTokens = 4]
Blanked == [Single EXCEPT !.question = Spelled("", 1), !.mode = "window", !.expand = 2]
Threaded ==
    [Single EXCEPT !.threaded = TRUE, !.mode = "condense", !.turns = <<2, 1>>, !.reserve = 1]
Expanded == [Single EXCEPT !.mode = "condense", !.expand = 1, !.buffered = TRUE]

MCInvocations ==
    {Grounded, [Grounded EXCEPT !.window = 2], Blanked, Expanded}
        \cup {[Threaded EXCEPT !.window = w, !.topK = 2] : w \in {2, 5, 6, 8}}
        \cup {[Threaded EXCEPT !.mode = m] : m \in {"off", "window"}}

\* Passages 1 and 2 are of one document, and 2 satisfies two labels.
Label(matches, grade) == [matches |-> matches, grade |-> grade, indexed |-> matches # {}]
Both == [labels |-> <<Label({2}, 1), Label({1, 2}, 2)>>, gold |-> TRUE, includes |-> 2, reference |-> TRUE]
Lost == [labels |-> <<Label({}, 1)>>, gold |-> FALSE, includes |-> 0, reference |-> FALSE]
Worded == [labels |-> <<>>, gold |-> FALSE, includes |-> 1, reference |-> FALSE]

MCRankedLists == {<<>>, <<3>>, <<2, 1>>, <<1, 2, 3>>}
MCDiscounts == <<1000, 631, 500>>

Retrieval ==
    [cases |-> <<Both, Lost, Worded>>, stage |-> "retrieval", only |-> 0, gold |-> FALSE,
     planner |-> TRUE, judge |-> FALSE, topK |-> 2, repeat |-> 1, empty |-> FALSE]
Generation == [Retrieval EXCEPT !.stage = "generation", !.planner = FALSE, !.judge = TRUE]
Sampled ==
    [Generation EXCEPT !.stage = "both", !.cases = <<[Both EXCEPT !.includes = 0]>>, !.topK = 0,
                       !.repeat = 2]

MCEvaluations ==
    {Retrieval, Generation, [Generation EXCEPT !.stage = "both"], Sampled,
     [Retrieval EXCEPT !.gold = TRUE, !.topK = 1], [Retrieval EXCEPT !.only = 2],
     [Retrieval EXCEPT !.only = 4], [Retrieval EXCEPT !.cases = <<Lost>>],
     [Generation EXCEPT !.cases = <<Lost>>],
     [Retrieval EXCEPT !.cases = <<[Both EXCEPT !.labels = <<Label({}, 0)>>]>>, !.empty = TRUE]}
=============================================================================
