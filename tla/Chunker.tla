------------------------------ MODULE Chunker ------------------------------
(***************************************************************************)
(* Chunker.Split, one iteration of its loop per step: overlapping chunks   *)
(* of at most Size tokens, cut after a sentence where there is one.        *)
(*                                                                         *)
(* A text is a sequence of runes.  What a rune is matters only for its     *)
(* weight in quarter-tokens and for the two-rune separators a sentence     *)
(* ends with.  Offsets count runes: the code's are bytes on rune starts.   *)
(***************************************************************************)
EXTENDS Integers, Sequences

CONSTANTS
    Texts,      \* the texts a command may split
    Sizes,      \* the values of chunk.size and chunk.overlap
    Overlaps,
    Weight,     \* runeQuarters, for each rune of the texts
    Separators  \* sentenceSeps

QuartersPerToken == 4

ASSUME ChunkerAssumption ==
    /\ \A t \in Texts : t \in Seq(DOMAIN Weight)
    /\ \A r \in DOMAIN Weight : Weight[r] \in Nat \ {0}
    /\ Sizes \subseteq Nat
    /\ Overlaps \subseteq Nat
    /\ Separators \subseteq (DOMAIN Weight) \X (DOMAIN Weight)

VARIABLES
    text,       \* the extracted text
    limits,     \* the chunker's Size and Overlap
    start,      \* where the next chunk begins
    chunks,     \* the spans cut so far
    splitting

chunker == <<text, limits, start, chunks, splitting>>

Offset == 0 .. Len(text)
Span == [from : Nat, to : Nat]

\* countQuarters(text[from:to]).
Quarters(from, to) ==
    LET sum[i \in from .. to] == IF i = from THEN 0 ELSE sum[i - 1] + Weight[text[i]]
    IN  sum[to]

\* The furthest rune start a budget of tokens reaches from start, but never
\* none at all.
TokenEnd(from, budget) ==
    CHOOSE e \in from + 1 .. Len(text) :
        /\ e = from + 1 \/ Quarters(from, e) <= budget * QuartersPerToken
        /\ e = Len(text) \/ Quarters(from, e + 1) > budget * QuartersPerToken

\* The same backwards: how early the last budget tokens before `to' begin.
TokenStart(to, budget) ==
    CHOOSE b \in 0 .. to :
        /\ Quarters(b, to) <= budget * QuartersPerToken
        /\ b = 0 \/ Quarters(b - 1, to) > budget * QuartersPerToken

\* Where a sentence ends inside text[from:to].
Breaks(from, to) == {i \in from + 2 .. to : <<text[i - 1], text[i]>> \in Separators}

\* The latest of them, or the end of the window.
FindBoundary(from, to) ==
    LET breaks == Breaks(from, to)
    IN  IF breaks = {} THEN to ELSE CHOOSE b \in breaks : \A c \in breaks : c <= b

ChunkerInit ==
    /\ text = <<>>
    /\ limits = [size |-> 1, overlap |-> 0]
    /\ start = 0
    /\ chunks = <<>>
    /\ splitting = FALSE

StartSplit ==
    /\ ~splitting /\ text = <<>>
    /\ \E t \in Texts \ {<<>>}, size \in Sizes, overlap \in Overlaps :
        /\ text' = t
        /\ limits' = [size |-> size, overlap |-> overlap]
    /\ start' = 0
    /\ chunks' = <<>>
    /\ splitting' = TRUE

\* Mutant: the next chunk starts where the overlap says, forwards or not.
NextWithoutGuard(boundary) == TokenStart(boundary, limits.overlap)

\* Overlap tokens back from the boundary, or the boundary where that would
\* be no progress.
NextStart(boundary) ==
    LET next == TokenStart(boundary, limits.overlap)
    IN  IF next <= start THEN boundary ELSE next

LastChunk ==
    /\ splitting
    /\ \/ limits.size = 0
       \/ start < Len(text) /\ TokenEnd(start, limits.size) = Len(text)
    /\ chunks' = Append(chunks, [from |-> start, to |-> Len(text)])
    /\ splitting' = FALSE
    /\ UNCHANGED <<text, limits, start>>

CutChunk ==
    /\ splitting
    /\ limits.size # 0
    /\ start < Len(text)
    /\ LET end == TokenEnd(start, limits.size)
           boundary == FindBoundary(start, end)
       IN  /\ end < Len(text)
           /\ chunks' = Append(chunks, [from |-> start, to |-> boundary])
           /\ start' = NextStart(boundary)
    /\ UNCHANGED <<text, limits, splitting>>

SplitStep == LastChunk \/ CutChunk

-----------------------------------------------------------------------------
\* Whatever the text, the size and the overlap, the chunks follow each other
\* without a gap and each goes further than what came before it or starts
\* later, none is empty, and none but a single heavy rune is over the size;
\* when the split is over they reach from the first rune to the last
\* (chunker.go:29-95, token.go:64-98).
ChunksCoverText ==
    /\ \A i \in 1 .. Len(chunks) :
        /\ chunks[i].from < chunks[i].to
        /\ \/ limits.size = 0
           \/ chunks[i].to = chunks[i].from + 1
           \/ Quarters(chunks[i].from, chunks[i].to) <= limits.size * QuartersPerToken
        /\ IF i = 1 THEN chunks[i].from = 0
           ELSE /\ chunks[i - 1].from < chunks[i].from
                /\ chunks[i].from <= chunks[i - 1].to
                /\ chunks[i - 1].to <= chunks[i].to
    /\ text # <<>> /\ ~splitting => chunks # <<>> /\ chunks[Len(chunks)].to = Len(text)
=============================================================================
