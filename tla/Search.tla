------------------------------- MODULE Search -------------------------------
(***************************************************************************)
(* Searcher.Vector, Keyword and Hybrid, one action per query they put to   *)
(* the database, while other processes replace and delete documents        *)
(* between the queries.                                                    *)
(*                                                                         *)
(* How like a chunk is to a query, and what BM25 makes of it, is left open *)
(* (any order); which terms a chunk holds is not.  Chunk ids are           *)
(* AUTOINCREMENT: none is used again.                                      *)
(***************************************************************************)
EXTENDS Retry, Ordering, SequencesExt

CONSTANTS
    Docs,           \* documents, each one chunk long
    Bodies,         \* the sets of terms a document may hold
    MaxChunks,      \* bound: chunks ever stored
    QueryDim,       \* the dimension of the configured model
    Dims,           \* those other processes store vectors of
    RRFK,
    Corpora         \* the corpora to start from: sets of chunks

ASSUME SearchAssumption ==
    /\ MaxChunks \in Nat
    /\ QueryDim \in Dims
    /\ RRFK \in Nat
    /\ \A stored \in Corpora :
        /\ IsFiniteSet(stored) /\ Cardinality(stored) <= MaxChunks
        /\ stored \subseteq [doc : Docs, words : Bodies, dim : Dims]

VARIABLES
    corpus,     \* the chunks rows: id to document, terms, dimension
    nextChunk,
    search      \* the locals of the search under way

searching == <<corpus, nextChunk, search>>

Chunk == [doc : Docs, words : Bodies, dim : Dims]
Live == DOMAIN corpus

\* query: the positive and the excluded terms; ranked: ids by cosine; vector,
\* keyword: the two legs; found: the ids returned.
NoSearch == [at |-> "idle", mode |-> "hybrid", wanted |-> {}, unwanted |-> {}, k |-> 0,
             ranked |-> <<>>, vector |-> <<>>, keyword |-> <<>>, found |-> <<>>]

SearchTypeOK ==
    /\ Live \subseteq 1 .. nextChunk - 1
    /\ \A i \in Live : corpus[i] \in Chunk
    /\ nextChunk \in 1 .. MaxChunks + 1
    /\ search.at \in {"idle", "embed", "rank", "hydrate", "keyword", "fuse", "found", "failed"}
    /\ \A leg \in {search.ranked, search.vector, search.keyword, search.found} :
          IsInjective(leg) /\ ToSet(leg) \subseteq 1 .. nextChunk - 1

SearchInit ==
    /\ \E stored \in Corpora :
        /\ corpus = SetToSeq(stored)
        /\ nextChunk = Cardinality(stored) + 1
    /\ search = NoSearch

-----------------------------------------------------------------------------
(* Other processes: ReplaceForDocument and the delete cascade *)

Without(d) == [i \in {j \in Live : corpus[j].doc # d} |-> corpus[i]]

Reindexed(d, words, dim) ==
    /\ nextChunk <= MaxChunks
    /\ corpus' = [i \in DOMAIN Without(d) \cup {nextChunk} |->
                    IF i = nextChunk THEN [doc |-> d, words |-> words, dim |-> dim] ELSE corpus[i]]
    /\ nextChunk' = nextChunk + 1
    /\ UNCHANGED search

Deleted(d) ==
    /\ Without(d) # corpus
    /\ nextChunk <= MaxChunks
    /\ corpus' = Without(d)
    /\ UNCHANGED <<nextChunk, search>>

Others == \E d \in Docs :
    \/ Deleted(d)
    \/ \E words \in Bodies, dim \in Dims : Reindexed(d, words, dim)

-----------------------------------------------------------------------------
(* Ranking *)

Least(n, m) == IF n < m THEN n ELSE m

\* The ids of S in any order, the first n of them.
Rankings(S, n) ==
    {r \in [1 .. Least(n, Cardinality(S)) -> S] : IsInjective(r)}

Matching(wanted) == {i \in Live : corpus[i].words \cap wanted # {}}
Excluded(unwanted) == Matching(unwanted)

\* 1 / (RRFK + rank), over a common denominator of every rank a list of
\* MaxChunks results has.
Denominator ==
    LET product[n \in 0 .. MaxChunks] == IF n = 0 THEN 1 ELSE (RRFK + n) * product[n - 1]
    IN  product[MaxChunks]
RankWeight(rank) == Denominator \div (RRFK + rank)

Rank(list, id) == CHOOSE i \in 1 .. Len(list) : list[i] = id

\* A chunk's score: the sum over the lists it appears in.
RRF(lists, id) ==
    LET sum[l \in 0 .. Len(lists)] ==
            IF l = 0 THEN 0
            ELSE sum[l - 1] + IF Contains(lists[l], id) THEN RankWeight(Rank(lists[l], id)) ELSE 0
    IN  sum[Len(lists)]

\* Mutant: the lists one after the other, what is in both twice.
Concatenated(lists) == FoldLeft(LAMBDA out, l : out \o l, <<>>, lists)

\* FuseRRF: best first, ties by id.
FuseRRF(lists) ==
    LET ids == UNION {ToSet(lists[l]) : l \in 1 .. Len(lists)}
    IN  Ordered(ids, {p \in ids \X ids :
            \/ RRF(lists, p[1]) > RRF(lists, p[2])
            \/ RRF(lists, p[1]) = RRF(lists, p[2]) /\ p[1] < p[2]})

First(k, list) == SubSeq(list, 1, Least(k, Len(list)))

-----------------------------------------------------------------------------
StartSearch(mode, wanted, unwanted, k) ==
    /\ search.at = "idle"
    /\ search' = [NoSearch EXCEPT
          !.at = IF mode = "keyword" THEN "keyword"
                 ELSE IF wanted = {} THEN "hydrate" ELSE "embed",
          !.mode = mode, !.wanted = wanted, !.unwanted = unwanted, !.k = k]
    /\ IF mode # "keyword" /\ wanted # {} THEN StartRequest ELSE UNCHANGED retry
    /\ UNCHANGED <<corpus, nextChunk>>

\* How deep a leg goes: twice as deep when it is to be fused.
Depth == IF search.mode = "hybrid" THEN 2 * search.k ELSE search.k

\* The query's vector is there, or is not; the locals of its request go.
Embedded ==
    /\ search.at = "embed"
    /\ request \in {"ok", "error"}
    /\ search' = [search EXCEPT !.at = IF request = "ok" THEN "rank" ELSE "failed"]
    /\ Renewed("idle")
    /\ UNCHANGED <<corpus, nextChunk>>

\* rankVector, which refuses vectors of another dimension.
RankVector ==
    /\ search.at = "rank"
    /\ IF \E i \in Live : corpus[i].dim # QueryDim
       THEN search' = [search EXCEPT !.at = "failed"]
       ELSE \E r \in Rankings(Live, Depth) :
              search' = [search EXCEPT !.at = "hydrate", !.ranked = r]
    /\ UNCHANGED <<corpus, nextChunk, retry>>

\* hydrateVector: a chunk that has gone meanwhile is skipped.
HydrateVector ==
    /\ search.at = "hydrate"
    /\ LET ranked == search.ranked
           vector == AtPlaces(ranked, {n \in 1 .. Len(ranked) : ranked[n] \in Live})
       IN  search' = IF search.mode = "vector"
                     THEN [search EXCEPT !.at = "found", !.ranked = <<>>, !.found = vector]
                     ELSE [search EXCEPT !.at = "keyword", !.ranked = <<>>, !.vector = vector]
    /\ UNCHANGED <<corpus, nextChunk, retry>>

\* The keyword leg: one statement, exclusions included.
KeywordLeg ==
    /\ search.at = "keyword"
    /\ \E r \in Rankings(Matching(search.wanted) \ Excluded(search.unwanted), Depth) :
          search' = IF search.mode = "keyword"
                    THEN [search EXCEPT !.at = "found", !.found = r]
                    ELSE [search EXCEPT !.at = "fuse", !.keyword = r]
    /\ UNCHANGED <<corpus, nextChunk, retry>>

\* Mutant: the exclusions are left to the keyword leg.
FuseAll(fused) == fused

\* excludedChunkIDs: the vector leg has brought the excluded chunks back.
Kept(fused) ==
    AtPlaces(fused, {n \in 1 .. Len(fused) : fused[n] \notin Excluded(search.unwanted)})

Fuse ==
    /\ search.at = "fuse"
    /\ search' = [search EXCEPT !.at = "found",
          !.found = First(search.k, Kept(FuseRRF(<<search.vector, search.keyword>>)))]
    /\ UNCHANGED <<corpus, nextChunk, retry>>

\* The context is done: the request, or the query, fails.
CancelSearch ==
    \/ CancelRequest /\ UNCHANGED searching
    \/ /\ search.at \in {"rank", "hydrate", "keyword", "fuse"}
       /\ search' = [search EXCEPT !.at = "failed"]
       /\ UNCHANGED <<corpus, nextChunk, retry>>

SearchStep ==
    \/ Embedded \/ RankVector \/ HydrateVector \/ KeywordLeg \/ Fuse
    \/ RetryStep /\ UNCHANGED searching

-----------------------------------------------------------------------------
\* What a hybrid or keyword search returns and is still in the corpus holds
\* no excluded term and was found by a leg, whatever was replaced between
\* its queries: only a chunk that went while it ran can slip through
\* (hybrid.go:25-45).
ExcludedStaysOut ==
    search.at = "found" /\ search.mode # "vector" =>
        \A i \in ToSet(search.found) \cap Live :
            /\ corpus[i].words \cap search.unwanted = {}
            /\ Contains(search.vector, i) \/ corpus[i].words \cap search.wanted # {}
=============================================================================
