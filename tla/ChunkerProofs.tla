---------------------------- MODULE ChunkerProofs ----------------------------
(***************************************************************************)
(* Proofs about Split for any text, weights, separators, sizes and         *)
(* overlaps: the invariant of its loop, from what its helpers return.      *)
(***************************************************************************)
EXTENDS Chunker, SharedLemmas

\* The text is made of runes that weigh something.
Runes == text \in Seq(DOMAIN Weight)

LEMMA RunesWeigh ==
  ASSUME Runes
  PROVE  /\ Len(text) \in Nat
         /\ \A i \in 1 .. Len(text) : Weight[text[i]] \in Nat \ {0}
  <1>1. \A i \in 1 .. Len(text) : text[i] \in DOMAIN Weight
    BY DEF Runes
  <1> QED  BY <1>1, ChunkerAssumption DEF Runes

\* Quarters adds the weights up from the left.
LEMMA QuartersAddUp ==
  ASSUME Runes, NEW a \in Nat, a <= Len(text)
  PROVE  \E f \in [a .. Len(text) -> Int] :
            /\ f[a] = 0
            /\ \A i \in a + 1 .. Len(text) : f[i] = f[i - 1] + Weight[text[i]]
            /\ \A b \in a .. Len(text) : Quarters(a, b) = f[b]
  <1> DEFINE N == Len(text)
             step == [p \in Int \X (a + 1 .. N) |-> p[1] + Weight[text[p[2]]]]
  <1>1. N \in Nat /\ \A i \in a + 1 .. N : Weight[text[i]] \in Int
    BY RunesWeigh
  <1>2. /\ step \in [Int \X (a + 1 .. N) -> Int]
        /\ \A x \in Int, i \in a + 1 .. N : step[x, i] = x + Weight[text[i]]
    <2>1. \A p \in Int \X (a + 1 .. N) : p[1] \in Int /\ p[2] \in a + 1 .. N
      OBVIOUS
    <2>2. \A p \in Int \X (a + 1 .. N) : p[1] + Weight[text[p[2]]] \in Int
      BY <1>1, <2>1
    <2>3. \A x \in Int, i \in a + 1 .. N :
             <<x, i>> \in Int \X (a + 1 .. N) /\ <<x, i>>[1] = x /\ <<x, i>>[2] = i
      OBVIOUS
    <2> QED  BY <2>2, <2>3
  <1> HIDE DEF step, N
  <1>3. PICK f \in [a .. N -> Int] : Follows(f, a, N, 0, step)
    <2>1. N \in Int /\ a <= N /\ a \in Int /\ 0 \in Int
      BY <1>1 DEF N
    <2> QED  BY <1>2, <2>1, RecursionExists
  <1>4. f[a] = 0 /\ \A i \in a + 1 .. N : f[i] = f[i - 1] + Weight[text[i]]
    <2>1. a \in a .. N /\ \A i \in a + 1 .. N : i \in a .. N /\ i # a /\ i - 1 \in a .. N
      BY <1>1 DEF N
    <2>2. \A i \in a .. N : f[i] = IF i = a THEN 0 ELSE step[f[i - 1], i]
      BY <1>3 DEF Follows
    <2> QED  BY <1>2, <1>3, <2>1, <2>2
  <1>5. ASSUME NEW b \in a .. N
        PROVE  Quarters(a, b) = f[b]
    <2> DEFINE Adds(g) == g = [i \in a .. b |-> IF i = a THEN 0 ELSE g[i - 1] + Weight[text[i]]]
               sum == CHOOSE g : Adds(g)
    <2>1. Quarters(a, b) = sum[b]
      BY DEF Quarters
    <2>2. ASSUME NEW g, Adds(g)
          PROVE  \A n \in Nat : a + n <= b => g[a + n] \in Int /\ g[a + n] = f[a + n]
      <3> DEFINE Apart == {n \in Nat : a + n <= b /\ g[a + n] # f[a + n]}
      <3>1. \A i \in a .. b : i \in a .. N /\ f[i] \in Int
        BY <1>1, <1>3
      <3>2. SUFFICES Apart = {}
        <4>1. ASSUME NEW n \in Nat, a + n <= b
              PROVE  g[a + n] \in Int /\ g[a + n] = f[a + n]
          <5>1. a + n \in a .. b
            BY <1>1, <4>1
          <5>2. n \notin Apart
            OBVIOUS
          <5>3. g[a + n] = f[a + n]
            BY <4>1, <5>2
          <5> QED  BY <3>1, <5>1, <5>3
        <4> QED  BY <4>1
      <3>3. SUFFICES ASSUME Apart # {} PROVE FALSE
        OBVIOUS
      <3>4. PICK n \in Apart : \A k \in Apart : n <= k
        <4>1. Apart \subseteq Nat
          OBVIOUS
        <4> HIDE DEF Apart
        <4> QED  BY <3>3, <4>1, LeastNatural
      <3>5. n \in Nat /\ a + n <= b /\ g[a + n] # f[a + n] /\ a + n \in a .. b
        BY <3>4
      <3>6. g[a + n] = IF a + n = a THEN 0 ELSE g[(a + n) - 1] + Weight[text[a + n]]
        BY <2>2, <3>5
      <3>7. n # 0
        <4>1. a + n # a
          BY <1>4, <3>5, <3>6
        <4> QED  BY <4>1
      <3>8. n - 1 \notin Apart /\ n - 1 \in Nat /\ a + (n - 1) <= b /\ a + (n - 1) = (a + n) - 1
        <4>1. ~(n <= n - 1)
          BY <3>5
        <4>2. n - 1 \notin Apart
          BY <3>4, <4>1
        <4> QED  BY <3>5, <3>7, <4>2
      <3>9. g[(a + n) - 1] = f[(a + n) - 1]
        <4>1. g[a + (n - 1)] = f[a + (n - 1)]
          BY <3>8
        <4> QED  BY <3>8, <4>1
      <3>10. a + n \in a + 1 .. N /\ a + n # a
        BY <1>1, <3>5, <3>7
      <3> QED  BY <1>4, <3>5, <3>6, <3>9, <3>10
    <2>3. \E g : Adds(g)
      <3> DEFINE g == [i \in a .. b |-> f[i]]
      <3>1. ASSUME NEW i \in a .. b
            PROVE  g[i] = IF i = a THEN 0 ELSE g[i - 1] + Weight[text[i]]
        <4>1. CASE i = a
          BY <1>4, <4>1
        <4>2. CASE i # a
          <5>1. i \in a + 1 .. N /\ i - 1 \in a .. b
            BY <1>1, <4>2
          <5> QED  BY <1>4, <4>2, <5>1
        <4> QED  BY <4>1, <4>2
      <3>2. g = [i \in a .. b |-> g[i]]
        OBVIOUS
      <3> HIDE DEF g
      <3> QED  BY <3>1, <3>2
    <2>4. Adds(sum)
      <3> HIDE DEF Adds
      <3> QED  BY <2>3
    <2> HIDE DEF sum, Adds
    <2>5. b - a \in Nat /\ a + (b - a) = b
      BY <1>1
    <2>6. sum[a + (b - a)] = f[a + (b - a)]
      <3>1. \A n \in Nat : a + n <= b => sum[a + n] = f[a + n]
        BY <2>2, <2>4
      <3> DEFINE k == b - a
      <3>2. k \in Nat /\ a + k <= b
        BY <2>5
      <3> HIDE DEF k
      <3>3. sum[a + k] = f[a + k]
        BY <3>1, <3>2
      <3> QED  BY <3>3 DEF k
    <2> QED  BY <2>1, <2>5, <2>6
  <1> QED  BY <1>3, <1>4, <1>5 DEF N

\* What Quarters is, without its recursion.
LEMMA QuartersGrow ==
  ASSUME Runes, NEW a \in Nat, a <= Len(text)
  PROVE  /\ Quarters(a, a) = 0
         /\ \A b \in a .. Len(text) : Quarters(a, b) \in Nat
         /\ \A b \in a + 1 .. Len(text) : Quarters(a, b) = Quarters(a, b - 1) + Weight[text[b]]
         /\ \A b, c \in a .. Len(text) : b <= c => Quarters(a, b) <= Quarters(a, c)
  <1>1. PICK f \in [a .. Len(text) -> Int] :
            /\ f[a] = 0
            /\ \A i \in a + 1 .. Len(text) : f[i] = f[i - 1] + Weight[text[i]]
            /\ \A b \in a .. Len(text) : Quarters(a, b) = f[b]
    BY QuartersAddUp
  <1>2. Len(text) \in Nat /\ \A i \in a + 1 .. Len(text) : Weight[text[i]] \in Nat \ {0}
    BY RunesWeigh
  <1>3. ASSUME NEW i \in a + 1 .. Len(text)
        PROVE  f[i - 1] <= f[i]
    <2>1. i - 1 \in a .. Len(text) /\ f[i - 1] \in Int
      BY <1>2
    <2> QED  BY <1>1, <1>2, <2>1
  <1>4. \A b, c \in a .. Len(text) : b <= c => f[b] <= f[c]
    <2>1. a \in Int /\ Len(text) \in Int
      BY <1>2
    <2> QED  BY <1>3, <2>1, NeverDown
  <1>5. a \in a .. Len(text)
    BY <1>2
  <1>6. \A b \in a .. Len(text) : f[b] \in Nat
    BY <1>1, <1>2, <1>4, <1>5
  <1>7. \A b \in a + 1 .. Len(text) : b \in a .. Len(text) /\ b - 1 \in a .. Len(text)
    BY <1>2
  <1> QED  BY <1>1, <1>4, <1>5, <1>6, <1>7

\* A part of a span weighs no more than the span.
LEMMA QuartersOfPart ==
  ASSUME Runes, NEW a \in Nat, NEW m \in Nat, NEW b \in Nat, a <= m, m <= b, b <= Len(text)
  PROVE  Quarters(m, b) <= Quarters(a, b)
  <1>1. Len(text) \in Nat
    BY RunesWeigh
  <1> DEFINE More(i) == Quarters(m, i) <= Quarters(a, i)
             Less == {n \in Nat : m + n <= b /\ ~More(m + n)}
  <1>2. SUFFICES Less = {}
    <2> DEFINE k == b - m
    <2>1. k \in Nat /\ m + k = b
      OBVIOUS
    <2>2. k \notin Less
      OBVIOUS
    <2> HIDE DEF k
    <2>3. More(m + k)
      BY <2>1, <2>2
    <2> QED  BY <2>1, <2>3
  <1>3. SUFFICES ASSUME Less # {} PROVE FALSE
    OBVIOUS
  <1>4. PICK n \in Less : \A k \in Less : n <= k
    <2>1. Less \subseteq Nat
      OBVIOUS
    <2> HIDE DEF Less
    <2> QED  BY <1>3, <2>1, LeastNatural
  <1>5. n \in Nat /\ m + n <= b /\ ~More(m + n)
    BY <1>4
  <1>6. n # 0
    <2>1. m \in a .. Len(text) /\ m <= Len(text)
      BY <1>1
    <2>2. Quarters(m, m) = 0 /\ Quarters(a, m) \in Nat
      BY SMTT(20), <2>1, QuartersGrow
    <2>3. More(m)
      BY <2>2
    <2>4. m + n # m
      BY <1>5, <2>3
    <2> QED  BY <2>4
  <1>7. n - 1 \in Nat /\ m + (n - 1) <= b /\ More(m + (n - 1))
    <2>1. ~(n <= n - 1)
      BY <1>5
    <2>2. n - 1 \notin Less
      BY <1>4, <2>1
    <2>3. n - 1 \in Nat /\ m + (n - 1) <= b
      BY <1>5, <1>6
    <2> QED  BY <2>2, <2>3
  <1> DEFINE i == m + n
  <1>8. i \in m + 1 .. Len(text) /\ i \in a + 1 .. Len(text) /\ i - 1 = m + (n - 1) /\ m <= Len(text)
        /\ a <= Len(text) /\ i - 1 \in m .. Len(text) /\ i - 1 \in a .. Len(text)
    BY <1>1, <1>5, <1>6
  <1> HIDE DEF i
  <1>9. /\ Quarters(m, i) = Quarters(m, i - 1) + Weight[text[i]]
        /\ Quarters(a, i) = Quarters(a, i - 1) + Weight[text[i]]
        /\ Quarters(m, i - 1) \in Nat /\ Quarters(a, i - 1) \in Nat
    BY <1>8, QuartersGrow
  <1>10. Weight[text[i]] \in Nat
    <2>1. i \in 1 .. Len(text)
      BY <1>8
    <2> QED  BY <2>1, RunesWeigh
  <1>11. Quarters(m, i - 1) <= Quarters(a, i - 1)
    BY <1>7, <1>8
  <1>12. More(i)
    BY <1>9, <1>10, <1>11
  <1> QED  BY <1>5, <1>12 DEF i

\* A token budget reaches a rune further than from, and stops at the end of
\* the text or where one rune more is too much.
LEMMA TokenEndIs ==
  ASSUME Runes, NEW from \in Nat, from < Len(text), NEW budget \in Nat
  PROVE  LET e == TokenEnd(from, budget) IN
            /\ e \in from + 1 .. Len(text)
            /\ e = from + 1 \/ Quarters(from, e) <= budget * QuartersPerToken
            /\ e = Len(text) \/ Quarters(from, e + 1) > budget * QuartersPerToken
  <1>1. Len(text) \in Nat
    BY RunesWeigh
  <1> DEFINE limit == budget * QuartersPerToken
             Stops(e) == e = Len(text) \/ Quarters(from, e + 1) > limit
             S == {e \in from + 1 .. Len(text) : Stops(e)}
  <1>2. limit \in Nat
    BY DEF QuartersPerToken
  <1> HIDE DEF limit
  <1>3. Len(text) \in S /\ S \subseteq Nat
    BY <1>1
  <1>4. PICK e \in S : \A d \in S : e <= d
    <2> HIDE DEF S
    <2> QED  BY <1>3, LeastNatural
  <1>5. e = from + 1 \/ Quarters(from, e) <= limit
    <2>1. SUFFICES ASSUME e # from + 1 PROVE Quarters(from, e) <= limit
      OBVIOUS
    <2>2. e \in from + 1 .. Len(text) /\ e - 1 \in from + 1 .. Len(text) /\ ~(e <= e - 1)
          /\ (e - 1) + 1 = e /\ e - 1 # Len(text) /\ e \in from .. Len(text)
      BY <1>1, <1>4, <2>1
    <2>3. e - 1 \notin S
      BY <1>4, <2>2
    <2>4. ~(Quarters(from, e) > limit)
      BY <2>2, <2>3
    <2>5. Quarters(from, e) \in Nat
      BY <2>2, QuartersGrow
    <2> QED  BY <1>2, <2>4, <2>5
  <1>6. e \in from + 1 .. Len(text) /\ Stops(e)
    BY <1>4
  <1> QED  BY <1>5, <1>6 DEF TokenEnd, limit

\* And backwards: a place to start from exists, at `to' at the latest.
LEMMA TokenStartIs ==
  ASSUME Runes, NEW to \in Nat, to <= Len(text), NEW budget \in Nat
  PROVE  TokenStart(to, budget) \in 0 .. to
  <1>1. Len(text) \in Nat
    BY RunesWeigh
  <1> DEFINE limit == budget * QuartersPerToken
             S == {b \in 0 .. to : Quarters(b, to) <= limit}
  <1>2. limit \in Nat
    BY DEF QuartersPerToken
  <1> HIDE DEF limit
  <1>3. to \in S /\ S \subseteq Nat
    <2>1. Quarters(to, to) = 0
      BY QuartersGrow
    <2> QED  BY <1>2, <2>1
  <1>4. PICK b \in S : \A d \in S : b <= d
    <2> HIDE DEF S
    <2> QED  BY <1>3, LeastNatural
  <1>5. b = 0 \/ Quarters(b - 1, to) > limit
    <2>1. SUFFICES ASSUME b # 0 PROVE Quarters(b - 1, to) > limit
      OBVIOUS
    <2>2. b - 1 \in Nat /\ b - 1 \in 0 .. to /\ ~(b <= b - 1) /\ to \in b - 1 .. Len(text) /\ b - 1 <= Len(text)
      BY <1>1, <1>4, <2>1
    <2>3. ~(Quarters(b - 1, to) <= limit)
      BY <1>4, <2>2
    <2>4. Quarters(b - 1, to) \in Nat
      BY <2>2, QuartersGrow
    <2> QED  BY <1>2, <2>3, <2>4
  <1>6. b \in 0 .. to /\ Quarters(b, to) <= limit
    BY <1>4
  <1> QED  BY <1>5, <1>6 DEF TokenStart, limit

\* The boundary of a window is its latest break, if it has one.
LEMMA FindBoundaryIs ==
  ASSUME NEW from \in Nat, NEW to \in Nat, from < to
  PROVE  LET b == FindBoundary(from, to) IN
            /\ b \in from + 1 .. to
            /\ b = to \/ b \in Breaks(from, to)
            /\ \A c \in Breaks(from, to) : c <= b /\ b \in Breaks(from, to)
  <1>1. CASE Breaks(from, to) = {}
    BY <1>1 DEF FindBoundary
  <1>2. CASE Breaks(from, to) # {}
    <2> DEFINE S == {to - c : c \in Breaks(from, to)}
    <2>1. \A c \in Breaks(from, to) : c \in from + 2 .. to
      BY DEF Breaks
    <2>2. S \subseteq Nat /\ S # {}
      BY <1>2, <2>1
    <2>3. PICK m \in S : \A k \in S : m <= k
      <3> HIDE DEF S
      <3> QED  BY <2>2, LeastNatural
    <2>4. PICK b \in Breaks(from, to) : m = to - b
      BY <2>3
    <2>5. \A c \in Breaks(from, to) : c <= b
      <3>1. ASSUME NEW c \in Breaks(from, to)
            PROVE  c <= b
        <4>1. m <= to - c
          BY <2>3
        <4>2. c \in Int /\ b \in Int /\ to - b <= to - c
          BY <2>1, <2>4, <4>1
        <4> QED  BY <4>2
      <3> QED  BY <3>1
    <2>6. /\ FindBoundary(from, to) \in Breaks(from, to)
          /\ \A c \in Breaks(from, to) : c <= FindBoundary(from, to)
      BY <1>2, <2>5 DEF FindBoundary
    <2>7. \A c \in Breaks(from, to) : c \in from + 1 .. to
      BY <2>1
    <2> QED  BY <2>6, <2>7
  <1> QED  BY <1>1, <1>2

LEMMA BreaksInside ==
  ASSUME NEW a \in Int, NEW b \in Int, NEW c \in Int, NEW d \in Int, a <= b, c <= d
  PROVE  Breaks(b, c) \subseteq Breaks(a, d)
  BY DEF Breaks

-----------------------------------------------------------------------------
\* A chunk is not empty and is within its size, unless it is one heavy rune.
Fitting(c, size) ==
    /\ c \in Span
    /\ c.from < c.to /\ c.to <= Len(text)
    /\ size = 0 \/ c.to = c.from + 1 \/ Quarters(c.from, c.to) <= size * QuartersPerToken

\* The second follows the first without a gap, and starts and ends later.
FollowedBy(c, d) == c.from < d.from /\ d.from <= c.to /\ c.to <= d.to

Cut ==
    /\ chunks \in Seq(Span)
    /\ \A i \in 1 .. Len(chunks) : Fitting(chunks[i], limits.size)
    /\ chunks # <<>> => chunks[1].from = 0
    /\ \A i \in 2 .. Len(chunks) : FollowedBy(chunks[i - 1], chunks[i])

\* The next chunk starts inside the last one or right after it, near enough to
\* its end to reach it, and the last one ended after a sentence if one ends in
\* what the two share.
Resumes ==
    IF chunks = <<>> THEN start = 0
    ELSE LET last == chunks[Len(chunks)] IN
         /\ last.from < start /\ start <= last.to
         /\ Quarters(start, last.to) <= limits.size * QuartersPerToken
         /\ \A c \in Breaks(start, last.to) : <<text[last.to - 1], text[last.to]>> \in Separators

CInv ==
    /\ Runes
    /\ limits.size \in Nat /\ limits.overlap \in Nat
    /\ start \in Nat
    /\ splitting \in BOOLEAN
    /\ text = <<>> => chunks = <<>> /\ ~splitting
    /\ Cut
    /\ splitting => start < Len(text) /\ Resumes
    /\ text # <<>> /\ ~splitting => chunks # <<>> /\ chunks[Len(chunks)].to = Len(text)

\* A chunk that fits joins those that were cut.
LEMMA CutGrows ==
  ASSUME Cut, NEW c, Fitting(c, limits.size), chunks' = Append(chunks, c),
         UNCHANGED <<text, limits>>,
         chunks = <<>> => c.from = 0,
         chunks # <<>> => FollowedBy(chunks[Len(chunks)], c)
  PROVE  Cut' /\ chunks' # <<>> /\ chunks'[Len(chunks')] = c /\ Len(chunks') = Len(chunks) + 1
  <1>1. chunks \in Seq(Span) /\ c \in Span /\ Len(chunks) \in Nat
    BY DEF Cut, Fitting
  <1>2. /\ chunks' \in Seq(Span)
        /\ Len(chunks') = Len(chunks) + 1
        /\ \A i \in 1 .. Len(chunks) : chunks'[i] = chunks[i]
        /\ chunks'[Len(chunks) + 1] = c
    BY <1>1, AppendProperties
  <1>3. \A i \in 1 .. Len(chunks') : i \in 1 .. Len(chunks) \/ i = Len(chunks) + 1
    BY <1>1, <1>2
  <1>4. \A i \in 1 .. Len(chunks') : Fitting(chunks'[i], limits.size)
    BY <1>2, <1>3 DEF Cut
  <1>5. chunks'[1].from = 0
    <2>1. CASE chunks = <<>>
      BY <1>2, <2>1
    <2>2. CASE chunks # <<>>
      <3>1. 1 \in 1 .. Len(chunks)
        BY <1>1, <2>2, EmptySeq
      <3> QED  BY <1>2, <2>2, <3>1 DEF Cut
    <2> QED  BY <2>1, <2>2
  <1>6. ASSUME NEW i \in 2 .. Len(chunks')
        PROVE  FollowedBy(chunks'[i - 1], chunks'[i])
    <2>1. CASE i = Len(chunks) + 1
      <3>1. i - 1 = Len(chunks) /\ Len(chunks) \in 1 .. Len(chunks) /\ chunks # <<>>
        BY <1>1, <2>1
      <3> QED  BY <1>2, <2>1, <3>1
    <2>2. CASE i # Len(chunks) + 1
      <3>1. i \in 2 .. Len(chunks) /\ i \in 1 .. Len(chunks) /\ i - 1 \in 1 .. Len(chunks)
        BY <1>1, <1>2, <2>2
      <3> QED  BY <1>2, <3>1 DEF Cut
    <2> QED  BY <2>1, <2>2
  <1>7. chunks' # <<>>
    BY <1>1, <1>2, EmptySeq
  <1>8. (\A i \in 1 .. Len(chunks) : Fitting(chunks[i], limits.size))'
    <2>1. \A a, b : Quarters(a, b)' = Quarters(a, b)
      BY DEF Quarters
    <2>2. ASSUME NEW i \in 1 .. Len(chunks')
          PROVE  Fitting(chunks[i], limits.size)'
      <3> DEFINE d == chunks'[i]
      <3>1. Fitting(d, limits.size)
        BY <1>4
      <3>2. limits'.size = limits.size /\ text' = text
        OBVIOUS
      <3> QED  BY <2>1, <3>1, <3>2 DEF Fitting
    <2> QED  BY <2>2
  <1>9. (\A i \in 2 .. Len(chunks) : FollowedBy(chunks[i - 1], chunks[i]))'
    BY <1>6 DEF FollowedBy
  <1> QED  BY <1>2, <1>5, <1>7, <1>8, <1>9 DEF Cut

LEMMA ChunkerInitInv ==
  ASSUME ChunkerInit
  PROVE  CInv
  <1>1. text = <<>> /\ chunks = <<>> /\ limits = [size |-> 1, overlap |-> 0] /\ start = 0 /\ ~splitting
        /\ splitting \in BOOLEAN
    BY DEF ChunkerInit
  <1>2. Cut
    BY <1>1, EmptySeq DEF Cut
  <1>3. Runes
    BY <1>1, EmptySeq DEF Runes
  <1> QED  BY <1>1, <1>2, <1>3 DEF CInv

LEMMA StartSplitInv ==
  ASSUME CInv, StartSplit
  PROVE  CInv'
  <1>1. PICK t \in Texts \ {<<>>}, size \in Sizes, overlap \in Overlaps :
            /\ text' = t
            /\ limits' = [size |-> size, overlap |-> overlap]
    BY DEF StartSplit
  <1>2. t \in Seq(DOMAIN Weight) /\ size \in Nat /\ overlap \in Nat
    BY <1>1, ChunkerAssumption
  <1>3. Len(t) \in Nat /\ 0 < Len(t)
    BY <1>1, <1>2, EmptySeq
  <1>4. start' = 0 /\ chunks' = <<>> /\ splitting' = TRUE
    BY DEF StartSplit
  <1>5. Cut' /\ Resumes'
    BY <1>4, EmptySeq DEF Cut, Resumes
  <1> QED  BY <1>1, <1>2, <1>3, <1>4, <1>5 DEF CInv, Runes

LEMMA LastOfCut ==
  ASSUME CInv, splitting, chunks # <<>>
  PROVE  LET last == chunks[Len(chunks)] IN
            /\ Fitting(last, limits.size)
            /\ last.from < start /\ start <= last.to /\ last.to <= Len(text)
            /\ Quarters(start, last.to) <= limits.size * QuartersPerToken
            /\ \A c \in Breaks(start, last.to) : <<text[last.to - 1], text[last.to]>> \in Separators
  <1>1. Len(chunks) \in 1 .. Len(chunks)
    BY EmptySeq DEF CInv, Cut
  <1>2. Fitting(chunks[Len(chunks)], limits.size)
    BY <1>1 DEF CInv, Cut
  <1> QED  BY <1>2 DEF CInv, Resumes, Fitting

LEMMA LastChunkInv ==
  ASSUME CInv, LastChunk
  PROVE  CInv'
  <1> DEFINE c == [from |-> start, to |-> Len(text)]
  <1>1. /\ Runes /\ start \in Nat /\ Len(text) \in Nat /\ start < Len(text)
        /\ limits.size \in Nat /\ limits.overlap \in Nat /\ splitting
    BY RunesWeigh DEF CInv, LastChunk
  <1>2. Fitting(c, limits.size)
    <2>1. limits.size = 0 \/ TokenEnd(start, limits.size) = Len(text)
      BY DEF LastChunk
    <2>2. \/ limits.size = 0
          \/ Len(text) = start + 1
          \/ Quarters(start, Len(text)) <= limits.size * QuartersPerToken
      BY <1>1, <2>1, TokenEndIs
    <2> QED  BY <1>1, <2>2 DEF Fitting, Span
  <1>3. chunks = <<>> => c.from = 0
    BY <1>1 DEF CInv, Resumes
  <1>4. chunks # <<>> => FollowedBy(chunks[Len(chunks)], c)
    BY <1>1, LastOfCut DEF FollowedBy
  <1>5. /\ chunks' = Append(chunks, c) /\ splitting' = FALSE
        /\ text' = text /\ limits' = limits /\ start' = start
    BY DEF LastChunk
  <1>6. Cut' /\ chunks' # <<>> /\ chunks'[Len(chunks')] = c
    <2> HIDE DEF c
    <2> QED  BY <1>2, <1>3, <1>4, <1>5, CutGrows DEF CInv
  <1>7. text # <<>>
    BY <1>1 DEF CInv
  <1>8. chunks'[Len(chunks')].to = Len(text)
    BY <1>6
  <1> QED  BY <1>1, <1>5, <1>6, <1>7, <1>8 DEF CInv, Runes

\* The window of the next chunk reaches the end of the last one, and a break
\* in it that comes before that end is one the last chunk would have taken.
LEMMA BoundaryAdvances ==
  ASSUME CInv, splitting, chunks # <<>>, limits.size # 0
  PROVE  chunks[Len(chunks)].to <= FindBoundary(start, TokenEnd(start, limits.size))
  <1> DEFINE end == TokenEnd(start, limits.size)
             to == chunks[Len(chunks)].to
             boundary == FindBoundary(start, end)
  <1>1. /\ Runes /\ start \in Nat /\ Len(text) \in Nat /\ start < Len(text) /\ limits.size \in Nat
    BY RunesWeigh DEF CInv
  <1>2. /\ to \in Nat /\ start <= to /\ to <= Len(text)
        /\ Quarters(start, to) <= limits.size * QuartersPerToken
        /\ \A c \in Breaks(start, to) : <<text[to - 1], text[to]>> \in Separators
    BY LastOfCut DEF Fitting, Span
  <1>3. /\ end \in start + 1 .. Len(text)
        /\ end = Len(text) \/ Quarters(start, end + 1) > limits.size * QuartersPerToken
    BY <1>1, TokenEndIs
  <1> HIDE DEF to, end
  <1>4. to <= end
    <2>1. SUFFICES ASSUME end < to PROVE FALSE
      BY <1>2, <1>3
    <2>2. start <= Len(text) /\ end + 1 \in start .. Len(text) /\ to \in start .. Len(text) /\ end + 1 <= to /\ end # Len(text)
      BY <1>1, <1>2, <1>3, <2>1
    <2>3. /\ Quarters(start, end + 1) <= Quarters(start, to)
          /\ Quarters(start, end + 1) \in Nat /\ Quarters(start, to) \in Nat
      BY <1>1, <2>2, QuartersGrow
    <2>4. limits.size * QuartersPerToken \in Nat
      BY <1>1 DEF QuartersPerToken
    <2> QED  BY <1>2, <1>3, <2>2, <2>3, <2>4
  <1>5. /\ boundary \in start + 1 .. end
        /\ boundary = end \/ boundary \in Breaks(start, end)
        /\ \A c \in Breaks(start, end) : c <= boundary /\ boundary \in Breaks(start, end)
    BY <1>1, <1>3, FindBoundaryIs
  <1> HIDE DEF boundary
  <1>6. CASE boundary = end
    BY <1>4, <1>6 DEF to, end, boundary
  <1>7. CASE boundary \in Breaks(start, end)
    <2>1. SUFFICES ASSUME boundary < to PROVE FALSE
      BY <1>2, <1>3, <1>5 DEF to, end, boundary
    <2>2. boundary \in start + 2 .. to /\ <<text[boundary - 1], text[boundary]>> \in Separators
      BY <1>1, <1>2, <1>3, <1>7, <2>1 DEF Breaks
    <2>3. boundary \in Breaks(start, to)
      BY <2>2 DEF Breaks
    <2>4. to \in Breaks(start, end)
      BY <1>1, <1>2, <1>3, <1>4, <2>2, <2>3 DEF Breaks
    <2>5. to <= boundary
      BY <1>5, <2>4
    <2> QED  BY <1>2, <1>3, <1>5, <2>1, <2>5
  <1> QED  BY <1>5, <1>6, <1>7

LEMMA CutChunkInv ==
  ASSUME CInv, CutChunk
  PROVE  CInv'
  <1> DEFINE end == TokenEnd(start, limits.size)
             boundary == FindBoundary(start, end)
             c == [from |-> start, to |-> boundary]
             enough == limits.size * QuartersPerToken
  <1>1. /\ Runes /\ start \in Nat /\ Len(text) \in Nat /\ start < Len(text)
        /\ limits.size \in Nat /\ limits.overlap \in Nat /\ splitting /\ limits.size # 0
    BY RunesWeigh DEF CInv, CutChunk
  <1>2. /\ end < Len(text) /\ chunks' = Append(chunks, c) /\ start' = NextStart(boundary)
        /\ text' = text /\ limits' = limits /\ splitting' = splitting
    BY DEF CutChunk
  <1>3. end \in start + 1 .. Len(text) /\ (end = start + 1 \/ Quarters(start, end) <= enough)
    BY <1>1, TokenEndIs
  <1>4. chunks # <<>> => chunks[Len(chunks)].to <= boundary
    BY <1>1, BoundaryAdvances
  <1> HIDE DEF end
  <1>5. /\ boundary \in start + 1 .. end
        /\ boundary = end \/ boundary \in Breaks(start, end)
        /\ \A d \in Breaks(start, end) : d <= boundary /\ boundary \in Breaks(start, end)
    BY <1>1, <1>3, FindBoundaryIs
  <1> HIDE DEF boundary
  <1>6. enough \in Nat
    BY <1>1 DEF QuartersPerToken
  <1>7. boundary = start + 1 \/ Quarters(start, boundary) <= enough
    <2>1. SUFFICES ASSUME boundary # start + 1 PROVE Quarters(start, boundary) <= enough
      OBVIOUS
    <2>2. end # start + 1 /\ boundary \in start .. Len(text) /\ end \in start .. Len(text) /\ boundary <= end
      BY <1>1, <1>3, <1>5, <2>1
    <2>3. /\ Quarters(start, boundary) <= Quarters(start, end)
          /\ Quarters(start, boundary) \in Nat /\ Quarters(start, end) \in Nat
      BY <1>1, <2>2, QuartersGrow
    <2> QED  BY <1>3, <1>6, <2>2, <2>3
  <1>8. Fitting(c, limits.size)
    BY <1>1, <1>3, <1>5, <1>7 DEF Fitting, Span
  <1>9. chunks = <<>> => c.from = 0
    BY <1>1 DEF CInv, Resumes
  <1>10. chunks # <<>> => FollowedBy(chunks[Len(chunks)], c)
    BY <1>1, <1>4, LastOfCut DEF FollowedBy
  <1>11. Cut' /\ chunks' # <<>> /\ chunks'[Len(chunks')] = c
    <2> HIDE DEF c
    <2> QED  BY <1>2, <1>8, <1>9, <1>10, CutGrows DEF CInv
  <1>12. start' \in start + 1 .. boundary
    <2>1. TokenStart(boundary, limits.overlap) \in 0 .. boundary
      <3>1. boundary \in Nat /\ boundary <= Len(text)
        BY <1>1, <1>3, <1>5
      <3> QED  BY <1>1, <3>1, TokenStartIs
    <2> QED  BY <1>1, <1>2, <1>5, <2>1 DEF NextStart
  <1>13. Quarters(start', boundary) <= enough
    <2>1. boundary \in Nat /\ start' \in Nat /\ boundary <= Len(text)
      BY <1>1, <1>3, <1>5, <1>12
    <2>2. CASE start' = boundary
      <3>1. Quarters(boundary, boundary) = 0
        BY <1>1, <2>1, QuartersGrow
      <3> QED  BY <1>6, <2>2, <3>1
    <2>3. CASE start' # boundary
      <3>1. boundary # start + 1 /\ start <= start' /\ start' <= boundary
        BY <1>1, <1>5, <1>12, <2>3
      <3>2. Quarters(start', boundary) <= Quarters(start, boundary)
        BY <1>1, <2>1, <3>1, QuartersOfPart
      <3>3. Quarters(start', boundary) \in Nat /\ Quarters(start, boundary) \in Nat
        <4>1. boundary \in start .. Len(text) /\ boundary \in start' .. Len(text) /\ start' <= Len(text)
          BY <1>1, <2>1, <3>1
        <4> QED  BY <1>1, <2>1, <4>1, QuartersGrow
      <3> QED  BY <1>6, <1>7, <3>1, <3>2, <3>3
    <2> QED  BY <2>2, <2>3
  <1>14. \A d \in Breaks(start', boundary) : <<text[boundary - 1], text[boundary]>> \in Separators
    <2>1. ASSUME NEW d \in Breaks(start', boundary)
          PROVE  <<text[boundary - 1], text[boundary]>> \in Separators
      <3>1. d \in Breaks(start, end)
        <4>1. start' \in Int /\ boundary \in Int /\ end \in Int /\ start <= start' /\ boundary <= end
          BY <1>1, <1>3, <1>5, <1>12
        <4> QED  BY <1>1, <4>1, BreaksInside
      <3>2. boundary \in Breaks(start, end)
        BY <1>5, <3>1
      <3> QED  BY <3>2 DEF Breaks
    <2> QED  BY <2>1
  <1>15. Resumes'
    <2>1. \A a, b : Quarters(a, b)' = Quarters(a, b)
      BY <1>2 DEF Quarters
    <2>2. \A a, b : Breaks(a, b)' = Breaks(a, b)
      BY <1>2 DEF Breaks
    <2>3. chunks'[Len(chunks')].from = start /\ chunks'[Len(chunks')].to = boundary
      BY <1>11
    <2>4. start < start' /\ start' <= boundary
      BY <1>1, <1>3, <1>5, <1>12
    <2>5. (start <= chunks[Len(chunks)].to
           /\ chunks[Len(chunks)].from < start)'
      BY <2>3, <2>4
    <2>6. (Quarters(start, chunks[Len(chunks)].to) <= limits.size * QuartersPerToken)'
      BY <1>2, <1>13, <2>1, <2>3
    <2>7. (\A d \in Breaks(start, chunks[Len(chunks)].to) :
              <<text[chunks[Len(chunks)].to - 1], text[chunks[Len(chunks)].to]>> \in Separators)'
      BY <1>2, <1>14, <2>2, <2>3
    <2> QED  BY <1>11, <2>5, <2>6, <2>7 DEF Resumes
  <1>16. start' < Len(text) /\ start' \in Nat
    BY <1>1, <1>2, <1>3, <1>5, <1>12
  <1>17. text # <<>>
    BY <1>1 DEF CInv
  <1> QED  BY <1>1, <1>2, <1>11, <1>15, <1>16, <1>17 DEF CInv, Runes

\* The invariant of the split, over any step of a command.
LEMMA ChunkerStepInv ==
  ASSUME CInv, StartSplit \/ SplitStep \/ UNCHANGED chunker
  PROVE  CInv'
  <1>1. CASE UNCHANGED chunker
    <2>1. UNCHANGED <<text, limits, start, chunks, splitting>>
      BY <1>1 DEF chunker
    <2>2. \A a, b : Quarters(a, b)' = Quarters(a, b)
      BY <2>1 DEF Quarters
    <2>3. Cut' = Cut
      BY <2>1, <2>2 DEF Cut, Fitting, FollowedBy
    <2>4. Resumes' = Resumes
      BY <2>1, <2>2 DEF Resumes, Breaks
    <2> QED  BY <2>1, <2>3, <2>4 DEF CInv, Runes
  <1> QED  BY <1>1, StartSplitInv, LastChunkInv, CutChunkInv DEF SplitStep

LEMMA ChunksCover ==
  ASSUME CInv
  PROVE  ChunksCoverText
  <1>1. ASSUME NEW i \in 1 .. Len(chunks)
        PROVE  /\ chunks[i].from < chunks[i].to
               /\ \/ limits.size = 0
                  \/ chunks[i].to = chunks[i].from + 1
                  \/ Quarters(chunks[i].from, chunks[i].to) <= limits.size * QuartersPerToken
               /\ IF i = 1 THEN chunks[i].from = 0
                  ELSE /\ chunks[i - 1].from < chunks[i].from
                       /\ chunks[i].from <= chunks[i - 1].to
                       /\ chunks[i - 1].to <= chunks[i].to
    <2>1. Fitting(chunks[i], limits.size)
      BY DEF CInv, Cut
    <2>2. i = 1 => chunks[i].from = 0
      BY DEF CInv, Cut
    <2>3. i # 1 => FollowedBy(chunks[i - 1], chunks[i])
      <3>1. i # 1 => i \in 2 .. Len(chunks)
        OBVIOUS
      <3> QED  BY <3>1 DEF CInv, Cut
    <2> QED  BY <2>1, <2>2, <2>3 DEF Fitting, FollowedBy
  <1> QED  BY <1>1 DEF CInv, ChunksCoverText

=============================================================================
