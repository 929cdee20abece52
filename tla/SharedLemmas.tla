---------------------------- MODULE SharedLemmas ----------------------------
(***************************************************************************)
(* Facts that the proofs about several modules need.  The least element of *)
(* a set of naturals stands in for induction, and gives the functions that *)
(* are defined along an interval their values; and what is ordered by      *)
(* places is there, once and in order.                                     *)
(***************************************************************************)
EXTENDS Ordering, FiniteSetTheorems, SequenceTheorems, WellFoundedInduction, TLAPS

\* A set of natural numbers has a least element: the sets 0 .. k have one
\* that contains no other strictly.
LEMMA LeastNatural ==
  ASSUME NEW S, S \subseteq Nat, S # {}
  PROVE  \E m \in S : \A k \in S : m <= k
  <1> DEFINE R == StrictSubsetOrdering(Nat)
             T == {0 .. k : k \in S}
  <1>1. ASSUME NEW k \in S
        PROVE  0 .. k \in SUBSET Nat /\ IsFiniteSet(0 .. k)
    BY FS_Interval
  <1>2. T \subseteq FiniteSubsetsOf(Nat) /\ T # {}
    BY <1>1 DEF FiniteSubsetsOf
  <1>3. PICK x \in T : \A y \in T : ~(<<y, x>> \in R)
    <2> HIDE DEF R, T
    <2>1. IsWellFoundedOn(R, FiniteSubsetsOf(Nat))
      BY FS_StrictSubsetOrderingWellFounded DEF R
    <2> QED  BY <1>2, <2>1, WFMin
  <1>4. PICK m \in S : x = 0 .. m
    OBVIOUS
  <1>5. ASSUME NEW k \in S, k < m
        PROVE  FALSE
    <2>1. /\ 0 .. k \subseteq Nat /\ 0 .. m \subseteq Nat
          /\ 0 .. k \subseteq 0 .. m /\ 0 .. k # 0 .. m
      BY <1>5
    <2>2. <<0 .. k, 0 .. m>> \in R
      BY <2>1 DEF StrictSubsetOrdering
    <2> QED  BY <1>3, <1>4, <2>2
  <1> QED  BY <1>5

-----------------------------------------------------------------------------
\* f[a] is start; f[i] is what step makes of f[i - 1] and i.
Follows(f, a, b, start, step) ==
    f = [i \in a .. b |-> IF i = a THEN start ELSE step[f[i - 1], i]]

\* Such a function exists, with values of the type that its steps keep to.
LEMMA RecursionOfType ==
  ASSUME NEW a \in Int, NEW b \in Int, a <= b, NEW T, NEW start \in T,
         NEW step \in [T \X (a + 1 .. b) -> T]
  PROVE  \E f \in [a .. b -> T] : Follows(f, a, b, start, step)
  <1> DEFINE Reached(n) == \E f \in [a .. a + n -> T] : Follows(f, a, a + n, start, step)
             Missing == {n \in 0 .. b - a : ~Reached(n)}
  <1>1. SUFFICES Missing = {}
    <2>1. b - a \in 0 .. b - a /\ a + (b - a) = b
      OBVIOUS
    <2>2. Reached(b - a)
      BY <2>1
    <2> QED  BY <2>1, <2>2
  <1>2. SUFFICES ASSUME Missing # {} PROVE FALSE
    OBVIOUS
  <1>3. Missing \subseteq Nat
    OBVIOUS
  <1>4. PICK n \in Missing : \A k \in Missing : n <= k
    <2> HIDE DEF Missing
    <2> QED  BY <1>2, <1>3, LeastNatural
  <1>5. CASE n = 0
    <2>1. [i \in a .. a + 0 |-> start] \in [a .. a + 0 -> T]
      OBVIOUS
    <2>2. Follows([i \in a .. a + 0 |-> start], a, a + 0, start, step)
      <3> DEFINE f == [i \in a .. a + 0 |-> start]
      <3>1. \A i \in a .. a + 0 : i = a /\ f[i] = start
        OBVIOUS
      <3>2. f = [i \in a .. a + 0 |-> f[i]]
        OBVIOUS
      <3> HIDE DEF f
      <3>3. Follows(f, a, a + 0, start, step)
        BY <3>1, <3>2 DEF Follows
      <3> QED  BY <3>3 DEF f
    <2> QED  BY <1>4, <1>5, <2>1, <2>2
  <1>6. CASE n # 0
    <2>1. n - 1 \in 0 .. b - a /\ n - 1 \notin Missing
      <3>1. n \in Missing /\ n \in 0 .. b - a
        BY <1>4
      <3> HIDE DEF Missing
      <3> QED  BY <1>4, <1>6, <3>1
    <2>2. PICK f \in [a .. a + (n - 1) -> T] : Follows(f, a, a + (n - 1), start, step)
      BY <2>1
    <2> DEFINE last == step[f[a + (n - 1)], a + n]
               g == [i \in a .. a + n |-> IF i = a + n THEN last ELSE f[i]]
    <2>3. a + (n - 1) \in a .. a + (n - 1) /\ a + n \in a + 1 .. b
      BY <1>4, <1>6
    <2>4. last \in T
      BY <2>2, <2>3
    <2>5. g \in [a .. a + n -> T]
      <3>1. \A i \in a .. a + n : i # a + n => f[i] \in T
        <4>1. \A i \in a .. a + n : i # a + n => i \in a .. a + (n - 1)
          BY <1>4
        <4> QED  BY <2>2, <4>1
      <3> HIDE DEF last
      <3> QED  BY <2>4, <3>1
    <2>6. ASSUME NEW i \in a .. a + n
          PROVE  g[i] = IF i = a THEN start ELSE step[g[i - 1], i]
      <3>1. CASE i = a + n
        <4>1. i # a /\ i - 1 \in a .. a + n /\ i - 1 # a + n /\ i - 1 = a + (n - 1)
          BY <1>4, <1>6, <3>1
        <4>2. g[i - 1] = f[a + (n - 1)] /\ g[i] = last
          BY <3>1, <4>1
        <4> QED  BY <3>1, <4>1, <4>2
      <3>2. CASE i # a + n
        <4>1. i \in a .. a + (n - 1)
          BY <3>2
        <4>2. f[i] = IF i = a THEN start ELSE step[f[i - 1], i]
          BY <2>2, <4>1 DEF Follows
        <4>3. CASE i = a
          BY <3>2, <4>2, <4>3
        <4>4. CASE i # a
          <5>1. i - 1 \in a .. a + n /\ i - 1 # a + n
            BY <4>1, <4>4
          <5>2. g[i - 1] = f[i - 1]
            BY <5>1
          <5> QED  BY <3>2, <4>2, <4>4, <5>2
        <4> QED  BY <4>3, <4>4
      <3> QED  BY <3>1, <3>2
    <2>7. Follows(g, a, a + n, start, step)
      <3>1. g = [i \in a .. a + n |-> g[i]]
        OBVIOUS
      <3> HIDE DEF g
      <3> QED  BY <2>6, <3>1 DEF Follows
    <2> HIDE DEF g
    <2>8. Reached(n)
      BY <2>5, <2>7
    <2> QED  BY <1>4, <2>8
  <1> QED  BY <1>5, <1>6

\* Of integers.
LEMMA RecursionExists ==
  ASSUME NEW a \in Int, NEW b \in Int, a <= b, NEW start \in Int,
         NEW step \in [Int \X (a + 1 .. b) -> Int]
  PROVE  \E f \in [a .. b -> Int] : Follows(f, a, b, start, step)
  BY RecursionOfType

\* What never steps down is in order.
LEMMA NeverDown ==
  ASSUME NEW a \in Int, NEW b \in Int, NEW f \in [a .. b -> Int],
         \A i \in a + 1 .. b : f[i - 1] <= f[i]
  PROVE  \A i, j \in a .. b : i <= j => f[i] <= f[j]
  <1> SUFFICES ASSUME NEW i \in a .. b
               PROVE  \A j \in a .. b : i <= j => f[i] <= f[j]
    OBVIOUS
  <1> DEFINE Below == {n \in Nat : i + n <= b /\ f[i + n] < f[i]}
  <1>1. SUFFICES Below = {}
    <2>1. ASSUME NEW j \in a .. b, i <= j
          PROVE  f[i] <= f[j]
      <3>1. j - i \in Nat /\ i + (j - i) = j /\ j <= b
        BY <2>1
      <3>2. ~(f[j] < f[i])
        BY <1>1, <3>1
      <3> QED  BY <3>2
    <2> QED  BY <2>1
  <1>2. SUFFICES ASSUME Below # {} PROVE FALSE
    OBVIOUS
  <1>3. PICK n \in Below : \A k \in Below : n <= k
    <2>1. Below \subseteq Nat
      OBVIOUS
    <2> HIDE DEF Below
    <2> QED  BY <1>2, <2>1, LeastNatural
  <1>4. n # 0
    BY <1>3
  <1>5. n - 1 \notin Below /\ n - 1 \in Nat /\ i + (n - 1) <= b
    <2>1. n \in Nat /\ i + n <= b /\ ~(n <= n - 1)
      BY <1>3
    <2>2. n - 1 \notin Below
      BY <1>3, <2>1
    <2> QED  BY <1>4, <2>1, <2>2
  <1>6. i + n \in a + 1 .. b /\ i + (n - 1) = (i + n) - 1 /\ i + (n - 1) \in a .. b
    BY <1>3, <1>4, <1>5
  <1>7. f[(i + n) - 1] <= f[i + n] /\ ~(f[i + (n - 1)] < f[i])
    BY <1>5, <1>6
  <1> QED  BY <1>3, <1>6, <1>7

-----------------------------------------------------------------------------
\* A strict total order of S, as pairs.
Orders(before, S) ==
    /\ \A x \in S : <<x, x>> \notin before
    /\ \A x, y \in S : x # y => <<x, y>> \in before \/ <<y, x>> \in before
    /\ \A x, y, z \in S : <<x, y>> \in before /\ <<y, z>> \in before => <<x, z>> \in before

\* The members of a finite set, in order and each once: no two have as many
\* before them, and as there are as many places as members, each place is
\* taken.
LEMMA OrderedIs ==
  ASSUME NEW S, IsFiniteSet(S), NEW before, Orders(before, S)
  PROVE  /\ Cardinality(S) \in Nat
         /\ Ordered(S, before) \in [1 .. Cardinality(S) -> S]
         /\ \A x \in S : \E n \in 1 .. Cardinality(S) : Ordered(S, before)[n] = x
         /\ \A m, n \in 1 .. Cardinality(S) :
               m < n => <<Ordered(S, before)[m], Ordered(S, before)[n]>> \in before
  <1> DEFINE N == Cardinality(S)
             Below(x) == {y \in S : <<y, x>> \in before}
             place == [x \in S |-> Cardinality(Below(x)) + 1]
             At(x, n) == Cardinality(Below(x)) = n - 1
  <1>1. N \in Nat
    BY FS_CardinalityType
  <1>2. ASSUME NEW x \in S
        PROVE  IsFiniteSet(Below(x)) /\ Cardinality(Below(x)) \in 0 .. N - 1
    <2>1. Below(x) \subseteq S \ {x} /\ IsFiniteSet(S \ {x}) /\ Cardinality(S \ {x}) = N - 1
      BY FS_RemoveElement DEF Orders
    <2>2. IsFiniteSet(Below(x)) /\ Cardinality(Below(x)) <= N - 1
      BY ZenonT(30), <2>1, FS_Subset
    <2> QED  BY <1>1, <2>2, FS_CardinalityType
  <1>3. ASSUME NEW x \in S, NEW y \in S, <<x, y>> \in before
        PROVE  Cardinality(Below(x)) < Cardinality(Below(y))
    <2>1. Below(x) \subseteq Below(y) /\ x \in Below(y) /\ x \notin Below(x)
      BY <1>3 DEF Orders
    <2>2. Cardinality(Below(x)) <= Cardinality(Below(y)) /\ Cardinality(Below(x)) # Cardinality(Below(y))
      BY <1>2, <2>1, FS_Subset
    <2> HIDE DEF Below, N
    <2>3. Cardinality(Below(x)) \in Int /\ Cardinality(Below(y)) \in Int
      BY <1>1, <1>2
    <2> QED  BY <2>2, <2>3
  <1> HIDE DEF Below, N
  <1>4. place \in Injection(S, 1 .. N)
    <2>1. place \in [S -> 1 .. N]
      BY <1>1, <1>2
    <2>2. ASSUME NEW x \in S, NEW y \in S, x # y
          PROVE  place[x] # place[y]
      <3>1. <<x, y>> \in before \/ <<y, x>> \in before
        BY <2>2 DEF Orders
      <3> QED  BY <1>2, <1>3, <3>1
    <2> HIDE DEF place
    <2> QED  BY <2>1, <2>2 DEF Injection, IsInjective
  <1>5. place \in Surjection(S, 1 .. N)
    <2>1. IsFiniteSet(1 .. N) /\ Cardinality(1 .. N) = N
      BY <1>1, FS_Interval
    <2> HIDE DEF place
    <2> QED  BY <1>4, <2>1, FS_Injection DEF N
  <1>6. ASSUME NEW n \in 1 .. N
        PROVE  \E x \in S : At(x, n)
    <2>1. \E x \in S : place[x] = n
      <3> HIDE DEF place
      <3> QED  BY <1>5 DEF Surjection
    <2> QED  BY <1>1, <1>2, <2>1
  <1> DEFINE order == [n \in 1 .. N |-> CHOOSE x \in S : At(x, n)]
  <1>7. Ordered(S, before) = order
    BY DEF Ordered, Below, N
  <1>8. \A n \in 1 .. N : order[n] \in S /\ At(order[n], n)
    <2>1. ASSUME NEW n \in 1 .. N
          PROVE  order[n] \in S /\ At(order[n], n)
      <3>1. order[n] = CHOOSE x \in S : At(x, n)
        OBVIOUS
      <3> HIDE DEF At, order
      <3> QED  BY <1>6, <3>1
    <2> QED  BY <2>1
  <1>9. order \in [1 .. N -> S]
    <2> HIDE DEF At
    <2> QED  BY <1>8
  <1> HIDE DEF order
  <1>10. ASSUME NEW m \in 1 .. N, NEW n \in 1 .. N, m < n
         PROVE  <<order[m], order[n]>> \in before
    <2>1. order[m] # order[n]
      BY <1>1, <1>8, <1>10
    <2>2. <<order[n], order[m]>> \notin before
      BY <1>1, <1>3, <1>8, <1>10
    <2> QED  BY <1>8, <2>1, <2>2 DEF Orders
  <1>11. ASSUME NEW x \in S
         PROVE  \E n \in 1 .. N : order[n] = x
    <2> DEFINE n == place[x]
    <2>1. n \in 1 .. N /\ At(x, n)
      BY <1>1, <1>2
    <2>2. At(order[n], n) /\ order[n] \in S
      BY <1>8, <2>1
    <2> HIDE DEF n
    <2>3. Cardinality(Below(order[n])) = Cardinality(Below(x))
      BY <2>1, <2>2
    <2>4. Cardinality(Below(x)) \in Int /\ Cardinality(Below(order[n])) \in Int
      BY <1>1, <1>2, <2>2
    <2>5. <<x, order[n]>> \notin before /\ <<order[n], x>> \notin before
      BY <1>3, <2>2, <2>3, <2>4
    <2>6. order[n] = x
      BY <2>2, <2>5 DEF Orders
    <2> QED  BY <2>1, <2>6
  <1> QED  BY <1>1, <1>7, <1>9, <1>10, <1>11 DEF N

\* Filtering: the places that are kept, each once and in their order.
LEMMA AtPlacesIs ==
  ASSUME NEW T, NEW s \in Seq(T), NEW P, P \subseteq 1 .. Len(s)
  PROVE  \E place \in [1 .. Cardinality(P) -> P] :
            /\ Cardinality(P) \in Nat
            /\ AtPlaces(s, P) = [n \in 1 .. Cardinality(P) |-> s[place[n]]]
            /\ AtPlaces(s, P) \in Seq(T) /\ Len(AtPlaces(s, P)) = Cardinality(P)
            /\ \A p \in P : \E n \in 1 .. Cardinality(P) : place[n] = p
            /\ \A m, n \in 1 .. Cardinality(P) : m < n => place[m] < place[n]
  <1> DEFINE before == {p \in P \X P : p[1] < p[2]}
             place == Ordered(P, before)
  <1>1. Len(s) \in Nat /\ \A i \in 1 .. Len(s) : s[i] \in T
    BY ElementOfSeq, LenProperties
  <1>2. IsFiniteSet(P)
    <2>1. IsFiniteSet(1 .. Len(s))
      BY <1>1, FS_Interval
    <2> QED  BY <2>1, FS_Subset
  <1>3. \A x, y \in P : <<x, y>> \in before <=> x < y
    OBVIOUS
  <1>4. \A x \in P : x \in Int
    BY <1>1
  <1> HIDE DEF before
  <1>5. Orders(before, P)
    BY <1>3, <1>4 DEF Orders
  <1>6. /\ Cardinality(P) \in Nat
        /\ place \in [1 .. Cardinality(P) -> P]
        /\ \A p \in P : \E n \in 1 .. Cardinality(P) : place[n] = p
        /\ \A m, n \in 1 .. Cardinality(P) : m < n => <<place[m], place[n]>> \in before
    BY <1>2, <1>5, OrderedIs
  <1>7. AtPlaces(s, P) = [n \in 1 .. Cardinality(P) |-> s[place[n]]]
    BY DEF AtPlaces, before
  <1> HIDE DEF place
  <1>8. \A m, n \in 1 .. Cardinality(P) : m < n => place[m] < place[n]
    BY <1>3, <1>6
  <1>9. AtPlaces(s, P) \in [1 .. Cardinality(P) -> T]
    BY <1>1, <1>6, <1>7
  <1>10. AtPlaces(s, P) \in Seq(T) /\ Len(AtPlaces(s, P)) = Cardinality(P)
    BY <1>6, <1>9, IsASeq, LenProperties
  <1> QED  BY <1>6, <1>7, <1>8, <1>10

\* Induction over an interval: S is the set of the places that have it.
LEMMA FromZeroOn ==
  ASSUME NEW n \in Nat, NEW S, 0 \in S,
         \A i \in 1 .. n : i - 1 \in S => i \in S
  PROVE  \A i \in 0 .. n : i \in S
  <1> DEFINE Other == {i \in 0 .. n : i \notin S}
  <1>1. SUFFICES ASSUME Other # {} PROVE FALSE
    OBVIOUS
  <1>2. PICK m \in Other : \A k \in Other : m <= k
    <2>1. Other \subseteq Nat
      OBVIOUS
    <2> HIDE DEF Other
    <2> QED  BY <1>1, <2>1, LeastNatural
  <1>3. m \in 1 .. n /\ m \notin S
    BY <1>2
  <1>4. m - 1 \in 0 .. n /\ ~(m <= m - 1)
    BY <1>3
  <1>5. m - 1 \notin Other
    BY <1>2, <1>4
  <1> QED  BY <1>3, <1>4, <1>5

\* So the values are integers of whatever follows a step that keeps to them.
LEMMA RecursionIsInteger ==
  ASSUME NEW n \in Nat, NEW f, f[0] \in Int,
         \A i \in 1 .. n : f[i - 1] \in Int => f[i] \in Int
  PROVE  \A i \in 0 .. n : f[i] \in Int
  <1> DEFINE S == {i \in 0 .. n : f[i] \in Int}
  <1>1. 0 \in S /\ \A i \in 1 .. n : i - 1 \in S => i \in S
    OBVIOUS
  <1> HIDE DEF S
  <1>2. \A i \in 0 .. n : i \in S
    BY <1>1, FromZeroOn
  <1> QED  BY <1>2 DEF S

=============================================================================
