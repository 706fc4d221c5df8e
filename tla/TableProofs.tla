----------------------------- MODULE TableProofs ----------------------------
(***************************************************************************)
(* Proofs about the tables (Ranking.tla, SeedScores.tla, RankedLookup.tla):*)
(* what a load makes of a seed.                                            *)
(***************************************************************************)
EXTENDS RankedLookup, FiniteSetTheorems, SequenceTheorems, TLAPS

-----------------------------------------------------------------------------
(* Numbers                                                                 *)

LEMMA NatMin ==
  ASSUME NEW T \in SUBSET Nat, T # {}
  PROVE  \E n \in T : \A m \in T : n <= m
<1> DEFINE R == OpToRel(<, Nat)
<1>1. IsWellFoundedOn(R, Nat)
  BY NatLessThanWellFounded
<1>2. \A m, n \in Nat : <<m, n>> \in R <=> m < n
  BY DEF OpToRel
<1> HIDE DEF R
<1>3. PICK n \in T : \A m \in T : ~(<<m, n>> \in R)
  BY <1>1, WFMin
<1>4. ASSUME NEW m \in T
      PROVE  n <= m
  <2>1. m \in Nat /\ n \in Nat
    OBVIOUS
  <2>2. ~(m < n)
    BY <1>2, <1>3, <2>1
  <2> QED BY <2>1, <2>2
<1> QED BY <1>4

\* Induction, for a set in the place of a predicate.
LEMMA NatInd ==
  ASSUME NEW S, 0 \in S, \A n \in Nat : n \in S => n + 1 \in S
  PROVE  Nat \subseteq S
<1> SUFFICES ASSUME Nat \ S # {}
             PROVE  FALSE
  OBVIOUS
<1>1. PICK n \in Nat \ S : \A m \in Nat \ S : n <= m
  BY NatMin
<1>2. n - 1 \in Nat /\ n - 1 \in S
  BY <1>1
<1>3. (n - 1) + 1 \in S
  BY <1>2
<1> QED BY <1>1, <1>3

LEMMA HighestExists ==
  ASSUME NEW S \in SUBSET Nat, IsFiniteSet(S), S # {}
  PROVE  Highest(S) \in S /\ \A k \in S : k <= Highest(S)
<1> DEFINE Good == {n \in Nat : \A T \in SUBSET Nat :
                      IsFiniteSet(T) /\ T # {} /\ Cardinality(T) = n =>
                        \E h \in T : \A k \in T : k <= h}
<1>1. 0 \in Good
  BY FS_EmptySet
<1>2. ASSUME NEW n \in Nat, n \in Good
      PROVE  n + 1 \in Good
  <2> SUFFICES ASSUME NEW T \in SUBSET Nat, IsFiniteSet(T), T # {}, Cardinality(T) = n + 1
               PROVE  \E h \in T : \A k \in T : k <= h
    OBVIOUS
  <2>1. PICK x \in T : TRUE
    OBVIOUS
  <2>2. IsFiniteSet(T \ {x}) /\ Cardinality(T \ {x}) = n
    <3>1. IsFiniteSet(T \ {x}) /\ Cardinality(T \ {x}) = Cardinality(T) - 1
      BY <2>1, FS_RemoveElement
    <3> QED BY <3>1
  <2>3. CASE T \ {x} = {}
    BY <2>1, <2>3
  <2>4. CASE T \ {x} # {}
    <3>1. PICK h \in T \ {x} : \A k \in T \ {x} : k <= h
      BY <1>2, <2>2, <2>4
    <3>2. CASE x <= h
      BY <3>1, <3>2
    <3>3. CASE ~(x <= h)
      <4>1. x \in Nat /\ h \in Nat
        OBVIOUS
      <4>2. ASSUME NEW k \in T
            PROVE  k <= x
        <5>1. k \in Nat /\ (k = x \/ k <= h)
          BY <3>1
        <5> QED BY <3>3, <4>1, <5>1
      <4> QED BY <4>2
    <3> QED BY <3>2, <3>3
  <2> QED BY <2>3, <2>4
<1> HIDE DEF Good
<1>3. Nat \subseteq Good
  BY <1>1, <1>2, NatInd
<1>4. Cardinality(S) \in Nat
  BY FS_CardinalityType
<1>5. \E h \in S : \A k \in S : k <= h
  BY <1>3, <1>4 DEF Good
<1> QED BY <1>5 DEF Highest

\* The highest is known by being in the set and above all of it.
LEMMA HighestIs ==
  ASSUME NEW S \in SUBSET Nat, NEW h \in S, \A k \in S : k <= h
  PROVE  Highest(S) = h
<1>1. Highest(S) \in S /\ \A k \in S : k <= Highest(S)
  BY DEF Highest
<1>2. Highest(S) <= h /\ h <= Highest(S) /\ h \in Nat /\ Highest(S) \in Nat
  BY <1>1
<1> QED BY <1>2

LEMMA HighestOfPair ==
  ASSUME NEW a \in Nat, NEW b \in Nat
  PROVE  /\ Highest({a, b}) \in Nat /\ Highest({a, b}) \in {a, b}
         /\ Highest({a, b}) >= a /\ Highest({a, b}) >= b
<1>1. CASE a <= b
  <2>1. Highest({a, b}) = b
    BY <1>1, HighestIs
  <2> QED BY <1>1, <2>1
<1>2. CASE ~(a <= b)
  <2>1. Highest({a, b}) = a
    BY <1>2, HighestIs
  <2> QED BY <1>2, <2>1
<1> QED BY <1>1, <1>2

\* A finite map has finitely many values.
LEMMA HighestOfValues ==
  ASSUME NEW K, IsFiniteSet(K), K # {}, NEW f \in [K -> Nat]
  PROVE  /\ Highest({f[k] : k \in K}) \in {f[k] : k \in K}
         /\ Highest({f[k] : k \in K}) \in Nat
         /\ \A k \in K : f[k] <= Highest({f[k1] : k1 \in K})
<1> DEFINE V == {f[k] : k \in K}
<1>1. f \in Surjection(K, V)
  BY DEF Surjection
<1>2. IsFiniteSet(V)
  <2> HIDE DEF V
  <2> QED BY <1>1, FS_Surjection
<1>3. V \in SUBSET Nat /\ V # {}
  OBVIOUS
<1>4. \A k \in K : f[k] \in V
  OBVIOUS
<1> HIDE DEF V
<1>5. Highest(V) \in V /\ \A v \in V : v <= Highest(V)
  BY <1>2, <1>3, HighestExists
<1>6. /\ Highest(V) \in V /\ Highest(V) \in Nat
      /\ \A k \in K : f[k] <= Highest(V)
  BY <1>3, <1>4, <1>5
<1> QED BY <1>6 DEF V

-----------------------------------------------------------------------------
(* Folds                                                                   *)

\* The highest of the first numbers is the last of them.
LEMMA MaxOfInterval ==
  ASSUME NEW k \in Nat, k # 0
  PROVE  Max(1..k) = k /\ (1..k) \ {k} = 1..(k - 1) /\ 1..k # {}
<1>1. Max(1..k) \in 1..k /\ \A y \in 1..k : Max(1..k) >= y
  <2>1. k \in 1..k /\ \A y \in 1..k : k >= y
    OBVIOUS
  <2> QED BY <2>1 DEF Max
<1> QED BY <1>1

\* A set of positions has a last one.
LEMMA MaxInside ==
  ASSUME NEW n \in Nat, NEW s \in SUBSET (1..n), s # {}
  PROVE  Max(s) \in s /\ s \ {Max(s)} \in SUBSET (1..n)
<1>1. IsFiniteSet(1..n) /\ s \in SUBSET Nat
  BY FS_Interval
<1>2. IsFiniteSet(s)
  BY <1>1, FS_Subset
<1>3. Highest(s) \in s /\ \A k \in s : k <= Highest(s)
  BY <1>1, <1>2, HighestExists
<1>4. \E x \in s : \A y \in s : x >= y
  BY <1>3
<1>5. Max(s) \in s
  BY <1>4 DEF Max
<1> QED BY <1>5

\* f folds the first k positions and all sets of them, as MapThenFoldSet does.
Folds(f, k, base, step) ==
  \A s \in SUBSET (1..k) : f[s] = IF s = {} THEN base ELSE step[<<Max(s), f[s \ {Max(s)}]>>]

LEMMA FoldExtends ==
  ASSUME NEW T, NEW base \in T, NEW n \in Nat, NEW step \in [(1..n) \X T -> T],
         NEW k \in Nat, k + 1 <= n, NEW g \in [SUBSET (1..k) -> T], Folds(g, k, base, step)
  PROVE  \E f \in [SUBSET (1..(k + 1)) -> T] : Folds(f, k + 1, base, step)
<1> DEFINE f == [s \in SUBSET (1..(k + 1)) |->
                   IF s \in SUBSET (1..k) THEN g[s] ELSE step[<<k + 1, g[s \ {k + 1}]>>]]
<1>1. ASSUME NEW s \in SUBSET (1..(k + 1)), s \notin SUBSET (1..k)
      PROVE  /\ s # {} /\ Max(s) = k + 1
             /\ f[s] = step[<<k + 1, f[s \ {k + 1}]>>] /\ f[s] \in T
  <2>1. k + 1 \in s /\ \A y \in s : y <= k + 1
    BY <1>1
  <2>2. Max(s) = k + 1
    <3>1. Max(s) \in s /\ \A y \in s : Max(s) >= y
      BY <2>1 DEF Max
    <3>2. \A y \in s : y \in Nat
      OBVIOUS
    <3>3. Max(s) \in Nat /\ Max(s) >= k + 1 /\ Max(s) <= k + 1
      BY <2>1, <3>1, <3>2
    <3> QED BY <3>3
  <2>3. s \ {k + 1} \in SUBSET (1..k) /\ s \ {k + 1} \in SUBSET (1..(k + 1))
    OBVIOUS
  <2>4. f[s \ {k + 1}] = g[s \ {k + 1}] /\ g[s \ {k + 1}] \in T
    BY <2>3
  <2>5. f[s] = step[<<k + 1, g[s \ {k + 1}]>>]
    BY <1>1
  <2> HIDE DEF f
  <2>6. k + 1 \in 1..n
    OBVIOUS
  <2> QED BY <2>1, <2>2, <2>4, <2>5, <2>6
<1>2. ASSUME NEW s \in SUBSET (1..k)
      PROVE  /\ f[s] = IF s = {} THEN base ELSE step[<<Max(s), f[s \ {Max(s)}]>>]
             /\ f[s] \in T
  <2>0. 1..k \subseteq 1..(k + 1)
    OBVIOUS
  <2>1. s \in SUBSET (1..(k + 1)) /\ s \ {Max(s)} \in SUBSET (1..k)
    BY <2>0, Zenon
  <2>2. s \ {Max(s)} \in SUBSET (1..(k + 1))
    BY <2>1
  <2>3. f[s] = g[s] /\ f[s \ {Max(s)}] = g[s \ {Max(s)}] /\ g[s] \in T
    BY <2>1, <2>2
  <2> HIDE DEF f
  <2> QED BY <2>3 DEF Folds
<1>3. f = [s \in SUBSET (1..(k + 1)) |-> f[s]]
  OBVIOUS
<1> HIDE DEF f
<1>4. \A s \in SUBSET (1..(k + 1)) : f[s] \in T
  BY <1>1, <1>2
<1>5. f \in [SUBSET (1..(k + 1)) -> T]
  BY <1>3, <1>4
<1>6. Folds(f, k + 1, base, step)
  BY <1>1, <1>2 DEF Folds
<1> QED BY <1>5, <1>6

LEMMA FoldExists ==
  ASSUME NEW T, NEW base \in T, NEW n \in Nat, NEW step \in [(1..n) \X T -> T]
  PROVE  \E f \in [SUBSET (1..n) -> T] : Folds(f, n, base, step)
<1> DEFINE Good == {k \in Nat : k <= n => \E f \in [SUBSET (1..k) -> T] : Folds(f, k, base, step)}
<1>1. 0 \in Good
  <2> DEFINE f == [s \in SUBSET (1..0) |-> base]
  <2>1. \A s \in SUBSET (1..0) : s = {}
    OBVIOUS
  <2>2. f \in [SUBSET (1..0) -> T] /\ Folds(f, 0, base, step)
    BY <2>1 DEF Folds
  <2> QED BY <2>2
<1>2. ASSUME NEW k \in Nat, k \in Good
      PROVE  k + 1 \in Good
  <2>1. CASE k + 1 <= n
    <3>1. k <= n
      BY <2>1
    <3>2. PICK g \in [SUBSET (1..k) -> T] : Folds(g, k, base, step)
      BY <1>2, <3>1, Zenon
    <3>3. \E f \in [SUBSET (1..(k + 1)) -> T] : Folds(f, k + 1, base, step)
      BY <2>1, <3>2, FoldExtends
    <3>4. k + 1 \in Nat
      OBVIOUS
    <3> QED BY <3>3, <3>4, Zenon
  <2>2. CASE ~(k + 1 <= n)
    BY <2>2
  <2> QED BY <2>1, <2>2
<1> HIDE DEF Good
<1>3. Nat \subseteq Good
  BY <1>1, <1>2, NatInd
<1>4. n \in Good /\ n <= n
  BY <1>3
<1> QED BY <1>4, Zenon DEF Good

\* What holds of the first and of each next one holds of all.
LEMMA IndexInd ==
  ASSUME NEW n \in Nat, NEW S, 0 \in S, \A k \in 1..n : k - 1 \in S => k \in S
  PROVE  0..n \subseteq S
<1> DEFINE Good == {k \in Nat : k <= n => k \in S}
<1>1. 0 \in Good
  OBVIOUS
<1>2. ASSUME NEW k \in Nat, k \in Good
      PROVE  k + 1 \in Good
  <2>1. (k + 1) - 1 = k /\ (k + 1 <= n => k + 1 \in 1..n /\ k <= n)
    OBVIOUS
  <2> QED BY <1>2, <2>1
<1> HIDE DEF Good
<1>3. Nat \subseteq Good
  BY <1>1, <1>2, NatInd
<1> QED BY <1>3 DEF Good

-----------------------------------------------------------------------------
(* Texts and their aliases                                                 *)

\* An alias is the text cut off somewhere.
LEMMA AliasIsCut ==
  ASSUME NEW w, IsText(w), NEW a
  PROVE  a \in Aliases(w) <=> \E n \in 1..(Len(w) - 1) : a = SubSeq(w, 1, n)
<1>1. w \in Seq(ToSet(w)) /\ Len(w) \in Nat
  BY DEF IsText
<1>2. ASSUME NEW n \in 0..Len(w)
      PROVE  /\ SubSeq(w, 1, n) = NoWord <=> n = 0
             /\ SubSeq(w, 1, n) = w <=> n = Len(w)
  <2>1. SubSeq(w, 1, n) \in Seq(ToSet(w)) /\ Len(SubSeq(w, 1, n)) = n
    BY <1>1, SubSeqProperties
  <2>2. SubSeq(w, 1, Len(w)) = w
    BY <1>1, SubSeqFull
  <2>3. n = 0 => SubSeq(w, 1, n) = << >>
    BY SubSeqEmpty
  <2>4. Len(<< >>) = 0
    OBVIOUS
  <2> QED BY <2>1, <2>2, <2>3, <2>4 DEF NoWord
<1>3. a \in Aliases(w) <=> \E n \in 0..Len(w) : n # 0 /\ n # Len(w) /\ a = SubSeq(w, 1, n)
  BY <1>2 DEF Aliases, Prefixes
<1> QED BY <1>1, <1>3

LEMMA AliasOfAlias ==
  ASSUME NEW w, IsText(w), NEW b \in Aliases(w)
  PROVE  /\ IsText(b)
         /\ Aliases(b) \subseteq Aliases(w)
<1>1. PICK n \in 1..(Len(w) - 1) : b = SubSeq(w, 1, n)
  BY AliasIsCut
<1>2. w \in Seq(ToSet(w)) /\ Len(w) \in Nat
  BY DEF IsText
<1>3. b \in Seq(ToSet(w)) /\ Len(b) = n
  BY <1>1, <1>2, SubSeqProperties
<1>4. IsText(b)
  <2>1. b \in [1..n -> ToSet(b)]
    BY <1>3 DEF ToSet
  <2> QED BY <2>1, SeqDef DEF IsText
<1>5. ASSUME NEW a \in Aliases(b)
      PROVE  a \in Aliases(w)
  <2>1. PICK k \in 1..(n - 1) : a = SubSeq(b, 1, k)
    BY <1>3, <1>4, AliasIsCut
  <2>2. a = SubSeq(w, 1, k)
    <3>1. /\ SubSeq(b, 1, k) \in Seq(ToSet(w)) /\ Len(SubSeq(b, 1, k)) = k
          /\ \A i \in 1..k : SubSeq(b, 1, k)[i] = b[i]
      BY <1>3, SubSeqProperties
    <3>2. /\ SubSeq(w, 1, k) \in Seq(ToSet(w)) /\ Len(SubSeq(w, 1, k)) = k
          /\ \A i \in 1..k : SubSeq(w, 1, k)[i] = w[i]
      BY <1>2, SubSeqProperties
    <3>3. \A i \in 1..k : b[i] = w[i]
      BY <1>1, <1>2, SubSeqProperties
    <3> QED BY <2>1, <3>1, <3>2, <3>3, SeqEqual
  <2>3. k \in 1..(Len(w) - 1)
    BY <1>2
  <2> QED BY <2>2, <2>3, AliasIsCut
<1> QED BY <1>4, <1>5

\* A text and its aliases.
Family(w) == {w} \cup Aliases(w)

LEMMA FamilyOfFamily ==
  ASSUME NEW w, IsText(w), NEW b \in Family(w)
  PROVE  IsText(b) /\ b \in Family(b) /\ Family(b) \subseteq Family(w)
BY AliasOfAlias DEF Family

-----------------------------------------------------------------------------
(* A map and its aliases                                                   *)

\* A map that has all aliases of its words, with at least their scores.
Closed(map) ==
  \A w \in DOMAIN map : \A a \in Aliases(w) : a \in DOMAIN map /\ map[a] >= map[w]

\* What expand_inner_aliases promises: the scores of `map` go to whole families
\* and no others are in `e`.
ExpansionOf(e, map) ==
  /\ \A w \in DOMAIN map : \A a \in Family(w) : a \in DOMAIN e /\ e[a] >= map[w]
  /\ \A a \in DOMAIN e : \E w \in DOMAIN map : a \in Family(w) /\ e[a] = map[w]

LEMMA ExpandInner ==
  ASSUME NEW map, IsScoreMap(map)
  PROVE  LET e == expand_inner_aliases(map)
         IN /\ Numbers(e) /\ DOMAIN e = WithAliases(DOMAIN map)
            /\ ExpansionOf(e, map) /\ Closed(e)
            /\ \A w \in DOMAIN e : IsText(w)
<1> DEFINE e == expand_inner_aliases(map)
           K == DOMAIN map
<1>1. DOMAIN e = WithAliases(K)
  BY DEF expand_inner_aliases
<1>2. \A a : a \in WithAliases(K) <=> \E w \in K : a \in Family(w)
  BY DEF WithAliases, Family
<1>3. \A a : Sources(map, a) = {k \in K : a \in Family(k)}
  BY DEF Sources, Family
<1>4. ASSUME NEW a \in WithAliases(K)
      PROVE  /\ e[a] \in Nat
             /\ \E w \in K : a \in Family(w) /\ e[a] = map[w]
             /\ \A w \in K : a \in Family(w) => map[w] <= e[a]
  <2> DEFINE S == Sources(map, a)
             f == [k \in S |-> map[k]]
  <2>1. S \in SUBSET K /\ S # {}
    BY <1>2, <1>3
  <2>2. IsFiniteSet(S) /\ f \in [S -> Nat]
    BY <2>1, FS_Subset DEF IsScoreMap, Numbers
  <2>3. e[a] = Highest({f[k] : k \in S})
    BY DEF expand_inner_aliases
  <2>4. \A k \in S : f[k] = map[k]
    OBVIOUS
  <2> HIDE DEF S, f
  <2>5. /\ e[a] \in {f[k] : k \in S} /\ e[a] \in Nat
        /\ \A k \in S : f[k] <= e[a]
    BY <2>1, <2>2, <2>3, HighestOfValues
  <2>6. PICK k \in S : e[a] = f[k]
    BY <2>5
  <2> HIDE DEF e
  <2> QED BY <1>3, <2>1, <2>4, <2>5, <2>6 DEF S
<1>5. e = [a \in DOMAIN e |-> e[a]]
  BY DEF expand_inner_aliases
<1> HIDE DEF e
<1>6. Numbers(e)
  BY <1>1, <1>4, <1>5 DEF Numbers
<1>7. ExpansionOf(e, map)
  <2>1. ASSUME NEW w \in K, NEW a \in Family(w)
        PROVE  a \in DOMAIN e /\ e[a] >= map[w]
    <3>1. a \in WithAliases(K)
      BY <1>2
    <3>2. map[w] \in Nat
      BY DEF IsScoreMap, Numbers
    <3> QED BY <1>1, <1>4, <3>1, <3>2
  <2> QED BY <1>1, <1>4, <2>1 DEF ExpansionOf
<1>8. ASSUME NEW w \in DOMAIN e
      PROVE  /\ IsText(w)
             /\ \A a \in Aliases(w) : a \in DOMAIN e /\ e[a] >= e[w]
  <2>1. PICK k \in K : w \in Family(k) /\ e[w] = map[k]
    BY <1>7 DEF ExpansionOf
  <2>2. IsText(w) /\ Aliases(w) \subseteq Family(k)
    BY <2>1, FamilyOfFamily DEF IsScoreMap, Family
  <2> QED BY <1>7, <2>1, <2>2 DEF ExpansionOf
<1>9. Closed(e)
  BY <1>8 DEF Closed
<1> QED BY <1>1, <1>6, <1>7, <1>8, <1>9 DEF e

\* A closed map is expanded already.
LEMMA ClosedIsStable ==
  ASSUME NEW map, Numbers(map), Closed(map)
  PROVE  expand_inner_aliases(map) = map
<1>1. WithAliases(DOMAIN map) = DOMAIN map
  BY DEF WithAliases, Closed
<1>2. ASSUME NEW a \in DOMAIN map
      PROVE  Highest({map[k] : k \in Sources(map, a)}) = map[a]
  <2> DEFINE V == {map[k] : k \in Sources(map, a)}
  <2>1. V \in SUBSET Nat /\ map[a] \in V
    BY DEF Sources, Numbers
  <2>2. \A v \in V : v <= map[a]
    BY DEF Sources, Closed, Numbers
  <2> HIDE DEF V
  <2>3. Highest(V) = map[a]
    BY <2>1, <2>2, HighestIs
  <2> QED BY <2>3 DEF V
<1>3. expand_inner_aliases(map) = [a \in DOMAIN map |-> map[a]]
  BY <1>1, <1>2 DEF expand_inner_aliases
<1> QED BY <1>3 DEF Numbers

-----------------------------------------------------------------------------
(* Maps of maps                                                            *)

LEMMA ExpandContexts ==
  ASSUME NEW maps, AreScoreMaps(maps)
  PROVE  LET e == expand_context_map_aliases(maps)
         IN /\ DOMAIN e = WithAliases(DOMAIN maps) /\ e = [c \in DOMAIN e |-> e[c]]
            /\ \A c \in DOMAIN e : Numbers(e[c]) /\ Closed(e[c])
            /\ \A c \in DOMAIN e : Aliases(c) \subseteq DOMAIN e
<1> DEFINE K == DOMAIN maps
           inner == [c \in K |-> expand_inner_aliases(maps[c])]
           Union(C) == [w \in UNION {DOMAIN inner[c] : c \in C} |->
                          Highest({get_score(inner[c], w) : c \in C})]
           e == expand_context_map_aliases(maps)
<1>1. /\ DOMAIN inner = K /\ IsFiniteSet(K)
      /\ \A c \in K : Numbers(inner[c]) /\ Closed(inner[c])
  BY ExpandInner DEF AreScoreMaps
<1>2. e = [c \in WithAliases(K) |-> IF c \in K THEN inner[c] ELSE Union(Sources(inner, c))]
  BY DEF expand_context_map_aliases
<1> HIDE DEF inner, e
<1>3. ASSUME NEW C \in SUBSET K, C # {}
      PROVE  Numbers(Union(C)) /\ Closed(Union(C))
  <2> DEFINE u == Union(C)
             Words1 == UNION {DOMAIN inner[c] : c \in C}
  <2>1. DOMAIN u = Words1 /\ u = [w \in Words1 |-> u[w]]
    OBVIOUS
  <2>2. ASSUME NEW w
        PROVE  LET V == {get_score(inner[c], w) : c \in C}
               IN /\ Highest(V) \in V /\ Highest(V) \in Nat
                  /\ \A c \in C : get_score(inner[c], w) <= Highest(V)
    <3> DEFINE f == [c \in C |-> get_score(inner[c], w)]
    <3>1. IsFiniteSet(C)
      BY <1>1, FS_Subset
    <3>2. f \in [C -> Nat]
      BY <1>1 DEF get_score, Numbers
    <3>3. \A c \in C : f[c] = get_score(inner[c], w)
      OBVIOUS
    <3> HIDE DEF f
    <3>4. /\ Highest({f[c] : c \in C}) \in {f[c] : c \in C}
          /\ Highest({f[c] : c \in C}) \in Nat
          /\ \A c \in C : f[c] <= Highest({f[c1] : c1 \in C})
      BY <1>3, <3>1, <3>2, HighestOfValues
    <3>5. {f[c] : c \in C} = {get_score(inner[c], w) : c \in C}
      BY <3>3
    <3> QED BY <3>3, <3>4, <3>5
  <2>3. \A w \in Words1 : u[w] = Highest({get_score(inner[c], w) : c \in C})
    OBVIOUS
  <2> HIDE DEF u
  <2>4. Numbers(u)
    <3>1. \A w \in Words1 : u[w] \in Nat
      BY <2>2, <2>3
    <3> HIDE DEF Words1
    <3> QED BY <2>1, <3>1 DEF Numbers
  <2>5. ASSUME NEW w \in DOMAIN u, NEW a \in Aliases(w)
        PROVE  a \in DOMAIN u /\ u[a] >= u[w]
    <3>1. a \in Words1
      BY <1>1, <2>1 DEF Closed
    <3>2. PICK c \in C : u[w] = get_score(inner[c], w)
      BY <2>1, <2>2, <2>3
    <3>3. get_score(inner[c], a) >= get_score(inner[c], w)
      BY <1>1 DEF Closed, get_score, Numbers
    <3>4. get_score(inner[c], a) <= u[a]
      BY <2>2, <2>3, <3>1
    <3>5. get_score(inner[c], a) \in Nat /\ u[a] \in Nat /\ u[w] \in Nat
      BY <1>1, <2>1, <2>4, <3>1 DEF get_score, Numbers
    <3> QED BY <2>1, <3>1, <3>2, <3>3, <3>4, <3>5
  <2> QED BY <2>4, <2>5 DEF u, Closed
<1> HIDE DEF Union
<1>4. ASSUME NEW c \in WithAliases(K)
      PROVE  Numbers(e[c]) /\ Closed(e[c])
  <2>1. Sources(inner, c) \in SUBSET K /\ Sources(inner, c) # {}
    BY <1>1 DEF Sources, WithAliases
  <2> QED BY <1>1, <1>2, <1>3, <2>1
<1>5. ASSUME NEW c \in WithAliases(K)
      PROVE  Aliases(c) \subseteq WithAliases(K)
  <2>1. PICK k \in K : c = k \/ c \in Aliases(k)
    BY DEF WithAliases
  <2>2. Aliases(c) \subseteq Aliases(k)
    BY <2>1, AliasOfAlias DEF AreScoreMaps
  <2> QED BY <2>2 DEF WithAliases
<1> QED BY <1>2, <1>4, <1>5 DEF e

LEMMA ClosedContextsAreStable ==
  ASSUME NEW maps, maps = [c \in DOMAIN maps |-> maps[c]],
         \A c \in DOMAIN maps : Numbers(maps[c]) /\ Closed(maps[c]),
         \A c \in DOMAIN maps : Aliases(c) \subseteq DOMAIN maps
  PROVE  expand_context_map_aliases(maps) = maps
<1>1. [c \in DOMAIN maps |-> expand_inner_aliases(maps[c])] = maps
  BY ClosedIsStable
<1>2. WithAliases(DOMAIN maps) = DOMAIN maps
  BY DEF WithAliases
<1> QED BY <1>1, <1>2 DEF expand_context_map_aliases

\* Presets merged into no contexts are the presets.
LEMMA PresetsMerged ==
  ASSUME NEW t, t = [frequencies |-> t.frequencies, context_frequencies |-> t.context_frequencies],
         DOMAIN t.context_frequencies = {}
  PROVE  merge_default_presets_raw(t)
           = [frequencies |-> t.frequencies, context_frequencies |-> Presets]
<1>1. ASSUME NEW c \in DOMAIN Presets
      PROVE  MaxScores(NoScores, Presets[c]) = Presets[c]
  <2>1. Numbers(Presets[c])
    BY TablesAssumption DEF AreScoreMaps, IsScoreMap
  <2>2. ASSUME NEW w \in DOMAIN Presets[c]
        PROVE  Highest({get_score(NoScores, w), get_score(Presets[c], w)}) = Presets[c][w]
    <3>1. get_score(NoScores, w) = 0 /\ get_score(Presets[c], w) = Presets[c][w]
      BY DEF get_score, NoScores
    <3>2. Presets[c][w] \in Nat
      BY <2>1 DEF Numbers
    <3> QED BY <3>1, <3>2, HighestIs
  <2>3. DOMAIN NoScores \cup DOMAIN Presets[c] = DOMAIN Presets[c]
    BY DEF NoScores
  <2> QED BY <2>1, <2>2, <2>3 DEF MaxScores, Numbers
<1>2. [c \in DOMAIN t.context_frequencies \cup DOMAIN Presets |->
         MaxScores(IF c \in DOMAIN t.context_frequencies THEN t.context_frequencies[c] ELSE NoScores,
                   IF c \in DOMAIN Presets THEN Presets[c] ELSE NoScores)] = Presets
  BY <1>1, TablesAssumption DEF AreScoreMaps
<1> QED BY <1>2 DEF merge_default_presets_raw

-----------------------------------------------------------------------------
(* What is served                                                          *)

\* A table as a load makes it.
Loaded(t) ==
  /\ t = [frequencies |-> t.frequencies, context_frequencies |-> t.context_frequencies]
  /\ t.frequencies = [m \in DOMAIN t.frequencies |-> t.frequencies[m]]
  /\ \A m \in DOMAIN t.frequencies : Numbers(t.frequencies[m]) /\ Closed(t.frequencies[m])
  /\ t.context_frequencies = [c \in DOMAIN t.context_frequencies |-> t.context_frequencies[c]]
  /\ \A c \in DOMAIN t.context_frequencies :
       /\ Numbers(t.context_frequencies[c]) /\ Closed(t.context_frequencies[c])
       /\ Aliases(c) \subseteq DOMAIN t.context_frequencies

LEMMA LoadedIsStable ==
  ASSUME NEW t, Loaded(t)
  PROVE  expand_aliases(t) = t
<1>1. [m \in DOMAIN t.frequencies |-> expand_inner_aliases(t.frequencies[m])] = t.frequencies
  BY ClosedIsStable DEF Loaded
<1>2. expand_context_map_aliases(t.context_frequencies) = t.context_frequencies
  BY ClosedContextsAreStable DEF Loaded
<1> QED BY <1>1, <1>2 DEF expand_aliases, Loaded

LEMMA SeedIsLoaded ==
  ASSUME NEW raw, IsSeed(raw)
  PROVE  /\ Loaded(expand_aliases(raw))
         /\ expand_aliases(raw).frequencies
              = [m \in DOMAIN raw.frequencies |-> expand_inner_aliases(raw.frequencies[m])]
         /\ DOMAIN expand_aliases(raw).context_frequencies = WithAliases(DOMAIN raw.context_frequencies)
<1> DEFINE f == [m \in DOMAIN raw.frequencies |-> expand_inner_aliases(raw.frequencies[m])]
           x == expand_context_map_aliases(raw.context_frequencies)
<1>1. expand_aliases(raw) = [frequencies |-> f, context_frequencies |-> x]
  BY DEF expand_aliases
<1>2. \A m \in DOMAIN f : Numbers(f[m]) /\ Closed(f[m])
  BY ExpandInner DEF IsSeed, AreScoreMaps
<1>3. /\ DOMAIN x = WithAliases(DOMAIN raw.context_frequencies) /\ x = [c \in DOMAIN x |-> x[c]]
      /\ \A c \in DOMAIN x : Numbers(x[c]) /\ Closed(x[c])
      /\ \A c \in DOMAIN x : Aliases(c) \subseteq DOMAIN x
  BY ExpandContexts DEF IsSeed
<1>4. f = [m \in DOMAIN f |-> f[m]]
  OBVIOUS
<1> HIDE DEF x
<1>5. Loaded([frequencies |-> f, context_frequencies |-> x])
  <2> HIDE DEF f
  <2> QED BY <1>2, <1>3, <1>4 DEF Loaded
<1> QED BY <1>1, <1>3, <1>5

LEMMA ServedIsLoaded ==
  ASSUME NEW raw, IsSeed(raw)
  PROVE  /\ Loaded(Served(raw))
         /\ Served(raw).frequencies
              = [m \in DOMAIN raw.frequencies |-> expand_inner_aliases(raw.frequencies[m])]
         /\ DOMAIN Served(raw).context_frequencies
              = WithAliases(DOMAIN raw.context_frequencies)
                \/ DOMAIN Served(raw).context_frequencies = WithAliases(DOMAIN Presets)
<1> DEFINE l == expand_aliases(raw)
<1>1. /\ Loaded(l)
      /\ l.frequencies = [m \in DOMAIN raw.frequencies |-> expand_inner_aliases(raw.frequencies[m])]
      /\ DOMAIN l.context_frequencies = WithAliases(DOMAIN raw.context_frequencies)
  BY SeedIsLoaded
<1>2. CASE DOMAIN l.context_frequencies # {}
  BY <1>1, <1>2 DEF Served
<1>3. CASE DOMAIN l.context_frequencies = {}
  <2> DEFINE x == expand_context_map_aliases(Presets)
  <2>1. Served(raw) = expand_aliases([frequencies |-> l.frequencies,
                                      context_frequencies |-> Presets])
    <3>1. Served(raw) = expand_aliases(merge_default_presets_raw(l))
      BY <1>3 DEF Served
    <3> HIDE DEF l
    <3> QED BY <1>1, <1>3, <3>1, PresetsMerged DEF Loaded
  <2> HIDE DEF l
  <2>2. [m \in DOMAIN l.frequencies |-> expand_inner_aliases(l.frequencies[m])] = l.frequencies
    BY <1>1, ClosedIsStable DEF Loaded
  <2>3. Served(raw) = [frequencies |-> l.frequencies, context_frequencies |-> x]
    BY <2>1, <2>2 DEF expand_aliases
  <2>4. /\ DOMAIN x = WithAliases(DOMAIN Presets) /\ x = [c \in DOMAIN x |-> x[c]]
        /\ \A c \in DOMAIN x : Numbers(x[c]) /\ Closed(x[c])
        /\ \A c \in DOMAIN x : Aliases(c) \subseteq DOMAIN x
    BY ExpandContexts, TablesAssumption
  <2> HIDE DEF x
  <2>5. Loaded([frequencies |-> l.frequencies, context_frequencies |-> x])
    BY <1>1, <2>4 DEF Loaded
  <2> QED BY <1>1, <2>3, <2>4, <2>5
<1> QED BY <1>2, <1>3

-----------------------------------------------------------------------------
(* The tables in force                                                     *)

\* The tables are those made of the seed read last.
InForce == stored \in Seeds /\ predictor = Served(stored)

LEMMA InForceAlways == Spec => []InForce
<1>1. Init => InForce
  BY DEF Init, InForce
<1>2. InForce /\ [Next]_vars => InForce'
  BY DEF InForce, Next, vars, lookupVars, Session, Ask, Variation, OutOfTime, OkuriAnswered,
         Answered, Rank, Send, Reload
<1> QED BY <1>1, <1>2, PTL DEF Spec

\* A word scores what the seed gives it or, where that is more, what it gives a
\* longer word, whatever the seed and however often it is reloaded
\* (expand_inner_aliases).
THEOREM ScoresServed == Spec => []ScoresFromSeed
<1>1. InForce => ScoresFromSeed
  <2> SUFFICES ASSUME InForce, NEW m \in DOMAIN stored.frequencies
               PROVE  ExpansionOf(predictor.frequencies[m], stored.frequencies[m])
    BY DEF ScoresFromSeed, ExpansionOf, Family
  <2>1. IsSeed(stored)
    BY SeedsAssumption DEF InForce
  <2>2. predictor.frequencies[m] = expand_inner_aliases(stored.frequencies[m])
    BY <2>1, ServedIsLoaded DEF InForce
  <2> QED BY <2>1, <2>2, ExpandInner DEF IsSeed, AreScoreMaps
<1> QED BY <1>1, InForceAlways, PTL

\* The tables in force stay as they are when their aliases are expanded once more
\* (expand_aliases, which ensure_default_context_presets calls after a load).
THEOREM ServedIsStable == Spec => []ExpansionIsStable
<1>1. InForce => ExpansionIsStable
  BY SeedsAssumption, ServedIsLoaded, LoadedIsStable DEF InForce, ExpansionIsStable
<1> QED BY <1>1, InForceAlways, PTL

-----------------------------------------------------------------------------
(* The user's dictionary                                                   *)

\* The words of a line of the dictionary, one candidate after the other.
Pushed(ws, cand) ==
  IF cand.kind = "open" \/ cand.word = NoWord \/ Contains(ws, cand.word) THEN ws
  ELSE Append(ws, cand.word)

LEMMA ParseSteps ==
  ASSUME NEW S, NEW cands \in Seq(S)
  PROVE  \E h : /\ h[0] = << >>
                /\ \A k \in 1..Len(cands) : h[k] = Pushed(h[k - 1], cands[k])
                /\ parse_dict_line_candidates(cands) = h[Len(cands)]
<1> DEFINE n == Len(cands)
           T == Seq({cands[i].word : i \in 1..n})
           step == [p \in (1..n) \X T |-> Pushed(p[2], cands[p[1]])]
           iter == CHOOSE g : g = [s \in SUBSET DOMAIN cands |->
                     IF s = {} THEN << >> ELSE Pushed(g[s \ {Max(s)}], cands[Max(s)])]
<1>1. n \in Nat /\ DOMAIN cands = 1..n /\ << >> \in T
  OBVIOUS
<1>2. step \in [(1..n) \X T -> T]
  BY DEF Pushed
<1>3. parse_dict_line_candidates(cands) = iter[DOMAIN cands]
  BY DEF parse_dict_line_candidates, FoldLeft, MapThenFoldSet, Pushed
<1>4. \A k \in 1..n : \A t \in T : step[<<k, t>>] = Pushed(t, cands[k])
  OBVIOUS
<1> HIDE DEF T, n, step
<1>5. PICK f \in [SUBSET (1..n) -> T] : Folds(f, n, << >>, step)
  BY <1>1, <1>2, FoldExists
<1>6. ASSUME NEW s \in SUBSET (1..n)
      PROVE  f[s] = IF s = {} THEN << >> ELSE Pushed(f[s \ {Max(s)}], cands[Max(s)])
  <2>1. CASE s = {}
    BY <1>5, <2>1 DEF Folds
  <2>2. CASE s # {}
    <3>1. Max(s) \in 1..n /\ s \ {Max(s)} \in SUBSET (1..n)
      BY <1>1, <2>2, MaxInside
    <3>2. f[s] = step[<<Max(s), f[s \ {Max(s)}]>>]
      BY <1>5, <2>2 DEF Folds
    <3>3. f[s \ {Max(s)}] \in T
      BY <3>1
    <3> QED BY <1>4, <2>2, <3>1, <3>2, <3>3
  <2> QED BY <2>1, <2>2
<1>7. f = [s \in SUBSET DOMAIN cands |->
             IF s = {} THEN << >> ELSE Pushed(f[s \ {Max(s)}], cands[Max(s)])]
  BY <1>1, <1>6
<1>8. iter = [s \in SUBSET DOMAIN cands |->
                IF s = {} THEN << >> ELSE Pushed(iter[s \ {Max(s)}], cands[Max(s)])]
  BY <1>7
<1> HIDE DEF iter
<1> DEFINE h == [k \in 0..n |-> iter[1..k]]
<1>9. h[0] = << >> /\ \A k \in 1..n : h[k] = Pushed(h[k - 1], cands[k])
  <2>1. 1..0 = {}
    OBVIOUS
  <2>2. iter[{}] = << >>
    BY <1>8
  <2>3. ASSUME NEW k \in 1..n
        PROVE  iter[1..k] = Pushed(iter[1..(k - 1)], cands[k])
    <3>1. 1..k \in SUBSET DOMAIN cands /\ k \in Nat /\ k # 0
      BY <1>1
    <3>2. Max(1..k) = k /\ (1..k) \ {k} = 1..(k - 1) /\ 1..k # {}
      BY <3>1, MaxOfInterval
    <3>3. iter[1..k] = IF 1..k = {} THEN << >>
                       ELSE Pushed(iter[(1..k) \ {Max(1..k)}], cands[Max(1..k)])
      BY <1>8, <3>1
    <3> QED BY <3>2, <3>3
  <2> QED BY <1>1, <2>1, <2>2, <2>3
<1>10. parse_dict_line_candidates(cands) = h[n]
  BY <1>1, <1>3
<1> HIDE DEF h
<1> QED BY <1>9, <1>10 DEF n

\* The words of a line are words, once each.
LEMMA ParsedWords ==
  ASSUME NEW cands \in Seq(Candidates)
  PROVE  LET ws == parse_dict_line_candidates(cands)
         IN ws \in Seq(Words) /\ \A i, j \in 1..Len(ws) : i # j => ws[i] # ws[j]
<1> DEFINE Once(ws) == ws \in Seq(Words) /\ \A i, j \in 1..Len(ws) : i # j => ws[i] # ws[j]
<1>1. PICK h : /\ h[0] = << >>
               /\ \A k \in 1..Len(cands) : h[k] = Pushed(h[k - 1], cands[k])
               /\ parse_dict_line_candidates(cands) = h[Len(cands)]
  BY ParseSteps
<1>2. ASSUME NEW ws, Once(ws), NEW cand \in Candidates
      PROVE  Once(Pushed(ws, cand))
  <2>1. CASE cand.kind = "open" \/ cand.word = NoWord \/ Contains(ws, cand.word)
    BY <1>2, <2>1 DEF Pushed
  <2>2. CASE ~(cand.kind = "open" \/ cand.word = NoWord \/ Contains(ws, cand.word))
    <3>1. cand.word \in Words
      BY <2>2 DEF Candidates
    <3>2. Pushed(ws, cand) = Append(ws, cand.word)
      BY <2>2 DEF Pushed
    <3>3. \A i \in 1..Len(ws) : ws[i] # cand.word
      BY <2>2 DEF Contains
    <3> QED BY <1>2, <3>1, <3>2, <3>3
  <2> QED BY <2>1, <2>2
<1> DEFINE S == {k \in 0..Len(cands) : Once(h[k])}
<1>3. Len(cands) \in Nat /\ 0 \in S
  <2>1. Once(<< >>) /\ Len(cands) \in Nat
    OBVIOUS
  <2> HIDE DEF Once
  <2> QED BY <1>1, <2>1
<1>4. ASSUME NEW k \in 1..Len(cands), k - 1 \in S
      PROVE  k \in S
  <2>1. cands[k] \in Candidates
    OBVIOUS
  <2> HIDE DEF Once
  <2> QED BY <1>1, <1>2, <1>4, <2>1
<1> HIDE DEF S
<1>5. Len(cands) \in S
  <2>1. 0..Len(cands) \subseteq S
    BY <1>3, <1>4, IndexInd
  <2> QED BY <1>3, <2>1
<1>6. Once(h[Len(cands)])
  BY <1>5 DEF S
<1> QED BY <1>1, <1>6

\* The words of a line score by their places.
LEMMA PlaceScores ==
  ASSUME NEW W, NEW ws \in Seq(W), \A i, j \in 1..Len(ws) : i # j => ws[i] # ws[j]
  PROVE  /\ OrderScores(ws) \in [ToSet(ws) -> Nat] /\ IsFiniteSet(ToSet(ws))
         /\ ToSet(ws) \subseteq W
         /\ \A i \in 1..Len(ws) : OrderScores(ws)[ws[i]] = Len(ws) + 1 - i
<1> DEFINE n == Len(ws)
<1>1. n \in Nat /\ DOMAIN ws = 1..n /\ ToSet(ws) = {ws[i] : i \in 1..n}
  BY DEF ToSet
<1>2. ASSUME NEW i \in 1..n
      PROVE  SelectInSeq(ws, LAMBDA v : v = ws[i]) = i
  <2> DEFINE I == {k \in 1..n : ws[k] = ws[i]}
  <2>1. I = {i}
    OBVIOUS
  <2>2. SelectInSeq(ws, LAMBDA v : v = ws[i]) = IF I # {} THEN Min(I) ELSE 0
    BY DEF SelectInSeq
  <2>3. Min({i}) = i
    <3>1. Min({i}) \in {i} /\ \A y \in {i} : Min({i}) =< y
      <4>1. i \in {i} /\ \A y \in {i} : i =< y
        OBVIOUS
      <4> QED BY <4>1 DEF Min
    <3> QED BY <3>1
  <2> HIDE DEF I
  <2> QED BY <2>1, <2>2, <2>3
<1>3. \A i \in 1..n : OrderScores(ws)[ws[i]] = n + 1 - i
  BY <1>1, <1>2 DEF OrderScores
<1>4. OrderScores(ws) = [w \in ToSet(ws) |-> OrderScores(ws)[w]]
  BY DEF OrderScores
<1>5. OrderScores(ws) \in [ToSet(ws) -> Nat]
  <2>1. \A w \in ToSet(ws) : OrderScores(ws)[w] \in Nat
    BY <1>1, <1>3
  <2> QED BY <1>4, <2>1
<1>6. IsFiniteSet(ToSet(ws))
  <2>1. ws \in [1..n -> ToSet(ws)]
    BY <1>1
  <2>2. ws \in Surjection(1..n, ToSet(ws))
    BY <1>1, <2>1 DEF Surjection
  <2>3. IsFiniteSet(1..n)
    BY <1>1, FS_Interval
  <2> QED BY <2>2, <2>3, FS_Surjection
<1> QED BY <1>1, <1>3, <1>5, <1>6

LEMMA MaxScoresRaise ==
  ASSUME NEW old, IsScoreMap(old), NEW new, IsScoreMap(new)
  PROVE  LET r == MaxScores(old, new)
         IN /\ IsScoreMap(r) /\ DOMAIN r = DOMAIN old \cup DOMAIN new
            /\ \A w \in DOMAIN old : r[w] >= old[w]
            /\ \A w \in DOMAIN new : r[w] >= new[w]
            /\ (\A w \in DOMAIN new : w \in DOMAIN old /\ old[w] >= new[w]) => r = old
            /\ DOMAIN old = {} => r = new
<1> DEFINE r == MaxScores(old, new)
<1>1. DOMAIN r = DOMAIN old \cup DOMAIN new /\ r = [w \in DOMAIN r |-> r[w]]
  BY DEF MaxScores
<1>2. ASSUME NEW w \in DOMAIN r
      PROVE  /\ r[w] \in Nat /\ r[w] \in {get_score(old, w), get_score(new, w)}
             /\ r[w] >= get_score(old, w) /\ r[w] >= get_score(new, w)
             /\ get_score(old, w) \in Nat /\ get_score(new, w) \in Nat
  <2>1. get_score(old, w) \in Nat /\ get_score(new, w) \in Nat
    BY DEF get_score, IsScoreMap, Numbers
  <2>2. r[w] = Highest({get_score(old, w), get_score(new, w)})
    BY <1>1 DEF MaxScores
  <2> QED BY <2>1, <2>2, HighestOfPair
<1> HIDE DEF r
<1>3. IsScoreMap(r)
  <2>1. IsFiniteSet(DOMAIN r)
    BY <1>1, FS_Union DEF IsScoreMap
  <2>2. Numbers(r)
    BY <1>1, <1>2 DEF Numbers
  <2> QED BY <1>1, <2>1, <2>2 DEF IsScoreMap
<1>4. \A w \in DOMAIN old : r[w] >= old[w]
  BY <1>1, <1>2 DEF get_score
<1>5. \A w \in DOMAIN new : r[w] >= new[w]
  BY <1>1, <1>2 DEF get_score
<1>6. ASSUME \A w \in DOMAIN new : w \in DOMAIN old /\ old[w] >= new[w]
      PROVE  r = old
  <2>1. ASSUME NEW w \in DOMAIN old
        PROVE  r[w] = old[w]
    <3>1. get_score(old, w) = old[w] /\ old[w] \in Nat /\ get_score(new, w) <= old[w]
      BY <1>6 DEF get_score, IsScoreMap, Numbers
    <3> QED BY <1>1, <1>2, <3>1
  <2> QED BY <1>1, <1>6, <2>1 DEF IsScoreMap, Numbers
<1>7. ASSUME DOMAIN old = {}
      PROVE  r = new
  <2>1. ASSUME NEW w \in DOMAIN new
        PROVE  r[w] = new[w]
    <3>1. get_score(old, w) = 0 /\ get_score(new, w) = new[w] /\ new[w] \in Nat
      BY <1>7 DEF get_score, IsScoreMap, Numbers
    <3> QED BY <1>1, <1>2, <3>1
  <2> QED BY <1>1, <1>7, <2>1 DEF IsScoreMap, Numbers
<1> QED BY <1>1, <1>3, <1>4, <1>5, <1>6, <1>7 DEF r


\* What one line makes of a seed.
Imported(t, line) ==
  LET m   == line.midashi
      ws  == parse_dict_line_candidates(line.cands)
      old == IF m \in DOMAIN t.frequencies THEN t.frequencies[m] ELSE NoScores
  IN IF ws = << >> THEN t
     ELSE [t EXCEPT !.frequencies =
             [k \in DOMAIN @ \cup {m} |-> IF k = m THEN Raised(old, ws) ELSE @[k]]]

\* No score of t is lost or lower in r.
Above(r, t) ==
  \A m \in DOMAIN t.frequencies :
    /\ m \in DOMAIN r.frequencies
    /\ \A w \in DOMAIN t.frequencies[m] : /\ w \in DOMAIN r.frequencies[m]
                                          /\ r.frequencies[m][w] >= t.frequencies[m][w]

\* The words of a line have at least the scores of their places.
TaughtBy(t, line) ==
  LET m  == line.midashi
      ws == parse_dict_line_candidates(line.cands)
  IN \A i \in 1..Len(ws) : /\ m \in DOMAIN t.frequencies
                           /\ ws[i] \in DOMAIN t.frequencies[m]
                           /\ t.frequencies[m][ws[i]] >= Len(ws) + 1 - i

LEMMA AboveTransitive ==
  ASSUME NEW a, IsSeed(a), NEW b, IsSeed(b), NEW c, IsSeed(c), Above(a, b), Above(b, c)
  PROVE  Above(a, c)
<1> SUFFICES ASSUME NEW m \in DOMAIN c.frequencies, NEW w \in DOMAIN c.frequencies[m]
             PROVE  /\ m \in DOMAIN a.frequencies /\ w \in DOMAIN a.frequencies[m]
                    /\ a.frequencies[m][w] >= c.frequencies[m][w]
  BY DEF Above
<1>1. /\ m \in DOMAIN b.frequencies /\ w \in DOMAIN b.frequencies[m]
      /\ b.frequencies[m][w] >= c.frequencies[m][w]
  BY DEF Above
<1>2. /\ m \in DOMAIN a.frequencies /\ w \in DOMAIN a.frequencies[m]
      /\ a.frequencies[m][w] >= b.frequencies[m][w]
  BY <1>1 DEF Above
<1>3. /\ a.frequencies[m][w] \in Nat /\ b.frequencies[m][w] \in Nat
      /\ c.frequencies[m][w] \in Nat
  BY <1>1, <1>2 DEF IsSeed, AreScoreMaps, IsScoreMap, Numbers
<1> QED BY <1>1, <1>2, <1>3

LEMMA TaughtStays ==
  ASSUME NEW r, IsSeed(r), NEW t, IsSeed(t), NEW line, IsLine(line), TaughtBy(t, line), Above(r, t)
  PROVE  TaughtBy(r, line)
<1> DEFINE m  == line.midashi
           ws == parse_dict_line_candidates(line.cands)
<1> SUFFICES ASSUME NEW i \in 1..Len(ws)
             PROVE  /\ m \in DOMAIN r.frequencies /\ ws[i] \in DOMAIN r.frequencies[m]
                    /\ r.frequencies[m][ws[i]] >= Len(ws) + 1 - i
  BY DEF TaughtBy
<1>1. /\ m \in DOMAIN t.frequencies /\ ws[i] \in DOMAIN t.frequencies[m]
      /\ t.frequencies[m][ws[i]] >= Len(ws) + 1 - i
  BY DEF TaughtBy
<1>2. /\ m \in DOMAIN r.frequencies /\ ws[i] \in DOMAIN r.frequencies[m]
      /\ r.frequencies[m][ws[i]] >= t.frequencies[m][ws[i]]
  BY <1>1 DEF Above
<1>3. r.frequencies[m][ws[i]] \in Nat /\ t.frequencies[m][ws[i]] \in Nat
  BY <1>1, <1>2 DEF IsSeed, AreScoreMaps, IsScoreMap, Numbers
<1>4. Len(ws) + 1 - i \in Int
  <2>1. ws \in Seq(Words)
    BY ParsedWords DEF IsLine
  <2> HIDE DEF ws
  <2> QED BY <2>1
<1> HIDE DEF m, ws
<1> QED BY <1>1, <1>2, <1>3, <1>4

LEMMA ImportStep ==
  ASSUME NEW t, IsSeed(t), NEW line, IsLine(line)
  PROVE  LET r  == Imported(t, line)
             m  == line.midashi
             ws == parse_dict_line_candidates(line.cands)
         IN /\ IsSeed(r) /\ r.context_frequencies = t.context_frequencies
            /\ Above(r, t) /\ TaughtBy(r, line)
            /\ TaughtBy(t, line) => r = t
            /\ \A k \in DOMAIN r.frequencies \ {m} :
                 k \in DOMAIN t.frequencies /\ r.frequencies[k] = t.frequencies[k]
            /\ ws # << >> /\ m \notin DOMAIN t.frequencies =>
                 m \in DOMAIN r.frequencies /\ r.frequencies[m] = OrderScores(ws)
<1> DEFINE m   == line.midashi
           ws  == parse_dict_line_candidates(line.cands)
           os  == OrderScores(ws)
           f   == t.frequencies
           old == IF m \in DOMAIN f THEN f[m] ELSE NoScores
           r   == Imported(t, line)
<1>1. ws \in Seq(Words) /\ \A i, j \in 1..Len(ws) : i # j => ws[i] # ws[j]
  BY ParsedWords DEF IsLine
<1>2. /\ os \in [ToSet(ws) -> Nat] /\ IsFiniteSet(ToSet(ws)) /\ ToSet(ws) \subseteq Words
      /\ \A i \in 1..Len(ws) : os[ws[i]] = Len(ws) + 1 - i
  <2> HIDE DEF ws
  <2> QED BY <1>1, PlaceScores
<1>3. IsScoreMap(os) /\ DOMAIN os = ToSet(ws) /\ ToSet(ws) = {ws[i] : i \in 1..Len(ws)}
  <2>1. \A w \in ToSet(ws) : IsText(w)
    BY <1>2, TextAssumption
  <2>2. ToSet(ws) = {ws[i] : i \in 1..Len(ws)}
    BY <1>1 DEF ToSet
  <2> HIDE DEF ws, os
  <2> QED BY <1>2, <2>1, <2>2 DEF IsScoreMap, Numbers
<1>4. IsScoreMap(old)
  BY FS_EmptySet DEF IsSeed, AreScoreMaps, IsScoreMap, NoScores, Numbers
<1>5. CASE ws = << >>
  <2>1. r = t
    BY <1>5 DEF Imported
  <2>2. TaughtBy(t, line)
    BY <1>5 DEF TaughtBy
  <2>3. Above(t, t)
    BY DEF Above, IsSeed, AreScoreMaps, IsScoreMap, Numbers
  <2> HIDE DEF r
  <2> QED BY <1>5, <2>1, <2>2, <2>3 DEF r
<1>6. CASE ws # << >>
  <2> DEFINE new == MaxScores(old, os)
             rf  == [k \in DOMAIN f \cup {m} |-> IF k = m THEN new ELSE f[k]]
  <2>1. r = [frequencies |-> rf, context_frequencies |-> t.context_frequencies]
    <3>1. r = [t EXCEPT !.frequencies = rf]
      BY <1>6 DEF Imported, Raised
    <3> HIDE DEF r, rf
    <3> QED BY <3>1 DEF IsSeed
  <2>2. /\ IsScoreMap(new) /\ DOMAIN new = DOMAIN old \cup DOMAIN os
        /\ \A w \in DOMAIN old : new[w] >= old[w]
        /\ \A w \in DOMAIN os : new[w] >= os[w]
        /\ (\A w \in DOMAIN os : w \in DOMAIN old /\ old[w] >= os[w]) => new = old
        /\ DOMAIN old = {} => new = os
    <3> HIDE DEF old, os
    <3> QED BY <1>3, <1>4, MaxScoresRaise
  <2>3. f = [k \in DOMAIN f |-> f[k]] /\ IsFiniteSet(DOMAIN f)
        /\ \A k \in DOMAIN f : IsText(k) /\ IsScoreMap(f[k])
    BY DEF IsSeed, AreScoreMaps
  <2>4. old = IF m \in DOMAIN f THEN f[m] ELSE NoScores
    OBVIOUS
  <2>5. t.frequencies = f /\ IsText(m) /\ DOMAIN NoScores = {}
    BY DEF IsLine, NoScores
  <2> HIDE DEF new, f, old, os, r
  <2>6. DOMAIN rf = DOMAIN f \cup {m} /\ rf[m] = new /\ \A k \in DOMAIN f \ {m} : rf[k] = f[k]
    OBVIOUS
  <2>7. AreScoreMaps(rf)
    <3>1. IsFiniteSet(DOMAIN rf)
      BY <2>3, FS_AddElement
    <3>2. \A k \in DOMAIN rf : IsText(k) /\ IsScoreMap(rf[k])
      BY <2>2, <2>3, <2>5
    <3> QED BY <3>1, <3>2 DEF AreScoreMaps
  <2>8. r.frequencies = rf /\ r.context_frequencies = t.context_frequencies
    BY <2>1
  <2> HIDE DEF rf
  <2>9. IsSeed(r)
    BY <2>1, <2>7 DEF IsSeed
  <2>10. Above(r, t)
    <3> SUFFICES ASSUME NEW k \in DOMAIN t.frequencies, NEW w \in DOMAIN t.frequencies[k]
                 PROVE  /\ k \in DOMAIN r.frequencies /\ w \in DOMAIN r.frequencies[k]
                        /\ r.frequencies[k][w] >= t.frequencies[k][w]
      BY <2>5, <2>6, <2>8 DEF Above
    <3>1. CASE k = m
      BY <2>2, <2>4, <2>5, <2>6, <2>8, <3>1
    <3>2. CASE k # m
      <4>1. f[k][w] \in Nat
        BY <2>3, <2>5 DEF IsScoreMap, Numbers
      <4> QED BY <2>5, <2>6, <2>8, <3>2, <4>1
    <3> QED BY <3>1, <3>2
  <2>11. TaughtBy(r, line)
    <3> SUFFICES ASSUME NEW i \in 1..Len(ws)
                 PROVE  m \in DOMAIN rf /\ ws[i] \in DOMAIN rf[m] /\ rf[m][ws[i]] >= Len(ws) + 1 - i
      BY <2>8 DEF TaughtBy
    <3>1. ws[i] \in DOMAIN os /\ os[ws[i]] = Len(ws) + 1 - i
      BY <1>2, <1>3
    <3> HIDE DEF ws, m
    <3> QED BY <2>2, <2>6, <3>1
  <2>12. ASSUME TaughtBy(t, line)
         PROVE  r = t
    <3>1. \A i \in 1..Len(ws) : /\ m \in DOMAIN f /\ ws[i] \in DOMAIN f[m]
                                /\ f[m][ws[i]] >= Len(ws) + 1 - i
      BY <2>5, <2>12 DEF TaughtBy
    <3>2. m \in DOMAIN f
      <4>1. 1 \in 1..Len(ws)
        <5> HIDE DEF ws
        <5> QED BY <1>1, <1>6
      <4> QED BY <3>1, <4>1
    <3>3. \A w \in DOMAIN os : w \in DOMAIN old /\ old[w] >= os[w]
      BY <1>2, <1>3, <2>4, <3>1, <3>2
    <3>4. rf = f
      <4>1. new = f[m]
        BY <2>2, <2>4, <3>2, <3>3
      <4> QED BY <2>3, <3>2, <4>1 DEF rf
    <3> QED BY <2>1, <2>5, <3>4 DEF IsSeed
  <2>13. \A k \in DOMAIN r.frequencies \ {m} :
           k \in DOMAIN t.frequencies /\ r.frequencies[k] = t.frequencies[k]
    BY <2>5, <2>6, <2>8
  <2>14. m \notin DOMAIN t.frequencies =>
           m \in DOMAIN r.frequencies /\ r.frequencies[m] = OrderScores(ws)
    BY <2>2, <2>4, <2>5, <2>6, <2>8 DEF os
  <2> QED BY <2>8, <2>9, <2>10, <2>11, <2>12, <2>13, <2>14 DEF r
<1> QED BY <1>5, <1>6

\* Maps of some of the keys.
PartialMaps(K, V) == UNION {[D -> V] : D \in SUBSET K}

LEMMA ImportedType ==
  ASSUME NEW W, NEW M, NEW C,
         NEW t \in [frequencies : PartialMaps(M, PartialMaps(W, Nat)), context_frequencies : {C}],
         NEW line, IsLine(line), line.midashi \in M, Words \subseteq W
  PROVE  Imported(t, line) \in [frequencies : PartialMaps(M, PartialMaps(W, Nat)),
                                context_frequencies : {C}]
<1> DEFINE m   == line.midashi
           ws  == parse_dict_line_candidates(line.cands)
           os  == OrderScores(ws)
           f   == t.frequencies
           old == IF m \in DOMAIN f THEN f[m] ELSE NoScores
           new == MaxScores(old, os)
           rf  == [k \in DOMAIN f \cup {m} |-> IF k = m THEN new ELSE f[k]]
<1>1. os \in [ToSet(ws) -> Nat] /\ ToSet(ws) \subseteq W
  <2>1. ws \in Seq(Words) /\ \A i, j \in 1..Len(ws) : i # j => ws[i] # ws[j]
    BY ParsedWords DEF IsLine
  <2> HIDE DEF ws
  <2> QED BY <2>1, PlaceScores
<1>2. PICK D \in SUBSET M : f \in [D -> PartialMaps(W, Nat)]
  BY DEF PartialMaps
<1>3. PICK E \in SUBSET W : old \in [E -> Nat]
  <2>1. CASE m \in D
    <3>1. f[m] \in PartialMaps(W, Nat) /\ old = f[m]
      BY <1>2, <2>1
    <3> QED BY <3>1 DEF PartialMaps
  <2>2. CASE m \notin D
    <3>1. old = NoScores /\ NoScores \in [{} -> Nat] /\ {} \in SUBSET W
      BY <1>2, <2>2 DEF NoScores
    <3> QED BY <3>1
  <2> QED BY <2>1, <2>2
<1>4. new \in PartialMaps(W, Nat)
  <2> HIDE DEF os, old, ws
  <2>1. DOMAIN new = E \cup ToSet(ws) /\ new = [w \in E \cup ToSet(ws) |-> new[w]]
    BY <1>1, <1>3 DEF MaxScores
  <2>2. ASSUME NEW w \in E \cup ToSet(ws)
        PROVE  new[w] \in Nat
    <3>1. get_score(old, w) \in Nat /\ get_score(os, w) \in Nat
      BY <1>1, <1>3 DEF get_score
    <3>2. new[w] = Highest({get_score(old, w), get_score(os, w)})
      BY <1>1, <1>3 DEF MaxScores
    <3> QED BY <3>1, <3>2, HighestOfPair
  <2> HIDE DEF new
  <2>3. new \in [E \cup ToSet(ws) -> Nat] /\ E \cup ToSet(ws) \in SUBSET W
    BY <1>1, <2>1, <2>2
  <2> QED BY <2>3 DEF PartialMaps
<1>5. rf \in PartialMaps(M, PartialMaps(W, Nat))
  <2> HIDE DEF new, f, m
  <2>1. rf \in [D \cup {m} -> PartialMaps(W, Nat)] /\ D \cup {m} \in SUBSET M
    BY <1>2, <1>4 DEF m
  <2> HIDE DEF rf
  <2> QED BY <2>1 DEF PartialMaps
<1>6. Imported(t, line) = IF ws = << >> THEN t ELSE [t EXCEPT !.frequencies = rf]
  BY DEF Imported, Raised
<1> HIDE DEF rf, ws
<1> QED BY <1>5, <1>6

\* The seed after each line, and what is saved.
ImportRun(h, raw, dict) ==
  /\ h[0] = raw
  /\ \A k \in 1..Len(dict) : h[k] = Imported(h[k - 1], dict[k])
  /\ import_from_skk_dict(raw, dict)
       = IF DOMAIN h[Len(dict)].context_frequencies # {} THEN h[Len(dict)]
         ELSE merge_default_presets_raw(h[Len(dict)])

LEMMA ImportSteps ==
  ASSUME NEW raw, IsSeed(raw), NEW S, NEW dict \in Seq(S), \A i \in 1..Len(dict) : IsLine(dict[i])
  PROVE  \E h : ImportRun(h, raw, dict)
<1> DEFINE n == Len(dict)
           M == DOMAIN raw.frequencies \cup {dict[i].midashi : i \in 1..n}
           W == Words \cup UNION {DOMAIN raw.frequencies[m] : m \in DOMAIN raw.frequencies}
           T == [frequencies : PartialMaps(M, PartialMaps(W, Nat)),
                 context_frequencies : {raw.context_frequencies}]
           step == [p \in (1..n) \X T |-> Imported(p[2], dict[p[1]])]
           iter == CHOOSE g : g = [s \in SUBSET DOMAIN dict |->
                     IF s = {} THEN raw ELSE Imported(g[s \ {Max(s)}], dict[Max(s)])]
<1>1. n \in Nat /\ DOMAIN dict = 1..n
  OBVIOUS
<1>2. raw \in T
  <2>1. \A m \in DOMAIN raw.frequencies : raw.frequencies[m] \in PartialMaps(W, Nat)
    <3> SUFFICES ASSUME NEW m \in DOMAIN raw.frequencies
                 PROVE  raw.frequencies[m] \in PartialMaps(W, Nat)
      OBVIOUS
    <3>1. DOMAIN raw.frequencies[m] \in SUBSET W
      OBVIOUS
    <3>2. raw.frequencies[m] \in [DOMAIN raw.frequencies[m] -> Nat]
      BY DEF IsSeed, AreScoreMaps, IsScoreMap, Numbers
    <3> HIDE DEF W
    <3> QED BY <3>1, <3>2 DEF PartialMaps
  <2>2. raw.frequencies \in [DOMAIN raw.frequencies -> PartialMaps(W, Nat)]
    <3> HIDE DEF W
    <3> QED BY <2>1 DEF IsSeed, AreScoreMaps
  <2>3. DOMAIN raw.frequencies \in SUBSET M
    OBVIOUS
  <2> HIDE DEF W, M
  <2>4. raw.frequencies \in PartialMaps(M, PartialMaps(W, Nat))
    BY <2>2, <2>3 DEF PartialMaps
  <2> QED BY <2>4 DEF IsSeed
<1>3. \A k \in 1..n : \A t \in T : Imported(t, dict[k]) \in T
  <2> SUFFICES ASSUME NEW k \in 1..n, NEW t \in T
               PROVE  Imported(t, dict[k]) \in T
    OBVIOUS
  <2>1. IsLine(dict[k]) /\ dict[k].midashi \in M /\ Words \subseteq W
    OBVIOUS
  <2> HIDE DEF M, W
  <2> QED BY <2>1, ImportedType
<1>4. import_from_skk_dict(raw, dict)
        = IF DOMAIN iter[DOMAIN dict].context_frequencies # {} THEN iter[DOMAIN dict]
          ELSE merge_default_presets_raw(iter[DOMAIN dict])
  BY DEF import_from_skk_dict, FoldLeft, MapThenFoldSet, Imported
<1> HIDE DEF T, n
<1>5. step \in [(1..n) \X T -> T]
  BY <1>3
<1>6. \A k \in 1..n : \A t \in T : step[<<k, t>>] = Imported(t, dict[k])
  OBVIOUS
<1> HIDE DEF step
<1>7. PICK f \in [SUBSET (1..n) -> T] : Folds(f, n, raw, step)
  BY <1>1, <1>2, <1>5, FoldExists
<1>8. ASSUME NEW s \in SUBSET (1..n)
      PROVE  f[s] = IF s = {} THEN raw ELSE Imported(f[s \ {Max(s)}], dict[Max(s)])
  <2>1. CASE s = {}
    BY <1>7, <2>1 DEF Folds
  <2>2. CASE s # {}
    <3>1. Max(s) \in 1..n /\ s \ {Max(s)} \in SUBSET (1..n)
      BY <1>1, <2>2, MaxInside
    <3>2. f[s] = step[<<Max(s), f[s \ {Max(s)}]>>]
      BY <1>7, <2>2 DEF Folds
    <3>3. f[s \ {Max(s)}] \in T
      BY <3>1
    <3> QED BY <1>6, <2>2, <3>1, <3>2, <3>3
  <2> QED BY <2>1, <2>2
<1>9. f = [s \in SUBSET DOMAIN dict |->
              IF s = {} THEN raw ELSE Imported(f[s \ {Max(s)}], dict[Max(s)])]
  BY <1>1, <1>8
<1>10. iter = [s \in SUBSET DOMAIN dict |->
                 IF s = {} THEN raw ELSE Imported(iter[s \ {Max(s)}], dict[Max(s)])]
  BY <1>9
<1> HIDE DEF iter
<1> DEFINE h == [k \in 0..n |-> iter[1..k]]
<1>11. h[0] = raw /\ \A k \in 1..n : h[k] = Imported(h[k - 1], dict[k])
  <2>1. 1..0 = {} /\ iter[{}] = raw
    BY <1>10
  <2>2. ASSUME NEW k \in 1..n
        PROVE  iter[1..k] = Imported(iter[1..(k - 1)], dict[k])
    <3>1. 1..k \in SUBSET DOMAIN dict /\ k \in Nat /\ k # 0
      BY <1>1
    <3>2. Max(1..k) = k /\ (1..k) \ {k} = 1..(k - 1) /\ 1..k # {}
      BY <3>1, MaxOfInterval
    <3>3. iter[1..k] = IF 1..k = {} THEN raw
                       ELSE Imported(iter[(1..k) \ {Max(1..k)}], dict[Max(1..k)])
      BY <1>10, <3>1
    <3> QED BY <3>2, <3>3
  <2> QED BY <1>1, <2>1, <2>2
<1>12. h[n] = iter[DOMAIN dict]
  BY <1>1
<1> HIDE DEF h
<1> QED BY <1>4, <1>11, <1>12 DEF n, ImportRun

LEMMA AboveItself ==
  ASSUME NEW t, IsSeed(t)
  PROVE  Above(t, t)
BY DEF Above, IsSeed, AreScoreMaps, IsScoreMap, Numbers

\* What a whole dictionary makes of a seed.
LEMMA ImportOf ==
  ASSUME NEW raw, IsSeed(raw), NEW S, NEW dict \in Seq(S), \A i \in 1..Len(dict) : IsLine(dict[i])
  PROVE  LET t == import_from_skk_dict(raw, dict)
         IN /\ IsSeed(t) /\ Above(t, raw)
            /\ \A i \in 1..Len(dict) : TaughtBy(t, dict[i])
            /\ DOMAIN t.context_frequencies = {} => DOMAIN Presets = {}
<1> DEFINE n == Len(dict)
           Done(t, k) == /\ IsSeed(t) /\ Above(t, raw)
                         /\ \A i \in 1..k : TaughtBy(t, dict[i])
<1>0. PICK h : ImportRun(h, raw, dict)
  BY ImportSteps
<1>1. /\ h[0] = raw
      /\ \A k \in 1..n : h[k] = Imported(h[k - 1], dict[k])
      /\ import_from_skk_dict(raw, dict)
           = IF DOMAIN h[n].context_frequencies # {} THEN h[n]
             ELSE merge_default_presets_raw(h[n])
  BY <1>0 DEF ImportRun
<1> DEFINE Good == {k \in 0..n : Done(h[k], k)}
<1>2. n \in Nat
  OBVIOUS
<1> HIDE DEF n
<1>3. 0 \in Good
  BY <1>1, <1>2, AboveItself
<1>4. ASSUME NEW k \in 1..n, k - 1 \in Good
      PROVE  k \in Good
  <2>1. Done(h[k - 1], k - 1)
    BY <1>4
  <2>2. IsLine(dict[k]) /\ h[k] = Imported(h[k - 1], dict[k])
    BY <1>1 DEF n
  <2>3. IsSeed(h[k]) /\ Above(h[k], h[k - 1]) /\ TaughtBy(h[k], dict[k])
    BY <2>1, <2>2, ImportStep
  <2>4. Above(h[k], raw)
    BY <2>1, <2>3, AboveTransitive
  <2>5. ASSUME NEW i \in 1..k
        PROVE  TaughtBy(h[k], dict[i])
    <3>1. i = k \/ i \in 1..(k - 1)
      BY <1>2
    <3>2. IsLine(dict[i])
      BY <1>2 DEF n
    <3> QED BY <2>1, <2>3, <3>1, <3>2, TaughtStays
  <2> QED BY <1>2, <2>3, <2>4, <2>5
<1> HIDE DEF Good
<1>5. n \in Good
  BY <1>2, <1>3, <1>4, IndexInd
<1>6. Done(h[n], n)
  BY <1>5 DEF Good
<1>7. CASE DOMAIN h[n].context_frequencies # {}
  BY <1>1, <1>6, <1>7 DEF n
<1>8. CASE DOMAIN h[n].context_frequencies = {}
  <2> DEFINE t == import_from_skk_dict(raw, dict)
  <2>1. t = [frequencies |-> h[n].frequencies, context_frequencies |-> Presets]
    BY <1>1, <1>6, <1>8, PresetsMerged DEF IsSeed
  <2> HIDE DEF t
  <2>2. t.frequencies = h[n].frequencies /\ t.context_frequencies = Presets
    BY <2>1
  <2>3. IsSeed(t)
    BY <1>6, <2>1, <2>2, TablesAssumption DEF IsSeed
  <2>4. Above(t, raw)
    BY <1>6, <2>2 DEF Above
  <2>5. \A i \in 1..n : TaughtBy(t, dict[i])
    BY <1>6, <2>2 DEF TaughtBy
  <2> QED BY <2>2, <2>3, <2>4, <2>5 DEF t, n
<1> QED BY <1>7, <1>8

\* A dictionary that has nothing left to teach changes nothing.
LEMMA ImportAgain ==
  ASSUME NEW t, IsSeed(t), NEW S, NEW dict \in Seq(S), \A i \in 1..Len(dict) : IsLine(dict[i]),
         \A i \in 1..Len(dict) : TaughtBy(t, dict[i]),
         DOMAIN t.context_frequencies = {} => DOMAIN Presets = {}
  PROVE  import_from_skk_dict(t, dict) = t
<1> DEFINE n == Len(dict)
<1>0. PICK h : ImportRun(h, t, dict)
  BY ImportSteps
<1>1. /\ h[0] = t
      /\ \A k \in 1..n : h[k] = Imported(h[k - 1], dict[k])
      /\ import_from_skk_dict(t, dict)
           = IF DOMAIN h[n].context_frequencies # {} THEN h[n]
             ELSE merge_default_presets_raw(h[n])
  BY <1>0 DEF ImportRun
<1> DEFINE Same == {k \in 0..n : h[k] = t}
<1>2. n \in Nat
  OBVIOUS
<1>3. 0 \in Same
  BY <1>1, <1>2
<1>4. ASSUME NEW k \in 1..n, k - 1 \in Same
      PROVE  k \in Same
  <2>1. h[k] = Imported(t, dict[k]) /\ IsLine(dict[k]) /\ TaughtBy(t, dict[k])
    BY <1>1, <1>4
  <2>2. h[k] = t
    BY <2>1, ImportStep
  <2> QED BY <1>2, <2>2
<1> HIDE DEF Same
<1>5. 0..n \subseteq Same
  BY <1>2, <1>3, <1>4, IndexInd
<1>6. h[n] = t
  BY <1>2, <1>5 DEF Same
<1>7. CASE DOMAIN t.context_frequencies = {}
  <2>1. t.context_frequencies = Presets
    BY <1>7, TablesAssumption DEF IsSeed, AreScoreMaps
  <2>2. merge_default_presets_raw(t)
          = [frequencies |-> t.frequencies, context_frequencies |-> Presets]
    BY <1>7, PresetsMerged DEF IsSeed
  <2> QED BY <1>1, <1>6, <1>7, <2>1, <2>2 DEF IsSeed
<1> QED BY <1>1, <1>6, <1>7

\* Importing a dictionary that has been imported before changes nothing, whatever
\* the seed held and whatever other dictionary came in between, and no score is
\* ever lowered, for any dictionaries and seeds (import_from_skk_dict).
THEOREM ImportsSettle == Spec => []ImportIsIdempotent
<1>1. InForce => ImportIsIdempotent
  <2> SUFFICES ASSUME InForce, NEW d \in UserDicts, NEW e \in UserDicts
               PROVE  LET once == import_from_skk_dict(import_from_skk_dict(stored, d), e)
                      IN import_from_skk_dict(once, d) = once /\ Above(once, stored)
    BY DEF ImportIsIdempotent, Above
  <2> DEFINE first == import_from_skk_dict(stored, d)
             once  == import_from_skk_dict(first, e)
  <2>1. /\ d \in Seq(ToSet(d)) /\ \A i \in 1..Len(d) : IsLine(d[i])
        /\ e \in Seq(ToSet(e)) /\ \A i \in 1..Len(e) : IsLine(e[i])
    BY UserDictsAssumption
  <2>2. IsSeed(stored)
    BY SeedsAssumption DEF InForce
  <2>3. /\ IsSeed(first) /\ Above(first, stored)
        /\ \A i \in 1..Len(d) : TaughtBy(first, d[i])
    BY <2>1, <2>2, ImportOf
  <2> HIDE DEF first
  <2>4. /\ IsSeed(once) /\ Above(once, first)
        /\ DOMAIN once.context_frequencies = {} => DOMAIN Presets = {}
    BY <2>1, <2>3, ImportOf
  <2> HIDE DEF once
  <2>5. Above(once, stored)
    BY <2>2, <2>3, <2>4, AboveTransitive
  <2>6. \A i \in 1..Len(d) : TaughtBy(once, d[i])
    BY <2>1, <2>3, <2>4, TaughtStays
  <2>7. import_from_skk_dict(once, d) = once
    BY <2>1, <2>4, <2>6, ImportAgain
  <2> QED BY <2>5, <2>7 DEF once, first
<1> QED BY <1>1, InForceAlways, PTL

\* A midashi that only one line has and the seed has not scores as that line
\* orders it.
LEMMA ImportedOrder ==
  ASSUME NEW raw, IsSeed(raw), NEW S, NEW dict \in Seq(S), \A i \in 1..Len(dict) : IsLine(dict[i]),
         NEW l \in 1..Len(dict), dict[l].midashi \notin DOMAIN raw.frequencies,
         \A k \in 1..Len(dict) \ {l} : dict[k].midashi # dict[l].midashi,
         parse_dict_line_candidates(dict[l].cands) # << >>
  PROVE  LET t == import_from_skk_dict(raw, dict)
             m == dict[l].midashi
         IN m \in DOMAIN t.frequencies
            /\ t.frequencies[m] = OrderScores(parse_dict_line_candidates(dict[l].cands))
<1> DEFINE n  == Len(dict)
<1>0. PICK h : ImportRun(h, raw, dict)
  BY ImportSteps
<1>1. /\ h[0] = raw
      /\ \A k \in 1..n : h[k] = Imported(h[k - 1], dict[k])
      /\ import_from_skk_dict(raw, dict)
           = IF DOMAIN h[n].context_frequencies # {} THEN h[n]
             ELSE merge_default_presets_raw(h[n])
  BY <1>0 DEF ImportRun
<1> DEFINE m  == dict[l].midashi
           os == OrderScores(parse_dict_line_candidates(dict[l].cands))
           Done(t, k) == /\ IsSeed(t)
                         /\ k < l => m \notin DOMAIN t.frequencies
                         /\ k >= l => m \in DOMAIN t.frequencies /\ t.frequencies[m] = os
<1> DEFINE Good == {k \in 0..n : Done(h[k], k)}
<1>2. n \in Nat /\ l \in 1..n
  OBVIOUS
<1>3. \A k \in 1..n : IsLine(dict[k]) /\ (k # l => dict[k].midashi # m)
  OBVIOUS
<1> HIDE DEF n
<1>4. 0 \in Good
  BY <1>1, <1>2
<1>5. ASSUME NEW k \in 1..n, k - 1 \in Good
      PROVE  k \in Good
  <2>1. Done(h[k - 1], k - 1) /\ h[k] = Imported(h[k - 1], dict[k]) /\ IsLine(dict[k])
    BY <1>1, <1>3, <1>5
  <2>2. /\ IsSeed(h[k]) /\ Above(h[k], h[k - 1])
        /\ \A j \in DOMAIN h[k].frequencies \ {dict[k].midashi} :
             /\ j \in DOMAIN h[k - 1].frequencies
             /\ h[k].frequencies[j] = h[k - 1].frequencies[j]
    BY <2>1, ImportStep
  <2>3. CASE k = l
    <3>1. m \notin DOMAIN h[k - 1].frequencies
      BY <1>2, <2>1, <2>3
    <3>2. dict[k].midashi = m /\ parse_dict_line_candidates(dict[k].cands) # << >>
      BY <2>3
    <3>3. m \in DOMAIN h[k].frequencies
            /\ h[k].frequencies[m] = OrderScores(parse_dict_line_candidates(dict[k].cands))
      <4>1. IsSeed(h[k - 1])
        BY <2>1
      <4> HIDE DEF m, os, Done
      <4> QED BY <2>1, <3>1, <3>2, <4>1, ImportStep
    <3>4. m \in DOMAIN h[k].frequencies /\ h[k].frequencies[m] = os
      BY <2>3, <3>3
    <3> QED BY <1>2, <2>2, <2>3, <3>4
  <2>4. CASE k < l
    <3>1. m \notin DOMAIN h[k - 1].frequencies /\ dict[k].midashi # m
      BY <1>2, <1>3, <2>1, <2>4
    <3>2. m \notin DOMAIN h[k].frequencies
      BY <2>2, <3>1
    <3> QED BY <1>2, <2>2, <2>4, <3>2
  <2>5. CASE k > l
    <3>1. /\ m \in DOMAIN h[k - 1].frequencies /\ h[k - 1].frequencies[m] = os
          /\ dict[k].midashi # m
      BY <1>2, <1>3, <2>1, <2>5
    <3>2. m \in DOMAIN h[k].frequencies /\ h[k].frequencies[m] = os
      BY <2>2, <3>1 DEF Above
    <3> QED BY <1>2, <2>2, <2>5, <3>2
  <2> QED BY <1>2, <2>3, <2>4, <2>5
<1> HIDE DEF Good
<1>6. n \in Good
  <2>1. 0..n \subseteq Good
    BY <1>2, <1>4, <1>5, IndexInd
  <2> QED BY <1>2, <2>1
<1>7. IsSeed(h[n]) /\ m \in DOMAIN h[n].frequencies /\ h[n].frequencies[m] = os
  BY <1>2, <1>6 DEF Good
<1>8. import_from_skk_dict(raw, dict).frequencies = h[n].frequencies
  BY <1>1, <1>7, PresetsMerged DEF IsSeed
<1> QED BY <1>7, <1>8

\* Aliases change the order of a line only where a word begins another.
LEMMA OrderKept ==
  ASSUME NEW ws \in Seq(Words), \A i, j \in 1..Len(ws) : i # j => ws[i] # ws[j],
         NEW i \in 1..Len(ws), NEW j \in 1..Len(ws), i < j,
         \A k \in 1..i : ws[j] \notin Aliases(ws[k])
  PROVE  LET e == expand_inner_aliases(OrderScores(ws))
         IN /\ Numbers(e) /\ ws[i] \in DOMAIN e /\ ws[j] \in DOMAIN e
            /\ e[ws[i]] > e[ws[j]]
<1> DEFINE n == Len(ws)
           os == OrderScores(ws)
           e == expand_inner_aliases(os)
<1>1. n \in Nat /\ i \in Nat /\ j \in Nat
  OBVIOUS
<1>2. /\ os \in [ToSet(ws) -> Nat] /\ IsFiniteSet(ToSet(ws)) /\ ToSet(ws) \subseteq Words
      /\ \A k \in 1..n : os[ws[k]] = n + 1 - k
  BY PlaceScores
<1>3. \A w : w \in ToSet(ws) <=> \E k \in 1..n : w = ws[k]
  BY DEF ToSet
<1>4. IsScoreMap(os) /\ DOMAIN os = ToSet(ws)
  <2> HIDE DEF os
  <2> QED BY <1>2, TextAssumption DEF IsScoreMap, Numbers
<1> HIDE DEF os
<1>5. Numbers(e) /\ ExpansionOf(e, os)
  BY <1>4, ExpandInner
<1> HIDE DEF e
<1>6. ws[i] \in DOMAIN e /\ e[ws[i]] >= n + 1 - i
  BY <1>2, <1>3, <1>4, <1>5 DEF ExpansionOf, Family
<1>7. ws[j] \in DOMAIN e
  BY <1>3, <1>4, <1>5 DEF ExpansionOf, Family
<1>8. PICK k \in 1..n : ws[j] \in Family(ws[k]) /\ e[ws[j]] = n + 1 - k
  BY <1>2, <1>3, <1>4, <1>5, <1>7 DEF ExpansionOf
<1>9. k > i
  <2>1. CASE k <= i
    <3>1. ws[j] = ws[k] /\ k # j
      BY <1>1, <1>8, <2>1 DEF Family
    <3> QED BY <3>1
  <2> QED BY <1>1, <2>1
<1>10. e[ws[i]] \in Nat /\ e[ws[j]] \in Nat
  BY <1>5, <1>6, <1>7 DEF Numbers
<1> QED BY <1>1, <1>5, <1>6, <1>7, <1>8, <1>9, <1>10 DEF e, os
=============================================================================
