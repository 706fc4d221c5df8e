---------------------------- MODULE RankingProofs ---------------------------
(***************************************************************************)
(* Proofs about lists of candidates (Okuri.tla, Ranking.tla) and about     *)
(* lookups (RankedLookup.tla), for lists of any length, any tables of      *)
(* endings, any scores and any backends: first the order, then what        *)
(* extraction, unpacking and merging make of a list, then the lookups, and *)
(* last how okuri-ari words are spelled.                                   *)
(***************************************************************************)
EXTENDS TableProofs

-----------------------------------------------------------------------------
(* The sort                                                                *)

\* Places by score are places: each candidate has one, of its own.
LEMMA Places ==
  ASSUME NEW n \in Nat, NEW score \in [1..n -> Nat]
  PROVE  LET Ahead(i) == {j \in 1..n : score[j] > score[i] \/ (score[j] = score[i] /\ j < i)}
         IN /\ \A i \in 1..n : 1 + Cardinality(Ahead(i)) \in 1..n
            /\ \A i, j \in 1..n : Cardinality(Ahead(i)) = Cardinality(Ahead(j)) => i = j
<1> DEFINE Ahead(i) == {j \in 1..n : score[j] > score[i] \/ (score[j] = score[i] /\ j < i)}
<1>1. IsFiniteSet(1..n) /\ Cardinality(1..n) = n
  BY FS_Interval
<1>2. ASSUME NEW i \in 1..n
      PROVE  /\ IsFiniteSet(Ahead(i)) /\ Cardinality(Ahead(i)) \in Nat
             /\ 1 + Cardinality(Ahead(i)) \in 1..n
  <2>1. IsFiniteSet((1..n) \ {i}) /\ Cardinality((1..n) \ {i}) = n - 1
    BY <1>1, FS_RemoveElement
  <2>2. Ahead(i) \in SUBSET ((1..n) \ {i})
    OBVIOUS
  <2> HIDE DEF Ahead
  <2>3. IsFiniteSet(Ahead(i)) /\ Cardinality(Ahead(i)) <= n - 1
    BY <2>1, <2>2, FS_Subset
  <2>4. Cardinality(Ahead(i)) \in Nat
    BY <2>3, FS_CardinalityType
  <2> QED BY <2>3, <2>4
<1>3. ASSUME NEW i \in 1..n, NEW j \in 1..n, i \in Ahead(j)
      PROVE  Cardinality(Ahead(i)) # Cardinality(Ahead(j))
  <2>1. /\ score[i] \in Nat /\ score[j] \in Nat
        /\ score[i] > score[j] \/ (score[i] = score[j] /\ i < j)
    BY <1>3
  <2>2. ASSUME NEW k \in Ahead(i)
        PROVE  k \in Ahead(j)
    <3>1. /\ k \in 1..n /\ score[k] \in Nat
          /\ score[k] > score[i] \/ (score[k] = score[i] /\ k < i)
      BY <2>2
    <3>2. score[k] > score[j] \/ (score[k] = score[j] /\ k < j)
      BY <2>1, <3>1
    <3> QED BY <3>1, <3>2
  <2>3. i \notin Ahead(i)
    BY <2>1
  <2>4. Ahead(i) \in SUBSET Ahead(j) /\ Ahead(i) # Ahead(j)
    BY <1>3, <2>2, <2>3
  <2> HIDE DEF Ahead
  <2> QED BY <1>2, <2>4, FS_Subset
<1>4. ASSUME NEW i \in 1..n, NEW j \in 1..n, i # j
      PROVE  i \in Ahead(j) \/ j \in Ahead(i)
  <2>1. score[i] \in Nat /\ score[j] \in Nat
    OBVIOUS
  <2>2. \/ score[i] > score[j] \/ (score[i] = score[j] /\ i < j)
        \/ score[j] > score[i] \/ (score[j] = score[i] /\ j < i)
    BY <1>4, <2>1
  <2> QED BY <2>2
<1> HIDE DEF Ahead
<1>5. /\ \A i \in 1..n : 1 + Cardinality(Ahead(i)) \in 1..n
      /\ \A i, j \in 1..n : Cardinality(Ahead(i)) = Cardinality(Ahead(j)) => i = j
  BY <1>2, <1>3, <1>4
<1> QED BY <1>5 DEF Ahead

\* The sort is stable, and loses and doubles nothing.
THEOREM SortIsRanking ==
  ASSUME NEW S, NEW cs \in Seq(S), NEW score \in [DOMAIN cs -> Nat]
  PROVE  IsRanking(Sorted(cs, score), cs, score)
<1> DEFINE n == Len(cs)
           Ahead(i) == {j \in 1..n : score[j] > score[i] \/ (score[j] = score[i] /\ j < i)}
           Place(i) == 1 + Cardinality(Ahead(i))
           At(k) == CHOOSE j \in 1..n : Place(j) = k
<1>1. n \in Nat /\ DOMAIN cs = 1..n /\ score \in [1..n -> Nat]
  OBVIOUS
<1>2. /\ \A i \in 1..n : Place(i) \in 1..n
      /\ \A i, j \in 1..n : Cardinality(Ahead(i)) = Cardinality(Ahead(j)) => i = j
  BY <1>1, Places
<1>3. \A i \in 1..n : Cardinality(Ahead(i)) \in Nat
  <2> SUFFICES ASSUME NEW i \in 1..n
               PROVE  Cardinality(Ahead(i)) \in Nat
    OBVIOUS
  <2>1. Ahead(i) \in SUBSET (1..n) /\ IsFiniteSet(1..n)
    BY <1>1, FS_Interval
  <2> HIDE DEF Ahead
  <2> QED BY <2>1, FS_Subset, FS_CardinalityType
<1>4. Sorted(cs, score) = [k \in 1..n |-> cs[At(k)]]
  BY <1>1 DEF Sorted
<1> HIDE DEF Ahead
<1>5. \A i \in 1..n : At(Place(i)) = i
  <2> SUFFICES ASSUME NEW i \in 1..n
               PROVE  At(Place(i)) = i
    OBVIOUS
  <2>1. At(Place(i)) \in 1..n /\ Place(At(Place(i))) = Place(i)
    OBVIOUS
  <2>2. Cardinality(Ahead(At(Place(i)))) = Cardinality(Ahead(i))
    BY <1>3, <2>1
  <2> QED BY <1>2, <2>1, <2>2
<1>6. \A i \in 1..n : Place(i) \in 1..n /\ Sorted(cs, score)[Place(i)] = cs[i]
  BY <1>2, <1>4, <1>5
<1>7. Len(Sorted(cs, score)) = n
  <2> HIDE DEF At
  <2>1. Sorted(cs, score) \in Seq({cs[At(k)] : k \in 1..n}) /\ DOMAIN Sorted(cs, score) = 1..n
    BY <1>1, <1>4
  <2> QED BY <1>1, <2>1
<1> QED BY <1>1, <1>6, <1>7 DEF IsRanking, Ahead

\* Equal scores leave a list as it is.
LEMMA SameScores ==
  ASSUME NEW S, NEW cs \in Seq(S), NEW score \in [DOMAIN cs -> Nat],
         \A i, j \in DOMAIN cs : score[i] = score[j]
  PROVE  IsRanking(cs, cs, score)
<1> SUFFICES ASSUME NEW i \in DOMAIN cs
             PROVE  cs[1 + Cardinality({j \in DOMAIN cs : score[j] > score[i]
                                           \/ (score[j] = score[i] /\ j < i)})] = cs[i]
  BY DEF IsRanking
<1>1. i \in Nat \ {0} /\ DOMAIN cs = 1..Len(cs) /\ Len(cs) \in Nat
  OBVIOUS
<1>2. \A j \in DOMAIN cs : score[j] \in Nat /\ score[j] = score[i]
  OBVIOUS
<1> DEFINE ahead == {j \in DOMAIN cs : score[j] > score[i] \/ (score[j] = score[i] /\ j < i)}
           k == i - 1
<1>3. ahead = 1..k /\ k \in Nat /\ 1 + k = i
  BY <1>1, <1>2
<1> HIDE DEF ahead, k
<1>4. Cardinality(1..k) = k
  BY <1>3, FS_Interval
<1>5. cs[1 + Cardinality(ahead)] = cs[i]
  BY <1>3, <1>4
<1> QED BY <1>5 DEF ahead

-----------------------------------------------------------------------------
(* Scores                                                                  *)

LEMMA GetScore ==
  ASSUME NEW map, Numbers(map), NEW w
  PROVE  /\ get_score(map, w) \in Nat
         /\ DOMAIN map = {} => get_score(map, w) = 0
BY DEF Numbers, get_score

LEMMA NoScoresNumbers == Numbers(NoScores) /\ DOMAIN NoScores = {}
BY DEF Numbers, NoScores

LEMMA MapsAreNumbers ==
  ASSUME NEW t, AreScores(t), NEW c, NEW m
  PROVE  /\ Numbers(get_freq_map(t, m)) /\ Numbers(get_context_map(t, c))
         /\ ~has_context(t, c) => DOMAIN get_context_map(t, c) = {}
<1>1. Numbers(get_freq_map(t, m))
  <2>1. CASE m \in DOMAIN t.frequencies
    BY <2>1 DEF AreScores, get_freq_map
  <2>2. CASE m \notin DOMAIN t.frequencies /\ Lower(m) \in DOMAIN t.frequencies
    BY <2>2 DEF AreScores, get_freq_map
  <2>3. CASE m \notin DOMAIN t.frequencies /\ Lower(m) \notin DOMAIN t.frequencies
    <3>1. get_freq_map(t, m) = NoScores
      BY <2>3 DEF get_freq_map
    <3> QED BY <3>1, NoScoresNumbers
  <2> QED BY <2>1, <2>2, <2>3
<1>2. Numbers(get_context_map(t, c)) /\ (~has_context(t, c) => DOMAIN get_context_map(t, c) = {})
  BY NoScoresNumbers DEF AreScores, get_context_map, has_context
<1> QED BY <1>1, <1>2

LEMMA ScoreBounds ==
  ASSUME NEW t, AreScores(t), NEW c, NEW m, NEW annotation_priority, NEW cand
  PROVE  /\ Score(t, c, m, annotation_priority, cand) \in Nat
         /\ ~annotation_priority /\ ~has_freq(t, m) /\ ~has_context(t, c) =>
              Score(t, c, m, annotation_priority, cand) = 0
<1> DEFINE w == clean_candidate(cand)
           freq == get_score(get_freq_map(t, m), w)
           context == get_score(get_context_map(t, c), w)
           bonus == IF annotation_priority /\ is_annotated_or_in_dict(cand, m)
                    THEN AnnotationBonus ELSE 0
<1>1. Numbers(get_freq_map(t, m)) /\ Numbers(get_context_map(t, c))
      /\ (~has_context(t, c) => DOMAIN get_context_map(t, c) = {})
  BY MapsAreNumbers
<1>2. freq \in Nat /\ context \in Nat
  BY <1>1, GetScore
<1>3. bonus \in Nat /\ (~annotation_priority => bonus = 0)
  BY DEF AnnotationBonus
<1>4. (~has_freq(t, m) => freq = 0) /\ (~has_context(t, c) => context = 0)
  BY <1>1, GetScore DEF has_freq
<1>5. Score(t, c, m, annotation_priority, cand) = bonus + freq + context * 10
  BY DEF Score
<1> HIDE DEF freq, context, bonus
<1> QED BY <1>2, <1>3, <1>4, <1>5

LEMMA ScoresType ==
  ASSUME NEW t, AreScores(t), NEW c, NEW m, NEW annotation_priority, NEW cs
  PROVE  Scores(t, c, m, annotation_priority, cs) \in [DOMAIN cs -> Nat]
BY ScoreBounds DEF Scores

\* The early returns of rank_candidates_borrowed are no exception to its order.
THEOREM RankIsRanking ==
  ASSUME NEW t, AreScores(t), NEW c, NEW m, NEW S, NEW cs \in Seq(S), NEW annotation_priority
  PROVE  IsRanking(rank_candidates_borrowed(t, c, m, cs, annotation_priority), cs,
                   Scores(t, c, m, annotation_priority, cs))
<1> DEFINE score == Scores(t, c, m, annotation_priority, cs)
<1>1. score \in [DOMAIN cs -> Nat]
  BY ScoresType
<1>2. ASSUME \/ Len(cs) <= 1
             \/ ~has_freq(t, m) /\ ~has_context(t, c) /\ ~annotation_priority
             \/ \A i \in DOMAIN cs : score[i] = 0
      PROVE  /\ rank_candidates_borrowed(t, c, m, cs, annotation_priority) = cs
             /\ \A i, j \in DOMAIN cs : score[i] = score[j]
  <2>1. rank_candidates_borrowed(t, c, m, cs, annotation_priority) = cs
    BY <1>2 DEF rank_candidates_borrowed
  <2>2. CASE Len(cs) <= 1
    <3>1. \A i, j \in DOMAIN cs : i = j
      BY <2>2
    <3> HIDE DEF score
    <3> QED BY <2>1, <3>1
  <2>3. CASE ~has_freq(t, m) /\ ~has_context(t, c) /\ ~annotation_priority
    <3>1. \A i \in DOMAIN cs : score[i] = 0
      BY <2>3, ScoreBounds DEF Scores
    <3> HIDE DEF score
    <3> QED BY <2>1, <3>1
  <2>4. CASE \A i \in DOMAIN cs : score[i] = 0
    <3> HIDE DEF score
    <3> QED BY <2>1, <2>4
  <2> QED BY <1>2, <2>2, <2>3, <2>4
<1>3. ASSUME ~(\/ Len(cs) <= 1
               \/ ~has_freq(t, m) /\ ~has_context(t, c) /\ ~annotation_priority
               \/ \A i \in DOMAIN cs : score[i] = 0)
      PROVE  rank_candidates_borrowed(t, c, m, cs, annotation_priority) = Sorted(cs, score)
  BY <1>3 DEF rank_candidates_borrowed
<1> HIDE DEF score
<1>4. IsRanking(rank_candidates_borrowed(t, c, m, cs, annotation_priority), cs, score)
  BY <1>1, <1>2, <1>3, SameScores, SortIsRanking
<1> QED BY <1>4 DEF score

\* What handle_client passes on without ranking it is in order already.
THEOREM FastPathIsRanking ==
  ASSUME NEW t, AreScores(t), NEW c, NEW m, NEW r \in Responses, NEW annotation_priority,
         r.found, r.closed,
         ~(has_multiple_candidates(r) /\ (annotation_priority \/ should_rank(t, c, m)))
  PROVE  IsRanking(r.cands, r.cands, Scores(t, c, m, annotation_priority, r.cands))
<1> DEFINE cs == r.cands
           score == Scores(t, c, m, annotation_priority, cs)
<1>1. cs \in Seq(Candidates)
  BY DEF Responses
<1>2. score \in [DOMAIN cs -> Nat]
  BY ScoresType
<1>3. \A i, j \in DOMAIN cs : score[i] = score[j]
  <2>1. CASE ~has_multiple_candidates(r)
    <3>1. Len(cs) < 2
      BY <2>1 DEF has_multiple_candidates
    <3>2. \A i, j \in DOMAIN cs : i = j
      BY <1>1, <3>1
    <3> HIDE DEF score
    <3> QED BY <3>2
  <2>2. CASE ~annotation_priority /\ ~should_rank(t, c, m)
    <3>1. \A i \in DOMAIN cs : score[i] = 0
      BY <2>2, ScoreBounds DEF Scores, should_rank
    <3> HIDE DEF score
    <3> QED BY <3>1
  <2> QED BY <2>1, <2>2
<1> HIDE DEF score
<1>4. IsRanking(cs, cs, score)
  BY <1>1, <1>2, <1>3, SameScores
<1> QED BY <1>4 DEF score

-----------------------------------------------------------------------------
(* The user's order                                                        *)

\* Of two candidates the one that scores higher comes first.
LEMMA TwoRanked ==
  ASSUME NEW t, AreScores(t), NEW c, NEW m, NEW a, NEW b, NEW ap,
         Score(t, c, m, ap, b) > Score(t, c, m, ap, a)
  PROVE  rank_candidates_borrowed(t, c, m, <<a, b>>, ap) = <<b, a>>
<1> DEFINE cs == <<a, b>>
           score == Scores(t, c, m, ap, cs)
           out == rank_candidates_borrowed(t, c, m, cs, ap)
<1>1. /\ cs \in Seq({a, b}) /\ DOMAIN cs = 1..2 /\ Len(cs) = 2
      /\ cs[1] = a /\ cs[2] = b
  OBVIOUS
<1> HIDE DEF cs
<1>2. score[1] = Score(t, c, m, ap, a) /\ score[2] = Score(t, c, m, ap, b)
  BY <1>1 DEF Scores
<1>3. score[1] \in Nat /\ score[2] \in Nat
  BY <1>2, ScoreBounds
<1>4. out = Sorted(cs, score)
  <2>1. score[2] # 0
    <3> HIDE DEF score
    <3> QED BY <1>2, <1>3
  <2>2. has_freq(t, m) \/ has_context(t, c) \/ ap
    BY <1>2, <2>1, ScoreBounds
  <2>3. ~(Len(cs) <= 1) /\ 2 \in DOMAIN cs
    BY <1>1
  <2> QED BY <2>1, <2>2, <2>3 DEF rank_candidates_borrowed
<1>5. out = [k \in 1..2 |-> out[k]]
  BY <1>1, <1>4 DEF Sorted
<1>6. IsRanking(out, cs, score)
  BY <1>1, RankIsRanking
<1> HIDE DEF out, score
<1>7. out[2] = a
  <2> DEFINE ahead == {k \in 1..2 : score[k] > score[1] \/ (score[k] = score[1] /\ k < 1)}
  <2>1. ahead = {2}
    <3>1. \A k \in 1..2 : k = 1 \/ k = 2
      OBVIOUS
    <3>2. score[2] > score[1] /\ ~(score[1] > score[1])
      BY <1>2, <1>3
    <3> QED BY <3>1, <3>2
  <2>2. out[1 + Cardinality(ahead)] = cs[1]
    BY <1>1, <1>6 DEF IsRanking
  <2>3. 1 + Cardinality(ahead) = 2
    BY <2>1, FS_Singleton
  <2> HIDE DEF ahead
  <2> QED BY <1>1, <2>2, <2>3
<1>8. out[1] = b
  <2> DEFINE ahead == {k \in 1..2 : score[k] > score[2] \/ (score[k] = score[2] /\ k < 2)}
  <2>1. ahead = {}
    <3>1. \A k \in 1..2 : k = 1 \/ k = 2
      OBVIOUS
    <3>2. ~(score[1] > score[2]) /\ score[1] # score[2] /\ ~(score[2] > score[2])
      BY <1>2, <1>3
    <3> QED BY <3>1, <3>2
  <2>2. out[1 + Cardinality(ahead)] = cs[2]
    BY <1>1, <1>6 DEF IsRanking
  <2>3. 1 + Cardinality(ahead) = 1
    BY <2>1, FS_EmptySet
  <2> HIDE DEF ahead
  <2> QED BY <1>1, <2>2, <2>3
<1>9. out = <<b, a>>
  BY <1>5, <1>7, <1>8
<1> QED BY <1>9 DEF out, cs

LEMMA LoadedScores ==
  ASSUME NEW t, Loaded(t)
  PROVE  AreScores(t)
BY DEF Loaded, AreScores

\* The tables without frequencies.
Unlearned(t) == [t EXCEPT !.frequencies = NoScores]

LEMMA LearnedScore ==
  ASSUME NEW t, Loaded(t), NEW c, NEW m, NEW ap, NEW cand
  PROVE  /\ Score(Unlearned(t), c, m, ap, cand) \in Nat
         /\ Score(t, c, m, ap, cand)
              = Score(Unlearned(t), c, m, ap, cand)
                + get_score(get_freq_map(t, m), clean_candidate(cand))
<1> DEFINE w == clean_candidate(cand)
           u == Unlearned(t)
           freq == get_score(get_freq_map(t, m), w)
           none == get_score(get_freq_map(u, m), w)
           context == get_score(get_context_map(t, c), w)
           bonus == IF ap /\ is_annotated_or_in_dict(cand, m) THEN AnnotationBonus ELSE 0
<1>1. AreScores(t)
  BY LoadedScores
<1>2. u.frequencies = NoScores /\ u.context_frequencies = t.context_frequencies
  BY DEF Unlearned, Loaded
<1>3. get_freq_map(u, m) = NoScores /\ get_context_map(u, c) = get_context_map(t, c)
  <2>1. m \notin DOMAIN NoScores /\ Lower(m) \notin DOMAIN NoScores
    BY NoScoresNumbers
  <2> HIDE DEF u
  <2>2. get_freq_map(u, m) = NoScores
    BY <1>2, <2>1, Zenon DEF get_freq_map
  <2> QED BY <1>2, <2>2 DEF get_context_map
<1>4. freq \in Nat /\ context \in Nat /\ none = 0
  <2>1. Numbers(get_freq_map(t, m)) /\ Numbers(get_context_map(t, c))
    BY <1>1, MapsAreNumbers
  <2> HIDE DEF u
  <2> QED BY <1>3, <2>1, GetScore, NoScoresNumbers
<1>5. bonus \in Nat
  BY DEF AnnotationBonus
<1>6. Score(t, c, m, ap, cand) = bonus + freq + context * 10
  BY DEF Score
<1>7. Score(u, c, m, ap, cand) = bonus + none + context * 10
  <2> HIDE DEF u
  <2> QED BY <1>3 DEF Score
<1> HIDE DEF freq, none, context, bonus, w
<1>8. Score(u, c, m, ap, cand) \in Nat /\ Score(t, c, m, ap, cand) = Score(u, c, m, ap, cand) + freq
  <2> HIDE DEF u
  <2> QED BY <1>4, <1>5, <1>6, <1>7
<1> QED BY <1>8 DEF u, freq, w

\* A midashi the seed says nothing of is served in the order of the user's
\* dictionary once that is imported, but for words that begin others and where no
\* more speaks for the later one, a note, an entry in the dictionary or the
\* context; for any seed, dictionaries, context and options (import_from_skk_dict,
\* expand_aliases and rank_candidates_borrowed).
THEOREM UserOrderIsServed == Spec => []UserOrderServed
<1>1. InForce => UserOrderServed
  <2> SUFFICES ASSUME InForce, NEW s \in Sessions, NEW d \in UserDicts, NEW l \in DOMAIN d,
                      d[l].midashi \notin DOMAIN stored.frequencies,
                      \A k \in DOMAIN d \ {l} : d[k].midashi # d[l].midashi
               PROVE  InOrder(Served(import_from_skk_dict(stored, d)), d[l],
                              asked[s].context, switches.annotation_priority)
    BY DEF UserOrderServed
  <2> DEFINE m  == d[l].midashi
             ws == parse_dict_line_candidates(d[l].cands)
             raw == import_from_skk_dict(stored, d)
             t  == Served(raw)
  <2>1. d \in Seq(ToSet(d)) /\ (\A i \in 1..Len(d) : IsLine(d[i])) /\ DOMAIN d = 1..Len(d)
    BY UserDictsAssumption
  <2>2. ws \in Seq(Words) /\ \A i, j \in 1..Len(ws) : i # j => ws[i] # ws[j]
    BY <2>1, ParsedWords DEF IsLine
  <2>3. IsSeed(stored)
    BY SeedsAssumption DEF InForce
  <2>4. IsSeed(raw)
    BY <2>1, <2>3, ImportOf
  <2>5. ws # << >> => m \in DOMAIN raw.frequencies /\ raw.frequencies[m] = OrderScores(ws)
    BY <2>1, <2>3, ImportedOrder
  <2> HIDE DEF raw, ws, m
  <2>6. /\ Loaded(t)
        /\ t.frequencies = [k \in DOMAIN raw.frequencies |->
                              expand_inner_aliases(raw.frequencies[k])]
    BY <2>4, ServedIsLoaded
  <2> HIDE DEF t
  <2>7. ASSUME NEW i \in DOMAIN ws, NEW j \in DOMAIN ws, i < j,
               \A k \in 1..i : ws[j] \notin Aliases(ws[k]),
               NEW c, NEW ap, NEW na \in BOOLEAN, NEW nb \in BOOLEAN,
               Score(Unlearned(t), c, m, ap, [Plain(ws[i]) EXCEPT !.note = na])
                 >= Score(Unlearned(t), c, m, ap, [Plain(ws[j]) EXCEPT !.note = nb])
        PROVE  rank_candidates_borrowed(t, c, m,
                 <<[Plain(ws[j]) EXCEPT !.note = nb], [Plain(ws[i]) EXCEPT !.note = na]>>, ap)
                 = <<[Plain(ws[i]) EXCEPT !.note = na], [Plain(ws[j]) EXCEPT !.note = nb]>>
    <3> DEFINE e == expand_inner_aliases(OrderScores(ws))
               a == [Plain(ws[i]) EXCEPT !.note = na]
               b == [Plain(ws[j]) EXCEPT !.note = nb]
    <3>1. i \in 1..Len(ws) /\ j \in 1..Len(ws) /\ ws # << >>
      BY <2>2
    <3>2. /\ Numbers(e) /\ ws[i] \in DOMAIN e /\ ws[j] \in DOMAIN e
          /\ e[ws[i]] > e[ws[j]]
      BY <2>2, <2>7, <3>1, OrderKept
    <3>3. get_freq_map(t, m) = e
      BY <2>5, <2>6, <3>1 DEF get_freq_map
    <3>4. clean_candidate(a) = ws[i] /\ clean_candidate(b) = ws[j]
      BY DEF clean_candidate, Plain
    <3>5. /\ Score(Unlearned(t), c, m, ap, a) \in Nat /\ Score(Unlearned(t), c, m, ap, b) \in Nat
          /\ Score(t, c, m, ap, a)
               = Score(Unlearned(t), c, m, ap, a) + get_score(get_freq_map(t, m), clean_candidate(a))
          /\ Score(t, c, m, ap, b)
               = Score(Unlearned(t), c, m, ap, b) + get_score(get_freq_map(t, m), clean_candidate(b))
      BY <2>6, LearnedScore
    <3>6. Score(Unlearned(t), c, m, ap, a) >= Score(Unlearned(t), c, m, ap, b)
      BY <2>7
    <3> HIDE DEF e, a, b
    <3>7. /\ get_score(get_freq_map(t, m), clean_candidate(a)) = e[ws[i]]
          /\ get_score(get_freq_map(t, m), clean_candidate(b)) = e[ws[j]]
          /\ e[ws[i]] \in Nat /\ e[ws[j]] \in Nat
      BY <3>2, <3>3, <3>4 DEF get_score, Numbers
    <3>8. Score(t, c, m, ap, a) > Score(t, c, m, ap, b)
      BY <3>2, <3>5, <3>6, <3>7
    <3>9. rank_candidates_borrowed(t, c, m, <<b, a>>, ap) = <<a, b>>
      BY <2>6, <3>8, LoadedScores, TwoRanked
    <3> QED BY <3>9 DEF a, b
  <2>8. InOrder(t, d[l], asked[s].context, switches.annotation_priority)
    BY <2>7 DEF InOrder, Unlearned, ws, m
  <2> QED BY <2>8 DEF t, raw
<1> QED BY <1>1, InForceAlways, PTL

-----------------------------------------------------------------------------
(* Lists without repetition                                                *)

Once(list) == \A i, j \in 1..Len(list) : i # j => list[i] # list[j]

PushAll(list, xs) == FoldLeft(PushNew, list, xs)

LEMMA PushNewOf ==
  ASSUME NEW S, NEW list \in Seq(S), NEW x \in S
  PROVE  /\ PushNew(list, x) \in Seq(S) /\ ToSet(PushNew(list, x)) = ToSet(list) \cup {x}
         /\ Once(list) => Once(PushNew(list, x))
<1>1. CASE Contains(list, x)
  BY <1>1 DEF PushNew, Contains, ToSet
<1>2. CASE ~Contains(list, x)
  <2>1. /\ PushNew(list, x) \in Seq(S) /\ Len(PushNew(list, x)) = Len(list) + 1
        /\ \A i \in 1..Len(list) : PushNew(list, x)[i] = list[i]
        /\ PushNew(list, x)[Len(list) + 1] = x
    BY <1>2, AppendProperties DEF PushNew
  <2>2. \A i \in 1..Len(list) + 1 : i \in 1..Len(list) \/ i = Len(list) + 1
    OBVIOUS
  <2>3. \A i \in 1..Len(list) : list[i] # x
    BY <1>2 DEF Contains
  <2>4. ToSet(PushNew(list, x)) = ToSet(list) \cup {x}
    <3>1. DOMAIN PushNew(list, x) = 1..Len(list) + 1 /\ DOMAIN list = 1..Len(list)
      BY <2>1
    <3> QED BY <2>1, <2>2, <3>1 DEF ToSet
  <2> QED BY <2>1, <2>2, <2>3, <2>4 DEF Once
<1> QED BY <1>1, <1>2

LEMMA PushSteps ==
  ASSUME NEW S, NEW list \in Seq(S), NEW xs \in Seq(S)
  PROVE  \E h : /\ h[0] = list
                /\ \A k \in 1..Len(xs) : h[k] = PushNew(h[k - 1], xs[k])
                /\ PushAll(list, xs) = h[Len(xs)]
<1> DEFINE n == Len(xs)
           T == Seq(S)
           step == [p \in (1..n) \X T |-> PushNew(p[2], xs[p[1]])]
           iter == CHOOSE g : g = [s \in SUBSET DOMAIN xs |->
                     IF s = {} THEN list ELSE PushNew(g[s \ {Max(s)}], xs[Max(s)])]
<1>1. n \in Nat /\ DOMAIN xs = 1..n
  OBVIOUS
<1>2. step \in [(1..n) \X T -> T]
  <2>1. \A k \in 1..n : \A t \in T : PushNew(t, xs[k]) \in T
    BY PushNewOf
  <2> QED BY <2>1
<1>3. PushAll(list, xs) = iter[DOMAIN xs]
  BY DEF PushAll, FoldLeft, MapThenFoldSet, PushNew
<1>4. \A k \in 1..n : \A t \in T : step[<<k, t>>] = PushNew(t, xs[k])
  OBVIOUS
<1>0. list \in T
  OBVIOUS
<1> HIDE DEF n, step, T, iter
<1>5. PICK f \in [SUBSET (1..n) -> T] : Folds(f, n, list, step)
  BY <1>0, <1>1, <1>2, FoldExists
<1>6. ASSUME NEW s \in SUBSET (1..n)
      PROVE  f[s] = IF s = {} THEN list ELSE PushNew(f[s \ {Max(s)}], xs[Max(s)])
  <2>1. CASE s = {}
    BY <1>5, <2>1 DEF Folds
  <2>2. CASE s # {}
    <3>1. Max(s) \in 1..n /\ s \ {Max(s)} \in SUBSET (1..n)
      BY <1>1, <2>2, MaxInside
    <3>2. f[s] = step[<<Max(s), f[s \ {Max(s)}]>>]
      BY <1>5, <2>2 DEF Folds
    <3>3. f[s \ {Max(s)}] \in T
      BY <3>1
    <3> QED BY <1>4, <2>2, <3>1, <3>2, <3>3
  <2> QED BY <2>1, <2>2
<1>7. f = [s \in SUBSET DOMAIN xs |->
             IF s = {} THEN list ELSE PushNew(f[s \ {Max(s)}], xs[Max(s)])]
  BY <1>1, <1>6
<1>8. iter = [s \in SUBSET DOMAIN xs |->
                IF s = {} THEN list ELSE PushNew(iter[s \ {Max(s)}], xs[Max(s)])]
  BY <1>7 DEF iter
<1> DEFINE h == [k \in 0..n |-> iter[1..k]]
<1>9. iter[1..0] = list /\ 1..0 = {}
  BY <1>8
<1>10. ASSUME NEW k \in 1..n
       PROVE  iter[1..k] = PushNew(iter[1..(k - 1)], xs[k])
  <2>1. 1..k \in SUBSET DOMAIN xs /\ k \in Nat /\ k # 0
    BY <1>1
  <2>2. Max(1..k) = k /\ (1..k) \ {k} = 1..(k - 1) /\ 1..k # {}
    BY <2>1, MaxOfInterval
  <2> QED BY <1>8, <2>1, <2>2
<1>11. /\ h[0] = list
       /\ \A k \in 1..n : h[k] = PushNew(h[k - 1], xs[k])
       /\ PushAll(list, xs) = h[n]
  BY <1>1, <1>3, <1>9, <1>10
<1> HIDE DEF h
<1> QED BY <1>11 DEF n

\* What is pushed is there afterwards, and nothing is there twice.
LEMMA PushedAll ==
  ASSUME NEW S, NEW list \in Seq(S), NEW xs \in Seq(S)
  PROVE  /\ PushAll(list, xs) \in Seq(S)
         /\ ToSet(PushAll(list, xs)) = ToSet(list) \cup ToSet(xs)
         /\ Once(list) => Once(PushAll(list, xs))
<1> DEFINE n == Len(xs)
<1>1. PICK h : /\ h[0] = list
               /\ \A k \in 1..n : h[k] = PushNew(h[k - 1], xs[k])
               /\ PushAll(list, xs) = h[n]
  BY PushSteps
<1> DEFINE Good == {k \in 0..n : /\ h[k] \in Seq(S)
                                 /\ ToSet(h[k]) = ToSet(list) \cup {xs[i] : i \in 1..k}
                                 /\ Once(list) => Once(h[k])}
<1>2. n \in Nat /\ ToSet(xs) = {xs[i] : i \in 1..n} /\ \A i \in 1..n : xs[i] \in S
  BY DEF ToSet
<1> HIDE DEF n
<1>3. 0 \in Good
  BY <1>1, <1>2
<1>4. ASSUME NEW k \in 1..n, k - 1 \in Good
      PROVE  k \in Good
  <2>1. /\ h[k - 1] \in Seq(S) /\ h[k] = PushNew(h[k - 1], xs[k]) /\ xs[k] \in S
        /\ ToSet(h[k - 1]) = ToSet(list) \cup {xs[i] : i \in 1..k - 1}
        /\ Once(list) => Once(h[k - 1])
    BY <1>1, <1>2, <1>4
  <2>2. \A g \in Seq(S), x \in S :
          /\ PushNew(g, x) \in Seq(S) /\ ToSet(PushNew(g, x)) = ToSet(g) \cup {x}
          /\ Once(g) => Once(PushNew(g, x))
    BY PushNewOf
  <2>3. \A i : i \in 1..k <=> i \in 1..k - 1 \/ i = k
    BY <1>2
  <2>4. {xs[i] : i \in 1..k} = {xs[i] : i \in 1..k - 1} \cup {xs[k]}
    BY <2>3
  <2>5. /\ h[k] \in Seq(S) /\ ToSet(h[k]) = ToSet(h[k - 1]) \cup {xs[k]}
        /\ Once(h[k - 1]) => Once(h[k])
    BY <2>1, <2>2
  <2>6. ToSet(h[k]) = ToSet(list) \cup {xs[i] : i \in 1..k}
    BY <2>1, <2>4, <2>5
  <2>7. Once(list) => Once(h[k])
    BY <2>1, <2>5
  <2> QED BY <1>2, <2>5, <2>6, <2>7
<1> HIDE DEF Good
<1>5. n \in Good
  <2>1. 0..n \subseteq Good
    BY <1>2, <1>3, <1>4, IndexInd
  <2> QED BY <1>2, <2>1
<1> QED BY <1>1, <1>2, <1>5 DEF Good

-----------------------------------------------------------------------------
(* Endings                                                                 *)

\* A list is determined by its length and its elements.
LEMMA SameList ==
  ASSUME NEW S, NEW s \in Seq(S), NEW t \in Seq(S), Len(s) = Len(t),
         \A i \in 1..Len(s) : s[i] = t[i]
  PROVE  s = t
OBVIOUS

LEMMA Reversed ==
  ASSUME NEW S, NEW s \in Seq(S)
  PROVE  /\ Reverse(s) \in Seq(S) /\ Len(Reverse(s)) = Len(s)
         /\ \A i \in 1..Len(s) : Reverse(s)[i] = s[Len(s) - i + 1]
<1>1. \A i \in 1..Len(s) : (Len(s) - i) + 1 \in 1..Len(s)
  OBVIOUS
<1>2. Reverse(s) = [i \in 1..Len(s) |-> s[(Len(s) - i) + 1]]
  BY DEF Reverse
<1> QED BY <1>1, <1>2

\* The last characters of a text are those of its ending.
LEMMA SuffixIs ==
  ASSUME NEW S, NEW w \in Seq(S), NEW e \in Seq(S)
  PROVE  IsSuffix(e, w) <=> /\ Len(e) <= Len(w)
                            /\ \A i \in 1..Len(e) : e[i] = w[Len(w) - Len(e) + i]
<1> DEFINE n == Len(e)
           k == Len(w)
<1>1. n \in Nat /\ k \in Nat
  OBVIOUS
<1>2. IsSuffix(e, w) <=> n <= k /\ SubSeq(Reverse(e), 1, n) = SubSeq(Reverse(w), 1, n)
  BY Reversed DEF IsSuffix, IsPrefix
<1>3. ASSUME n <= k
      PROVE  SubSeq(Reverse(e), 1, n) = SubSeq(Reverse(w), 1, n)
               <=> \A i \in 1..n : Reverse(e)[i] = Reverse(w)[i]
  <2>1. /\ Reverse(e) \in Seq(S) /\ Len(Reverse(e)) = n
        /\ Reverse(w) \in Seq(S) /\ Len(Reverse(w)) = k
    BY Reversed
  <2> HIDE DEF n, k
  <2>2. \A i \in 1..n : Reverse(e)[i] \in S /\ Reverse(w)[i] \in S
    BY <1>1, <1>3, <2>1
  <2>3. /\ SubSeq(Reverse(e), 1, n) \in Seq(S) /\ Len(SubSeq(Reverse(e), 1, n)) = n
        /\ \A i \in 1..n : SubSeq(Reverse(e), 1, n)[i] = Reverse(e)[i]
    BY <1>1, <2>1, <2>2, SubSeqProperties
  <2>4. /\ SubSeq(Reverse(w), 1, n) \in Seq(S) /\ Len(SubSeq(Reverse(w), 1, n)) = n
        /\ \A i \in 1..n : SubSeq(Reverse(w), 1, n)[i] = Reverse(w)[i]
    BY <1>1, <2>1, <2>2, SubSeqProperties
  <2> QED BY <2>3, <2>4, SameList
<1>4. ASSUME n <= k
      PROVE  (\A i \in 1..n : Reverse(e)[i] = Reverse(w)[i])
               <=> \A i \in 1..n : e[i] = w[k - n + i]
  <2>1. \A i \in 1..n : Reverse(e)[i] = e[n - i + 1] /\ Reverse(w)[i] = w[k - i + 1]
    BY <1>4, Reversed
  <2>2. \A i \in 1..n : n - i + 1 \in 1..n /\ n - (n - i + 1) + 1 = i
                        /\ k - (n - i + 1) + 1 = k - n + i /\ k - n + (n - i + 1) = k - i + 1
    BY <1>1
  <2> HIDE DEF n, k
  <2>3. ASSUME \A i \in 1..n : Reverse(e)[i] = Reverse(w)[i], NEW i \in 1..n
        PROVE  e[i] = w[k - n + i]
    BY <2>1, <2>2, <2>3
  <2>4. ASSUME \A i \in 1..n : e[i] = w[k - n + i], NEW i \in 1..n
        PROVE  Reverse(e)[i] = Reverse(w)[i]
    BY <2>1, <2>2, <2>4
  <2> QED BY <2>3, <2>4
<1> QED BY <1>2, <1>3, <1>4

\* A text is what it is without its ending, and the ending.
LEMMA SuffixTaken ==
  ASSUME NEW S, NEW w \in Seq(S), NEW e \in Seq(S), IsSuffix(e, w)
  PROVE  /\ Without(w, e) \in Seq(S) /\ Len(Without(w, e)) = Len(w) - Len(e)
         /\ Len(w) - Len(e) \in 0..Len(w) /\ Len(e) \in Nat
         /\ w = Without(w, e) \o e
<1> DEFINE n == Len(e)
           k == Len(w)
           v == Without(w, e)
<1>1. n \in Nat /\ k \in Nat /\ n <= k /\ \A i \in 1..n : e[i] = w[k - n + i]
  BY SuffixIs
<1>2. /\ v \in Seq(S) /\ Len(v) = k - n
      /\ \A i \in 1..(k - n) : v[i] = w[i]
  <2>1. v = SubSeq(w, 1, k - n) /\ \A i \in 1..(k - n) : w[i] \in S
    BY <1>1 DEF Without
  <2> HIDE DEF v, n, k
  <2> QED BY <1>1, <2>1, SubSeqProperties
<1> HIDE DEF v
<1>3. /\ v \o e \in Seq(S) /\ Len(v \o e) = k
      /\ \A i \in 1..k : (v \o e)[i] = IF i <= k - n THEN v[i] ELSE e[i - (k - n)]
  BY <1>1, <1>2, ConcatProperties
<1>4. \A i \in 1..k : (v \o e)[i] = w[i]
  <2> SUFFICES ASSUME NEW i \in 1..k
               PROVE  (v \o e)[i] = w[i]
    OBVIOUS
  <2> HIDE DEF n, k
  <2>1. CASE i <= k - n
    BY <1>1, <1>2, <1>3, <2>1
  <2>2. CASE ~(i <= k - n)
    <3>1. i - (k - n) \in 1..n /\ k - n + (i - (k - n)) = i
      BY <1>1, <2>2
    <3>2. (v \o e)[i] = e[i - (k - n)]
      BY <1>3, <2>2
    <3>3. e[i - (k - n)] = w[k - n + (i - (k - n))]
      BY <1>1, <3>1
    <3> QED BY <3>1, <3>2, <3>3
  <2> QED BY <2>1, <2>2
<1>5. v \o e = w
  BY <1>3, <1>4, SameList
<1> QED BY <1>1, <1>2, <1>5 DEF v

LEMMA SuffixAdded ==
  ASSUME NEW S, NEW v \in Seq(S), NEW e \in Seq(S)
  PROVE  v \o e \in Seq(S) /\ IsSuffix(e, v \o e) /\ Without(v \o e, e) = v
<1> DEFINE n == Len(e)
           k == Len(v)
           w == v \o e
<1>1. n \in Nat /\ k \in Nat
  OBVIOUS
<1>2. /\ w \in Seq(S) /\ Len(w) = k + n
      /\ \A i \in 1..(k + n) : w[i] = IF i <= k THEN v[i] ELSE e[i - k]
  BY ConcatProperties
<1> HIDE DEF w
<1>3. IsSuffix(e, w)
  <2>1. ASSUME NEW i \in 1..n
        PROVE  e[i] = w[Len(w) - n + i]
    <3>1. Len(w) - n + i = k + i /\ k + i \in 1..(k + n) /\ ~(k + i <= k) /\ k + i - k = i
      BY <1>1, <1>2
    <3> QED BY <1>2, <3>1
  <2>2. n <= Len(w)
    BY <1>1, <1>2
  <2> QED BY <1>2, <2>1, <2>2, SuffixIs
<1>4. Without(w, e) = v
  <2>1. Len(w) - Len(e) = k
    BY <1>1, <1>2
  <2>2. Without(w, e) = SubSeq(w, 1, k)
    BY <2>1 DEF Without
  <2>3. \A i \in 1..k : w[i] = v[i] /\ w[i] \in S
    BY <1>1, <1>2
  <2> HIDE DEF n, k
  <2>4. /\ SubSeq(w, 1, k) \in Seq(S) /\ Len(SubSeq(w, 1, k)) = k
        /\ \A i \in 1..k : SubSeq(w, 1, k)[i] = w[i]
    BY <1>1, <2>3, SubSeqProperties
  <2>5. Len(v) = k /\ \A i \in 1..k : SubSeq(w, 1, k)[i] = v[i]
    BY <2>3, <2>4 DEF k
  <2> QED BY <2>2, <2>4, <2>5, SameList
<1> QED BY <1>2, <1>3, <1>4 DEF w

-----------------------------------------------------------------------------
(* Stems                                                                   *)

Stems == {w \in Words : HasKanji(w)}

\* A list of some things is a list of more.
LEMMA Widened ==
  ASSUME NEW A, NEW B, A \subseteq B, NEW s \in Seq(A)
  PROVE  s \in Seq(B)
OBVIOUS

\* A stem has a kanji, and what ends in a kanji is a stem.
LEMMA ValidStem ==
  ASSUME NEW w, IsText(w), NEW count
  PROVE  /\ is_valid_stem(w, count) => w # << >> /\ HasKanji(w)
         /\ w # << >> /\ Last(w) \in KanjiChars => is_valid_stem(w, count) /\ HasKanji(w)
<1>1. w \in Seq(ToSet(w)) /\ (w # << >> => Len(w) \in DOMAIN w)
  BY DEF IsText
<1>2. w # << >> /\ Last(w) \in KanjiChars => HasKanji(w)
  BY <1>1 DEF HasKanji, Last
<1>3. ~HasKanji(w) => KanjiCount(w) = 0
  <2> DEFINE kanji == {i \in DOMAIN w : w[i] \in KanjiChars}
  <2>1. ~HasKanji(w) => kanji = {}
    BY DEF HasKanji
  <2> HIDE DEF kanji
  <2>2. ~HasKanji(w) => Cardinality(kanji) = 0
    BY <2>1, FS_EmptySet
  <2> QED BY <2>2 DEF KanjiCount, kanji
<1>4. is_valid_stem(w, count) => w # << >> /\ HasKanji(w)
  BY <1>2, <1>3 DEF is_valid_stem
<1> QED BY <1>2, <1>4 DEF is_valid_stem

\* What is found is a word of the backend's, whole or less the ending.
LEMMA FoundIs ==
  ASSUME NEW w \in Words \cup {NoWord}, NEW e, IsText(e), NEW count
  PROVE  /\ Found(w, e, count) \in Seq(Stems)
         /\ \A x \in ToSet(Found(w, e, count)) : w = x \/ w = x \o e
<1> DEFINE S == ToSet(w) \cup ToSet(e)
           v == Without(w, e)
<1>1. IsText(w) /\ w \in Seq(S) /\ e \in Seq(S)
  <2>1. w \in Seq(ToSet(w)) /\ e \in Seq(ToSet(e))
    <3>1. CASE w = NoWord
      BY <3>1 DEF NoWord, IsText
    <3>2. CASE w # NoWord
      BY <3>2, TextAssumption DEF IsText
    <3> QED BY <3>1, <3>2
  <2> QED BY <2>1, Widened DEF IsText
<1>2. CASE IsSuffix(e, w) /\ is_valid_stem(v, count)
  <2>1. /\ v \in Seq(S) /\ Len(v) = Len(w) - Len(e) /\ Len(e) \in Nat
        /\ Len(w) - Len(e) \in 0..Len(w) /\ w = v \o e
    BY <1>1, <1>2, SuffixTaken
  <2>2. v = SubSeq(w, 1, Len(v))
    BY <2>1 DEF Without
  <2> HIDE DEF v
  <2>3. v # << >> /\ Len(v) \in 1..Len(w)
    BY <1>2, <2>1 DEF is_valid_stem
  <2>4. v \in Words
    <3>0. w \in Words
      BY <1>1, <2>3 DEF NoWord
    <3>1. CASE Len(v) = Len(w)
      BY <1>1, <2>2, <3>0, <3>1, SubSeqFull
    <3>2. CASE Len(v) # Len(w)
      <4>1. Len(v) \in 1..(Len(w) - 1)
        BY <1>1, <2>3, <3>2
      <4>2. v \in Aliases(w)
        BY <1>1, <2>2, <4>1, AliasIsCut
      <4> QED BY <3>0, <4>2, LookupAssumption
    <3> QED BY <3>1, <3>2
  <2>5. v \in Stems
    BY <1>2, <2>4, ValidStem, TextAssumption DEF Stems
  <2>6. Found(w, e, count) = <<v>>
    BY <1>2 DEF Found, v
  <2> QED BY <2>1, <2>5, <2>6 DEF ToSet
<1>3. CASE /\ ~IsSuffix(e, w) /\ e \in NounEndings
           /\ count >= 2 /\ Len(w) \in 2..count /\ is_valid_stem(w, count)
  <2>1. Found(w, e, count) = <<w>>
    BY <1>3 DEF Found
  <2>2. w \in Stems
    <3>1. w # << >> /\ HasKanji(w)
      BY <1>1, <1>3, ValidStem
    <3> QED BY <3>1 DEF Stems, NoWord
  <2> QED BY <2>1, <2>2 DEF ToSet
<1>4. CASE /\ ~(IsSuffix(e, w) /\ is_valid_stem(v, count))
           /\ ~(/\ ~IsSuffix(e, w) /\ e \in NounEndings
                /\ count >= 2 /\ Len(w) \in 2..count /\ is_valid_stem(w, count))
  <2>1. Found(w, e, count) = << >>
    BY <1>4 DEF Found
  <2> QED BY <2>1 DEF ToSet
<1> QED BY <1>2, <1>3, <1>4

\* A word that ends in a kanji is found by its ending.
LEMMA StemFound ==
  ASSUME NEW w \in Words, Last(w) \in KanjiChars, NEW e, IsText(e), NEW count
  PROVE  Found(w \o e, e, count) = <<w>>
<1> DEFINE S == ToSet(w) \cup ToSet(e)
<1>1. IsText(w) /\ w \in Seq(S) /\ e \in Seq(S) /\ w # << >>
  <2>1. w \in Seq(ToSet(w)) /\ e \in Seq(ToSet(e)) /\ w # << >>
    BY TextAssumption, RankingAssumption DEF IsText, NoWord
  <2> QED BY <2>1, Widened DEF IsText
<1>2. IsSuffix(e, w \o e) /\ Without(w \o e, e) = w
  BY <1>1, SuffixAdded
<1>3. is_valid_stem(w, count)
  BY <1>1, ValidStem
<1> QED BY <1>2, <1>3 DEF Found

-----------------------------------------------------------------------------
(* Extraction                                                              *)

\* What is found in the list, word by word.
LEMMA ExtractSteps ==
  ASSUME NEW xs \in Seq(Words \cup {NoWord}), NEW e, IsText(e), NEW query
  PROVE  \E h : /\ h[0] = << >>
                /\ \A k \in 1..Len(xs) :
                     h[k] = PushAll(h[k - 1], Found(xs[k], e, Len(query) - Len(e)))
                /\ extract_stem_candidates_borrowed(xs, e, query) = h[Len(xs)]
<1> DEFINE n == Len(xs)
           T == Seq(Stems)
           In(k) == Found(xs[k], e, Len(query) - Len(e))
           step == [p \in (1..n) \X T |-> PushAll(p[2], In(p[1]))]
           iter == CHOOSE g : g = [s \in SUBSET DOMAIN xs |->
                     IF s = {} THEN << >> ELSE PushAll(g[s \ {Max(s)}], In(Max(s)))]
<1>0. << >> \in T
  OBVIOUS
<1>1. n \in Nat /\ DOMAIN xs = 1..n
  OBVIOUS
<1>2. step \in [(1..n) \X T -> T]
  <2>1. ASSUME NEW k \in 1..n
        PROVE  In(k) \in Seq(Stems)
    <3>1. xs[k] \in Words \cup {NoWord}
      OBVIOUS
    <3> QED BY <3>1, FoundIs
  <2> HIDE DEF In
  <2>2. \A k \in 1..n : \A t \in T : PushAll(t, In(k)) \in T
    BY <2>1, PushedAll
  <2> QED BY <2>2
<1>3. extract_stem_candidates_borrowed(xs, e, query) = iter[DOMAIN xs]
  BY DEF extract_stem_candidates_borrowed, PushAll, FoldLeft, MapThenFoldSet, PushNew
<1> HIDE DEF In
<1>4. \A k \in 1..n : \A t \in T : step[<<k, t>>] = PushAll(t, In(k))
  OBVIOUS
<1> HIDE DEF n, step, T, iter
<1>5. PICK f \in [SUBSET (1..n) -> T] : Folds(f, n, << >>, step)
  BY <1>0, <1>1, <1>2, FoldExists
<1>6. ASSUME NEW s \in SUBSET (1..n)
      PROVE  f[s] = IF s = {} THEN << >> ELSE PushAll(f[s \ {Max(s)}], In(Max(s)))
  <2>1. CASE s = {}
    BY <1>5, <2>1 DEF Folds
  <2>2. CASE s # {}
    <3>1. Max(s) \in 1..n /\ s \ {Max(s)} \in SUBSET (1..n)
      BY <1>1, <2>2, MaxInside
    <3>2. f[s] = step[<<Max(s), f[s \ {Max(s)}]>>]
      BY <1>5, <2>2 DEF Folds
    <3>3. f[s \ {Max(s)}] \in T
      BY <3>1
    <3> QED BY <1>4, <2>2, <3>1, <3>2, <3>3
  <2> QED BY <2>1, <2>2
<1>7. f = [s \in SUBSET DOMAIN xs |->
             IF s = {} THEN << >> ELSE PushAll(f[s \ {Max(s)}], In(Max(s)))]
  BY <1>1, <1>6
<1>8. iter = [s \in SUBSET DOMAIN xs |->
                IF s = {} THEN << >> ELSE PushAll(iter[s \ {Max(s)}], In(Max(s)))]
  BY <1>7 DEF iter
<1> DEFINE h == [k \in 0..n |-> iter[1..k]]
<1>9. iter[1..0] = << >> /\ 1..0 = {}
  BY <1>8
<1>10. ASSUME NEW k \in 1..n
       PROVE  iter[1..k] = PushAll(iter[1..(k - 1)], In(k))
  <2>1. 1..k \in SUBSET DOMAIN xs /\ k \in Nat /\ k # 0
    BY <1>1
  <2>2. Max(1..k) = k /\ (1..k) \ {k} = 1..(k - 1) /\ 1..k # {}
    BY <2>1, MaxOfInterval
  <2> QED BY <1>8, <2>1, <2>2
<1>11. /\ h[0] = << >>
       /\ \A k \in 1..n : h[k] = PushAll(h[k - 1], In(k))
       /\ extract_stem_candidates_borrowed(xs, e, query) = h[n]
  BY <1>1, <1>3, <1>9, <1>10
<1> HIDE DEF h
<1> QED BY <1>11 DEF n, In

\* Stems, once each: of each word what is found in it.
LEMMA Extracted ==
  ASSUME NEW xs \in Seq(Words \cup {NoWord}), NEW e, IsText(e), NEW query
  PROVE  LET out == extract_stem_candidates_borrowed(xs, e, query)
         IN /\ out \in Seq(Stems) /\ Once(out)
            /\ \A x \in ToSet(out) : \E i \in DOMAIN xs : xs[i] = x \/ xs[i] = x \o e
            /\ \A w \in Words : \A i \in DOMAIN xs :
                 xs[i] = w \o e /\ Last(w) \in KanjiChars => w \in ToSet(out)
<1> DEFINE n == Len(xs)
           In(k) == Found(xs[k], e, Len(query) - Len(e))
           out == extract_stem_candidates_borrowed(xs, e, query)
<1>1. PICK h : /\ h[0] = << >>
               /\ \A k \in 1..n : h[k] = PushAll(h[k - 1], In(k))
               /\ out = h[n]
  BY ExtractSteps
<1>2. n \in Nat /\ DOMAIN xs = 1..n /\ \A k \in 1..n : xs[k] \in Words \cup {NoWord}
  OBVIOUS
<1>3. ASSUME NEW k \in 1..n
      PROVE  /\ In(k) \in Seq(Stems)
             /\ \A x \in ToSet(In(k)) : xs[k] = x \/ xs[k] = x \o e
             /\ \A w \in Words : xs[k] = w \o e /\ Last(w) \in KanjiChars => w \in ToSet(In(k))
  <2>1. ASSUME NEW w \in Words, xs[k] = w \o e, Last(w) \in KanjiChars
        PROVE  w \in ToSet(In(k))
    <3>1. In(k) = <<w>>
      BY <2>1, StemFound
    <3> HIDE DEF In
    <3> QED BY <3>1 DEF ToSet
  <2> QED BY <1>2, <2>1, FoundIs
<1> HIDE DEF In, out, n
<1> DEFINE Good == {k \in 0..n : /\ h[k] \in Seq(Stems) /\ Once(h[k])
                                 /\ \A x : x \in ToSet(h[k]) <=> \E i \in 1..k : x \in ToSet(In(i))}
<1>4. 0 \in Good
  <2>1. 1..0 = {} /\ << >> \in Seq(Stems) /\ Once(<< >>) /\ ToSet(<< >>) = {}
    BY DEF Once, ToSet
  <2>2. 0 \in 0..n
    BY <1>2
  <2> QED BY <1>1, <2>1, <2>2
<1>5. ASSUME NEW k \in 1..n, k - 1 \in Good
      PROVE  k \in Good
  <2>1. /\ h[k - 1] \in Seq(Stems) /\ Once(h[k - 1]) /\ h[k] = PushAll(h[k - 1], In(k))
        /\ In(k) \in Seq(Stems)
        /\ \A x : x \in ToSet(h[k - 1]) <=> \E i \in 1..k - 1 : x \in ToSet(In(i))
    BY <1>1, <1>3, <1>5
  <2>2. \A g, new \in Seq(Stems) : /\ PushAll(g, new) \in Seq(Stems)
                                   /\ ToSet(PushAll(g, new)) = ToSet(g) \cup ToSet(new)
                                   /\ Once(g) => Once(PushAll(g, new))
    BY PushedAll
  <2>3. /\ h[k] \in Seq(Stems) /\ Once(h[k]) /\ ToSet(h[k]) = ToSet(h[k - 1]) \cup ToSet(In(k))
    BY <2>1, <2>2
  <2>4. \A i : i \in 1..k <=> i \in 1..k - 1 \/ i = k
    BY <1>2
  <2>5. \A x : x \in ToSet(h[k]) <=> \E i \in 1..k : x \in ToSet(In(i))
    BY <2>1, <2>3, <2>4
  <2>6. k \in 0..n
    BY <1>2
  <2> QED BY <2>3, <2>5, <2>6
<1>6. n \in Good
  <2> HIDE DEF Good
  <2>1. 0..n \subseteq Good
    BY <1>2, <1>4, <1>5, IndexInd
  <2> QED BY <1>2, <2>1
<1>7. /\ out \in Seq(Stems) /\ Once(out)
      /\ \A x : x \in ToSet(out) <=> \E i \in 1..n : x \in ToSet(In(i))
  BY <1>1, <1>6
<1>8. \A x \in ToSet(out) : \E i \in DOMAIN xs : xs[i] = x \/ xs[i] = x \o e
  BY <1>2, <1>3, <1>7
<1>9. \A w \in Words : \A i \in DOMAIN xs :
        xs[i] = w \o e /\ Last(w) \in KanjiChars => w \in ToSet(out)
  BY <1>2, <1>3, <1>7
<1> QED BY <1>7, <1>8, <1>9 DEF out

-----------------------------------------------------------------------------
(* Blocks taken apart                                                      *)

Unpacking == [cands : Seq(Candidates), in_block : BOOLEAN]

HasWord(cs, w) == \E i \in DOMAIN cs : cs[i].word = w

\* A list a candidate is pushed to has its word too.
LEMMA PushedWord ==
  ASSUME NEW cs \in Seq(Candidates), NEW cand \in Candidates
  PROVE  /\ PushNew(cs, cand) \in Seq(Candidates)
         /\ \A w : HasWord(PushNew(cs, cand), w) <=> HasWord(cs, w) \/ w = cand.word
         /\ (\A i \in DOMAIN cs : cs[i].kind = "plain") /\ cand.kind = "plain" =>
              \A i \in DOMAIN PushNew(cs, cand) : PushNew(cs, cand)[i].kind = "plain"
<1>1. PushNew(cs, cand) \in Seq(Candidates) /\ ToSet(PushNew(cs, cand)) = ToSet(cs) \cup {cand}
  BY PushNewOf
<1>2. \A w : HasWord(PushNew(cs, cand), w) <=> \E c \in ToSet(PushNew(cs, cand)) : c.word = w
  BY DEF HasWord, ToSet
<1>3. \A w : HasWord(cs, w) <=> \E c \in ToSet(cs) : c.word = w
  BY DEF HasWord, ToSet
<1>4. (\A i \in DOMAIN cs : cs[i].kind = "plain") <=> \A c \in ToSet(cs) : c.kind = "plain"
  BY DEF ToSet
<1>5. (\A i \in DOMAIN PushNew(cs, cand) : PushNew(cs, cand)[i].kind = "plain")
        <=> \A c \in ToSet(PushNew(cs, cand)) : c.kind = "plain"
  BY DEF ToSet
<1> QED BY <1>1, <1>2, <1>3, <1>4, <1>5

\* One candidate of a response.
LEMMA TakeOf ==
  ASSUME NEW acc \in Unpacking, NEW cand \in Candidates
  PROVE  LET new == Take(acc, cand)
         IN /\ new \in Unpacking
            /\ cand.kind = "open" => new.in_block
            /\ cand.kind = "plain" => new.in_block = acc.in_block
            /\ acc.in_block \/ cand.kind # "close" =>
                 /\ (\A i \in DOMAIN acc.cands : acc.cands[i].kind = "plain") =>
                      \A i \in DOMAIN new.cands : new.cands[i].kind = "plain"
                 /\ \A w : HasWord(new.cands, w) <=>
                             HasWord(acc.cands, w) \/ (w = cand.word /\ w # NoWord)
<1> DEFINE new == Take(acc, cand)
<1>1. acc.cands \in Seq(Candidates) /\ acc.in_block \in BOOLEAN
  BY DEF Unpacking
<1>2. cand.kind \in {"plain", "open", "close"}
  BY DEF Candidates
<1>3. CASE cand.kind = "open"
  <2>1. new = [cands |-> acc.cands, in_block |-> TRUE]
    BY <1>3 DEF Take, Unpacking
  <2>2. cand.word = NoWord
    BY <1>3 DEF Candidates
  <2> QED BY <1>1, <1>3, <2>1, <2>2 DEF Unpacking
<1>4. CASE cand.kind = "close" /\ acc.in_block
  <2> DEFINE plain == [cand EXCEPT !.kind = "plain"]
  <2>1. CASE cand.word = NoWord
    <3>1. new = [cands |-> acc.cands, in_block |-> FALSE]
      BY <1>4, <2>1 DEF Take
    <3> QED BY <1>1, <1>4, <2>1, <3>1 DEF Unpacking
  <2>2. CASE cand.word # NoWord
    <3>1. new = [cands |-> PushNew(acc.cands, plain), in_block |-> FALSE]
      BY <1>4, <2>2 DEF Take
    <3>2. plain \in Candidates /\ plain.word = cand.word /\ plain.kind = "plain"
      BY <1>4, <2>2 DEF Candidates
    <3> HIDE DEF plain
    <3>3. /\ PushNew(acc.cands, plain) \in Seq(Candidates)
          /\ \A w : HasWord(PushNew(acc.cands, plain), w) <=> HasWord(acc.cands, w) \/ w = plain.word
          /\ (\A i \in DOMAIN acc.cands : acc.cands[i].kind = "plain") =>
               \A i \in DOMAIN PushNew(acc.cands, plain) : PushNew(acc.cands, plain)[i].kind = "plain"
      BY <1>1, <3>2, PushedWord
    <3> QED BY <1>4, <2>2, <3>1, <3>2, <3>3 DEF Unpacking
  <2> QED BY <2>1, <2>2
<1>5. CASE cand.kind # "open" /\ ~(cand.kind = "close" /\ acc.in_block)
  <2>1. new = [cands |-> PushNew(acc.cands, cand), in_block |-> acc.in_block]
    BY <1>5 DEF Take, Unpacking
  <2>2. cand.kind = "plain" => cand.word # NoWord
    BY RankingAssumption DEF Candidates
  <2>3. /\ PushNew(acc.cands, cand) \in Seq(Candidates)
        /\ \A w : HasWord(PushNew(acc.cands, cand), w) <=> HasWord(acc.cands, w) \/ w = cand.word
        /\ (\A i \in DOMAIN acc.cands : acc.cands[i].kind = "plain") /\ cand.kind = "plain" =>
             \A i \in DOMAIN PushNew(acc.cands, cand) : PushNew(acc.cands, cand)[i].kind = "plain"
    BY <1>1, PushedWord
  <2> QED BY <1>1, <1>2, <1>5, <2>1, <2>2, <2>3 DEF Unpacking
<1> QED BY <1>2, <1>3, <1>4, <1>5

LEMMA UnpackSteps ==
  ASSUME NEW r \in Responses
  PROVE  \E h : /\ h[0] = [cands |-> << >>, in_block |-> FALSE]
                /\ \A k \in 1..Len(r.cands) : h[k] = Take(h[k - 1], r.cands[k])
                /\ parse_candidates_unpacked(r) = h[Len(r.cands)].cands
<1> DEFINE xs == r.cands
           n == Len(xs)
           T == Unpacking
           base == [cands |-> << >>, in_block |-> FALSE]
           step == [p \in (1..n) \X T |-> Take(p[2], xs[p[1]])]
           iter == CHOOSE g : g = [s \in SUBSET DOMAIN xs |->
                     IF s = {} THEN base ELSE Take(g[s \ {Max(s)}], xs[Max(s)])]
<1>0. base \in T
  BY DEF Unpacking
<1>1. n \in Nat /\ DOMAIN xs = 1..n /\ xs \in Seq(Candidates)
  BY DEF Responses
<1>3. parse_candidates_unpacked(r) = iter[DOMAIN xs].cands
  BY DEF parse_candidates_unpacked, FoldLeft, MapThenFoldSet
<1> HIDE DEF xs, base
<1>2. step \in [(1..n) \X T -> T]
  <2>1. \A k \in 1..n : \A t \in T : Take(t, xs[k]) \in T
    BY <1>1, TakeOf
  <2> QED BY <2>1
<1>4. \A k \in 1..n : \A t \in T : step[<<k, t>>] = Take(t, xs[k])
  OBVIOUS
<1> HIDE DEF n, step, T, iter
<1>5. PICK f \in [SUBSET (1..n) -> T] : Folds(f, n, base, step)
  BY <1>0, <1>1, <1>2, FoldExists
<1>6. ASSUME NEW s \in SUBSET (1..n)
      PROVE  f[s] = IF s = {} THEN base ELSE Take(f[s \ {Max(s)}], xs[Max(s)])
  <2>1. CASE s = {}
    BY <1>5, <2>1 DEF Folds
  <2>2. CASE s # {}
    <3>1. Max(s) \in 1..n /\ s \ {Max(s)} \in SUBSET (1..n)
      BY <1>1, <2>2, MaxInside
    <3>2. f[s] = step[<<Max(s), f[s \ {Max(s)}]>>]
      BY <1>5, <2>2 DEF Folds
    <3>3. f[s \ {Max(s)}] \in T
      BY <3>1
    <3> QED BY <1>4, <2>2, <3>1, <3>2, <3>3
  <2> QED BY <2>1, <2>2
<1>7. f = [s \in SUBSET DOMAIN xs |->
             IF s = {} THEN base ELSE Take(f[s \ {Max(s)}], xs[Max(s)])]
  BY <1>1, <1>6
<1>8. iter = [s \in SUBSET DOMAIN xs |->
                IF s = {} THEN base ELSE Take(iter[s \ {Max(s)}], xs[Max(s)])]
  BY <1>7 DEF iter
<1> DEFINE h == [k \in 0..n |-> iter[1..k]]
<1>9. iter[1..0] = base /\ 1..0 = {}
  BY <1>8
<1>10. ASSUME NEW k \in 1..n
       PROVE  iter[1..k] = Take(iter[1..(k - 1)], xs[k])
  <2>1. 1..k \in SUBSET DOMAIN xs /\ k \in Nat /\ k # 0
    BY <1>1
  <2>2. Max(1..k) = k /\ (1..k) \ {k} = 1..(k - 1) /\ 1..k # {}
    BY <2>1, MaxOfInterval
  <2> QED BY <1>8, <2>1, <2>2
<1>11. /\ h[0] = base
       /\ \A k \in 1..n : h[k] = Take(h[k - 1], xs[k])
       /\ parse_candidates_unpacked(r) = h[n].cands
  BY <1>1, <1>3, <1>9, <1>10
<1> HIDE DEF h
<1> QED BY <1>11 DEF n, xs, base

\* Taken apart, a response is its words and no pieces of blocks.
LEMMA Unpacked ==
  ASSUME NEW r \in Responses, BlocksAreClosed(r.cands)
  PROVE  LET out == parse_candidates_unpacked(r)
         IN /\ out \in Seq(Candidates) /\ \A i \in DOMAIN out : out[i].kind = "plain"
            /\ WordsOf(out) = WordsOf(r.cands)
<1> DEFINE cs == r.cands
           n == Len(cs)
           out == parse_candidates_unpacked(r)
<1>1. PICK h : /\ h[0] = [cands |-> << >>, in_block |-> FALSE]
               /\ \A k \in 1..n : h[k] = Take(h[k - 1], cs[k])
               /\ out = h[n].cands
  BY UnpackSteps
<1>2. cs \in Seq(Candidates) /\ n \in Nat /\ DOMAIN cs = 1..n
      /\ \A k \in 1..n : cs[k] \in Candidates /\ cs[k].kind \in {"plain", "open", "close"}
  BY DEF Responses, Candidates
<1> DEFINE OpenAt(k) == \E j \in 1..k : cs[j].kind = "open" /\ \A l \in j..k : cs[l].kind # "close"
<1>3. \A k \in 1..n : cs[k].kind = "close" => OpenAt(k - 1)
  BY <1>2 DEF BlocksAreClosed
<1> HIDE DEF cs, n, out
<1> DEFINE Good == {k \in 0..n : /\ h[k] \in Unpacking /\ (OpenAt(k) => h[k].in_block)
                                 /\ \A i \in DOMAIN h[k].cands : h[k].cands[i].kind = "plain"
                                 /\ \A w : HasWord(h[k].cands, w) <=>
                                      w # NoWord /\ \E i \in 1..k : cs[i].word = w}
<1>4. 0 \in Good
  <2>1. 1..0 = {} /\ h[0].cands = << >> /\ h[0] \in Unpacking /\ DOMAIN << >> = {}
    BY <1>1 DEF Unpacking
  <2>2. ~OpenAt(0)
    BY <2>1
  <2>3. 0 \in 0..n
    BY <1>2
  <2>4. \A w : ~HasWord(h[0].cands, w)
    BY <2>1 DEF HasWord
  <2> QED BY <2>1, <2>2, <2>3, <2>4
<1>5. ASSUME NEW k \in 1..n, k - 1 \in Good
      PROVE  k \in Good
  <2>1. /\ h[k - 1] \in Unpacking /\ (OpenAt(k - 1) => h[k - 1].in_block)
        /\ h[k] = Take(h[k - 1], cs[k])
        /\ \A i \in DOMAIN h[k - 1].cands : h[k - 1].cands[i].kind = "plain"
        /\ \A w : HasWord(h[k - 1].cands, w) <=>
             w # NoWord /\ \E i \in 1..k - 1 : cs[i].word = w
    BY <1>1, <1>5
  <2>2. \A i : i \in 1..k <=> i \in 1..k - 1 \/ i = k
    BY <1>2
  <2>3. cs[k].kind # "close" \/ h[k - 1].in_block
    BY <1>3, <2>1
  <2>4. OpenAt(k) => cs[k].kind = "open" \/ (cs[k].kind = "plain" /\ OpenAt(k - 1))
    <3> SUFFICES ASSUME NEW j \in 1..k, cs[j].kind = "open", \A l \in j..k : cs[l].kind # "close",
                        cs[k].kind # "open"
                 PROVE  cs[k].kind = "plain" /\ OpenAt(k - 1)
      OBVIOUS
    <3>1. k \in j..k /\ j \in 1..k - 1 /\ \A l \in j..k - 1 : l \in j..k
      BY <2>2
    <3> QED BY <1>2, <3>1
  <2> DEFINE new == Take(h[k - 1], cs[k])
  <2>5. /\ new \in Unpacking
        /\ cs[k].kind = "open" => new.in_block
        /\ cs[k].kind = "plain" => new.in_block = h[k - 1].in_block
        /\ \A i \in DOMAIN new.cands : new.cands[i].kind = "plain"
        /\ \A w : HasWord(new.cands, w) <=>
                    HasWord(h[k - 1].cands, w) \/ (w = cs[k].word /\ w # NoWord)
    <3> HIDE DEF OpenAt
    <3>1. h[k - 1] \in Unpacking /\ cs[k] \in Candidates
      BY <1>2, <2>1
    <3> QED BY <2>1, <2>3, <3>1, TakeOf
  <2> HIDE DEF OpenAt, new
  <2>6. OpenAt(k) => new.in_block
    BY <2>1, <2>4, <2>5
  <2>7. \A w : HasWord(new.cands, w) <=> w # NoWord /\ \E i \in 1..k : cs[i].word = w
    BY <2>1, <2>2, <2>5
  <2>8. h[k] = new /\ k \in 0..n
    BY <1>2, <2>1 DEF new
  <2> QED BY <2>5, <2>6, <2>7, <2>8
<1>6. n \in Good
  <2> HIDE DEF Good
  <2>1. 0..n \subseteq Good
    BY <1>2, <1>4, <1>5, IndexInd
  <2> QED BY <1>2, <2>1
<1>7. /\ out \in Seq(Candidates) /\ \A i \in DOMAIN out : out[i].kind = "plain"
      /\ \A w : HasWord(out, w) <=> w # NoWord /\ \E i \in 1..n : cs[i].word = w
  BY <1>1, <1>6 DEF Unpacking
<1>8. WordsOf(out) = WordsOf(cs)
  <2>1. \A w : w \in WordsOf(out) <=> HasWord(out, w) /\ w # NoWord
    BY DEF WordsOf, HasWord
  <2>2. \A w : w \in WordsOf(cs) <=> w # NoWord /\ \E i \in 1..n : cs[i].word = w
    BY <1>2 DEF WordsOf
  <2>3. \A w : w \in WordsOf(out) <=> w \in WordsOf(cs)
    BY <1>7, <2>1, <2>2
  <2> QED BY <2>3
<1> QED BY <1>7, <1>8 DEF out, cs

-----------------------------------------------------------------------------
(* Merging                                                                 *)

\* Lists of words, once each.
Tidy == {cs \in Seq(Candidates) :
           /\ \A i \in DOMAIN cs : cs[i].kind = "plain"
           /\ \A i, j \in DOMAIN cs : i # j => cs[i].word # cs[j].word}

LEMMA MergeOf ==
  ASSUME NEW cs \in Tidy, NEW cand \in Candidates, cand.kind = "plain"
  PROVE  /\ Merge(cs, cand) \in Tidy
         /\ \A w : HasWord(Merge(cs, cand), w) <=> HasWord(cs, w) \/ w = cand.word
<1>1. /\ cs \in Seq(Candidates) /\ DOMAIN cs = 1..Len(cs) /\ Len(cs) \in Nat
      /\ \A i \in DOMAIN cs : cs[i].kind = "plain" /\ clean_candidate(cs[i]) = cs[i].word
      /\ \A i, j \in DOMAIN cs : i # j => cs[i].word # cs[j].word
      /\ clean_candidate(cand) = cand.word
  BY DEF Tidy, clean_candidate
<1>2. CASE HasWord(cs, cand.word)
  <2>1. Merge(cs, cand) = cs
    BY <1>1, <1>2 DEF Merge, HasWord
  <2> QED BY <1>2, <2>1
<1>3. CASE ~HasWord(cs, cand.word)
  <2> DEFINE out == Append(cs, cand)
             n == Len(cs)
  <2>1. Merge(cs, cand) = out
    BY <1>1, <1>3 DEF Merge, HasWord
  <2>2. /\ out \in Seq(Candidates) /\ DOMAIN out = 1..n + 1 /\ out[n + 1] = cand
        /\ \A i \in 1..n : out[i] = cs[i]
    BY <1>1, AppendProperties
  <2> HIDE DEF out, n
  <2>3. n \in Nat /\ DOMAIN cs = 1..n /\ \A i : i \in 1..n + 1 <=> i \in 1..n \/ i = n + 1
    BY <1>1 DEF n
  <2>4. \A i \in 1..n + 1 : out[i].kind = "plain"
    BY <1>1, <2>2, <2>3
  <2>5. \A i \in 1..n : cs[i].word # cand.word
    BY <1>3, <2>3 DEF HasWord
  <2>6. \A i, j \in 1..n + 1 : i # j => out[i].word # out[j].word
    BY <1>1, <2>2, <2>3, <2>5
  <2>7. out \in Tidy
    BY <2>2, <2>4, <2>6 DEF Tidy
  <2>8. \A w : HasWord(out, w) <=> HasWord(cs, w) \/ w = cand.word
    BY <2>2, <2>3 DEF HasWord
  <2> QED BY <2>1, <2>7, <2>8
<1> QED BY <1>2, <1>3

MergeAll(base, xs) == FoldLeft(Merge, base, xs)

LEMMA MergeSteps ==
  ASSUME NEW base \in Tidy, NEW xs \in Seq(Candidates), \A i \in DOMAIN xs : xs[i].kind = "plain"
  PROVE  \E h : /\ h[0] = base
                /\ \A k \in 1..Len(xs) : h[k] = Merge(h[k - 1], xs[k]) /\ h[k - 1] \in Tidy
                /\ MergeAll(base, xs) = h[Len(xs)] /\ h[Len(xs)] \in Tidy
<1> DEFINE n == Len(xs)
           T == Tidy
           step == [p \in (1..n) \X T |-> Merge(p[2], xs[p[1]])]
           iter == CHOOSE g : g = [s \in SUBSET DOMAIN xs |->
                     IF s = {} THEN base ELSE Merge(g[s \ {Max(s)}], xs[Max(s)])]
<1>1. n \in Nat /\ DOMAIN xs = 1..n
  OBVIOUS
<1>2. step \in [(1..n) \X T -> T]
  <2>1. ASSUME NEW k \in 1..n, NEW t \in T
        PROVE  Merge(t, xs[k]) \in T
    <3>1. xs[k] \in Candidates /\ xs[k].kind = "plain"
      BY <1>1
    <3> QED BY <3>1, MergeOf
  <2> QED BY <2>1
<1>3. MergeAll(base, xs) = iter[DOMAIN xs]
  BY DEF MergeAll, FoldLeft, MapThenFoldSet
<1>4. \A k \in 1..n : \A t \in T : step[<<k, t>>] = Merge(t, xs[k])
  OBVIOUS
<1> HIDE DEF n, step, iter
<1>5. PICK f \in [SUBSET (1..n) -> T] : Folds(f, n, base, step)
  BY <1>1, <1>2, FoldExists
<1> HIDE DEF T
<1>6. ASSUME NEW s \in SUBSET (1..n)
      PROVE  f[s] = IF s = {} THEN base ELSE Merge(f[s \ {Max(s)}], xs[Max(s)])
  <2>1. CASE s = {}
    BY <1>5, <2>1 DEF Folds
  <2>2. CASE s # {}
    <3>1. Max(s) \in 1..n /\ s \ {Max(s)} \in SUBSET (1..n)
      BY <1>1, <2>2, MaxInside
    <3>2. f[s] = step[<<Max(s), f[s \ {Max(s)}]>>]
      BY <1>5, <2>2 DEF Folds
    <3>3. f[s \ {Max(s)}] \in T
      BY <3>1
    <3> QED BY <1>4, <2>2, <3>1, <3>2, <3>3
  <2> QED BY <2>1, <2>2
<1>7. f = [s \in SUBSET DOMAIN xs |->
             IF s = {} THEN base ELSE Merge(f[s \ {Max(s)}], xs[Max(s)])]
  BY <1>1, <1>6
<1>8. iter = [s \in SUBSET DOMAIN xs |->
                IF s = {} THEN base ELSE Merge(iter[s \ {Max(s)}], xs[Max(s)])]
  BY <1>7 DEF iter
<1> DEFINE h == [k \in 0..n |-> iter[1..k]]
<1>9. iter[1..0] = base /\ 1..0 = {}
  BY <1>8
<1>10. ASSUME NEW k \in 1..n
       PROVE  iter[1..k] = Merge(iter[1..(k - 1)], xs[k])
  <2>1. 1..k \in SUBSET DOMAIN xs /\ k \in Nat /\ k # 0
    BY <1>1
  <2>2. Max(1..k) = k /\ (1..k) \ {k} = 1..(k - 1) /\ 1..k # {}
    BY <2>1, MaxOfInterval
  <2> QED BY <1>8, <2>1, <2>2
<1>11. /\ h[0] = base
       /\ \A k \in 1..n : h[k] = Merge(h[k - 1], xs[k])
       /\ MergeAll(base, xs) = h[n]
  BY <1>1, <1>3, <1>9, <1>10
<1> HIDE DEF h
<1> DEFINE Good == {k \in 0..n : h[k] \in Tidy}
<1>12. 0 \in Good
  BY <1>1, <1>11
<1>13. ASSUME NEW k \in 1..n, k - 1 \in Good
       PROVE  k \in Good
  <2>1. xs[k] \in Candidates /\ xs[k].kind = "plain" /\ k \in 0..n
    BY <1>1
  <2>2. h[k - 1] \in Tidy /\ h[k] = Merge(h[k - 1], xs[k])
    BY <1>11, <1>13
  <2>3. Merge(h[k - 1], xs[k]) \in Tidy
    BY <2>1, <2>2, MergeOf
  <2> QED BY <2>1, <2>2, <2>3
<1>14. \A k \in 0..n : h[k] \in Tidy
  <2> HIDE DEF Good
  <2>1. 0..n \subseteq Good
    BY <1>1, <1>12, <1>13, IndexInd
  <2> QED BY <2>1 DEF Good
<1>15. n \in 0..n /\ \A k \in 1..n : k - 1 \in 0..n
  BY <1>1
<1> QED BY <1>11, <1>14, <1>15 DEF n

\* All words, once each.
LEMMA MergedAll ==
  ASSUME NEW base \in Tidy, NEW xs \in Seq(Candidates), \A i \in DOMAIN xs : xs[i].kind = "plain"
  PROVE  /\ MergeAll(base, xs) \in Tidy
         /\ \A w : HasWord(MergeAll(base, xs), w) <=> HasWord(base, w) \/ HasWord(xs, w)
<1> DEFINE n == Len(xs)
<1>1. PICK h : /\ h[0] = base
               /\ \A k \in 1..n : h[k] = Merge(h[k - 1], xs[k]) /\ h[k - 1] \in Tidy
               /\ MergeAll(base, xs) = h[n] /\ h[n] \in Tidy
  BY MergeSteps
<1>2. n \in Nat /\ DOMAIN xs = 1..n /\ \A k \in 1..n : xs[k] \in Candidates /\ xs[k].kind = "plain"
  OBVIOUS
<1> HIDE DEF n
<1> DEFINE Good == {k \in 0..n :
                      \A w : HasWord(h[k], w) <=> HasWord(base, w) \/ \E i \in 1..k : xs[i].word = w}
<1>3. 0 \in Good
  <2>1. 1..0 = {} /\ 0 \in 0..n
    BY <1>2
  <2> QED BY <1>1, <2>1
<1>4. ASSUME NEW k \in 1..n, k - 1 \in Good
      PROVE  k \in Good
  <2>1. \A w : HasWord(h[k - 1], w) <=> HasWord(base, w) \/ \E i \in 1..k - 1 : xs[i].word = w
    BY <1>4
  <2>2. \A i : i \in 1..k <=> i \in 1..k - 1 \/ i = k
    BY <1>2
  <2>3. h[k - 1] \in Tidy /\ h[k] = Merge(h[k - 1], xs[k]) /\ k \in 0..n
    BY <1>1, <1>2
  <2>4. \A w : HasWord(Merge(h[k - 1], xs[k]), w) <=> HasWord(h[k - 1], w) \/ w = xs[k].word
    BY <1>2, <2>3, MergeOf
  <2>5. \A w : HasWord(h[k], w) <=> HasWord(base, w) \/ \E i \in 1..k : xs[i].word = w
    BY <2>1, <2>2, <2>3, <2>4
  <2> QED BY <2>3, <2>5
<1>5. n \in Good
  <2> HIDE DEF Good
  <2>1. 0..n \subseteq Good
    BY <1>2, <1>3, <1>4, IndexInd
  <2> QED BY <1>2, <2>1
<1>6. \A w : HasWord(h[n], w) <=> HasWord(base, w) \/ \E i \in 1..n : xs[i].word = w
  BY <1>5
<1>7. \A w : HasWord(xs, w) <=> \E i \in 1..n : xs[i].word = w
  BY <1>2 DEF HasWord
<1> HIDE DEF Good
<1> QED BY <1>1, <1>6, <1>7

\* The list ranked on the okuri path has the stems and the fallback's words.
LEMMA MergedIs ==
  ASSUME NEW found \in Seq(Stems), Once(found), NEW r \in Responses,
         r.found \/ r.cands = << >>, BlocksAreClosed(r.cands)
  PROVE  /\ Merged(found, r) \in Tidy
         /\ WordsOf(Merged(found, r)) = ToSet(found) \cup WordsOf(r.cands)
<1> DEFINE base == [i \in DOMAIN found |-> Plain(found[i])]
           xs == IF r.found THEN parse_candidates_unpacked(r) ELSE << >>
<1>1. base \in Tidy /\ \A w : HasWord(base, w) <=> w \in ToSet(found)
  <2>1. DOMAIN found = 1..Len(found) /\ Len(found) \in Nat
        /\ \A i \in DOMAIN found : found[i] \in Words
    BY DEF Stems
  <2>2. \A i \in DOMAIN found : Plain(found[i]) \in Candidates /\ Plain(found[i]).kind = "plain"
                                /\ Plain(found[i]).word = found[i]
    BY <2>1 DEF Plain, Candidates
  <2>3. base \in Seq(Candidates)
    BY <2>1, <2>2
  <2>4. base \in Tidy
    BY <2>1, <2>2, <2>3 DEF Tidy, Once
  <2>5. \A w : HasWord(base, w) <=> w \in ToSet(found)
    BY <2>2 DEF HasWord, ToSet
  <2> QED BY <2>4, <2>5
<1>2. /\ xs \in Seq(Candidates) /\ \A i \in DOMAIN xs : xs[i].kind = "plain"
      /\ WordsOf(xs) = WordsOf(r.cands)
  <2>1. CASE r.found
    BY <2>1, Unpacked
  <2>2. CASE ~r.found
    BY <2>2 DEF WordsOf
  <2> QED BY <2>1, <2>2
<1>3. Merged(found, r) = MergeAll(base, xs)
  BY DEF Merged, MergeAll
<1> HIDE DEF base, xs
<1>4. /\ MergeAll(base, xs) \in Tidy
      /\ \A w : HasWord(MergeAll(base, xs), w) <=> HasWord(base, w) \/ HasWord(xs, w)
  BY <1>1, <1>2, MergedAll
<1>5. \A cs, w : w \in WordsOf(cs) <=> HasWord(cs, w) /\ w # NoWord
  BY DEF WordsOf, HasWord
<1>6. NoWord \notin ToSet(found)
  BY RankingAssumption DEF ToSet, Stems
<1>7. \A w : w \in WordsOf(MergeAll(base, xs)) <=> w \in ToSet(found) \/ w \in WordsOf(r.cands)
  BY <1>1, <1>2, <1>4, <1>5, <1>6
<1>8. WordsOf(MergeAll(base, xs)) = ToSet(found) \cup WordsOf(r.cands)
  BY <1>7
<1> QED BY <1>3, <1>4, <1>8

-----------------------------------------------------------------------------
(* Ranked lists                                                            *)

\* p tells where each of `out` was in `cs`.
ReorderedBy(p, out, cs) ==
  /\ p \in [1..Len(cs) -> 1..Len(cs)]
  /\ \A k, l \in 1..Len(cs) : k # l => p[k] # p[l]
  /\ \A k \in 1..Len(cs) : out[k] = cs[p[k]]
  /\ \A i \in 1..Len(cs) : \E k \in 1..Len(cs) : p[k] = i

\* A ranked list is the list in another order.
LEMMA Permuted ==
  ASSUME NEW S, NEW cs \in Seq(S), NEW score \in [DOMAIN cs -> Nat], NEW out,
         IsRanking(out, cs, score)
  PROVE  \E p : ReorderedBy(p, out, cs)
<1> DEFINE n == Len(cs)
           Ahead(i) == {j \in 1..n : score[j] > score[i] \/ (score[j] = score[i] /\ j < i)}
           place == [i \in 1..n |-> 1 + Cardinality(Ahead(i))]
<1>1. n \in Nat /\ DOMAIN cs = 1..n /\ score \in [1..n -> Nat]
  OBVIOUS
<1>2. \A i \in 1..n : out[1 + Cardinality(Ahead(i))] = cs[i]
  BY <1>1 DEF IsRanking
<1>3. /\ \A i \in 1..n : 1 + Cardinality(Ahead(i)) \in 1..n
      /\ \A i, j \in 1..n : Cardinality(Ahead(i)) = Cardinality(Ahead(j)) => i = j
  BY <1>1, Places
<1>4. \A i \in 1..n : Cardinality(Ahead(i)) \in Nat
  <2> SUFFICES ASSUME NEW i \in 1..n
               PROVE  Cardinality(Ahead(i)) \in Nat
    OBVIOUS
  <2>1. Ahead(i) \in SUBSET (1..n) /\ IsFiniteSet(1..n)
    BY <1>1, FS_Interval
  <2> HIDE DEF Ahead
  <2> QED BY <2>1, FS_Subset, FS_CardinalityType
<1> HIDE DEF n, Ahead
<1>5. place \in [1..n -> 1..n] /\ \A i \in 1..n : place[i] = 1 + Cardinality(Ahead(i))
  BY <1>3
<1> HIDE DEF place
<1>6. \A i, j \in 1..n : place[i] = place[j] => i = j
  BY <1>3, <1>4, <1>5
<1>7. \A k \in 1..n : \E i \in 1..n : place[i] = k
  <2>1. place \in Injection(1..n, 1..n)
    BY <1>5, <1>6 DEF Injection, IsInjective
  <2>2. IsFiniteSet(1..n)
    BY <1>1, FS_Interval
  <2>3. place \in Surjection(1..n, 1..n)
    BY <2>1, <2>2, FS_Injection
  <2> QED BY <2>3 DEF Surjection
<1> DEFINE p == [k \in 1..n |-> CHOOSE i \in 1..n : place[i] = k]
<1>8. \A k \in 1..n : p[k] \in 1..n /\ place[p[k]] = k
  BY <1>7
<1>9. \A i \in 1..n : p[place[i]] = i /\ place[i] \in 1..n
  BY <1>5, <1>6, <1>8
<1>10. p \in [1..n -> 1..n]
  BY <1>8
<1> HIDE DEF p
<1>11. \A k \in 1..n : out[k] = cs[p[k]]
  BY <1>2, <1>5, <1>8
<1>12. \A k, l \in 1..n : k # l => p[k] # p[l]
  BY <1>8
<1> QED BY <1>9, <1>10, <1>11, <1>12 DEF ReorderedBy, n

\* Ranking keeps the words, and keeps them apart if they were.
LEMMA RankedIs ==
  ASSUME NEW t, AreScores(t), NEW c, NEW m, NEW cs \in Seq(Candidates), NEW ap
  PROVE  LET out == rank_candidates_borrowed(t, c, m, cs, ap)
         IN /\ out \in Seq(Candidates) /\ WordsOf(out) = WordsOf(cs)
            /\ cs \in Tidy => out \in Tidy
<1> DEFINE n == Len(cs)
           out == rank_candidates_borrowed(t, c, m, cs, ap)
           score == Scores(t, c, m, ap, cs)
<1>1. n \in Nat /\ DOMAIN cs = 1..n /\ \A i \in 1..n : cs[i] \in Candidates
  OBVIOUS
<1>2. score \in [DOMAIN cs -> Nat] /\ IsRanking(out, cs, score)
  BY ScoresType, RankIsRanking
<1>3. out = [k \in 1..n |-> out[k]]
  <2>1. out = cs \/ out = Sorted(cs, score)
    BY DEF rank_candidates_borrowed
  <2>2. CASE out = cs
    BY <1>1, <2>2
  <2>3. CASE out = Sorted(cs, score)
    <3> HIDE DEF score, out
    <3> QED BY <1>1, <2>3 DEF Sorted
  <2> QED BY <2>1, <2>2, <2>3
<1> HIDE DEF score, out
<1>4. PICK p : ReorderedBy(p, out, cs)
  BY <1>2, Permuted
<1>5. /\ p \in [1..n -> 1..n]
      /\ \A k, l \in 1..n : k # l => p[k] # p[l]
      /\ \A k \in 1..n : out[k] = cs[p[k]]
      /\ \A i \in 1..n : \E k \in 1..n : p[k] = i
  BY <1>4 DEF ReorderedBy
<1> HIDE DEF n
<1>6. DOMAIN out = 1..n /\ \A k \in 1..n : p[k] \in 1..n /\ out[k] = cs[p[k]]
  BY <1>3, <1>5
<1>7. out \in Seq(Candidates)
  <2>1. \A k \in 1..n : out[k] \in Candidates
    BY <1>1, <1>6
  <2> QED BY <1>1, <1>3, <2>1
<1>8. WordsOf(out) = WordsOf(cs)
  <2> DEFINE Of(i) == cs[i].word
  <2>1. \A k \in 1..n : out[k].word = Of(p[k])
    BY <1>6
  <2> HIDE DEF Of
  <2>2. {out[k].word : k \in 1..n} = {Of(i) : i \in 1..n}
    <3>1. ASSUME NEW k \in 1..n
          PROVE  out[k].word \in {Of(i) : i \in 1..n}
      BY <1>6, <2>1
    <3>2. ASSUME NEW i \in 1..n
          PROVE  Of(i) \in {out[k].word : k \in 1..n}
      <4>1. PICK k \in 1..n : p[k] = i
        BY <1>5
      <4> QED BY <2>1, <4>1
    <3> QED BY <3>1, <3>2
  <2> QED BY <1>1, <1>6, <2>2 DEF WordsOf, Of
<1>9. cs \in Tidy => out \in Tidy
  <2> SUFFICES ASSUME cs \in Tidy
               PROVE  out \in Tidy
    OBVIOUS
  <2>1. /\ \A i \in 1..n : cs[i].kind = "plain"
        /\ \A i, j \in 1..n : i # j => cs[i].word # cs[j].word
    BY <1>1 DEF Tidy
  <2>2. ASSUME NEW i \in 1..n
        PROVE  out[i].kind = "plain"
    BY <1>6, <2>1
  <2>3. ASSUME NEW i \in 1..n, NEW j \in 1..n, i # j
        PROVE  out[i].word # out[j].word
    <3>1. p[i] \in 1..n /\ p[j] \in 1..n /\ p[i] # p[j]
      BY <1>5, <1>6, <2>3
    <3>2. cs[p[i]].word # cs[p[j]].word
      BY <2>1, <3>1
    <3> QED BY <1>6, <3>2
  <2> QED BY <1>6, <1>7, <2>2, <2>3 DEF Tidy
<1> QED BY <1>7, <1>8, <1>9 DEF out

-----------------------------------------------------------------------------
(* Variations                                                              *)

\* A row of a table of endings.
IsRow(row) == row \in Seq(ToSet(row)) /\ \A e \in ToSet(row) : IsText(e)

\* What follows the star is a text.
LEMMA AfterStarIsText ==
  ASSUME NEW m, IsText(m), HasStar(m)
  PROVE  IsText(AfterStar(m))
<1> DEFINE I == {i \in 1..Len(m) : m[i] = Star}
           k == SelectInSeq(m, LAMBDA c : c = Star)
<1>1. m \in Seq(ToSet(m)) /\ Len(m) \in Nat
  BY DEF IsText
<1>2. I \in SUBSET Nat /\ I # {}
  BY DEF HasStar, Contains
<1>3. k = Min(I)
  <2>1. k = IF I # {} THEN Min(I) ELSE 0
    BY DEF SelectInSeq
  <2> QED BY <1>2, <2>1
<1>4. k \in 1..Len(m)
  <2>1. PICK j \in I : \A y \in I : j <= y
    BY <1>2, NatMin
  <2>2. Min(I) \in I
    <3> HIDE DEF I
    <3> QED BY <2>1 DEF Min
  <2> QED BY <1>3, <2>2
<1>5. AfterStar(m) = SubSeq(m, k + 1, Len(m))
  BY DEF AfterStar
<1> HIDE DEF k
<1> DEFINE out == SubSeq(m, k + 1, Len(m))
<1>6. \E S : out \in Seq(S)
  <2>1. \A i \in (k + 1)..Len(m) : m[i] \in ToSet(m)
    BY <1>1, <1>4
  <2>2. k + 1 \in Int /\ Len(m) \in Int
    BY <1>1, <1>4
  <2> QED BY <2>1, <2>2, SubSeqProperties
<1> HIDE DEF out
<1>7. IsText(out)
  BY <1>6 DEF IsText, ToSet
<1> QED BY <1>5, <1>7 DEF out

LEMMA ParsedSuffix ==
  ASSUME NEW m, IsText(m), parse_okuri_midashi_extended(m).kind = "Explicit"
  PROVE  IsText(parse_okuri_midashi_extended(m).suffix)
<1>1. HasStar(m) /\ parse_okuri_midashi_extended(m).suffix = AfterStar(m)
  BY DEF parse_okuri_midashi_extended, Simple, Compound, Explicit, NotOkuri
<1> QED BY <1>1, AfterStarIsText

LEMMA RowOfKey ==
  ASSUME NEW stem, NEW key
  PROVE  IsRow(order_suffixes_for_stem(stem, key))
<1>1. \A table \in {ShortSuffixes, LongSuffixes, LongestSuffixes} :
        \A k \in DOMAIN table : IsRow(table[k])
  BY EndingsAssumption DEF IsRow
<1>2. IsRow(<< >>)
  BY DEF IsRow, ToSet
<1>3. \A k : IsRow(okuri_key_to_suffixes(k))
  BY <1>1, <1>2 DEF okuri_key_to_suffixes, EndingsIn
<1> DEFINE k == LowerChar(key)
           longest == Len(stem) >= 3 /\ k \in DOMAIN LongestSuffixes
           long == Len(stem) >= 2 /\ k \in DOMAIN LongSuffixes
                   /\ ~(Len(stem) >= 3 /\ k \in DOMAIN LongestSuffixes)
<1>4. CASE longest
  BY <1>1, <1>4 DEF order_suffixes_for_stem
<1>5. CASE long
  BY <1>1, <1>5 DEF order_suffixes_for_stem
<1>6. CASE ~longest /\ ~long
  BY <1>3, <1>6 DEF order_suffixes_for_stem
<1> QED BY <1>4, <1>5, <1>6

LEMMA InflectedIs ==
  ASSUME NEW stem, NEW row, IsRow(row)
  PROVE  LET out == Inflected(stem, row)
         IN /\ out \in Seq(ToSet(out))
            /\ \A v \in ToSet(out) : IsText(v.okuri_suffix)
<1>1. /\ Len(row) \in Nat /\ DOMAIN row = 1..Len(row)
      /\ \A i \in 1..Len(row) : IsText(row[i])
  BY DEF IsRow, ToSet
<1>2. Inflected(stem, row)
        = [i \in 1..Len(row) |-> [query_midashi |-> stem \o row[i], okuri_suffix |-> row[i]]]
  BY <1>1 DEF Inflected
<1> DEFINE out == Inflected(stem, row)
<1>3. /\ DOMAIN out = 1..Len(row)
      /\ \A i \in 1..Len(row) : out[i] \in ToSet(out) /\ out[i].okuri_suffix = row[i]
  <2>1. DOMAIN out = 1..Len(row)
    BY <1>2
  <2>2. ASSUME NEW i \in 1..Len(row)
        PROVE  out[i].okuri_suffix = row[i]
    <3>1. out[i] = [query_midashi |-> stem \o row[i], okuri_suffix |-> row[i]]
      BY <1>2
    <3> HIDE DEF out
    <3> QED BY <3>1
  <2> HIDE DEF out
  <2> QED BY <2>1, <2>2 DEF ToSet
<1>4. out = [i \in 1..Len(row) |-> out[i]]
  BY <1>2
<1> HIDE DEF out
<1>5. out \in Seq(ToSet(out))
  BY <1>1, <1>3, <1>4
<1>6. \A v \in ToSet(out) : IsText(v.okuri_suffix)
  BY <1>1, <1>3 DEF ToSet
<1> QED BY <1>5, <1>6 DEF out

\* The variations of a midashi are a list, and their endings texts.
LEMMA Expanded ==
  ASSUME NEW m, IsText(m)
  PROVE  LET out == expand_okuri_variations(m)
         IN /\ out \in Seq(ToSet(out))
            /\ \A v \in ToSet(out) : IsText(v.okuri_suffix)
<1> DEFINE out == expand_okuri_variations(m)
           p == parse_okuri_midashi_extended(m)
<1>1. \/ \E stem, row : IsRow(row) /\ out = Inflected(stem, row)
      \/ out = << >>
  <2>1. CASE p.kind = "Simple"
    BY <2>1, RowOfKey DEF expand_okuri_variations
  <2>2. CASE p.kind = "Compound"
    BY <2>2, RowOfKey DEF expand_okuri_variations
  <2>3. CASE p.kind = "Explicit"
    <3>1. out = Inflected(p.stem, <<p.suffix>>)
      BY <2>3 DEF expand_okuri_variations
    <3>2. IsText(p.suffix)
      BY <2>3, ParsedSuffix
    <3>3. IsRow(<<p.suffix>>)
      <4> HIDE DEF p
      <4> QED BY <3>2 DEF IsRow, ToSet
    <3> QED BY <3>1, <3>3
  <2>4. CASE p.kind \notin {"Simple", "Compound", "Explicit"}
    BY <2>4 DEF expand_okuri_variations
  <2> QED BY <2>1, <2>2, <2>3, <2>4
<1> HIDE DEF out
<1>2. CASE out = << >>
  BY <1>2 DEF ToSet, out
<1>3. ASSUME NEW stem, NEW row, IsRow(row), out = Inflected(stem, row)
      PROVE  out \in Seq(ToSet(out)) /\ \A v \in ToSet(out) : IsText(v.okuri_suffix)
  BY <1>3, InflectedIs
<1> QED BY <1>1, <1>2, <1>3 DEF out

LEMMA VariationsAre ==
  /\ \A m \in Midashi : expand_okuri_variations(m) \in Seq(Variations)
  /\ \A v \in Variations : IsText(v.okuri_suffix)
<1>1. ASSUME NEW m \in Midashi
      PROVE  /\ expand_okuri_variations(m) \in Seq(ToSet(expand_okuri_variations(m)))
             /\ \A v \in ToSet(expand_okuri_variations(m)) : IsText(v.okuri_suffix)
  BY Expanded, TextAssumption
<1>2. \A m \in Midashi : ToSet(expand_okuri_variations(m)) \subseteq Variations
  BY DEF Variations
<1>3. \A m \in Midashi : expand_okuri_variations(m) \in Seq(Variations)
  BY <1>1, <1>2, Widened
<1>4. \A v \in Variations : IsText(v.okuri_suffix)
  BY <1>1 DEF Variations
<1> QED BY <1>3, <1>4

-----------------------------------------------------------------------------
(* Types                                                                   *)

LEMMA RepliesAre ==
  ASSUME NEW server \in {Primary, Fallback}, NEW text, NEW r \in Replies(server, text)
  PROVE  r \in Responses /\ (r.found \/ r.cands = << >>) /\ BlocksAreClosed(r.cands)
<1>1. CASE r = NotFound
  BY <1>1 DEF NotFound, Responses, BlocksAreClosed
<1>2. CASE r # NotFound
  <2>1. text \in DOMAIN server /\ r \in server[text]
    BY <1>2 DEF Replies
  <2> QED BY <2>1, BackendsAssumption
<1> QED BY <1>1, <1>2

LEMMA CleanWord ==
  ASSUME NEW cand \in Candidates
  PROVE  /\ clean_candidate(cand) \in Words \cup {NoWord}
         /\ cand.kind = "plain" => clean_candidate(cand) = cand.word /\ cand.word \in Words
         /\ cand.word \in Words \cup {NoWord}
BY DEF Candidates, clean_candidate

LEMMA WordsAreWords ==
  ASSUME NEW cs \in Seq(Candidates)
  PROVE  WordsOf(cs) \subseteq Words
BY CleanWord DEF WordsOf

LEMMA FirstIsWord ==
  ASSUME NEW r \in Responses
  PROVE  extract_first_candidate(r) \in Words \cup {NoWord}
<1>1. CASE r.found /\ r.cands # << >>
  <2>1. r.cands[1] \in Candidates
    BY <1>1 DEF Responses
  <2> QED BY <1>1, <2>1, CleanWord DEF extract_first_candidate
<1>2. CASE ~(r.found /\ r.cands # << >>)
  BY <1>2 DEF extract_first_candidate
<1> QED BY <1>1, <1>2

LEMMA ListIsResponse ==
  ASSUME NEW cs \in Seq(Candidates)
  PROVE  Response(cs) \in Responses /\ format_candidates_response_str(cs) \in Responses
BY DEF Response, Responses, NotFound, format_candidates_response_str

\* The stems after one variation.
StemsWith(found, v, r) ==
  PushAll(found,
          extract_stem_candidates_borrowed([i \in DOMAIN r.cands |-> clean_candidate(r.cands[i])],
                                           v.okuri_suffix, v.query_midashi))

LEMMA VariationFinds ==
  ASSUME NEW found \in Seq(Stems), Once(found), NEW v \in Variations,
         NEW r \in Replies(Primary, v.query_midashi)
  PROVE  LET new == StemsWith(found, v, r)
         IN /\ new \in Seq(Stems) /\ Once(new) /\ ToSet(found) \subseteq ToSet(new)
            /\ \A w \in ToSet(new) \ ToSet(found) :
                 \E x \in WordsOf(r.cands) : x = w \/ x = w \o v.okuri_suffix
            /\ \A w \in Words : \A x \in WordsOf(r.cands) :
                 x = w \o v.okuri_suffix /\ Last(w) \in KanjiChars => w \in ToSet(new)
<1> DEFINE cs == r.cands
           e == v.okuri_suffix
           words == [i \in DOMAIN cs |-> clean_candidate(cs[i])]
           out == extract_stem_candidates_borrowed(words, e, v.query_midashi)
<1>1. cs \in Seq(Candidates) /\ \A i \in DOMAIN cs : cs[i].kind = "plain"
  <2>1. cs \in Seq(Candidates)
    BY RepliesAre DEF Responses
  <2>2. CASE r = NotFound
    BY <2>1, <2>2 DEF NotFound
  <2>3. CASE r # NotFound
    <3>1. v.query_midashi \in DOMAIN Primary /\ r \in Primary[v.query_midashi]
      BY <2>3 DEF Replies
    <3> QED BY <2>1, <3>1, BackendsAssumption
  <2> QED BY <2>2, <2>3
<1> HIDE DEF cs
<1>2. \A i \in DOMAIN cs : words[i] = cs[i].word /\ cs[i].word \in Words
  BY <1>1, CleanWord
<1>3. words \in Seq(Words \cup {NoWord}) /\ DOMAIN words = DOMAIN cs
  <2>1. DOMAIN cs = 1..Len(cs) /\ Len(cs) \in Nat
    BY <1>1
  <2>2. words = [i \in 1..Len(cs) |-> words[i]]
    BY <2>1
  <2> HIDE DEF words
  <2> QED BY <1>2, <2>1, <2>2
<1>4. \A x : x \in WordsOf(cs) <=> \E i \in DOMAIN cs : words[i] = x
  BY <1>2, RankingAssumption DEF WordsOf
<1>5. IsText(e)
  BY VariationsAre
<1> HIDE DEF words, e
<1>6. /\ out \in Seq(Stems) /\ Once(out)
      /\ \A x \in ToSet(out) : \E i \in DOMAIN words : words[i] = x \/ words[i] = x \o e
      /\ \A w \in Words : \A i \in DOMAIN words :
           words[i] = w \o e /\ Last(w) \in KanjiChars => w \in ToSet(out)
  BY <1>3, <1>5, Extracted
<1> HIDE DEF out
<1>7. /\ PushAll(found, out) \in Seq(Stems) /\ Once(PushAll(found, out))
      /\ ToSet(PushAll(found, out)) = ToSet(found) \cup ToSet(out)
  BY <1>6, PushedAll
<1>8. StemsWith(found, v, r) = PushAll(found, out)
  BY DEF StemsWith, out, words, e, cs
<1>9. \A w \in ToSet(out) : \E x \in WordsOf(cs) : x = w \/ x = w \o e
  BY <1>3, <1>4, <1>6
<1>10. \A w \in Words : \A x \in WordsOf(cs) :
         x = w \o e /\ Last(w) \in KanjiChars => w \in ToSet(out)
  BY <1>3, <1>4, <1>6
<1> QED BY <1>7, <1>8, <1>9, <1>10 DEF e, cs

-----------------------------------------------------------------------------
(* Well typed lookups                                                      *)

\* The tables are scores, and the stems found are found once.
Typed == TypeOK /\ InForce /\ \A s \in Sessions : Once(stems[s])

LEMMA ServedIsTyped ==
  ASSUME NEW raw \in Seeds
  PROVE  Served(raw) \in Tables /\ AreScores(Served(raw))
BY SeedsAssumption, ServedIsLoaded, LoadedScores DEF Tables

LEMMA TypedInit == Init => Typed
<1> SUFFICES ASSUME Init
             PROVE  Typed
  OBVIOUS
<1>1. stored \in Seeds /\ predictor \in Tables /\ AreScores(predictor) /\ InForce
  BY ServedIsTyped DEF Init, InForce
<1>2. NotFound \in Responses
  BY DEF NotFound, Responses
<1>3. << >> \in Seq(Variations) /\ << >> \in Seq({w \in Words : HasKanji(w)}) /\ Once(<< >>)
  BY DEF Once
<1>4. TypeOK
  BY <1>1, <1>2, <1>3 DEF Init, TypeOK
<1> QED BY <1>1, <1>3, <1>4 DEF Typed, Init

LEMMA RespondTyped ==
  ASSUME Typed, NEW s \in Sessions, NEW cs \in Seq(Candidates), NEW m,
         Respond(s, cs, Ranked(s, m, cs))
  PROVE  /\ response' \in [Sessions -> Responses] /\ top' \in [Sessions -> Words \cup {NoWord}]
         /\ pc' \in [Sessions -> {"idle", "asking", "ranking", "answered"}]
         /\ Ranked(s, m, cs) \in Seq(Candidates)
<1>1. Ranked(s, m, cs) \in Seq(Candidates)
  BY RankedIs DEF Ranked, Typed, TypeOK
<1> DEFINE out == Ranked(s, m, cs)
<1> HIDE DEF out
<1>2. /\ format_candidates_response_str(out) \in Responses
      /\ extract_first_candidate(Response(out)) \in Words \cup {NoWord}
  BY <1>1, ListIsResponse, FirstIsWord DEF out
<1>3. /\ response' = [response EXCEPT ![s] = format_candidates_response_str(out)]
      /\ top' = [top EXCEPT ![s] = extract_first_candidate(Response(out))]
      /\ pc' = [pc EXCEPT ![s] = "answered"]
  BY DEF Respond, out
<1> QED BY <1>1, <1>2, <1>3 DEF Typed, TypeOK

LEMMA TypedSession ==
  ASSUME Typed, NEW s \in Sessions, Session(s)
  PROVE  Typed'
<1>0. TypeOK /\ InForce /\ \A z \in Sessions : Once(stems[z])
  BY DEF Typed
<1>1. ASSUME NEW m \in Midashi, NEW c \in Contexts \cup {NoWord}, NEW tracked \in BOOLEAN,
             Ask(s, m, c, tracked)
      PROVE  Typed'
  <2>1. expand_okuri_variations(m) \in Seq(Variations) /\ << >> \in Seq(Variations)
    BY VariationsAre
  <2>2. TypeOK'
    BY <1>0, <1>1, <2>1 DEF Ask, TypeOK
  <2> QED BY <1>0, <1>1, <2>2 DEF Ask, Typed, InForce
<1>2. CASE Variation(s)
  <2> DEFINE v == Head(todo[s])
  <2>1. PICK r \in Replies(Primary, v.query_midashi) :
               /\ stems' = [stems EXCEPT ![s] = StemsWith(stems[s], v, r)]
               /\ heard' = [heard EXCEPT ![s] = @ \cup WordsOf(r.cands) \X {v.okuri_suffix}]
    BY <1>2 DEF Variation, StemsWith, PushAll, parse_candidates_borrowed
  <2>2. /\ todo[s] \in Seq(Variations) /\ todo[s] # << >> /\ stems[s] \in Seq(Stems)
        /\ Once(stems[s])
    BY <1>0, <1>2 DEF TypeOK, Stems, Variation
  <2>3. v \in Variations /\ Tail(todo[s]) \in Seq(Variations)
    BY <2>2
  <2> HIDE DEF v
  <2>4. StemsWith(stems[s], v, r) \in Seq(Stems) /\ Once(StemsWith(stems[s], v, r))
    BY <2>2, <2>3, VariationFinds
  <2>5. /\ stems' \in [Sessions -> Seq({w \in Words : HasKanji(w)})]
        /\ \A z \in Sessions : Once(stems'[z])
    BY <1>0, <2>1, <2>4 DEF TypeOK, Stems
  <2>6. WordsOf(r.cands) \subseteq Words
    BY RepliesAre, WordsAreWords DEF Responses
  <2>7. heard' \in [Sessions -> SUBSET (Words \X {x.okuri_suffix : x \in Variations})]
    BY <1>0, <2>1, <2>3, <2>6 DEF TypeOK
  <2>8. todo' \in [Sessions -> Seq(Variations)]
    BY <1>0, <1>2, <2>3 DEF TypeOK, Variation
  <2>9. TypeOK'
    BY <1>0, <1>2, <2>5, <2>7, <2>8 DEF TypeOK, Variation
  <2> QED BY <1>0, <1>2, <2>5, <2>9 DEF Variation, Typed, InForce
<1>3. CASE OutOfTime(s)
  <2>1. << >> \in Seq(Variations)
    OBVIOUS
  <2>2. TypeOK'
    BY <1>0, <1>3, <2>1 DEF OutOfTime, TypeOK
  <2> QED BY <1>0, <1>3, <2>2 DEF OutOfTime, Typed, InForce
<1>4. CASE OkuriAnswered(s)
  <2> DEFINE m == normalize_okuri_midashi_key(asked[s].midashi)
  <2>1. PICK r \in Replies(Fallback, asked[s].midashi) :
               /\ answer' = [answer EXCEPT ![s] = Response(Merged(stems[s], r))]
               /\ offered' = [offered EXCEPT ![s] = WordsOf(r.cands)]
               /\ Respond(s, Merged(stems[s], r), Ranked(s, m, Merged(stems[s], r)))
    BY <1>4 DEF OkuriAnswered
  <2> HIDE DEF m
  <2>2. r \in Responses /\ (r.found \/ r.cands = << >>) /\ BlocksAreClosed(r.cands)
    BY RepliesAre
  <2>3. stems[s] \in Seq(Stems) /\ Once(stems[s])
    BY <1>0 DEF TypeOK, Stems
  <2>4. Merged(stems[s], r) \in Seq(Candidates)
    BY <2>2, <2>3, MergedIs DEF Tidy
  <2>5. WordsOf(r.cands) \subseteq Words /\ Response(Merged(stems[s], r)) \in Responses
    BY <2>2, <2>4, WordsAreWords, ListIsResponse DEF Responses
  <2>6. /\ response' \in [Sessions -> Responses] /\ top' \in [Sessions -> Words \cup {NoWord}]
        /\ pc' \in [Sessions -> {"idle", "asking", "ranking", "answered"}]
    BY <2>1, <2>4, RespondTyped
  <2>7. /\ answer' \in [Sessions -> Responses] /\ offered' \in [Sessions -> SUBSET Words]
    BY <1>0, <2>1, <2>5 DEF TypeOK
  <2>8. /\ okuri_handled' \in [Sessions -> BOOLEAN] /\ inForce' \in [Sessions -> SUBSET Tables]
    BY <1>0, <1>4 DEF OkuriAnswered, TypeOK
  <2>9. TypeOK'
    BY <1>0, <1>4, <2>6, <2>7, <2>8 DEF OkuriAnswered, TypeOK
  <2> QED BY <1>0, <1>4, <2>9 DEF OkuriAnswered, Typed, InForce
<1>5. CASE Answered(s)
  <2>1. PICK r \in Replies(Primary, asked[s].midashi) \cup Replies(Fallback, asked[s].midashi) :
               /\ answer' = [answer EXCEPT ![s] = r]
               /\ offered' = [offered EXCEPT ![s] = WordsOf(r.cands)]
               /\ \/ pc' = [pc EXCEPT ![s] = "ranking"] /\ UNCHANGED <<response, top>>
                  \/ /\ pc' = [pc EXCEPT ![s] = "answered"]
                     /\ response' = [response EXCEPT ![s] = r]
                     /\ top' = [top EXCEPT ![s] = extract_first_candidate(r)]
    BY <1>5 DEF Answered
  <2>2. r \in Responses
    BY RepliesAre
  <2>3. WordsOf(r.cands) \subseteq Words /\ extract_first_candidate(r) \in Words \cup {NoWord}
    BY <2>2, WordsAreWords, FirstIsWord DEF Responses
  <2>4. /\ response' \in [Sessions -> Responses] /\ top' \in [Sessions -> Words \cup {NoWord}]
        /\ pc' \in [Sessions -> {"idle", "asking", "ranking", "answered"}]
    <3>1. CASE pc' = [pc EXCEPT ![s] = "ranking"] /\ UNCHANGED <<response, top>>
      BY <1>0, <3>1 DEF TypeOK
    <3>2. CASE /\ pc' = [pc EXCEPT ![s] = "answered"]
               /\ response' = [response EXCEPT ![s] = r]
               /\ top' = [top EXCEPT ![s] = extract_first_candidate(r)]
      BY <1>0, <2>2, <2>3, <3>2 DEF TypeOK
    <3> QED BY <2>1, <3>1, <3>2
  <2>5. TypeOK'
    BY <1>0, <1>5, <2>1, <2>2, <2>3, <2>4 DEF Answered, TypeOK
  <2> QED BY <1>0, <1>5, <2>5 DEF Answered, Typed, InForce
<1>6. CASE Rank(s)
  <2>1. answer[s].cands \in Seq(Candidates)
    BY <1>0 DEF TypeOK, Responses
  <2>2. Respond(s, answer[s].cands, Ranked(s, asked[s].midashi, answer[s].cands))
    BY <1>6 DEF Rank, parse_candidates_borrowed
  <2>3. /\ response' \in [Sessions -> Responses] /\ top' \in [Sessions -> Words \cup {NoWord}]
        /\ pc' \in [Sessions -> {"idle", "asking", "ranking", "answered"}]
    BY <2>1, <2>2, RespondTyped
  <2>4. TypeOK'
    BY <1>0, <1>6, <2>3 DEF Rank, TypeOK
  <2> QED BY <1>0, <1>6, <2>4 DEF Rank, Typed, InForce
<1>7. CASE Send(s)
  <2>1. Remembered(s) => asked[s].midashi \in Midashi /\ top[s] \in {w \in Words : HasKanji(w)}
    <3>1. HasKanji(top[s]) => top[s] # NoWord
      BY DEF HasKanji, NoWord
    <3> QED BY <1>0, <3>1 DEF Remembered, TypeOK, NoRequest
  <2>2. told' \in [Sessions -> [midashi : Midashi, word : {w \in Words : HasKanji(w)}]
                               \cup {NotTold}]
    BY <1>0, <1>7, <2>1 DEF Send, TypeOK
  <2>3. NotFound \in Responses /\ << >> \in Seq({w \in Words : HasKanji(w)}) /\ Once(<< >>)
    BY DEF NotFound, Responses, Once
  <2>4. TypeOK'
    BY <1>0, <1>7, <2>2, <2>3 DEF Send, TypeOK
  <2>5. \A z \in Sessions : Once(stems'[z])
    BY <1>0, <1>7, <2>3 DEF Send, TypeOK
  <2> QED BY <1>0, <1>7, <2>4, <2>5 DEF Send, Typed, InForce
<1> QED BY <1>1, <1>2, <1>3, <1>4, <1>5, <1>6, <1>7 DEF Session

LEMMA TypedNext == Typed /\ [Next]_vars => Typed'
<1> SUFFICES ASSUME Typed, [Next]_vars
             PROVE  Typed'
  OBVIOUS
<1>1. CASE UNCHANGED vars
  BY <1>1 DEF vars, lookupVars, Typed, TypeOK, InForce
<1>2. ASSUME NEW raw \in Seeds, Reload(raw)
      PROVE  Typed'
  <2>1. Served(raw) \in Tables /\ AreScores(Served(raw))
    BY ServedIsTyped
  <2>2. inForce' \in [Sessions -> SUBSET Tables]
    BY <1>2, <2>1 DEF Reload, Typed, TypeOK
  <2>3. TypeOK'
    BY <1>2, <2>1, <2>2 DEF Reload, Typed, TypeOK
  <2> QED BY <1>2, <2>3 DEF Reload, Typed, InForce
<1> QED BY <1>1, <1>2, TypedSession DEF Next

\* A lookup is well typed, whatever the backends answer and whenever the tables
\* are replaced: lists of words and blocks come in, words with a kanji are
\* remembered, scores are numbers (handle_client and reload_on_sighup).
THEOREM LookupTypeCorrect == Spec => []TypeOK
<1>1. Typed => TypeOK
  BY DEF Typed
<1> QED BY <1>1, TypedInit, TypedNext, PTL DEF Spec

LEMMA AlwaysTyped == Spec => []Typed
BY TypedInit, TypedNext, PTL DEF Spec

-----------------------------------------------------------------------------
(* A lookup, with reloads in between                                       *)

\* The order of one session's response.
Ordered(s) ==
  pc[s] = "answered" /\ answer[s].found /\ answer[s].closed =>
    \E t \in inForce[s] :
      IsRanking(response[s].cands, answer[s].cands,
                Scores(t, asked[s].context,
                       IF okuri_handled[s] THEN normalize_okuri_midashi_key(asked[s].midashi)
                       ELSE asked[s].midashi,
                       switches.annotation_priority, answer[s].cands))

\* The tables a list is about to be ranked by are among those recorded for it, and
\* the okuri path closes its lines.
SessionInv(s) ==
  /\ pc[s] # "answered" => ~okuri_handled[s]
  /\ okuri_handled[s] => answer[s].found /\ answer[s].closed
  /\ pc[s] = "ranking" => predictor \in inForce[s]
  /\ Ordered(s)

LEMMA ResponseIsList ==
  ASSUME NEW cs
  PROVE  format_candidates_response_str(cs).cands = cs
BY DEF format_candidates_response_str, NotFound, Response

\* A step that leaves a session's lookup and the tables alone.
LEMMA Untouched ==
  ASSUME NEW s \in Sessions, SessionInv(s),
         pc'[s] = pc[s], asked'[s] = asked[s], okuri_handled'[s] = okuri_handled[s],
         answer'[s] = answer[s], response'[s] = response[s], switches' = switches,
         \/ inForce'[s] = inForce[s] /\ (predictor' = predictor \/ pc[s] # "ranking")
         \/ inForce'[s] = inForce[s] \cup {predictor'}
  PROVE  SessionInv(s)'
BY DEF SessionInv, Ordered

LEMMA SessionStep ==
  ASSUME TypeOK, TypeOK', NEW s \in Sessions, SessionInv(s), [Next]_vars
  PROVE  SessionInv(s)'
<1>0. /\ DOMAIN pc = Sessions /\ DOMAIN asked = Sessions /\ DOMAIN okuri_handled = Sessions
      /\ DOMAIN answer = Sessions /\ DOMAIN response = Sessions /\ DOMAIN inForce = Sessions
      /\ AreScores(predictor) /\ answer[s] \in Responses /\ answer'[s] \in Responses
      /\ okuri_handled[s] \in BOOLEAN
  BY DEF TypeOK
<1>1. CASE UNCHANGED vars
  BY <1>1, Untouched DEF vars, lookupVars
<1>2. ASSUME NEW raw \in Seeds, Reload(raw)
      PROVE  SessionInv(s)'
  BY <1>2, Untouched DEF Reload
<1>3. ASSUME NEW z \in Sessions, Session(z), z # s
      PROVE  SessionInv(s)'
  <2>1. /\ pc'[s] = pc[s] /\ asked'[s] = asked[s] /\ okuri_handled'[s] = okuri_handled[s]
        /\ answer'[s] = answer[s] /\ response'[s] = response[s] /\ switches' = switches
        /\ inForce'[s] = inForce[s] /\ predictor' = predictor
    BY <1>0, <1>3 DEF Session, Ask, Variation, OutOfTime, OkuriAnswered, Answered, Rank, Send, Respond
  <2> QED BY <2>1, Untouched
<1>4. ASSUME NEW m \in Midashi, NEW c \in Contexts \cup {NoWord}, NEW tracked \in BOOLEAN,
             Ask(s, m, c, tracked)
      PROVE  SessionInv(s)'
  BY <1>0, <1>4 DEF Ask, SessionInv, Ordered
<1>5. CASE Variation(s) \/ OutOfTime(s)
  BY <1>0, <1>5 DEF Variation, OutOfTime, SessionInv, Ordered
<1>6. CASE OkuriAnswered(s)
  <2> DEFINE m == normalize_okuri_midashi_key(asked[s].midashi)
  <2>1. PICK r \in Replies(Fallback, asked[s].midashi) :
               /\ answer' = [answer EXCEPT ![s] = Response(Merged(stems[s], r))]
               /\ Respond(s, Merged(stems[s], r), Ranked(s, m, Merged(stems[s], r)))
    BY <1>0, <1>6 DEF OkuriAnswered
  <2> DEFINE cs == Merged(stems[s], r)
             ranked == rank_candidates_borrowed(predictor, asked[s].context, m, cs,
                                                switches.annotation_priority)
  <2>2. /\ answer'[s].cands = cs /\ response'[s].cands = ranked
        /\ answer'[s].found /\ answer'[s].closed
        /\ pc'[s] = "answered" /\ okuri_handled'[s] /\ inForce'[s] = {predictor}
        /\ asked' = asked /\ switches' = switches
    BY <1>0, <1>6, <2>1, ResponseIsList DEF OkuriAnswered, Respond, Response, Ranked
  <2>3. cs \in Seq(Candidates)
    BY <1>0, <2>2 DEF Responses
  <2>4. IsRanking(ranked, cs, Scores(predictor, asked[s].context, m,
                                     switches.annotation_priority, cs))
    <3> HIDE DEF m, cs
    <3> QED BY <1>0, <2>3, RankIsRanking
  <2> HIDE DEF cs, ranked
  <2> QED BY <2>2, <2>4 DEF SessionInv, Ordered
<1>7. CASE Answered(s)
  <2>1. PICK r \in Replies(Primary, asked[s].midashi) \cup Replies(Fallback, asked[s].midashi) :
               /\ answer' = [answer EXCEPT ![s] = r]
               /\ IF /\ has_multiple_candidates(r)
                     /\ \/ switches.annotation_priority
                        \/ should_rank(predictor, asked[s].context, asked[s].midashi)
                  THEN pc' = [pc EXCEPT ![s] = "ranking"]
                  ELSE /\ pc' = [pc EXCEPT ![s] = "answered"]
                       /\ response' = [response EXCEPT ![s] = r]
    BY <1>0, <1>7 DEF Answered
  <2>2. /\ answer'[s] = r /\ r \in Responses /\ inForce'[s] = {predictor}
        /\ predictor' = predictor /\ asked' = asked /\ switches' = switches
        /\ ~okuri_handled'[s]
    BY <1>0, <1>7, <2>1 DEF Answered, SessionInv
  <2>3. CASE pc'[s] = "ranking"
    BY <2>2, <2>3 DEF SessionInv, Ordered
  <2>4. CASE pc'[s] # "ranking"
    <3>1. /\ pc'[s] = "answered" /\ response'[s] = r
          /\ ~(/\ has_multiple_candidates(r)
               /\ \/ switches.annotation_priority
                  \/ should_rank(predictor, asked[s].context, asked[s].midashi))
      BY <1>0, <2>1, <2>4
    <3>2. r.found /\ r.closed =>
            IsRanking(r.cands, r.cands, Scores(predictor, asked[s].context, asked[s].midashi,
                                               switches.annotation_priority, r.cands))
      BY <1>0, <2>2, <3>1, FastPathIsRanking
    <3> QED BY <2>2, <3>1, <3>2 DEF SessionInv, Ordered
  <2> QED BY <2>3, <2>4
<1>8. CASE Rank(s)
  <2> DEFINE cs == answer[s].cands
             ranked == rank_candidates_borrowed(predictor, asked[s].context, asked[s].midashi,
                                                cs, switches.annotation_priority)
  <2>1. /\ answer' = answer /\ response'[s].cands = ranked /\ pc'[s] = "answered"
        /\ ~okuri_handled'[s] /\ inForce' = inForce /\ predictor \in inForce[s]
        /\ asked' = asked /\ switches' = switches
    BY <1>0, <1>8, ResponseIsList
       DEF Rank, Respond, Ranked, SessionInv, parse_candidates_borrowed
  <2>2. IsRanking(ranked, cs, Scores(predictor, asked[s].context, asked[s].midashi,
                                     switches.annotation_priority, cs))
    <3>1. cs \in Seq(Candidates)
      BY <1>0 DEF Responses
    <3> HIDE DEF cs
    <3> QED BY <1>0, <3>1, RankIsRanking
  <2> HIDE DEF ranked
  <2> QED BY <2>1, <2>2 DEF SessionInv, Ordered
<1>9. CASE Send(s)
  BY <1>0, <1>9 DEF Send, SessionInv, Ordered
<1>10. ASSUME Session(s)
       PROVE  SessionInv(s)'
  BY <1>4, <1>5, <1>6, <1>7, <1>8, <1>9, <1>10 DEF Session
<1> QED BY <1>1, <1>2, <1>3, <1>10 DEF Next

SessionsInv == \A s \in Sessions : SessionInv(s)

LEMMA AlwaysSessionsInv == Spec => []SessionsInv
<1>1. Init => SessionsInv
  BY DEF Init, SessionsInv, SessionInv, Ordered
<1>2. SessionsInv /\ TypeOK /\ TypeOK' /\ [Next]_vars => SessionsInv'
  BY SessionStep DEF SessionsInv
<1> QED BY <1>1, <1>2, LookupTypeCorrect, PTL DEF Spec

\* Every response is in the order of one table that was in force since its answer
\* came, for any number of sessions and reloads, any seeds and any backends
\* (handle_client's two locks and its fast path).
THEOREM OneTable == Spec => []RankedByOneTable
<1>1. SessionsInv => RankedByOneTable
  BY DEF SessionsInv, SessionInv, Ordered, RankedByOneTable
<1> QED BY <1>1, AlwaysSessionsInv, PTL

-----------------------------------------------------------------------------
(* What is found is shown                                                  *)

\* The stems are what the primary has, less the endings; what a session has to
\* rank, and what it has ranked, are the words offered to it.
Accounted(s) ==
  /\ \A w \in Words : \A h \in heard[s] :
       h[1] = w \o h[2] /\ Last(w) \in KanjiChars => w \in ToSet(stems[s])
  /\ \A w \in ToSet(stems[s]) : \E h \in heard[s] : h[1] = w \/ h[1] = w \o h[2]
  /\ pc[s] # "answered" => ~okuri_handled[s]
  /\ pc[s] = "ranking" => WordsOf(answer[s].cands) = offered[s]
  /\ pc[s] = "answered" =>
       IF okuri_handled[s]
       THEN /\ response[s].cands \in Tidy
            /\ WordsOf(response[s].cands) = ToSet(stems[s]) \cup offered[s]
       ELSE WordsOf(response[s].cands) = offered[s]

LEMMA AccountedIsNotLost == Typed /\ (\A s \in Sessions : Accounted(s)) => NothingLost
<1> SUFFICES ASSUME Typed, NEW s \in Sessions, Accounted(s), pc[s] = "answered"
             PROVE  LET cs == response[s].cands
                        shown == WordsOf(cs)
                    IN IF ~okuri_handled[s] THEN shown = offered[s]
                       ELSE /\ offered[s] \subseteq shown
                            /\ \A w \in Words, h \in heard[s] :
                                 h[1] = w \o h[2] /\ Last(w) \in KanjiChars => w \in shown
                            /\ \A w \in shown \ offered[s] :
                                 HasKanji(w) /\ \E h \in heard[s] : h[1] \in {w, w \o h[2]}
                            /\ \A i \in DOMAIN cs : cs[i].kind = "plain"
                            /\ \A i, j \in DOMAIN cs : i # j => cs[i].word # cs[j].word
  BY DEF NothingLost
<1> DEFINE cs == response[s].cands
           shown == WordsOf(cs)
<1>1. CASE ~okuri_handled[s]
  BY <1>1 DEF Accounted
<1>2. CASE okuri_handled[s]
  <2>1. cs \in Tidy /\ shown = ToSet(stems[s]) \cup offered[s]
    BY <1>2 DEF Accounted
  <2>2. \A w \in ToSet(stems[s]) : HasKanji(w)
    <3>1. stems[s] \in Seq(Stems)
      BY DEF Typed, TypeOK, Stems
    <3> QED BY <3>1 DEF ToSet, Stems
  <2>3. /\ \A i \in DOMAIN cs : cs[i].kind = "plain"
        /\ \A i, j \in DOMAIN cs : i # j => cs[i].word # cs[j].word
    BY <2>1 DEF Tidy
  <2> HIDE DEF cs, shown
  <2>4. \A w \in Words, h \in heard[s] :
          h[1] = w \o h[2] /\ Last(w) \in KanjiChars => w \in shown
    BY <2>1 DEF Accounted
  <2>5. \A w \in shown \ offered[s] :
          HasKanji(w) /\ \E h \in heard[s] : h[1] \in {w, w \o h[2]}
    BY <2>1, <2>2 DEF Accounted
  <2>6. offered[s] \subseteq shown
    BY <2>1
  <2> QED BY <1>2, <2>3, <2>4, <2>5, <2>6 DEF cs, shown
<1> QED BY <1>1, <1>2

LEMMA AccountedInit == Init => \A s \in Sessions : Accounted(s)
BY DEF Init, Accounted, ToSet

\* A step that leaves a session's lookup alone.
LEMMA NotAccountedAnew ==
  ASSUME NEW s \in Sessions, Accounted(s), heard'[s] = heard[s], stems'[s] = stems[s],
         pc'[s] = pc[s], okuri_handled'[s] = okuri_handled[s], answer'[s] = answer[s],
         offered'[s] = offered[s], response'[s] = response[s]
  PROVE  Accounted(s)'
BY DEF Accounted

LEMMA AccountedSession ==
  ASSUME Typed, NEW s \in Sessions, Accounted(s), Session(s)
  PROVE  Accounted(s)'
<1>0. /\ TypeOK /\ Once(stems[s]) /\ stems[s] \in Seq(Stems) /\ okuri_handled[s] \in BOOLEAN
      /\ DOMAIN pc = Sessions /\ DOMAIN heard = Sessions /\ DOMAIN stems = Sessions
      /\ DOMAIN okuri_handled = Sessions /\ DOMAIN answer = Sessions
      /\ DOMAIN offered = Sessions /\ DOMAIN response = Sessions
  BY DEF Typed, TypeOK, Stems
<1>1. ASSUME NEW m \in Midashi, NEW c \in Contexts \cup {NoWord}, NEW tracked \in BOOLEAN,
             Ask(s, m, c, tracked)
      PROVE  Accounted(s)'
  BY <1>0, <1>1 DEF Ask, Accounted
<1>2. CASE Variation(s)
  <2> DEFINE v == Head(todo[s])
  <2>1. PICK r \in Replies(Primary, v.query_midashi) :
               /\ stems' = [stems EXCEPT ![s] = StemsWith(stems[s], v, r)]
               /\ heard' = [heard EXCEPT ![s] = @ \cup WordsOf(r.cands) \X {v.okuri_suffix}]
    BY <1>2 DEF Variation, StemsWith, PushAll, parse_candidates_borrowed
  <2>2. v \in Variations
    BY <1>0, <1>2 DEF TypeOK, Variation
  <2> DEFINE e == v.okuri_suffix
             new == StemsWith(stems[s], v, r)
  <2>3. /\ ToSet(stems[s]) \subseteq ToSet(new)
        /\ \A w \in ToSet(new) \ ToSet(stems[s]) :
             \E x \in WordsOf(r.cands) : x = w \/ x = w \o e
        /\ \A w \in Words : \A x \in WordsOf(r.cands) :
             x = w \o e /\ Last(w) \in KanjiChars => w \in ToSet(new)
    <3> HIDE DEF v
    <3> QED BY <1>0, <2>2, VariationFinds
  <2>4. stems'[s] = new /\ heard'[s] = heard[s] \cup WordsOf(r.cands) \X {e}
    BY <1>0, <2>1
  <2>5. /\ pc[s] = "asking" /\ pc'[s] = pc[s] /\ okuri_handled' = okuri_handled
    BY <1>2 DEF Variation
  <2> HIDE DEF v, e, new
  <2>6. \A x \in WordsOf(r.cands) : \E h \in heard'[s] : h[1] = x /\ h[2] = e
    <3> SUFFICES ASSUME NEW x \in WordsOf(r.cands)
                 PROVE  \E h \in heard'[s] : h[1] = x /\ h[2] = e
      OBVIOUS
    <3>1. <<x, e>> \in heard'[s] /\ <<x, e>>[1] = x /\ <<x, e>>[2] = e
      BY <2>4
    <3> QED BY <3>1
  <2>7. ASSUME NEW w \in ToSet(new)
        PROVE  \E h \in heard'[s] : h[1] = w \/ h[1] = w \o h[2]
    <3>1. CASE w \in ToSet(stems[s])
      BY <2>4, <3>1 DEF Accounted
    <3>2. CASE w \notin ToSet(stems[s])
      <4>1. PICK x \in WordsOf(r.cands) : x = w \/ x = w \o e
        BY <2>3, <3>2
      <4>2. PICK h \in heard'[s] : h[1] = x /\ h[2] = e
        BY <2>6
      <4> QED BY <4>1, <4>2
    <3> QED BY <3>1, <3>2
  <2>8. ASSUME NEW w \in Words, NEW h \in heard'[s], h[1] = w \o h[2], Last(w) \in KanjiChars
        PROVE  w \in ToSet(new)
    <3>1. CASE h \in heard[s]
      BY <2>3, <2>8, <3>1 DEF Accounted
    <3>2. CASE h \notin heard[s]
      <4>1. h[1] \in WordsOf(r.cands) /\ h[2] = e
        BY <2>4, <3>2
      <4> QED BY <2>3, <2>8, <4>1
    <3> QED BY <3>1, <3>2
  <2> QED BY <2>4, <2>5, <2>7, <2>8 DEF Accounted
<1>3. CASE OutOfTime(s)
  BY <1>0, <1>3, NotAccountedAnew DEF OutOfTime
<1>4. CASE OkuriAnswered(s)
  <2> DEFINE m == normalize_okuri_midashi_key(asked[s].midashi)
  <2>1. PICK r \in Replies(Fallback, asked[s].midashi) :
               /\ offered' = [offered EXCEPT ![s] = WordsOf(r.cands)]
               /\ Respond(s, Merged(stems[s], r), Ranked(s, m, Merged(stems[s], r)))
    BY <1>4 DEF OkuriAnswered
  <2> HIDE DEF m
  <2>2. r \in Responses /\ (r.found \/ r.cands = << >>) /\ BlocksAreClosed(r.cands)
    BY RepliesAre
  <2> DEFINE cs == Merged(stems[s], r)
             ranked == rank_candidates_borrowed(predictor, asked[s].context, m, cs,
                                                switches.annotation_priority)
  <2>3. cs \in Tidy /\ WordsOf(cs) = ToSet(stems[s]) \cup WordsOf(r.cands)
    BY <1>0, <2>2, MergedIs
  <2>4. cs \in Seq(Candidates)
    BY <2>3 DEF Tidy
  <2>5. response'[s].cands = ranked /\ pc'[s] = "answered"
    BY <1>0, <2>1, ResponseIsList DEF Respond, Ranked
  <2> HIDE DEF cs
  <2>6. ranked \in Tidy /\ WordsOf(ranked) = WordsOf(cs)
    BY <1>0, <2>3, <2>4, RankedIs DEF TypeOK
  <2> HIDE DEF ranked
  <2>7. /\ stems' = stems /\ heard' = heard /\ okuri_handled'[s]
        /\ offered'[s] = WordsOf(r.cands)
    BY <1>0, <1>4, <2>1 DEF OkuriAnswered
  <2> QED BY <2>3, <2>5, <2>6, <2>7 DEF Accounted
<1>5. CASE Answered(s)
  <2>1. PICK r \in Replies(Primary, asked[s].midashi) \cup Replies(Fallback, asked[s].midashi) :
               /\ answer' = [answer EXCEPT ![s] = r]
               /\ offered' = [offered EXCEPT ![s] = WordsOf(r.cands)]
               /\ \/ pc' = [pc EXCEPT ![s] = "ranking"]
                  \/ /\ pc' = [pc EXCEPT ![s] = "answered"]
                     /\ response' = [response EXCEPT ![s] = r]
    BY <1>5 DEF Answered
  <2>2. /\ stems' = stems /\ heard' = heard /\ okuri_handled' = okuri_handled
        /\ ~okuri_handled[s]
    BY <1>5 DEF Answered, Accounted
  <2>3. /\ answer'[s] = r /\ offered'[s] = WordsOf(r.cands)
        /\ \/ pc'[s] = "ranking"
           \/ pc'[s] = "answered" /\ response'[s] = r
    BY <1>0, <2>1
  <2> QED BY <2>2, <2>3 DEF Accounted
<1>6. CASE Rank(s)
  <2> DEFINE cs == answer[s].cands
             ranked == rank_candidates_borrowed(predictor, asked[s].context, asked[s].midashi, cs,
                                                switches.annotation_priority)
  <2>1. cs \in Seq(Candidates)
    BY <1>0 DEF TypeOK, Responses
  <2>2. response'[s].cands = ranked /\ pc'[s] = "answered"
    BY <1>0, <1>6, ResponseIsList DEF Rank, Respond, Ranked, parse_candidates_borrowed
  <2>3. /\ stems' = stems /\ heard' = heard /\ okuri_handled' = okuri_handled
        /\ offered' = offered /\ ~okuri_handled[s] /\ WordsOf(cs) = offered[s]
    BY <1>6 DEF Rank, Accounted
  <2> HIDE DEF cs
  <2>4. WordsOf(ranked) = WordsOf(cs)
    BY <1>0, <2>1, RankedIs DEF TypeOK
  <2> HIDE DEF ranked
  <2> QED BY <2>2, <2>3, <2>4 DEF Accounted
<1>7. CASE Send(s)
  <2>1. /\ pc'[s] = "idle" /\ stems'[s] = << >> /\ heard'[s] = {} /\ ~okuri_handled'[s]
    BY <1>0, <1>7 DEF Send
  <2> QED BY <2>1 DEF Accounted, ToSet
<1> QED BY <1>1, <1>2, <1>3, <1>4, <1>5, <1>6, <1>7 DEF Session

LEMMA AccountedNext ==
  Typed /\ (\A s \in Sessions : Accounted(s)) /\ [Next]_vars => \A s \in Sessions : Accounted(s)'
<1> SUFFICES ASSUME Typed, [Next]_vars, NEW s \in Sessions, Accounted(s)
             PROVE  Accounted(s)'
  OBVIOUS
<1>1. CASE UNCHANGED vars
  BY <1>1, NotAccountedAnew DEF vars, lookupVars
<1>2. ASSUME NEW raw \in Seeds, Reload(raw)
      PROVE  Accounted(s)'
  BY <1>2, NotAccountedAnew DEF Reload
<1>3. ASSUME NEW z \in Sessions, Session(z), z # s
      PROVE  Accounted(s)'
  <2>1. /\ DOMAIN pc = Sessions /\ DOMAIN heard = Sessions /\ DOMAIN stems = Sessions
        /\ DOMAIN okuri_handled = Sessions /\ DOMAIN answer = Sessions
        /\ DOMAIN offered = Sessions /\ DOMAIN response = Sessions
    BY DEF Typed, TypeOK
  <2>2. /\ pc'[s] = pc[s] /\ heard'[s] = heard[s] /\ stems'[s] = stems[s]
        /\ okuri_handled'[s] = okuri_handled[s] /\ answer'[s] = answer[s]
        /\ offered'[s] = offered[s] /\ response'[s] = response[s]
    BY <1>3, <2>1 DEF Session, Ask, Variation, OutOfTime, OkuriAnswered, Answered, Rank, Send,
                      Respond
  <2> QED BY <2>2, NotAccountedAnew
<1> QED BY <1>1, <1>2, <1>3, AccountedSession DEF Next

\* No word a backend offers for the midashi is lost, no stem is lost or shown
\* twice, and nothing else is shown, for any number of sessions, any tables of
\* endings, any backends and any reloads (extract_stem_candidates_borrowed,
\* parse_candidates_unpacked, the merge in handle_client and the sort).
THEOREM AllIsShown == Spec => []NothingLost
<1> DEFINE Inv == \A s \in Sessions : Accounted(s)
<1>1. Init => Inv
  BY AccountedInit
<1>2. Inv /\ Typed /\ [Next]_vars => Inv'
  BY AccountedNext
<1>3. Inv /\ Typed => NothingLost
  BY AccountedIsNotLost
<1> QED BY <1>1, <1>2, <1>3, AlwaysTyped, PTL DEF Spec

-----------------------------------------------------------------------------
(* What the context is told                                                *)

\* The top candidate is the first of the response.
ShownInv ==
  /\ DOMAIN pc = Sessions /\ DOMAIN response = Sessions /\ DOMAIN top = Sessions
  /\ DOMAIN told = Sessions
  /\ \A s \in Sessions : pc[s] = "answered" => top[s] = extract_first_candidate(response[s])

LEMMA RespondShown ==
  ASSUME ShownInv, NEW s \in Sessions, NEW cs, NEW ranked, Respond(s, cs, ranked),
         UNCHANGED told
  PROVE  ShownInv'
<1>1. extract_first_candidate(Response(ranked))
        = extract_first_candidate(format_candidates_response_str(ranked))
  BY DEF extract_first_candidate, format_candidates_response_str, Response, NotFound
<1>2. top'[s] = extract_first_candidate(response'[s])
  BY <1>1 DEF ShownInv, Respond
<1> QED BY <1>2 DEF ShownInv, Respond

LEMMA ShownNext == ShownInv /\ [Next]_vars => ShownInv'
<1> SUFFICES ASSUME ShownInv, [Next]_vars
             PROVE  ShownInv'
  OBVIOUS
<1>1. CASE UNCHANGED vars
  BY <1>1 DEF vars, lookupVars, ShownInv
<1>2. ASSUME NEW raw \in Seeds, Reload(raw)
      PROVE  ShownInv'
  BY <1>2 DEF Reload, ShownInv
<1>3. ASSUME NEW s \in Sessions, Session(s)
      PROVE  ShownInv'
  <2>1. ASSUME NEW m \in Midashi, NEW c \in Contexts \cup {NoWord}, NEW tracked \in BOOLEAN,
               Ask(s, m, c, tracked)
        PROVE  ShownInv'
    BY <2>1 DEF Ask, ShownInv
  <2>2. CASE Variation(s) \/ OutOfTime(s)
    BY <2>2 DEF Variation, OutOfTime, ShownInv
  <2>3. CASE OkuriAnswered(s)
    <3>1. UNCHANGED told
      BY <2>3 DEF OkuriAnswered
    <3>2. PICK r \in Replies(Fallback, asked[s].midashi) :
                 LET cs == Merged(stems[s], r)
                 IN Respond(s, cs, Ranked(s, normalize_okuri_midashi_key(asked[s].midashi), cs))
      BY <2>3 DEF OkuriAnswered
    <3> QED BY <3>1, <3>2, RespondShown
  <2>4. CASE Answered(s)
    BY <2>4 DEF Answered, ShownInv
  <2>5. CASE Rank(s)
    <3>1. /\ Respond(s, parse_candidates_borrowed(answer[s]),
                     Ranked(s, asked[s].midashi, parse_candidates_borrowed(answer[s])))
          /\ UNCHANGED told
      BY <2>5 DEF Rank
    <3> QED BY <3>1, RespondShown
  <2>6. CASE Send(s)
    BY <2>6 DEF Send, ShownInv
  <2> QED BY <1>3, <2>1, <2>2, <2>3, <2>4, <2>5, <2>6 DEF Session
<1> QED BY <1>1, <1>2, <1>3 DEF Next

\* The context is told of the word the response sent has first, if it has a
\* kanji and the lookup is tracked, for any sessions, backends, tables and reloads
\* (top_candidate_for_context).
THEOREM TopIsShown == Spec => ShownIsPending
<1>1. Init => ShownInv
  BY DEF Init, ShownInv
<1>2. ShownInv /\ [Next]_vars =>
        [\A s \in Sessions :
           pc[s] = "answered" /\ pc'[s] = "idle" =>
             LET first == extract_first_candidate(response[s])
             IN told'[s] = IF asked[s].tracked /\ HasKanji(first)
                           THEN [midashi |-> asked[s].midashi, word |-> first]
                           ELSE NotTold]_vars
  <2> SUFFICES ASSUME ShownInv, Next, NEW s \in Sessions, pc[s] = "answered", pc'[s] = "idle"
               PROVE  told'[s] = IF asked[s].tracked /\ HasKanji(top[s])
                                 THEN [midashi |-> asked[s].midashi, word |-> top[s]]
                                 ELSE NotTold
    BY DEF ShownInv
  <2>1. ASSUME NEW raw \in Seeds, Reload(raw)
        PROVE  FALSE
    BY <2>1 DEF Reload
  <2>2. ASSUME NEW z \in Sessions, Session(z), ~Send(s)
        PROVE  FALSE
    <3>1. ASSUME NEW m \in Midashi, NEW c \in Contexts \cup {NoWord}, NEW tracked \in BOOLEAN,
                 Ask(z, m, c, tracked)
          PROVE  FALSE
      BY <3>1 DEF Ask, ShownInv
    <3>2. CASE Variation(z) \/ OutOfTime(z)
      BY <3>2 DEF Variation, OutOfTime
    <3>3. CASE OkuriAnswered(z) \/ Rank(z)
      BY <3>3 DEF OkuriAnswered, Rank, Respond, ShownInv
    <3>4. CASE Answered(z)
      BY <3>4 DEF Answered, ShownInv
    <3>5. CASE Send(z)
      BY <2>2, <3>5 DEF Send, ShownInv
    <3> QED BY <2>2, <3>1, <3>2, <3>3, <3>4, <3>5 DEF Session
  <2>3. Send(s)
    BY <2>1, <2>2 DEF Next
  <2> QED BY <2>3 DEF Send, Remembered, ShownInv
<1> QED BY <1>1, <1>2, ShownNext, PTL DEF Spec, ShownIsPending

-----------------------------------------------------------------------------
(* Spellings                                                               *)

LEMMA LowerCase ==
  /\ \A c \in Letters : LowerChar(c) \in Letters \ Capitals
  /\ \A c : c \notin Capitals => LowerChar(c) = c
  /\ \A c : LowerChar(LowerChar(c)) = LowerChar(c)
<1>1. \A c \in Capitals : LowerOf[c] \in Letters \ Capitals
  BY OkuriAssumption DEF Letters
<1> QED BY <1>1 DEF LowerChar, Letters

LEMMA Joined ==
  ASSUME NEW S, NEW a \in Seq(S), NEW b \in Seq(S)
  PROVE  /\ a \o b \in Seq(S) /\ Len(a \o b) = Len(a) + Len(b)
         /\ Len(a) \in Nat /\ Len(b) \in Nat
         /\ \A i \in 1..Len(a) : (a \o b)[i] = a[i]
         /\ \A i \in 1..Len(b) : (a \o b)[Len(a) + i] = b[i]
OBVIOUS

\* A text put together is taken apart again.
LEMMA CutAt ==
  ASSUME NEW S, NEW a \in Seq(S), NEW b \in Seq(S)
  PROVE  /\ SubSeq(a \o b, 1, Len(a)) = a
         /\ SubSeq(a \o b, Len(a) + 1, Len(a \o b)) = b
<1> DEFINE m == a \o b
<1>1. /\ m \in Seq(S) /\ Len(m) = Len(a) + Len(b) /\ Len(a) \in Nat /\ Len(b) \in Nat
      /\ \A i \in 1..Len(a) : m[i] = a[i]
      /\ \A i \in 1..Len(b) : m[Len(a) + i] = b[i]
  OBVIOUS
<1>2. \A i \in 1..Len(m) : m[i] \in S
  BY <1>1
<1> HIDE DEF m
<1>3. SubSeq(m, 1, Len(a)) = a
  <2>1. /\ SubSeq(m, 1, Len(a)) \in Seq(S) /\ Len(SubSeq(m, 1, Len(a))) = Len(a)
        /\ \A i \in 1..Len(a) : SubSeq(m, 1, Len(a))[i] = m[i]
    BY <1>1, <1>2, SubSeqProperties
  <2> QED BY <1>1, <2>1, SameList
<1>4. SubSeq(m, Len(a) + 1, Len(m)) = b
  <2>1. /\ SubSeq(m, Len(a) + 1, Len(m)) \in Seq(S)
        /\ Len(SubSeq(m, Len(a) + 1, Len(m))) = Len(b)
        /\ \A i \in 1..Len(b) : SubSeq(m, Len(a) + 1, Len(m))[i] = m[Len(a) + i]
    BY <1>1, <1>2, SubSeqProperties
  <2> QED BY <1>1, <2>1, SameList
<1> QED BY <1>3, <1>4 DEF m

LEMMA NoStarNoSplit ==
  ASSUME NEW S, NEW m \in Seq(S), \A i \in 1..Len(m) : m[i] # Star
  PROVE  ~HasStar(m)
BY DEF HasStar, Contains

LEMMA StarSplit ==
  ASSUME NEW S, Star \in S, NEW a \in Seq(S), NEW b \in Seq(S), a # << >>, b # << >>,
         \A i \in 1..Len(a) : a[i] # Star
  PROVE  LET m == a \o <<Star>> \o b
         IN HasStar(m) /\ BeforeStar(m) = a /\ AfterStar(m) = b
<1> DEFINE st == <<Star>>
           m == a \o st \o b
           I == {i \in 1..Len(m) : m[i] = Star}
           k == SelectInSeq(m, LAMBDA c : c = Star)
<1>1. st \in Seq(S) /\ Len(st) = 1 /\ st[1] = Star
  OBVIOUS
<1>2. /\ m = a \o (st \o b) /\ st \o b \in Seq(S) /\ a \o st \in Seq(S)
      /\ Len(a \o st) = Len(a) + 1
  BY <1>1
<1>3. /\ Len(a) \in Nat /\ Len(b) \in Nat /\ Len(m) = Len(a) + 1 + Len(b) /\ m \in Seq(S)
      /\ \A i \in 1..Len(a) : m[i] = a[i]
      /\ m[Len(a) + 1] = Star
  BY <1>1
<1> HIDE DEF st
<1>4. SubSeq(m, 1, Len(a)) = a
  BY <1>2, CutAt
<1>5. SubSeq(m, Len(a) + 1 + 1, Len(m)) = b
  BY <1>2, CutAt
<1> HIDE DEF m
<1>6. Len(a) + 1 \in I /\ \A i \in I : Len(a) + 1 <= i
  BY <1>3
<1>7. I # {} /\ Min(I) = Len(a) + 1
  <2>1. \A i \in I : i \in Nat
    BY <1>3
  <2> HIDE DEF I
  <2>2. Min(I) \in I /\ \A i \in I : Min(I) <= i
    BY <1>6 DEF Min
  <2> QED BY <1>3, <1>6, <2>1, <2>2
<1>8. k = Len(a) + 1
  <2>1. k = IF I # {} THEN Min(I) ELSE 0
    BY DEF SelectInSeq
  <2> QED BY <1>7, <2>1
<1>9. BeforeStar(m) = a
  <2>1. BeforeStar(m) = SubSeq(m, 1, k - 1)
    BY DEF BeforeStar
  <2> HIDE DEF k
  <2>2. k - 1 = Len(a)
    BY <1>3, <1>8
  <2> QED BY <1>4, <2>1, <2>2
<1>10. AfterStar(m) = b
  <2>1. AfterStar(m) = SubSeq(m, k + 1, Len(m))
    BY DEF AfterStar
  <2> QED BY <1>5, <1>8, <2>1
<1>11. Contains(m, Star)
  BY <1>3 DEF Contains
<1> QED BY <1>9, <1>10, <1>11 DEF HasStar, m, st

LEMMA AlphaSplit ==
  ASSUME NEW S, NEW a \in Seq(S), NEW b \in Seq(S), a # << >>, Last(a) \notin Letters,
         \A i \in 1..Len(b) : b[i] \in Letters
  PROVE  AlphaLen(a \o b) = Len(b)
<1> DEFINE m == a \o b
           I == {i \in DOMAIN m : \A j \in i..Len(m) : m[j] \in Letters}
<1>1. /\ m \in Seq(S) /\ Len(m) = Len(a) + Len(b) /\ Len(a) \in Nat /\ Len(b) \in Nat
      /\ Len(a) > 0 /\ m[Len(a)] = Last(a) /\ DOMAIN m = 1..Len(m)
      /\ \A i \in 1..Len(b) : m[Len(a) + i] = b[i]
  BY DEF Last
<1> HIDE DEF m
<1>2. \A i \in (Len(a) + 1)..Len(m) : i - Len(a) \in 1..Len(b) /\ i = Len(a) + (i - Len(a))
  BY <1>1
<1>3. \A i \in (Len(a) + 1)..Len(m) : m[i] \in Letters
  BY <1>1, <1>2
<1>4. ASSUME NEW i \in I
      PROVE  i \in (Len(a) + 1)..Len(m)
  <2>1. CASE i <= Len(a)
    <3>1. Len(a) \in i..Len(m)
      BY <1>1, <2>1
    <3> QED BY <1>1, <3>1
  <2> QED BY <1>1, <2>1
<1>5. I = (Len(a) + 1)..Len(m)
  <2>1. \A i \in (Len(a) + 1)..Len(m) : i \in DOMAIN m /\ i..Len(m) \subseteq (Len(a) + 1)..Len(m)
    BY <1>1
  <2>2. \A i \in (Len(a) + 1)..Len(m) : i \in I
    BY <1>3, <2>1
  <2> HIDE DEF I
  <2> QED BY <1>4, <2>2
<1>6. Cardinality((Len(a) + 1)..Len(m)) = Len(b)
  <2> DEFINE from == Len(a) + 1
             to == Len(m)
  <2>1. from \in Int /\ to \in Int /\ to - from + 1 = Len(b) /\ (from > to => Len(b) = 0)
    BY <1>1
  <2> HIDE DEF from, to
  <2>2. Cardinality(from..to) = IF from > to THEN 0 ELSE to - from + 1
    BY <2>1, FS_Interval
  <2> QED BY <2>1, <2>2 DEF from, to
<1> QED BY <1>5, <1>6 DEF AlphaLen, m

\* Neither a letter nor a star is in a stem.
IsStem(stem) == IsText(stem) /\ stem # << >> /\ ToSet(stem) \cap (Letters \cup {Star}) = {}

Alphabet(stem) == ToSet(stem) \cup Letters \cup {Star}

LEMMA StemIs ==
  ASSUME NEW stem, IsStem(stem)
  PROVE  /\ stem \in Seq(Alphabet(stem)) /\ Len(stem) \in Nat \ {0}
         /\ \A i \in 1..Len(stem) : stem[i] \notin Letters /\ stem[i] # Star
<1>1. stem \in Seq(ToSet(stem)) /\ stem # << >>
  BY DEF IsStem, IsText
<1>2. ToSet(stem) \subseteq Alphabet(stem)
  BY DEF Alphabet
<1>3. stem \in Seq(Alphabet(stem))
  BY <1>1, <1>2, Widened
<1>4. \A i \in 1..Len(stem) : stem[i] \in ToSet(stem)
  BY <1>1
<1> QED BY <1>1, <1>3, <1>4 DEF IsStem

\* A stem and letters: how many letters there are decides the kind.
LEMMA LettersParsed ==
  ASSUME NEW S, Letters \subseteq S, NEW a \in Seq(S), NEW b \in Seq(S), a # << >>, b # << >>,
         \A i \in 1..Len(a) : a[i] \notin Letters /\ a[i] # Star,
         \A i \in 1..Len(b) : b[i] \in Letters
  PROVE  LET m == a \o b
             romaji == SubSeq(b, 1, Len(b) - 1)
         IN /\ Len(b) = 1 => parse_okuri_midashi_extended(m) = Simple(a, b[1])
            /\ Len(b) >= 2 /\ b[1] \in Capitals /\ romaji_to_hiragana(romaji) # << >>
                 => parse_okuri_midashi_extended(m) = Compound(a, romaji, LowerChar(Last(b)))
<1> DEFINE m == a \o b
           romaji == SubSeq(b, 1, Len(b) - 1)
<1>1. /\ m \in Seq(S) /\ Len(m) = Len(a) + Len(b) /\ Len(a) \in Nat /\ Len(b) \in Nat
      /\ Len(a) > 0 /\ Len(b) > 0
      /\ \A i \in 1..Len(a) : m[i] = a[i]
      /\ \A i \in 1..Len(b) : m[Len(a) + i] = b[i]
  OBVIOUS
<1>2. Last(m) = Last(b)
  BY <1>1 DEF Last
<1>3. AlphaLen(m) = Len(b)
  <2>1. Last(a) \notin Letters
    BY <1>1 DEF Last
  <2> QED BY <2>1, AlphaSplit
<1>4. SubSeq(m, 1, Len(a)) = a /\ SubSeq(m, Len(a) + 1, Len(m)) = b
  BY CutAt
<1> HIDE DEF m
<1>5. ~HasStar(m)
  <2>1. ASSUME NEW i \in 1..Len(m)
        PROVE  m[i] # Star
    <3>1. CASE i <= Len(a)
      BY <1>1, <3>1
    <3>2. CASE i > Len(a)
      <4>1. i - Len(a) \in 1..Len(b) /\ i = Len(a) + (i - Len(a))
        BY <1>1, <3>2
      <4>2. m[i] = b[i - Len(a)]
        BY <1>1, <4>1
      <4> QED BY <4>1, <4>2, OkuriAssumption
    <3> QED BY <1>1, <3>1, <3>2
  <2> QED BY <1>1, <2>1, NoStarNoSplit
<1>6. ~IsAscii(a)
  BY <1>1 DEF IsAscii
<1>7. SubSeq(m, Len(a) + 1, Len(m) - 1) = romaji
  <2> DEFINE n == Len(b) - 1
  <2>1. n \in Nat /\ Len(a) + 1 + n - 1 = Len(m) - 1 /\ Len(m) - 1 - (Len(a) + 1) + 1 = n
    BY <1>1
  <2>2. /\ SubSeq(m, Len(a) + 1, Len(m) - 1) \in Seq(S)
        /\ Len(SubSeq(m, Len(a) + 1, Len(m) - 1)) = n
        /\ \A i \in 1..n : SubSeq(m, Len(a) + 1, Len(m) - 1)[i] = m[Len(a) + i]
    <3>1. \A i \in (Len(a) + 1)..(Len(m) - 1) : m[i] \in S
      BY <1>1
    <3> QED BY <1>1, <2>1, <3>1, SubSeqProperties
  <2>3. /\ romaji \in Seq(S) /\ Len(romaji) = n
        /\ \A i \in 1..n : romaji[i] = b[i]
    <3>1. \A i \in 1..n : b[i] \in S
      BY <1>1
    <3> QED BY <1>1, <2>1, <3>1, SubSeqProperties
  <2>4. \A i \in 1..n : m[Len(a) + i] = b[i]
    BY <1>1
  <2> DEFINE cut == SubSeq(m, Len(a) + 1, Len(m) - 1)
  <2> HIDE DEF n, romaji, cut
  <2>5. cut \in Seq(S) /\ Len(cut) = Len(romaji) /\ \A i \in 1..Len(cut) : cut[i] = romaji[i]
    BY <2>2, <2>3, <2>4 DEF cut
  <2>6. cut = romaji
    BY <2>3, <2>5, SameList
  <2> QED BY <2>6 DEF cut
<1>8. SubSeq(m, 1, Len(m) - AlphaLen(m)) = a
  <2>1. Len(m) - AlphaLen(m) = Len(a)
    BY <1>1, <1>3
  <2> QED BY <1>4, <2>1
<1> HIDE DEF romaji
<1> DEFINE alpha == AlphaLen(m)
           prefix == SubSeq(m, 1, Len(m) - alpha)
           letters == SubSeq(m, Len(prefix) + 1, Len(m) - 1)
           p == parse_okuri_midashi_extended(m)
<1>11. alpha = Len(b) /\ prefix = a /\ letters = romaji
  BY <1>3, <1>7, <1>8
<1>12. /\ alpha >= 2 /\ ~IsAscii(prefix) /\ letters[1] \in Capitals
            /\ romaji_to_hiragana(letters) # << >>
            => p = Compound(prefix, letters, LowerChar(Last(m)))
       /\ alpha = 1 /\ ~IsAscii(prefix) => p = Simple(prefix, Last(m))
  <2> DEFINE suffix == AfterStar(m)
             big == alpha >= 2 /\ ~IsAscii(prefix) /\ letters[1] \in Capitals
                    /\ romaji_to_hiragana(letters) # << >>
             starred == IF Len(suffix) = 1 /\ suffix[1] \in Letters
                        THEN Simple(BeforeStar(m), LowerChar(suffix[1]))
                        ELSE Explicit(BeforeStar(m), suffix)
  <2>1. p = CASE HasStar(m) -> starred
              [] ~HasStar(m) /\ big -> Compound(prefix, letters, LowerChar(Last(m)))
              [] ~HasStar(m) /\ alpha = 1 /\ ~IsAscii(prefix) -> Simple(prefix, Last(m))
              [] OTHER -> NotOkuri
    BY DEF parse_okuri_midashi_extended
  <2>2. alpha = 1 => ~big
    BY DEF big
  <2> HIDE DEF starred, p, letters
  <2>3. big => p = Compound(prefix, letters, LowerChar(Last(m)))
    <3> HIDE DEF big, prefix
    <3> QED BY <1>5, <2>1, <2>2
  <2>4. alpha = 1 /\ ~IsAscii(prefix) => p = Simple(prefix, Last(m))
    <3> HIDE DEF big, prefix
    <3> QED BY <1>5, <2>1, <2>2
  <2> QED BY <2>3, <2>4
<1> HIDE DEF alpha, prefix, letters, p
<1>9. ASSUME Len(b) = 1
      PROVE  parse_okuri_midashi_extended(m) = Simple(a, b[1])
  <2>1. Last(b) = b[1]
    BY <1>9 DEF Last
  <2> QED BY <1>2, <1>6, <1>9, <1>11, <1>12, <2>1 DEF p
<1>10. ASSUME Len(b) >= 2, b[1] \in Capitals, romaji_to_hiragana(romaji) # << >>
       PROVE  parse_okuri_midashi_extended(m) = Compound(a, romaji, LowerChar(Last(b)))
  <2>1. romaji[1] = b[1]
    <3>1. \A i \in 1..(Len(b) - 1) : b[i] \in S
      BY <1>1
    <3>2. Len(b) - 1 \in Int /\ 1 \in 1..(Len(b) - 1) /\ Len(b) - 1 - 1 + 1 = Len(b) - 1
      BY <1>1, <1>10
    <3>3. \A i \in 1..(Len(b) - 1 - 1 + 1) : romaji[i] = b[1 + i - 1]
      BY <3>1, <3>2, SubSeqProperties DEF romaji
    <3> QED BY <3>2, <3>3
  <2> QED BY <1>2, <1>6, <1>10, <1>11, <1>12, <2>1 DEF p
<1> QED BY <1>9, <1>10 DEF m, romaji

LEMMA StarParsed ==
  ASSUME NEW S, Star \in S, NEW a \in Seq(S), NEW b \in Seq(S), a # << >>, b # << >>,
         \A i \in 1..Len(a) : a[i] # Star
  PROVE  parse_okuri_midashi_extended(a \o <<Star>> \o b)
           = IF Len(b) = 1 /\ b[1] \in Letters THEN Simple(a, LowerChar(b[1])) ELSE Explicit(a, b)
<1> DEFINE m == a \o <<Star>> \o b
<1>1. HasStar(m) /\ BeforeStar(m) = a /\ AfterStar(m) = b
  BY StarSplit
<1> HIDE DEF m
<1>2. parse_okuri_midashi_extended(m)
        = IF Len(b) = 1 /\ b[1] \in Letters THEN Simple(a, LowerChar(b[1])) ELSE Explicit(a, b)
  BY <1>1 DEF parse_okuri_midashi_extended
<1> QED BY <1>2 DEF m

LEMMA RowOfLower ==
  ASSUME NEW stem, NEW k
  PROVE  order_suffixes_for_stem(stem, LowerChar(k)) = order_suffixes_for_stem(stem, k)
<1> DEFINE Row(j) == CASE Len(stem) >= 3 /\ j \in DOMAIN LongestSuffixes -> LongestSuffixes[j]
                       [] Len(stem) >= 2 /\ j \in DOMAIN LongSuffixes
                            /\ ~(Len(stem) >= 3 /\ j \in DOMAIN LongestSuffixes) -> LongSuffixes[j]
                       [] OTHER -> okuri_key_to_suffixes(j)
<1>1. \A j : order_suffixes_for_stem(stem, j) = Row(LowerChar(j))
  BY DEF order_suffixes_for_stem
<1> HIDE DEF Row
<1> QED BY <1>1, LowerCase

LEMMA SimpleForm ==
  ASSUME NEW m, NEW stem, NEW k, parse_okuri_midashi_extended(m) = Simple(stem, k)
  PROVE  /\ expand_okuri_variations(m)
              = Inflected(stem, order_suffixes_for_stem(stem, LowerChar(k)))
         /\ normalize_okuri_midashi_key(m) = Append(stem, LowerChar(k))
<1> DEFINE p == parse_okuri_midashi_extended(m)
<1>1. p.kind = "Simple" /\ p.stem = stem /\ p.key = k
  BY DEF Simple
<1>2. p.kind # "Compound" /\ p.kind # "Explicit"
  BY <1>1
<1>3. expand_okuri_variations(m) = Inflected(p.stem, order_suffixes_for_stem(p.stem, p.key))
  BY <1>1, <1>2 DEF expand_okuri_variations
<1>4. normalize_okuri_midashi_key(m) = Append(p.stem, LowerChar(p.key))
  BY <1>1, <1>2 DEF normalize_okuri_midashi_key
<1> HIDE DEF p
<1> QED BY <1>1, <1>3, <1>4, RowOfLower

LEMMA CompoundForm ==
  ASSUME NEW m, NEW stem, NEW romaji, NEW k,
         parse_okuri_midashi_extended(m) = Compound(stem, romaji, k)
  PROVE  LET full == stem \o romaji_to_hiragana(romaji)
         IN /\ expand_okuri_variations(m) = Inflected(full, order_suffixes_for_stem(full, k))
            /\ normalize_okuri_midashi_key(m) = Append(full, k)
<1> DEFINE p == parse_okuri_midashi_extended(m)
           full == p.stem \o romaji_to_hiragana(p.romaji)
<1>1. p.kind = "Compound" /\ p.stem = stem /\ p.romaji = romaji /\ p.key = k
  BY DEF Compound
<1>2. p.kind # "Simple" /\ p.kind # "Explicit"
  BY <1>1
<1>3. expand_okuri_variations(m) = Inflected(full, order_suffixes_for_stem(full, p.key))
  BY <1>1, <1>2 DEF expand_okuri_variations
<1>4. normalize_okuri_midashi_key(m) = Append(full, p.key)
  BY <1>1, <1>2 DEF normalize_okuri_midashi_key
<1> HIDE DEF p
<1> QED BY <1>1, <1>3, <1>4

LEMMA ExplicitForm ==
  ASSUME NEW m, NEW stem, NEW e, parse_okuri_midashi_extended(m) = Explicit(stem, e),
         kana_to_okuri_key(e[1]) # NoKey
  PROVE  normalize_okuri_midashi_key(m) = Append(stem, kana_to_okuri_key(e[1]))
<1> DEFINE p == parse_okuri_midashi_extended(m)
<1>1. p.kind = "Explicit" /\ p.stem = stem /\ p.suffix = e
  BY DEF Explicit
<1>2. p.kind # "Simple" /\ p.kind # "Compound"
  BY <1>1
<1>3. normalize_okuri_midashi_key(m)
        = LET key == kana_to_okuri_key(p.suffix[1]) IN IF key = NoKey THEN m ELSE Append(p.stem, key)
  BY <1>1, <1>2 DEF normalize_okuri_midashi_key
<1> HIDE DEF p
<1> QED BY <1>1, <1>3

\* The last kana of a stem, written with a capital and small letters.
LEMMA RomajiRead ==
  ASSUME NEW romaji \in DOMAIN Kana, NEW c \in Capitals, LowerOf[c] = romaji[1]
  PROVE  LET text == <<c>> \o Tail(romaji)
         IN /\ text \in Seq(Letters) /\ text # << >> /\ text[1] = c
            /\ romaji_to_hiragana(text) = Kana[romaji]
<1> DEFINE text == <<c>> \o Tail(romaji)
           n == Len(romaji)
<1>1. romaji \in Seq(Letters \ Capitals) /\ romaji # << >>
  <2>1. romaji \in Seq(ToSet(romaji)) /\ ToSet(romaji) \subseteq Letters \ Capitals
    BY KanaAssumption DEF IsText
  <2> QED BY <2>1, KanaAssumption, Widened
<1>2. n \in Nat /\ n > 0 /\ DOMAIN romaji = 1..n
      /\ \A i \in 1..n : romaji[i] \in Letters /\ romaji[i] \notin Capitals
  BY <1>1
<1>3. Tail(romaji) \in Seq(Letters) /\ Len(Tail(romaji)) = n - 1
      /\ \A i \in 1..(n - 1) : Tail(romaji)[i] = romaji[i + 1]
  BY <1>1, <1>2
<1>4. c \in Letters
  BY DEF Letters
<1>5. /\ text \in Seq(Letters) /\ Len(text) = n /\ text[1] = c /\ DOMAIN text = 1..n
      /\ \A i \in 1..(n - 1) : text[i + 1] = romaji[i + 1]
  BY <1>2, <1>3, <1>4
<1> HIDE DEF text, n
<1>6. \A i \in 1..n : LowerChar(text[i]) = romaji[i]
  <2> TAKE i \in 1..n
  <2>1. CASE i = 1
    BY <1>5, <2>1 DEF LowerChar
  <2>2. CASE i # 1
    <3>1. i - 1 \in 1..(n - 1) /\ i = (i - 1) + 1
      BY <1>2, <2>2
    <3>2. text[i] = romaji[i]
      BY <1>5, <3>1
    <3> QED BY <1>2, <3>2, LowerCase
  <2> QED BY <2>1, <2>2
<1>7. Lower(text) = romaji
  <2>1. Lower(text) = [i \in 1..n |-> romaji[i]]
    BY <1>5, <1>6 DEF Lower
  <2>2. romaji = [i \in 1..n |-> romaji[i]]
    BY <1>1, <1>2
  <2> QED BY <2>1, <2>2
<1>8. romaji_to_hiragana(text) = Kana[romaji]
  BY <1>7 DEF romaji_to_hiragana
<1>9. text # << >>
  BY <1>2, <1>5
<1> QED BY <1>5, <1>8, <1>9 DEF text

\* However a word is spelled, it is asked for by its stem and key.
LEMMA SpelledAlike ==
  ASSUME NEW word, IsStem(word.stem), word.key \in Letters \ Capitals, NEW m \in Spellings(word)
  PROVE  /\ expand_okuri_variations(m)
              = Inflected(word.stem, order_suffixes_for_stem(word.stem, word.key))
         /\ normalize_okuri_midashi_key(m) = Append(word.stem, word.key)
<1> DEFINE stem == word.stem
           S == Alphabet(stem)
           Cut(i) == SubSeq(stem, 1, i)
           Rest(i) == SubSeq(stem, i + 1, Len(stem))
           text(c, romaji) == <<c>> \o Tail(romaji)
<1>1. /\ stem \in Seq(S) /\ Len(stem) \in Nat \ {0} /\ stem # << >>
      /\ \A i \in 1..Len(stem) : stem[i] \in S /\ stem[i] \notin Letters /\ stem[i] # Star
  BY StemIs DEF IsStem
<1>2. Letters \subseteq S /\ Star \in S
  BY DEF Alphabet
<1>3. PICK k \in Letters :
        /\ LowerChar(k) = word.key
        /\ \/ m = Append(stem, k)
           \/ m = Append(Append(stem, Star), k)
           \/ \E n \in 1..Len(stem) : \E romaji \in DOMAIN Kana : \E c \in Capitals :
                /\ Kana[romaji] = Rest(n) /\ LowerOf[c] = romaji[1]
                /\ m = Append(Cut(n) \o text(c, romaji), k)
  <2> DEFINE InLetters(n) == {romaji \in DOMAIN Kana : Kana[romaji] = Rest(n)}
             Capital(romaji) == {text(c, romaji) : c \in {c \in Capitals : LowerOf[c] = romaji[1]}}
             Written(n) == {Cut(n) \o t : t \in UNION {Capital(romaji) : romaji \in InLetters(n)}}
             keys == {k \in Letters : LowerChar(k) = word.key}
             starts == {stem, Append(stem, Star)} \cup UNION {Written(n) : n \in 1..Len(stem)}
  <2>1. Spellings(word) = {Append(start, k) : start \in starts, k \in keys}
    BY DEF Spellings
  <2> HIDE DEF starts, keys, stem
  <2>2. PICK start \in starts, k \in keys : m = Append(start, k)
    BY <2>1
  <2>3. k \in Letters /\ LowerChar(k) = word.key
    BY <2>2 DEF keys
  <2>4. CASE start \in {stem, Append(stem, Star)}
    BY <2>2, <2>3, <2>4
  <2>5. CASE start \in UNION {Written(n) : n \in 1..Len(stem)}
    <3>1. PICK n \in 1..Len(stem) : start \in Written(n)
      BY <2>5
    <3>2. PICK t \in UNION {Capital(romaji) : romaji \in InLetters(n)} : start = Cut(n) \o t
      BY <3>1
    <3>3. PICK romaji \in InLetters(n) : t \in Capital(romaji)
      BY <3>2
    <3>4. PICK c \in Capitals : LowerOf[c] = romaji[1] /\ t = text(c, romaji)
      BY <3>3
    <3>5. m = Append(Cut(n) \o text(c, romaji), k) /\ romaji \in DOMAIN Kana /\ Kana[romaji] = Rest(n)
      BY <2>2, <3>2, <3>3, <3>4
    <3> HIDE DEF Cut, Rest, text
    <3> QED BY <2>3, <3>4, <3>5
  <2> QED BY <2>2, <2>4, <2>5 DEF starts
<1> HIDE DEF S
<1> DEFINE b1 == <<k>>
<1>4. b1 \in Seq(S) /\ b1 # << >> /\ Len(b1) = 1 /\ b1[1] = k /\ b1[1] \in Letters
  BY <1>2
<1>5. \A a \in Seq(S) : Append(a, k) = a \o b1
  BY <1>2
<1> HIDE DEF b1
<1>6. CASE m = Append(stem, k)
  <2>1. m = stem \o b1
    BY <1>1, <1>5, <1>6
  <2>2. parse_okuri_midashi_extended(stem \o b1) = Simple(stem, b1[1])
    BY <1>1, <1>2, <1>4, LettersParsed
  <2> HIDE DEF stem
  <2> QED BY <1>3, <1>4, <2>1, <2>2, SimpleForm DEF stem
<1>7. CASE m = Append(Append(stem, Star), k)
  <2>1. m = stem \o <<Star>> \o b1
    <3>1. Append(stem, Star) \in Seq(S) /\ Append(stem, Star) = stem \o <<Star>>
      BY <1>1, <1>2
    <3> QED BY <1>5, <1>7, <3>1
  <2>2. parse_okuri_midashi_extended(stem \o <<Star>> \o b1) = Simple(stem, LowerChar(b1[1]))
    BY <1>1, <1>2, <1>4, StarParsed
  <2>3. LowerChar(LowerChar(k)) = word.key
    BY <1>3, LowerCase
  <2> HIDE DEF stem
  <2> QED BY <1>4, <2>1, <2>2, <2>3, SimpleForm DEF stem
<1>8. ASSUME NEW n \in 1..Len(stem), NEW romaji \in DOMAIN Kana, NEW c \in Capitals,
             Kana[romaji] = Rest(n), LowerOf[c] = romaji[1],
             m = Append(Cut(n) \o text(c, romaji), k)
      PROVE  /\ expand_okuri_variations(m)
                  = Inflected(stem, order_suffixes_for_stem(stem, word.key))
             /\ normalize_okuri_midashi_key(m) = Append(stem, word.key)
  <2> DEFINE a == Cut(n)
             t == text(c, romaji)
             b == t \o b1
  <2>1. /\ t \in Seq(Letters) /\ t # << >> /\ t[1] = c /\ romaji_to_hiragana(t) = Rest(n)
        /\ Rest(n) # << >>
    <3>1. Kana[romaji] # << >>
      BY KanaAssumption
    <3> QED BY <1>8, <3>1, RomajiRead
  <2>2. /\ a \in Seq(S) /\ Len(a) = n /\ a # << >>
        /\ \A i \in 1..n : a[i] = stem[i]
    <3>1. n \in Int /\ n > 0 /\ n - 1 + 1 = n /\ \A i \in 1..n : stem[i] \in S
      BY <1>1
    <3>2. a \in Seq(S) /\ Len(a) = n /\ \A i \in 1..n : a[i] = stem[1 + i - 1]
      BY <3>1, SubSeqProperties
    <3> HIDE DEF a, stem
    <3>4. \A i \in 1..n : 1 + i - 1 = i
      BY <3>1
    <3>3. \A i \in 1..n : a[i] = stem[i]
      BY <3>2, <3>4
    <3> QED BY <3>1, <3>2, <3>3
  <2>3. \A i \in 1..Len(a) : a[i] \notin Letters /\ a[i] # Star
    BY <1>1, <2>2
  <2>4. a \o Rest(n) = stem
    <3>1. \A i \in (n + 1)..Len(stem) : stem[i] \in S
      BY <1>1
    <3>2. /\ n + 1 \in Int /\ Len(stem) \in Int /\ n \in Nat /\ n <= Len(stem)
      BY <1>1
    <3>3. /\ Rest(n) \in Seq(S) /\ Len(Rest(n)) = Len(stem) - n
          /\ \A i \in 1..(Len(stem) - n) : Rest(n)[i] = stem[n + i]
      BY <3>1, <3>2, SubSeqProperties
    <3> DEFINE r == Rest(n)
    <3> HIDE DEF a, r, stem
    <3>7. r \in Seq(S) /\ Len(r) = Len(stem) - n /\ \A i \in 1..Len(r) : r[i] = stem[n + i]
      BY <3>2, <3>3 DEF r
    <3>8. /\ a \o r \in Seq(S) /\ Len(a \o r) = Len(a) + Len(r)
          /\ \A i \in 1..Len(a) : (a \o r)[i] = a[i]
          /\ \A i \in 1..Len(r) : (a \o r)[Len(a) + i] = r[i]
      <4>1. a \in Seq(S) /\ r \in Seq(S)
        BY <2>2, <3>7
      <4> QED BY ONLY <4>1, Joined
    <3> DEFINE whole == a \o r
    <3>9. whole = a \o r
      OBVIOUS
    <3> HIDE DEF whole
    <3>4. /\ whole \in Seq(S) /\ Len(whole) = Len(stem)
          /\ \A i \in 1..n : whole[i] = stem[i]
          /\ \A i \in 1..(Len(stem) - n) : whole[n + i] = stem[n + i]
      BY <2>2, <3>2, <3>7, <3>8 DEF whole
    <3>5. \A i \in 1..Len(stem) : whole[i] = stem[i]
      <4> TAKE i \in 1..Len(stem)
      <4>1. CASE i <= n
        BY <3>2, <3>4, <4>1
      <4>2. CASE i > n
        <5>1. PICK j \in 1..(Len(stem) - n) : i = n + j
          <6>1. i - n \in 1..(Len(stem) - n) /\ i = n + (i - n)
            BY <3>2, <4>2
          <6> QED BY <6>1
        <5>2. whole[n + j] = stem[n + j]
          BY <3>4
        <5> QED BY <5>1, <5>2
      <4> QED BY <3>2, <4>1, <4>2
    <3>6. whole = stem
      BY <1>1, <3>4, <3>5, SameList DEF stem
    <3> QED BY <3>6, <3>9 DEF r
  <2> HIDE DEF stem, a, t
  <2>5. t \in Seq(S) /\ b \in Seq(S) /\ Len(b) = Len(t) + 1 /\ Len(t) \in Nat /\ Len(t) >= 1
        /\ b[1] = c /\ Last(b) = k
    <3>1. t \in Seq(S)
      BY <1>2, <2>1, Widened
    <3>2. /\ b \in Seq(S) /\ Len(b) = Len(t) + 1 /\ Len(t) \in Nat /\ Len(t) >= 1
          /\ b[1] = t[1] /\ b[Len(t) + 1] = k
      <4>1. /\ b \in Seq(S) /\ Len(b) = Len(t) + Len(b1)
            /\ \A i \in 1..Len(t) : b[i] = t[i]
            /\ \A i \in 1..Len(b1) : b[Len(t) + i] = b1[i]
        <5>1. t \in Seq(S) /\ b1 \in Seq(S)
          BY <1>4, <3>1
        <5> QED BY ONLY <5>1, Joined
      <4>2. Len(t) \in Nat /\ Len(t) >= 1
        BY <2>1
      <4> HIDE DEF b
      <4> QED BY <1>4, <2>1, <4>1, <4>2
    <3> QED BY <2>1, <3>1, <3>2 DEF Last
  <2>6. \A i \in 1..Len(b) : b[i] \in Letters
    <3>1. b1 \in Seq(Letters)
      BY DEF b1
    <3>2. b \in Seq(Letters)
      BY <2>1, <3>1
    <3> QED BY <3>2
  <2>7. SubSeq(b, 1, Len(b) - 1) = t
    <3>1. SubSeq(b, 1, Len(t)) = t
      BY <1>4, <2>5, CutAt
    <3>2. Len(b) - 1 = Len(t)
      BY <2>5
    <3> HIDE DEF b
    <3> QED BY <3>1, <3>2
  <2>8. m = a \o b
    <3>1. m = (a \o t) \o b1
      <4>1. a \o t \in Seq(S)
        BY <2>2, <2>5
      <4> QED BY <1>5, <1>8, <4>1 DEF a, t
    <3> QED BY <1>4, <2>2, <2>5, <3>1
  <2>9. b # << >> /\ Len(b) >= 2
    BY <2>5
  <2> HIDE DEF b
  <2>10. parse_okuri_midashi_extended(a \o b)
          = Compound(a, SubSeq(b, 1, Len(b) - 1), LowerChar(Last(b)))
    BY <1>2, <2>1, <2>2, <2>3, <2>5, <2>6, <2>7, <2>9, LettersParsed
  <2>11. parse_okuri_midashi_extended(m) = Compound(a, t, word.key)
    BY <1>3, <2>5, <2>7, <2>8, <2>10
  <2>12. a \o romaji_to_hiragana(t) = stem
    BY <2>1, <2>4
  <2> QED BY <2>11, <2>12, CompoundForm
<1> QED BY <1>3, <1>6, <1>7, <1>8

\* The ending in full gives the key of the same row.
LEMMA SpelledOutAlike ==
  ASSUME NEW word, IsStem(word.stem), word.key \in Letters \ Capitals,
         NEW m \in SpelledOut(word)
  PROVE  normalize_okuri_midashi_key(m) = Append(word.stem, word.key)
<1> DEFINE stem == word.stem
<1>1. PICK e \in Endings : kana_to_okuri_key(e[1]) = word.key /\ m = stem \o <<Star>> \o e
  BY DEF SpelledOut
<1>2. IsText(e) /\ e # << >> /\ ToSet(e) \cap Letters = {}
  <2>1. PICK table \in {ShortSuffixes, LongSuffixes} : \E j \in DOMAIN table : e \in ToSet(table[j])
    BY DEF Endings
  <2> QED BY <2>1, EndingsAssumption
<1> DEFINE S == Alphabet(stem) \cup ToSet(e)
<1>3. stem \in Seq(S) /\ e \in Seq(S) /\ Star \in S
  <2>1. stem \in Seq(Alphabet(stem)) /\ e \in Seq(ToSet(e))
    BY <1>2, StemIs DEF IsText
  <2> QED BY <2>1, Widened DEF Alphabet
<1>4. \A i \in 1..Len(stem) : stem[i] # Star
  BY StemIs
<1>5. e[1] \notin Letters
  <2>1. e \in Seq(ToSet(e)) /\ e # << >>
    BY <1>2 DEF IsText
  <2>2. e[1] \in ToSet(e)
    BY <2>1
  <2> QED BY <1>2, <2>2
<1> HIDE DEF S
<1>6. parse_okuri_midashi_extended(stem \o <<Star>> \o e) = Explicit(stem, e)
  BY <1>2, <1>3, <1>4, <1>5, StarParsed DEF IsStem
<1>7. word.key # NoKey
  BY OkuriAssumption DEF NoKey
<1> HIDE DEF stem
<1> QED BY <1>1, <1>6, <1>7, ExplicitForm DEF stem

-----------------------------------------------------------------------------
(* Lookups of okuri-ari words                                              *)

LEMMA SuffixLeft ==
  ASSUME NEW S, NEW w \in Seq(S)
  PROVE  /\ IsSuffix(w, w) /\ IsSuffix(<< >>, w)
         /\ \A e \in Seq(S) : IsSuffix(e, w) /\ e # << >> => IsSuffix(Tail(e), w)
<1>1. IsSuffix(w, w)
  <2>1. Len(w) \in Nat /\ \A i \in 1..Len(w) : Len(w) - Len(w) + i = i
    OBVIOUS
  <2> QED BY <2>1, SuffixIs
<1>2. IsSuffix(<< >>, w)
  <2> DEFINE e == << >>
  <2>1. e \in Seq(S) /\ Len(e) <= Len(w) /\ \A i \in 1..Len(e) : FALSE
    OBVIOUS
  <2> HIDE DEF e
  <2>2. IsSuffix(e, w)
    BY <2>1, SuffixIs
  <2> QED BY <2>2 DEF e
<1>3. ASSUME NEW e \in Seq(S), IsSuffix(e, w), e # << >>
      PROVE  IsSuffix(Tail(e), w)
  <2> DEFINE t == Tail(e)
             n == Len(e)
             k == Len(w)
  <2>1. t \in Seq(S) /\ Len(t) = n - 1 /\ n \in Nat /\ n > 0 /\ k \in Nat
        /\ \A i \in 1..(n - 1) : t[i] = e[i + 1]
    BY <1>3
  <2>2. n <= k /\ \A i \in 1..n : e[i] = w[k - n + i]
    BY <1>3, SuffixIs
  <2> HIDE DEF t, n, k
  <2>3. \A i \in 1..(n - 1) : i + 1 \in 1..n /\ k - n + (i + 1) = k - (n - 1) + i
    BY <2>1, <2>2
  <2>4. n - 1 <= k /\ \A i \in 1..(n - 1) : t[i] = w[k - (n - 1) + i]
    BY <2>1, <2>2, <2>3
  <2>5. Len(t) <= Len(w) /\ \A i \in 1..Len(t) : t[i] = w[Len(w) - Len(t) + i]
    BY <2>1, <2>4 DEF k
  <2>6. IsSuffix(t, w)
    BY <2>1, <2>5, SuffixIs
  <2> QED BY <2>6 DEF t
<1> QED BY <1>1, <1>2, <1>3

\* What is still to be asked for is the rest of what the midashi stands for.
AsksOn(s) ==
  pc[s] = "asking" => /\ asked[s].midashi \in Midashi
                      /\ IsSuffix(todo[s], expand_okuri_variations(asked[s].midashi))

LEMMA AsksOnNext ==
  ASSUME Typed, \A s \in Sessions : AsksOn(s), [Next]_vars
  PROVE  \A s \in Sessions : AsksOn(s)'
<1> SUFFICES ASSUME NEW s \in Sessions
             PROVE  AsksOn(s)'
  OBVIOUS
<1>0. TypeOK
  BY DEF Typed
<1>1. ASSUME UNCHANGED <<pc, asked, todo>>
      PROVE  AsksOn(s)'
  BY <1>1 DEF AsksOn
<1>2. CASE UNCHANGED vars \/ \E raw \in Seeds : Reload(raw)
  BY <1>1, <1>2 DEF vars, lookupVars, Reload
<1>3. ASSUME NEW z \in Sessions, Session(z), z # s
      PROVE  AsksOn(s)'
  <2>1. pc'[s] = pc[s] /\ asked'[s] = asked[s] /\ todo'[s] = todo[s]
    BY <1>0, <1>3
       DEF TypeOK, Session, Ask, Variation, OutOfTime, OkuriAnswered, Answered, Rank, Respond, Send
  <2> QED BY <2>1 DEF AsksOn
<1>4. ASSUME Session(s)
      PROVE  AsksOn(s)'
  <2>1. ASSUME NEW m \in Midashi, NEW c, NEW tracked, Ask(s, m, c, tracked)
        PROVE  AsksOn(s)'
    <3>1. asked'[s].midashi = m /\ todo'[s] \in {expand_okuri_variations(m), << >>}
      BY <1>0, <2>1 DEF Ask, TypeOK
    <3>2. IsSuffix(todo'[s], expand_okuri_variations(m))
      BY <3>1, VariationsAre, SuffixLeft
    <3> QED BY <3>1, <3>2 DEF AsksOn
  <2>2. CASE Variation(s) \/ OutOfTime(s)
    <3>1. /\ pc[s] = "asking" /\ asked' = asked /\ todo[s] # << >>
          /\ todo'[s] \in {Tail(todo[s]), << >>}
      BY <1>0, <2>2 DEF Variation, OutOfTime, TypeOK
    <3>2. todo[s] \in Seq(Variations)
      BY <1>0 DEF TypeOK
    <3>3. /\ asked[s].midashi \in Midashi
          /\ IsSuffix(todo[s], expand_okuri_variations(asked[s].midashi))
      BY <3>1 DEF AsksOn
    <3>4. IsSuffix(todo'[s], expand_okuri_variations(asked[s].midashi))
      BY <3>1, <3>2, <3>3, VariationsAre, SuffixLeft
    <3> QED BY <3>1, <3>3, <3>4 DEF AsksOn
  <2>3. CASE OkuriAnswered(s) \/ Answered(s) \/ Rank(s) \/ Send(s)
    <3>1. pc'[s] # "asking"
      BY <1>0, <2>3 DEF OkuriAnswered, Answered, Rank, Respond, Send, TypeOK
    <3> QED BY <3>1 DEF AsksOn
  <2> QED BY <1>4, <2>1, <2>2, <2>3 DEF Session
<1> QED BY <1>2, <1>3, <1>4 DEF Next

\* However an okuri-ari word is spelled, what is still to be asked for is the same,
\* and a response made of stems is in the order of the word's own row of a table in
\* force, for any words, tables of endings and kana, whatever of it has been asked
\* and whenever the tables are replaced (the okuri path of handle_client).
THEOREM SpelledOneWay == Spec => []SpellingsAgree
<1> DEFINE Asking == \A s \in Sessions : AsksOn(s)
<1>1. Init => Asking
  BY DEF Init, AsksOn
<1>2. Typed /\ Asking /\ [Next]_vars => Asking'
  BY AsksOnNext
<1>3. Asking /\ SessionsInv => SpellingsAgree
  <2> SUFFICES ASSUME Asking, SessionsInv, NEW s \in Sessions, NEW word \in OkuriWords
               PROVE  /\ pc[s] = "asking" /\ asked[s].midashi \in Spellings(word) =>
                           \A m \in Spellings(word) : IsSuffix(todo[s], expand_okuri_variations(m))
                      /\ /\ pc[s] = "answered" /\ okuri_handled[s]
                         /\ asked[s].midashi \in Spellings(word) \cup SpelledOut(word)
                         => \E t \in inForce[s] :
                              IsRanking(response[s].cands, answer[s].cands,
                                        Scores(t, asked[s].context, Append(word.stem, word.key),
                                               switches.annotation_priority, answer[s].cands))
    BY DEF SpellingsAgree
  <2>1. IsStem(word.stem) /\ word.key \in Letters \ Capitals
    BY LookupAssumption DEF IsStem
  <2>2. \A m \in Spellings(word) :
          /\ expand_okuri_variations(m)
               = Inflected(word.stem, order_suffixes_for_stem(word.stem, word.key))
          /\ normalize_okuri_midashi_key(m) = Append(word.stem, word.key)
    BY <2>1, SpelledAlike
  <2>3. \A m \in SpelledOut(word) :
          normalize_okuri_midashi_key(m) = Append(word.stem, word.key)
    BY <2>1, SpelledOutAlike
  <2>4. ASSUME pc[s] = "asking", asked[s].midashi \in Spellings(word)
        PROVE  \A m \in Spellings(word) : IsSuffix(todo[s], expand_okuri_variations(m))
    <3>1. IsSuffix(todo[s], expand_okuri_variations(asked[s].midashi))
      BY <2>4 DEF AsksOn
    <3> QED BY <2>2, <2>4, <3>1
  <2>5. ASSUME pc[s] = "answered", okuri_handled[s],
               asked[s].midashi \in Spellings(word) \cup SpelledOut(word)
        PROVE  \E t \in inForce[s] :
                 IsRanking(response[s].cands, answer[s].cands,
                           Scores(t, asked[s].context, Append(word.stem, word.key),
                                  switches.annotation_priority, answer[s].cands))
    <3>1. normalize_okuri_midashi_key(asked[s].midashi) = Append(word.stem, word.key)
      BY <2>2, <2>3, <2>5
    <3>2. Ordered(s) /\ answer[s].found /\ answer[s].closed
      BY <2>5 DEF SessionsInv, SessionInv
    <3> QED BY <2>5, <3>1, <3>2 DEF Ordered
  <2> QED BY <2>4, <2>5
<1> QED BY <1>1, <1>2, <1>3, AlwaysTyped, AlwaysSessionsInv, PTL DEF Spec
=============================================================================
