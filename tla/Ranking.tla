------------------------------- MODULE Ranking ------------------------------
(***************************************************************************)
(* Candidate lists (src/encoding.rs) and their order (src/frequency.rs):   *)
(* pure functions, as operators.                                           *)
(*                                                                         *)
(* A candidate is a word with or without an annotation (`word;note`), or   *)
(* the opening or the closing of an okuri block (`[okuri`, `word]`).  A    *)
(* response is its candidates and whether a slash closes the line; empty   *)
(* candidates, as in `1//a/`, are left out.                                *)
(***************************************************************************)
EXTENDS Okuri

CONSTANTS Words,      \* candidates without annotation; also contexts
          Midashi,
          Dictionary, \* the headwords of the system's dictionary
          Presets     \* DEFAULT_SEED_JSON's context_frequencies

\* Option::None; also the bare `]`.
NoWord == << >>

ASSUME RankingAssumption == NoWord \notin Words \cup Midashi \cup Dictionary

ASSUME TextAssumption == \A w \in Words \cup Midashi : IsText(w)

\* What the aliases of a word are: it less one or more characters at its end.
Aliases(w) == Prefixes(w) \ {w, NoWord}

-----------------------------------------------------------------------------
(* Responses                                                               *)

Plain(w)     == [kind |-> "plain", word |-> w, note |-> FALSE]
Candidates   == [kind : {"plain"}, word : Words, note : BOOLEAN]
                \cup [kind : {"open"}, word : {NoWord}, note : BOOLEAN]
                \cup [kind : {"close"}, word : Words \cup {NoWord}, note : BOOLEAN]

NotFound     == [found |-> FALSE, cands |-> << >>, closed |-> TRUE]
Response(cs) == [found |-> TRUE, cands |-> cs, closed |-> TRUE]

\* The word without its annotation, and with it the bracket that may close a
\* block; other pieces of blocks are in no table and in no dictionary.
clean_candidate(cand) == IF cand.kind = "plain" \/ cand.note THEN cand.word ELSE NoWord

\* The first candidate, already clean.
extract_first_candidate(r) ==
  IF r.found /\ r.cands # << >> THEN clean_candidate(r.cands[1]) ELSE NoWord

\* Two slashes after the first candidate's own: the last one may be missing.
has_multiple_candidates(r) ==
  r.found /\ Len(r.cands) >= IF r.closed THEN 2 ELSE 3

parse_candidates_borrowed(r) == r.cands

\* Mutant: blocks are not taken apart.
parse_candidates_unpacked_Raw(r) == r.cands

\* Headers of blocks are dropped, their candidates and all others kept once.
Take(acc, cand) ==
  CASE cand.kind = "open" -> [acc EXCEPT !.in_block = TRUE]
    [] cand.kind = "close" /\ acc.in_block ->
         [cands |-> IF cand.word = NoWord THEN acc.cands
                    ELSE PushNew(acc.cands, [cand EXCEPT !.kind = "plain"]),
          in_block |-> FALSE]
    [] OTHER -> [acc EXCEPT !.cands = PushNew(@, cand)]

parse_candidates_unpacked(r) ==
  FoldLeft(Take, [cands |-> << >>, in_block |-> FALSE], r.cands).cands

format_candidates_response_str(cs) == IF cs = << >> THEN NotFound ELSE Response(cs)

-----------------------------------------------------------------------------
(* Tables: a partial function from midashi (contexts) to partial functions *)
(* from words to scores                                                    *)

NoScores == [w \in {} |-> 0]

\* u64
Numbers(map)      == map \in [DOMAIN map -> Nat]
AreScores(t)      == /\ \A m \in DOMAIN t.frequencies : Numbers(t.frequencies[m])
                     /\ \A c \in DOMAIN t.context_frequencies : Numbers(t.context_frequencies[c])

\* HashMap<String, u64>, and the maps of those.
IsScoreMap(map) == /\ Numbers(map) /\ IsFiniteSet(DOMAIN map)
                   /\ \A w \in DOMAIN map : IsText(w)
AreScoreMaps(maps) == /\ maps = [k \in DOMAIN maps |-> maps[k]] /\ IsFiniteSet(DOMAIN maps)
                      /\ \A k \in DOMAIN maps : IsText(k) /\ IsScoreMap(maps[k])

ASSUME TablesAssumption == AreScoreMaps(Presets) /\ NoWord \notin DOMAIN Presets

get_score(map, w) == IF w \in DOMAIN map THEN map[w] ELSE 0

Highest(S) == CHOOSE n \in S : \A k \in S : k <= n

\* The keys that add w, w itself or the longer words it is an alias of.
Sources(map, w) == {k \in DOMAIN map : w = k \/ w \in Aliases(k)}

WithAliases(keys) == keys \cup UNION {Aliases(k) : k \in keys}

\* Mutant: an alias takes the place of a score the user has given.
expand_inner_aliases_Overwrite(inner) ==
  [w \in WithAliases(DOMAIN inner) |->
     Highest({inner[k] : k \in {k \in Sources(inner, w) : k # w \/ Sources(inner, w) = {w}}})]

expand_inner_aliases(inner) ==
  [w \in WithAliases(DOMAIN inner) |-> Highest({inner[k] : k \in Sources(inner, w)})]

\* Mutant: the keys are expanded before the values.
expand_context_map_aliases_KeysFirst(ctx_map) ==
  LET Union(C) == [w \in UNION {DOMAIN ctx_map[c] : c \in C} |->
                     Highest({get_score(ctx_map[c], w) : c \in C})]
  IN [c \in WithAliases(DOMAIN ctx_map) |->
        IF c \in DOMAIN ctx_map THEN expand_inner_aliases(ctx_map[c])
        ELSE Union(Sources(ctx_map, c))]

\* A new key gets the maps of all the keys it is an alias of; an old one keeps
\* its own.
expand_context_map_aliases(ctx_map) ==
  LET inner == [c \in DOMAIN ctx_map |-> expand_inner_aliases(ctx_map[c])]
      Union(C) == [w \in UNION {DOMAIN inner[c] : c \in C} |->
                     Highest({get_score(inner[c], w) : c \in C})]
  IN [c \in WithAliases(DOMAIN inner) |->
        IF c \in DOMAIN inner THEN inner[c] ELSE Union(Sources(inner, c))]

expand_aliases(t) ==
  [frequencies |-> [m \in DOMAIN t.frequencies |-> expand_inner_aliases(t.frequencies[m])],
   context_frequencies |-> expand_context_map_aliases(t.context_frequencies)]

\* The higher of two scores; a word may be in one map only.
MaxScores(old, new) ==
  [w \in DOMAIN old \cup DOMAIN new |-> Highest({get_score(old, w), get_score(new, w)})]

merge_default_presets_raw(t) ==
  LET contexts == t.context_frequencies
      In(map, c) == IF c \in DOMAIN map THEN map[c] ELSE NoScores
  IN [t EXCEPT !.context_frequencies =
        [c \in DOMAIN contexts \cup DOMAIN Presets |-> MaxScores(In(contexts, c), In(Presets, c))]]

\* load, then ensure_default_context_presets.
Served(raw) ==
  LET loaded == expand_aliases(raw)
  IN IF DOMAIN loaded.context_frequencies # {} THEN loaded
     ELSE expand_aliases(merge_default_presets_raw(loaded))

-----------------------------------------------------------------------------
(* The order                                                               *)

get_freq_map(t, m) ==
  CASE m \in DOMAIN t.frequencies -> t.frequencies[m]
    [] m \notin DOMAIN t.frequencies /\ Lower(m) \in DOMAIN t.frequencies ->
         t.frequencies[Lower(m)]
    [] OTHER -> NoScores

get_context_map(t, c) ==
  IF c \in DOMAIN t.context_frequencies THEN t.context_frequencies[c] ELSE NoScores

has_freq(t, m)    == DOMAIN get_freq_map(t, m) # {}
has_context(t, c) == c \in DOMAIN t.context_frequencies

\* Mutant: the context is forgotten.
should_rank_FrequencyOnly(t, c, m) == has_freq(t, m)

should_rank(t, c, m) == has_freq(t, m) \/ has_context(t, c)

\* What has_definition is asked about: the word and, for an okuri-ari midashi,
\* the word with the ending given or with those its letter allows.
DictQueries(word, m) ==
  LET p == parse_okuri_midashi_extended(m)
      suffixes ==
        CASE p.kind \in {"Simple", "Compound"} -> okuri_key_to_dict_suffixes(p.key)
          [] p.kind = "Explicit" ->
               <<p.suffix>> \o okuri_key_to_dict_suffixes(kana_to_okuri_key(p.suffix[1]))
          [] OTHER -> << >>
  IN <<word>> \o [i \in DOMAIN suffixes |-> word \o suffixes[i]]

is_annotated_or_in_dict(cand, m) ==
  LET word == clean_candidate(cand)
  IN cand.note \/ (word # NoWord /\ \E i \in DOMAIN DictQueries(word, m) :
                                    DictQueries(word, m)[i] \in Dictionary)

AnnotationBonus == 100

Score(t, c, m, annotation_priority, cand) ==
  (IF annotation_priority /\ is_annotated_or_in_dict(cand, m) THEN AnnotationBonus ELSE 0)
  + get_score(get_freq_map(t, m), clean_candidate(cand))
  + get_score(get_context_map(t, c), clean_candidate(cand)) * 10

\* Higher scores first, and in the upstream's order where they are equal;
\* score[i] is the score of cs[i].
Sorted(cs, score) ==
  LET Before(i, j) == score[i] > score[j] \/ (score[i] = score[j] /\ i < j)
      Place(j)     == 1 + Cardinality({i \in DOMAIN cs : Before(i, j)})
  IN [k \in DOMAIN cs |-> cs[CHOOSE j \in DOMAIN cs : Place(j) = k]]

Scores(t, c, m, annotation_priority, cs) ==
  [i \in DOMAIN cs |-> Score(t, c, m, annotation_priority, cs[i])]

rank_candidates_borrowed(t, c, m, cs, annotation_priority) ==
  LET score == Scores(t, c, m, annotation_priority, cs)
  IN IF \/ Len(cs) <= 1
        \/ ~has_freq(t, m) /\ ~has_context(t, c) /\ ~annotation_priority
        \/ \A i \in DOMAIN cs : score[i] = 0
     THEN cs
     ELSE Sorted(cs, score)
=============================================================================
