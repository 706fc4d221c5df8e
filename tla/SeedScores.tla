----------------------------- MODULE SeedScores -----------------------------
(***************************************************************************)
(* The scores import-user-dict gives (src/frequency.rs): the user's        *)
(* dictionary lists the candidates of a midashi in the order the user has  *)
(* taught it, and the seed keeps of each the highest score it ever had.    *)
(* SeedStore says when this happens to the file; here is what is computed. *)
(***************************************************************************)
EXTENDS Ranking

CONSTANTS Seeds,    \* the contents the seed file may have
          UserDicts \* the user's dictionaries: sequences of Line

\* What serde_json makes of a file; no context of it is the empty string.
IsSeed(raw) ==
  /\ raw = [frequencies |-> raw.frequencies, context_frequencies |-> raw.context_frequencies]
  /\ AreScoreMaps(raw.frequencies) /\ AreScoreMaps(raw.context_frequencies)
  /\ NoWord \notin DOMAIN raw.context_frequencies

ASSUME SeedsAssumption == \A raw \in Seeds : IsSeed(raw)

\* `midashi /candidate/.../`, okuri blocks included.
Line(m, cands) == [midashi |-> m, cands |-> cands]

IsLine(l) == IsText(l.midashi) /\ l.cands \in Seq(Candidates)

ASSUME UserDictsAssumption ==
  \A d \in UserDicts : d \in Seq(ToSet(d)) /\ \A i \in DOMAIN d : IsLine(d[i])

\* The words, once each: neither notes nor what opens and closes a block.
parse_dict_line_candidates(cands) ==
  LET Push(ws, cand) ==
        IF cand.kind = "open" \/ cand.word = NoWord \/ Contains(ws, cand.word) THEN ws
        ELSE Append(ws, cand.word)
  IN FoldLeft(Push, << >>, cands)

\* The first of n words scores n, the last 1.
OrderScores(ws) ==
  [w \in ToSet(ws) |-> Len(ws) + 1 - SelectInSeq(ws, LAMBDA v : v = w)]

\* Mutant: scores are added, as the comment on the function has it.
Raised_Adds(scores, ws) ==
  [w \in DOMAIN scores \cup ToSet(ws) |->
     get_score(scores, w) + get_score(OrderScores(ws), w)]

Raised(scores, ws) == MaxScores(scores, OrderScores(ws))

\* What is saved: no aliases, and the presets where there are no contexts.
import_from_skk_dict(raw, dict) ==
  LET Import(t, line) ==
        LET m  == line.midashi
            ws == parse_dict_line_candidates(line.cands)
            old == IF m \in DOMAIN t.frequencies THEN t.frequencies[m] ELSE NoScores
        IN IF ws = << >> THEN t
           ELSE [t EXCEPT !.frequencies =
                 [k \in DOMAIN @ \cup {m} |-> IF k = m THEN Raised(old, ws) ELSE @[k]]]
      imported == FoldLeft(Import, raw, dict)
  IN IF DOMAIN imported.context_frequencies # {} THEN imported
     ELSE merge_default_presets_raw(imported)
=============================================================================
