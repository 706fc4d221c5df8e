----------------------------- MODULE RankedLookup ---------------------------
(***************************************************************************)
(* The second half of a lookup (handle_client in src/proxy.rs): from the   *)
(* midashi to the response, while SIGHUP may replace the tables the answer *)
(* is ranked by (reload_on_sighup in src/main.rs).                         *)
(*                                                                         *)
(* An okuri-ari midashi is expanded to whole words, which the primary is   *)
(* asked for one by one, until 600 ms are spent; the stems found are       *)
(* merged with what the fallback has.  Without stems, and for all other    *)
(* midashi, either backend may answer.  The tables are behind a std        *)
(* RwLock, which the okuri path takes once, to rank, and the plain path    *)
(* twice, to decide whether to rank and to rank.  The durations are in     *)
(* LookupDeadline: here a query may time out, and the 600 ms may end, at   *)
(* any moment.                                                             *)
(***************************************************************************)
EXTENDS SeedScores

CONSTANTS Sessions,
          Contexts,         \* words that may be the context
          OkuriWords,       \* okuri-ari words that are looked up: stem and key
          Primary, Fallback \* what the backends have: texts to sets of responses

\* What ends an okuri block closes one.
BlocksAreClosed(cs) ==
  \A i \in DOMAIN cs : cs[i].kind = "close" =>
    \E j \in 1..i - 1 : cs[j].kind = "open" /\ \A k \in j..i - 1 : cs[k].kind # "close"

Responses  == [found : BOOLEAN, cands : Seq(Candidates), closed : BOOLEAN]
Variations == UNION {ToSet(expand_okuri_variations(m)) : m \in Midashi}

\* An alias of a word, which is also what a word may be less an ending, is a word.
\* The stems of okuri-ari words are kana and kanji.
ASSUME LookupAssumption ==
  /\ Contexts \subseteq Words
  /\ \A w \in Words : Aliases(w) \subseteq Words
  /\ \A word \in OkuriWords :
       /\ IsText(word.stem) /\ word.stem # << >>
       /\ ToSet(word.stem) \cap (Letters \cup {Star}) = {}
       /\ word.key \in Letters \ Capitals

\* The entries of okuri-ari midashi have blocks, those of whole words do not.
ASSUME BackendsAssumption ==
  /\ \A server \in {Primary, Fallback} : \A text \in DOMAIN server : \A r \in server[text] :
       r \in Responses /\ (r.found \/ r.cands = << >>) /\ BlocksAreClosed(r.cands)
  /\ \A v \in Variations : v.query_midashi \in DOMAIN Primary =>
       \A r \in Primary[v.query_midashi] : \A i \in DOMAIN r.cands : r.cands[i].kind = "plain"

VARIABLES
  stored,    \* the seed the tables in force were loaded from
  predictor, \* Proxy.predictor
  switches,  \* --annotation-priority, --context-ranking, --okuri-expansion
  pc,
  asked,     \* each session's request: midashi, context word, tracked or not
  todo,      \* the variations still to be asked for
  stems,     \* all_stem_cands
  okuri_handled,
  answer,    \* the candidates each session has to rank
  response,  \* resp_to_send
  top,       \* top_candidate_for_context
  told,      \* what on_lookup_result was told of each session's last lookup
  heard,     \* history: the words the primary had, with the ending each was asked with
  offered,   \* history: the words offered for the midashi itself
  inForce    \* history: the tables in force since each session's answer came

lookupVars == <<asked, todo, stems, okuri_handled, answer, response, top, heard, offered,
                inForce>>
vars == <<stored, predictor, switches, pc, lookupVars, told>>

NoRequest == [midashi |-> NoWord, context |-> NoWord, tracked |-> FALSE]
NotTold   == [midashi |-> NoWord, word |-> NoWord]

Tables == {Served(raw) : raw \in Seeds}

TypeOK ==
  /\ stored \in Seeds /\ predictor \in Tables /\ AreScores(predictor)
  /\ DOMAIN switches = {"annotation_priority", "context_ranking", "okuri_expansion"}
  /\ \A w \in DOMAIN switches : switches[w] \in BOOLEAN
  /\ pc \in [Sessions -> {"idle", "asking", "ranking", "answered"}]
  /\ asked \in [Sessions -> [midashi : Midashi, context : Contexts \cup {NoWord},
                             tracked : BOOLEAN] \cup {NoRequest}]
  /\ todo \in [Sessions -> Seq(Variations)]
  /\ stems \in [Sessions -> Seq({w \in Words : HasKanji(w)})]
  /\ okuri_handled \in [Sessions -> BOOLEAN]
  /\ answer \in [Sessions -> Responses] /\ response \in [Sessions -> Responses]
  /\ top \in [Sessions -> Words \cup {NoWord}]
  /\ told \in [Sessions -> [midashi : Midashi, word : {w \in Words : HasKanji(w)}]
                           \cup {NotTold}]
  /\ heard \in [Sessions -> SUBSET (Words \X {v.okuri_suffix : v \in Variations})]
  /\ offered \in [Sessions -> SUBSET Words]
  /\ inForce \in [Sessions -> SUBSET Tables]

Init ==
  /\ stored \in Seeds
  /\ predictor = Served(stored)
  /\ switches \in [{"annotation_priority", "context_ranking", "okuri_expansion"} -> BOOLEAN]
  /\ pc = [s \in Sessions |-> "idle"]
  /\ asked = [s \in Sessions |-> NoRequest]
  /\ todo = [s \in Sessions |-> << >>]
  /\ stems = [s \in Sessions |-> << >>]
  /\ okuri_handled = [s \in Sessions |-> FALSE]
  /\ answer = [s \in Sessions |-> NotFound]
  /\ response = [s \in Sessions |-> NotFound]
  /\ top = [s \in Sessions |-> NoWord]
  /\ told = [s \in Sessions |-> NotTold]
  /\ heard = [s \in Sessions |-> {}]
  /\ offered = [s \in Sessions |-> {}]
  /\ inForce = [s \in Sessions |-> {}]

\* With --context-ranking off there is no context, and nothing is tracked.
Ask(s, m, c, tracked) ==
  /\ pc[s] = "idle"
  /\ switches.context_ranking \/ (c = NoWord /\ ~tracked)
  /\ asked' = [asked EXCEPT ![s] = [midashi |-> m, context |-> c, tracked |-> tracked]]
  /\ todo' = [todo EXCEPT ![s] =
               IF switches.okuri_expansion THEN expand_okuri_variations(m) ELSE << >>]
  /\ told' = [told EXCEPT ![s] = NotTold]
  /\ pc' = [pc EXCEPT ![s] = "asking"]
  /\ UNCHANGED <<stored, predictor, switches, stems, okuri_handled, answer, response, top,
                 heard, offered, inForce>>

\* A backend that has nothing, fails or times out has NotFound.
Replies(server, text) ==
  {NotFound} \cup IF text \in DOMAIN server THEN server[text] ELSE {}

\* The words of a list, pieces of blocks included.
WordsOf(cs) == {cs[i].word : i \in DOMAIN cs} \ {NoWord}

-----------------------------------------------------------------------------
(* The okuri path                                                          *)

\* Stems found for one variation follow those of the ones before it.
Variation(s) ==
  LET v == Head(todo[s])
      Clean(cs) == [i \in DOMAIN cs |-> clean_candidate(cs[i])]
  IN /\ pc[s] = "asking" /\ todo[s] # << >>
     /\ \E r \in Replies(Primary, v.query_midashi) :
          /\ stems' = [stems EXCEPT ![s] = FoldLeft(PushNew, @,
               extract_stem_candidates_borrowed(Clean(parse_candidates_borrowed(r)),
                                                v.okuri_suffix, v.query_midashi))]
          /\ heard' = [heard EXCEPT ![s] = @ \cup WordsOf(r.cands) \X {v.okuri_suffix}]
     /\ todo' = [todo EXCEPT ![s] = Tail(@)]
     /\ UNCHANGED <<stored, predictor, switches, pc, asked, okuri_handled, answer, response,
                    top, told, offered, inForce>>

\* 600 ms are over.
OutOfTime(s) ==
  /\ pc[s] = "asking" /\ todo[s] # << >>
  /\ todo' = [todo EXCEPT ![s] = << >>]
  /\ UNCHANGED <<stored, predictor, switches, pc, asked, stems, okuri_handled, answer,
                 response, top, told, heard, offered, inForce>>

\* Stems first; of the fallback's candidates, the words not there yet.
Merge(cs, cand) ==
  IF clean_candidate(cand) \in {clean_candidate(cs[i]) : i \in DOMAIN cs} THEN cs
  ELSE Append(cs, cand)

Merged(found, r) ==
  FoldLeft(Merge, [i \in DOMAIN found |-> Plain(found[i])],
           IF r.found THEN parse_candidates_unpacked(r) ELSE << >>)

Ranked(s, m, cs) == rank_candidates_borrowed(predictor, asked[s].context, m, cs,
                                             switches.annotation_priority)

\* Mutant: the top candidate is the one that came first from upstream.
Respond_UpstreamTop(s, cs, ranked) ==
  /\ response' = [response EXCEPT ![s] = format_candidates_response_str(ranked)]
  /\ top' = [top EXCEPT ![s] = extract_first_candidate(Response(cs))]
  /\ pc' = [pc EXCEPT ![s] = "answered"]

Respond(s, cs, ranked) ==
  /\ response' = [response EXCEPT ![s] = format_candidates_response_str(ranked)]
  /\ top' = [top EXCEPT ![s] = extract_first_candidate(Response(ranked))]
  /\ pc' = [pc EXCEPT ![s] = "answered"]

\* All variations tried and some stem found: the fallback's candidates are merged
\* and all ranked, by the midashi as dictionaries write it.
OkuriAnswered(s) ==
  /\ pc[s] = "asking" /\ todo[s] = << >> /\ stems[s] # << >>
  /\ \E r \in Replies(Fallback, asked[s].midashi) :
       LET cs == Merged(stems[s], r)
       IN /\ answer' = [answer EXCEPT ![s] = Response(cs)]
          /\ offered' = [offered EXCEPT ![s] = WordsOf(r.cands)]
          /\ Respond(s, cs, Ranked(s, normalize_okuri_midashi_key(asked[s].midashi), cs))
  /\ okuri_handled' = [okuri_handled EXCEPT ![s] = TRUE]
  /\ inForce' = [inForce EXCEPT ![s] = {predictor}]
  /\ UNCHANGED <<stored, predictor, switches, asked, todo, stems, told, heard>>

-----------------------------------------------------------------------------
(* The plain path                                                          *)

\* Under the first lock: an answer no table says anything about is passed on.
Answered(s) ==
  /\ pc[s] = "asking" /\ todo[s] = << >> /\ stems[s] = << >>
  /\ \E r \in Replies(Primary, asked[s].midashi) \cup Replies(Fallback, asked[s].midashi) :
       /\ answer' = [answer EXCEPT ![s] = r]
       /\ offered' = [offered EXCEPT ![s] = WordsOf(r.cands)]
       /\ IF /\ has_multiple_candidates(r)
             /\ \/ switches.annotation_priority
                \/ should_rank(predictor, asked[s].context, asked[s].midashi)
          THEN pc' = [pc EXCEPT ![s] = "ranking"] /\ UNCHANGED <<response, top>>
          ELSE /\ pc' = [pc EXCEPT ![s] = "answered"]
               /\ response' = [response EXCEPT ![s] = r]
               /\ top' = [top EXCEPT ![s] = extract_first_candidate(r)]
  /\ inForce' = [inForce EXCEPT ![s] = {predictor}]
  /\ UNCHANGED <<stored, predictor, switches, asked, todo, stems, okuri_handled, told, heard>>

\* Under the second lock.
Rank(s) ==
  LET cs == parse_candidates_borrowed(answer[s])
  IN /\ pc[s] = "ranking"
     /\ Respond(s, cs, Ranked(s, asked[s].midashi, cs))
     /\ UNCHANGED <<stored, predictor, switches, asked, todo, stems, okuri_handled, answer,
                    told, heard, offered, inForce>>

-----------------------------------------------------------------------------

\* Mutant: any word is remembered, with a kanji in it or not.
Remembered_AnyWord(s) == asked[s].tracked /\ top[s] # NoWord

Remembered(s) == asked[s].tracked /\ HasKanji(top[s])

\* The context is told of the top candidate and the response written.
Send(s) ==
  /\ pc[s] = "answered"
  /\ told' = [told EXCEPT ![s] = IF Remembered(s)
                                 THEN [midashi |-> asked[s].midashi, word |-> top[s]]
                                 ELSE NotTold]
  /\ pc' = [pc EXCEPT ![s] = "idle"]
  /\ asked' = [asked EXCEPT ![s] = NoRequest]
  /\ stems' = [stems EXCEPT ![s] = << >>]
  /\ okuri_handled' = [okuri_handled EXCEPT ![s] = FALSE]
  /\ answer' = [answer EXCEPT ![s] = NotFound]
  /\ response' = [response EXCEPT ![s] = NotFound]
  /\ top' = [top EXCEPT ![s] = NoWord]
  /\ heard' = [heard EXCEPT ![s] = {}]
  /\ offered' = [offered EXCEPT ![s] = {}]
  /\ inForce' = [inForce EXCEPT ![s] = {}]
  /\ UNCHANGED <<stored, predictor, switches, todo>>

\* Under the write lock (an unreadable seed changes nothing, see SeedStore).
Reload(raw) ==
  /\ stored' = raw
  /\ predictor' = Served(raw)
  /\ inForce' = [s \in Sessions |->
                   IF pc[s] = "ranking" THEN inForce[s] \cup {predictor'} ELSE inForce[s]]
  /\ UNCHANGED <<switches, pc, asked, todo, stems, okuri_handled, answer, response, top, told,
                 heard, offered>>

Session(s) ==
  \/ \E m \in Midashi, c \in Contexts \cup {NoWord}, tracked \in BOOLEAN : Ask(s, m, c, tracked)
  \/ Variation(s)
  \/ OutOfTime(s)
  \/ OkuriAnswered(s)
  \/ Answered(s)
  \/ Rank(s)
  \/ Send(s)

Next == (\E s \in Sessions : Session(s)) \/ \E raw \in Seeds : Reload(raw)

Spec == Init /\ [][Next]_vars

-----------------------------------------------------------------------------

\* `out` is `cs`, each candidate behind those that score higher and those that
\* score the same and came earlier, and behind no other.
IsRanking(out, cs, score) ==
  /\ Len(out) = Len(cs)
  /\ \A i \in DOMAIN cs :
       LET ahead == {j \in DOMAIN cs : score[j] > score[i] \/ (score[j] = score[i] /\ j < i)}
       IN out[1 + Cardinality(ahead)] = cs[i]

\* A response is in the order of one table that was in force since its answer
\* came, although the decision to rank and the ranking may see two, and although
\* most answers are passed on without being looked at (the fast path of
\* handle_client).  Backends close their lines with a slash.
RankedByOneTable ==
  \A s \in Sessions :
    pc[s] = "answered" /\ answer[s].found /\ answer[s].closed =>
      \E t \in inForce[s] :
        LET m == IF okuri_handled[s] THEN normalize_okuri_midashi_key(asked[s].midashi)
                 ELSE asked[s].midashi
        IN IsRanking(response[s].cands, answer[s].cands,
                     Scores(t, asked[s].context, m, switches.annotation_priority,
                            answer[s].cands))

\* On the plain path the response has the words offered and no other.  On the
\* okuri path it has each word the fallback offers, and each word the primary
\* offered, less the ending it was asked with, if that leaves it ending in a
\* kanji, once each and without pieces of okuri blocks; what else it has the
\* primary offered too, whole or with the ending
\* (extract_stem_candidates_borrowed, parse_candidates_unpacked and the merge in
\* handle_client).
NothingLost ==
  \A s \in Sessions :
    LET cs    == response[s].cands
        shown == WordsOf(cs)
    IN pc[s] = "answered" =>
         IF ~okuri_handled[s] THEN shown = offered[s]
         ELSE /\ offered[s] \subseteq shown
              /\ \A w \in Words, h \in heard[s] :
                   h[1] = w \o h[2] /\ Last(w) \in KanjiChars => w \in shown
              /\ \A w \in shown \ offered[s] :
                   HasKanji(w) /\ \E h \in heard[s] : h[1] \in {w, w \o h[2]}
              /\ \A i \in DOMAIN cs : cs[i].kind = "plain"
              /\ \A i, j \in DOMAIN cs : i # j => cs[i].word # cs[j].word

\* What the context takes for the word the user was shown first is the first
\* word of the very response sent, ranked or not, if it has a kanji
\* (top_candidate_for_context).
ShownIsPending ==
  [][\A s \in Sessions :
       pc[s] = "answered" /\ pc'[s] = "idle" =>
         LET first == extract_first_candidate(response[s])
         IN told'[s] = IF asked[s].tracked /\ HasKanji(first)
                       THEN [midashi |-> asked[s].midashi, word |-> first]
                       ELSE NotTold]_vars

\* A word scores what the seed gives it or, where that is more, what it gives a
\* longer word (expand_inner_aliases): no reload makes a word the user has
\* scored sink below its score.
ScoresFromSeed ==
  \A m \in DOMAIN stored.frequencies :
    LET seed  == stored.frequencies[m]
        score == predictor.frequencies[m]
    IN /\ \A w \in DOMAIN seed : \A a \in {w} \cup Aliases(w) : score[a] >= seed[w]
       /\ \A a \in DOMAIN score : \E w \in DOMAIN seed :
            a \in {w} \cup Aliases(w) /\ score[a] = seed[w]

\* Tables already expanded stay as they are when expanded again, as
\* ensure_default_context_presets does after a load (expand_aliases).
ExpansionIsStable == expand_aliases(predictor) = predictor

\* Importing a dictionary that has been imported before, as launchd does every
\* hour, changes nothing, whatever was in the seed and whatever else was imported
\* in between; and no score is ever lowered (import_from_skk_dict).
ImportIsIdempotent ==
  \A d, e \in UserDicts :
    LET once == import_from_skk_dict(import_from_skk_dict(stored, d), e)
    IN /\ import_from_skk_dict(once, d) = once
       /\ \A m \in DOMAIN stored.frequencies : \A w \in DOMAIN stored.frequencies[m] :
            once.frequencies[m][w] >= stored.frequencies[m][w]

\* In the context c, with annotation_priority or not, tables serve two candidates
\* of a line in the user's order, in whatever order the upstream has them, unless
\* more speaks for the one that comes later: it alone has a note or an entry in the
\* dictionary, or the context prefers it.  Either outweighs the 1 to N points of
\* the import.  A word that begins another may come with it.
InOrder(t, line, c, annotation_priority) ==
  LET m  == line.midashi
      ws == parse_dict_line_candidates(line.cands)
      Unlearned  == [t EXCEPT !.frequencies = NoScores]
      Written(w) == {[Plain(w) EXCEPT !.note = note] : note \in BOOLEAN}
      Taught(i, j) == i < j /\ \A k \in 1..i : ws[j] \notin Aliases(ws[k])
  IN \A i, j \in DOMAIN ws : Taught(i, j) =>
       \A a \in Written(ws[i]), b \in Written(ws[j]) :
         Score(Unlearned, c, m, annotation_priority, a)
             >= Score(Unlearned, c, m, annotation_priority, b) =>
           rank_candidates_borrowed(t, c, m, <<b, a>>, annotation_priority) = <<a, b>>

\* A midashi the seed says nothing of is served in the user's order once the
\* dictionary is imported, in the context of whatever lookup is under way and with
\* the options given, both of which are on by default; but only where nothing else
\* speaks against it, InOrder says what (import_from_skk_dict, the load and
\* rank_candidates_borrowed).
UserOrderServed ==
  \A s \in Sessions, d \in UserDicts : \A l \in DOMAIN d :
    /\ d[l].midashi \notin DOMAIN stored.frequencies
    /\ \A k \in DOMAIN d \ {l} : d[k].midashi # d[l].midashi
    => InOrder(Served(import_from_skk_dict(stored, d)), d[l],
               asked[s].context, switches.annotation_priority)

\* However an okuri-ari word is spelled, with a small or a capital letter, after a
\* star, or with the last kana of its stem in letters, the words still to be asked
\* for are those any other spelling asks for, in that order; and where stems are
\* found, also for its ending in full, the response is in the order of the row the
\* word itself has in the tables.  Where none is found the tables are asked for the
\* midashi as typed, of which nothing is said here
\* (parse_okuri_midashi_extended, normalize_okuri_midashi_key,
\* expand_okuri_variations and the okuri path of handle_client).
SpellingsAgree ==
  \A s \in Sessions, word \in OkuriWords :
    /\ pc[s] = "asking" /\ asked[s].midashi \in Spellings(word) =>
         \A m \in Spellings(word) : IsSuffix(todo[s], expand_okuri_variations(m))
    /\ /\ pc[s] = "answered" /\ okuri_handled[s]
       /\ asked[s].midashi \in Spellings(word) \cup SpelledOut(word)
       => \E t \in inForce[s] :
            IsRanking(response[s].cands, answer[s].cands,
                      Scores(t, asked[s].context, Append(word.stem, word.key),
                             switches.annotation_priority, answer[s].cands))
=============================================================================
