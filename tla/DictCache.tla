------------------------------ MODULE DictCache -----------------------------
(***************************************************************************)
(* The cache in front of the system's dictionary (src/system_dict.rs), one *)
(* for the process, used by every session that ranks.  A task judges one   *)
(* candidate (is_annotated_or_in_dict); each has_definition is a look      *)
(* under the read lock, a call to the system under no lock, and a store    *)
(* under the write lock.  Ranking has all this as one operator on what is  *)
(* in the dictionary.                                                      *)
(***************************************************************************)
EXTENDS Ranking

CONSTANTS Tasks,
          MaxEntries, \* MAX_CACHE_ENTRIES
          Judged      \* candidates that are judged

ASSUME CacheAssumption == /\ MaxEntries \in Nat \ {0}
                          /\ Judged \subseteq Candidates

VARIABLES
  cache,    \* SystemDictCache.cache
  pc,
  judging,  \* the candidate and the midashi of each task
  left,     \* the texts has_definition is still to be asked about, in order
  res,      \* has_definition's local: what the system said of the first of them
  verdict

taskVars == <<judging, left, res, verdict>>
vars == <<cache, pc, taskVars>>

Nothing == [cand |-> Plain(NoWord), midashi |-> NoWord]

\* A task has texts left to ask about just while it is inside has_definition.
TypeOK ==
  /\ IsFiniteSet(DOMAIN cache) /\ \A w \in DOMAIN cache : cache[w] \in BOOLEAN
  /\ pc \in [Tasks -> {"idle", "looking", "querying", "storing", "done"}]
  /\ judging \in [Tasks -> [cand : Judged, midashi : Midashi] \cup {Nothing}]
  /\ res \in [Tasks -> BOOLEAN] /\ verdict \in [Tasks -> BOOLEAN]
  /\ \A t \in Tasks :
       (pc[t] \in {"looking", "querying", "storing"}) <=> (left[t] # << >>)

Init ==
  /\ cache = [w \in {} |-> FALSE]
  /\ pc = [t \in Tasks |-> "idle"]
  /\ judging = [t \in Tasks |-> Nothing]
  /\ left = [t \in Tasks |-> << >>]
  /\ res = [t \in Tasks |-> FALSE]
  /\ verdict = [t \in Tasks |-> FALSE]

\* The early returns: an annotation, or no word.
Judge(t, cand, m) ==
  /\ pc[t] = "idle"
  /\ judging' = [judging EXCEPT ![t] = [cand |-> cand, midashi |-> m]]
  /\ verdict' = [verdict EXCEPT ![t] = cand.note]
  /\ IF cand.note \/ clean_candidate(cand) = NoWord
     THEN pc' = [pc EXCEPT ![t] = "done"] /\ UNCHANGED left
     ELSE /\ pc' = [pc EXCEPT ![t] = "looking"]
          /\ left' = [left EXCEPT ![t] = DictQueries(clean_candidate(cand), m)]
  /\ UNCHANGED <<cache, res>>

\* Mutant: a task goes on when there is nothing left to ask about.
Conclude_NeverDone(t, defined) ==
  /\ left' = [left EXCEPT ![t] = IF defined THEN << >> ELSE Tail(@)]
  /\ verdict' = [verdict EXCEPT ![t] = defined]
  /\ pc' = [pc EXCEPT ![t] = IF defined THEN "done" ELSE "looking"]

\* has_definition returns: the first text defined settles it.
Conclude(t, defined) ==
  LET rest == IF defined THEN << >> ELSE Tail(left[t])
  IN /\ left' = [left EXCEPT ![t] = rest]
     /\ verdict' = [verdict EXCEPT ![t] = defined]
     /\ pc' = [pc EXCEPT ![t] = IF rest = << >> THEN "done" ELSE "looking"]

\* Under the read lock.
Look(t) ==
  LET w == Head(left[t])
  IN /\ pc[t] = "looking"
     /\ IF w \in DOMAIN cache THEN Conclude(t, cache[w])
        ELSE pc' = [pc EXCEPT ![t] = "querying"] /\ UNCHANGED <<left, verdict>>
     /\ UNCHANGED <<cache, judging, res>>

query_system_dict_definition(w) == w \in Dictionary

Query(t) ==
  /\ pc[t] = "querying"
  /\ res' = [res EXCEPT ![t] = query_system_dict_definition(Head(left[t]))]
  /\ pc' = [pc EXCEPT ![t] = "storing"]
  /\ UNCHANGED <<cache, judging, left, verdict>>

\* Mutant: the limit is passed by one.
Room_OneMore == IF Cardinality(DOMAIN cache) > MaxEntries THEN [w \in {} |-> FALSE] ELSE cache

\* A full cache is cleared whole.
Room == IF Cardinality(DOMAIN cache) >= MaxEntries THEN [w \in {} |-> FALSE] ELSE cache

\* Over what there may be: another task may have stored the text meanwhile.
Insert(text, defined) ==
  cache' = [w \in DOMAIN Room \cup {text} |-> IF w = text THEN defined ELSE Room[w]]

\* Mutant: what is said of the word with an ending is stored for the word alone.
Store_UnderCandidate(t) ==
  /\ pc[t] = "storing"
  /\ Insert(clean_candidate(judging[t].cand), res[t])
  /\ Conclude(t, res[t])
  /\ UNCHANGED <<judging, res>>

\* Under the write lock.
Store(t) ==
  /\ pc[t] = "storing"
  /\ Insert(Head(left[t]), res[t])
  /\ Conclude(t, res[t])
  /\ UNCHANGED <<judging, res>>

Done(t) ==
  /\ pc[t] = "done"
  /\ pc' = [pc EXCEPT ![t] = "idle"]
  /\ judging' = [judging EXCEPT ![t] = Nothing]
  /\ res' = [res EXCEPT ![t] = FALSE]
  /\ verdict' = [verdict EXCEPT ![t] = FALSE]
  /\ UNCHANGED <<cache, left>>

Task(t) ==
  \/ \E cand \in Judged, m \in Midashi : Judge(t, cand, m)
  \/ Look(t) \/ Query(t) \/ Store(t) \/ Done(t)

Next == \E t \in Tasks : Task(t)

Spec == Init /\ [][Next]_vars

-----------------------------------------------------------------------------

\* The cache never holds more than its limit, however many tasks found room at
\* the same time (has_definition).
CacheBounded == Cardinality(DOMAIN cache) <= MaxEntries

\* Whatever other tasks store and clear while a task judges, its verdict is the
\* one the dictionary gives, which Ranking has as one operator
\* (is_annotated_or_in_dict).
VerdictIsDictionary ==
  \A t \in Tasks : pc[t] = "done" =>
    verdict[t] = is_annotated_or_in_dict(judging[t].cand, judging[t].midashi)
=============================================================================
