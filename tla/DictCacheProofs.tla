-------------------------- MODULE DictCacheProofs ---------------------------
(***************************************************************************)
(* Proofs about DictCache.tla, for any number of tasks, any limit of the   *)
(* cache and any dictionary.                                               *)
(*                                                                         *)
(* A verdict is right because every entry of the cache is, and because     *)
(* what a task has still to ask about decides its verdict: the texts it    *)
(* has asked about are not in the dictionary.                              *)
(***************************************************************************)
EXTENDS DictCache, FiniteSetTheorems, TLAPS

InDictionary(texts) == \E i \in DOMAIN texts : texts[i] \in Dictionary

\* The texts a task's verdict depends on.
Queries(t) == DictQueries(clean_candidate(judging[t].cand), judging[t].midashi)
Asked(t)   == ToSet(Queries(t))

InCall(t) == pc[t] \in {"looking", "querying", "storing"}

\* What the cache says is so.
CacheInv == \A w \in DOMAIN cache : cache[w] <=> w \in Dictionary

\* A task under way has a verdict to find, and finds it in what is left.
LeftInv(t) ==
  InCall(t) => /\ left[t] \in Seq(Asked(t)) /\ left[t] # << >>
               /\ ~judging[t].cand.note /\ clean_candidate(judging[t].cand) # NoWord
               /\ InDictionary(left[t]) <=> InDictionary(Queries(t))

\* The system has been asked about the text at hand.
ResInv(t) == pc[t] = "storing" => (res[t] <=> Head(left[t]) \in Dictionary)

Verdict(t) ==
  pc[t] = "done" => verdict[t] = is_annotated_or_in_dict(judging[t].cand, judging[t].midashi)

TaskInv(t) == LeftInv(t) /\ ResInv(t) /\ Verdict(t)

IInv == /\ TypeOK /\ left = [t \in Tasks |-> left[t]]
        /\ CacheBounded /\ CacheInv
        /\ \A t \in Tasks : TaskInv(t)

-----------------------------------------------------------------------------

\* What is asked about a word is a sequence of at least one text.
LEMMA QueriesType ==
  ASSUME NEW word, NEW m
  PROVE  /\ DictQueries(word, m) \in Seq(ToSet(DictQueries(word, m)))
         /\ DictQueries(word, m) # << >>
<1> DEFINE p    == parse_okuri_midashi_extended(m)
           Row(key) == okuri_key_to_dict_suffixes(key)
           suffixes == CASE p.kind \in {"Simple", "Compound"} -> Row(p.key)
                         [] p.kind = "Explicit" -> <<p.suffix>> \o Row(kana_to_okuri_key(p.suffix[1]))
                         [] OTHER -> << >>
<1>1. \A key : \E S : Row(key) \in Seq(S)
  <2> SUFFICES ASSUME NEW key
               PROVE  \E S : Row(key) \in Seq(S)
    OBVIOUS
  <2>1. CASE LowerChar(key) \in DOMAIN DictSuffixes
    BY <2>1, OkuriAssumption DEF OkuriAssumption, okuri_key_to_dict_suffixes, EndingsIn
  <2>2. CASE LowerChar(key) \notin DOMAIN DictSuffixes
    <3>1. Row(key) = << >>
      BY <2>2 DEF okuri_key_to_dict_suffixes, EndingsIn
    <3>2. << >> \in Seq({})
      OBVIOUS
    <3> QED BY <3>1, <3>2
  <2> QED BY <2>1, <2>2
<1> HIDE DEF p, Row
<1>2. \E S : suffixes \in Seq(S)
  <2>1. CASE p.kind \in {"Simple", "Compound"}
    <3>1. suffixes = Row(p.key)
      BY <2>1
    <3> HIDE DEF suffixes
    <3> QED BY <1>1, <3>1
  <2>2. CASE p.kind = "Explicit"
    <3> DEFINE row == Row(kana_to_okuri_key(p.suffix[1]))
               last == p.suffix
    <3>1. suffixes = <<last>> \o row
      BY <2>2
    <3>2. PICK S : row \in Seq(S)
      BY <1>1
    <3> HIDE DEF suffixes, row, last
    <3> DEFINE T == S \cup {last}
    <3>3. row \in Seq(T) /\ <<last>> \in Seq(T)
      BY <3>2
    <3>4. suffixes \in Seq(T)
      BY <3>1, <3>3
    <3> QED BY <3>4
  <2>3. CASE p.kind \notin {"Simple", "Compound", "Explicit"}
    <3>1. suffixes = << >>
      BY <2>3
    <3>2. << >> \in Seq({})
      OBVIOUS
    <3> QED BY <3>1, <3>2
  <2> QED BY <2>1, <2>2, <2>3
<1> DEFINE With == [i \in DOMAIN suffixes |-> word \o suffixes[i]]
           Q == <<word>> \o With
<1>3. DictQueries(word, m) = Q
  BY DEF DictQueries, p, Row
<1> HIDE DEF suffixes
<1>4. PICK n \in Nat : DOMAIN suffixes = 1..n
  BY <1>2
<1> DEFINE T == {word} \cup {With[i] : i \in 1..n}
<1>5. With \in Seq(T)
  BY <1>4
<1>6. <<word>> \in Seq(T)
  OBVIOUS
<1> HIDE DEF With, T
<1>7. Q \in Seq(T) /\ Q # << >>
  BY <1>5, <1>6
<1> HIDE DEF Q
<1>8. Q \in Seq(ToSet(Q))
  BY <1>7 DEF ToSet
<1> QED BY <1>3, <1>7, <1>8

\* A text that is not in the dictionary decides nothing, one that is decides all.
LEMMA HeadDecides ==
  ASSUME NEW S, NEW texts \in Seq(S), texts # << >>
  PROVE  /\ Tail(texts) \in Seq(S)
         /\ Head(texts) \in Dictionary => InDictionary(texts)
         /\ Head(texts) \notin Dictionary => (InDictionary(texts) <=> InDictionary(Tail(texts)))
<1>1. Tail(texts) \in Seq(S)
  OBVIOUS
<1>2. ASSUME Head(texts) \in Dictionary
      PROVE  InDictionary(texts)
  <2>1. 1 \in DOMAIN texts /\ texts[1] = Head(texts)
    OBVIOUS
  <2> QED BY <1>2, <2>1 DEF InDictionary
<1>3. ASSUME Head(texts) \notin Dictionary
      PROVE  InDictionary(texts) <=> InDictionary(Tail(texts))
  <2>1. ASSUME InDictionary(texts)
        PROVE  InDictionary(Tail(texts))
    <3>1. PICK i \in DOMAIN texts : texts[i] \in Dictionary
      BY <2>1 DEF InDictionary
    <3>2. i # 1 /\ i \in 1..Len(texts)
      BY <1>3, <3>1
    <3>3. i - 1 \in DOMAIN Tail(texts) /\ Tail(texts)[i - 1] = texts[i]
      BY <3>2
    <3> QED BY <3>1, <3>3 DEF InDictionary
  <2>2. ASSUME InDictionary(Tail(texts))
        PROVE  InDictionary(texts)
    <3>1. PICK i \in DOMAIN Tail(texts) : Tail(texts)[i] \in Dictionary
      BY <2>2 DEF InDictionary
    <3>2. i + 1 \in DOMAIN texts /\ texts[i + 1] = Tail(texts)[i]
      BY <3>1
    <3> QED BY <3>1, <3>2 DEF InDictionary
  <2> QED BY <2>1, <2>2
<1> QED BY <1>1, <1>2, <1>3

LEMMA InitInv == Init => IInv
<1> SUFFICES ASSUME Init
             PROVE  IInv
  OBVIOUS
<1>1. DOMAIN cache = {} /\ IsFiniteSet(DOMAIN cache) /\ Cardinality(DOMAIN cache) = 0
  BY FS_EmptySet DEF Init
<1>2. TypeOK
  BY <1>1 DEF Init, TypeOK
<1>3. CacheBounded
  BY <1>1, CacheAssumption DEF CacheBounded, CacheAssumption
<1>4. \A t \in Tasks : TaskInv(t)
  BY DEF Init, TaskInv, LeftInv, ResInv, Verdict, InCall
<1> QED BY <1>1, <1>2, <1>3, <1>4 DEF Init, IInv, CacheInv

\* What a task's own variables do not show does not touch its invariant.
LEMMA Frame ==
  ASSUME NEW u \in Tasks, TaskInv(u), pc'[u] = pc[u], left'[u] = left[u], judging'[u] = judging[u],
         res'[u] = res[u], verdict'[u] = verdict[u]
  PROVE  TaskInv(u)'
BY DEF TaskInv, LeftInv, ResInv, Verdict, InCall, Asked, Queries, InDictionary

\* A call that returns what the dictionary says.
LEMMA ConcludeInv ==
  ASSUME IInv, NEW t \in Tasks, InCall(t), NEW defined \in BOOLEAN,
         defined <=> Head(left[t]) \in Dictionary,
         Conclude(t, defined), UNCHANGED <<judging, res>>
  PROVE  /\ pc' \in [Tasks -> {"idle", "looking", "querying", "storing", "done"}]
         /\ verdict' \in [Tasks -> BOOLEAN]
         /\ left' = [u \in Tasks |-> left'[u]]
         /\ \A u \in Tasks : InCall(u)' <=> (left'[u] # << >>)
         /\ \A u \in Tasks : TaskInv(u)'
<1> DEFINE rest == IF defined THEN << >> ELSE Tail(left[t])
<1>1. /\ left' = [left EXCEPT ![t] = rest]
      /\ verdict' = [verdict EXCEPT ![t] = defined]
      /\ pc' = [pc EXCEPT ![t] = IF rest = << >> THEN "done" ELSE "looking"]
  BY DEF Conclude
<1>2. /\ left[t] \in Seq(Asked(t)) /\ left[t] # << >>
      /\ ~judging[t].cand.note /\ clean_candidate(judging[t].cand) # NoWord
      /\ InDictionary(left[t]) <=> InDictionary(Queries(t))
  BY DEF IInv, TaskInv, LeftInv
<1>3. /\ Tail(left[t]) \in Seq(Asked(t))
      /\ defined => InDictionary(Queries(t))
      /\ ~defined => (InDictionary(Queries(t)) <=> InDictionary(Tail(left[t])))
  BY <1>2, HeadDecides
<1>4. /\ left'[t] = rest /\ verdict'[t] = defined
      /\ pc'[t] = IF rest = << >> THEN "done" ELSE "looking"
      /\ judging'[t] = judging[t] /\ res'[t] = res[t]
      /\ \A u \in Tasks : u # t => /\ left'[u] = left[u] /\ verdict'[u] = verdict[u]
                                   /\ pc'[u] = pc[u] /\ judging'[u] = judging[u] /\ res'[u] = res[u]
  BY <1>1 DEF IInv, TypeOK
<1>5. TaskInv(t)'
  <2>1. CASE rest = << >>
    <3>1. ~InDictionary(<< >>)
      BY DEF InDictionary
    <3>2. InDictionary(Queries(t)) <=> defined
      BY <1>3, <2>1, <3>1
    <3>3. is_annotated_or_in_dict(judging[t].cand, judging[t].midashi) <=> defined
      BY <1>2, <3>2 DEF is_annotated_or_in_dict, InDictionary, Queries
    <3>4. is_annotated_or_in_dict(judging[t].cand, judging[t].midashi) \in BOOLEAN
      BY <1>2 DEF is_annotated_or_in_dict
    <3> QED BY <1>4, <2>1, <3>3, <3>4 DEF TaskInv, LeftInv, ResInv, Verdict, InCall
  <2>2. CASE rest # << >>
    <3>1. ~defined /\ rest = Tail(left[t])
      BY <2>2
    <3>2. pc'[t] = "looking" /\ left'[t] = Tail(left[t])
      BY <1>4, <2>2, <3>1
    <3>3. Asked(t)' = Asked(t) /\ Queries(t)' = Queries(t)
      BY <1>4 DEF Asked, Queries
    <3>4. LeftInv(t)'
      BY <1>2, <1>3, <1>4, <2>2, <3>1, <3>2, <3>3 DEF LeftInv, InDictionary
    <3> QED BY <3>2, <3>4 DEF TaskInv, ResInv, Verdict
  <2> QED BY <2>1, <2>2
<1>6. \A u \in Tasks : u # t => TaskInv(u)'
  BY <1>4, Frame DEF IInv
<1>7. \A u \in Tasks : InCall(u)' <=> (left'[u] # << >>)
  BY <1>4 DEF IInv, TypeOK, InCall
<1> HIDE DEF rest
<1>8. /\ pc' \in [Tasks -> {"idle", "looking", "querying", "storing", "done"}]
      /\ verdict' \in [Tasks -> BOOLEAN] /\ left' = [u \in Tasks |-> left'[u]]
  BY <1>1 DEF IInv, TypeOK
<1> QED BY <1>5, <1>6, <1>7, <1>8

LEMMA JudgeInv ==
  ASSUME IInv, NEW t \in Tasks, NEW cand \in Judged, NEW m \in Midashi, Judge(t, cand, m)
  PROVE  IInv'
<1> DEFINE word == clean_candidate(cand)
           early == cand.note \/ word = NoWord
<1>1. /\ pc[t] = "idle" /\ UNCHANGED <<cache, res>>
      /\ judging' = [judging EXCEPT ![t] = [cand |-> cand, midashi |-> m]]
      /\ verdict' = [verdict EXCEPT ![t] = cand.note]
      /\ pc' = [pc EXCEPT ![t] = IF early THEN "done" ELSE "looking"]
      /\ left' = IF early THEN left ELSE [left EXCEPT ![t] = DictQueries(word, m)]
  BY DEF Judge
<1>2. cand.note \in BOOLEAN
  BY CacheAssumption DEF CacheAssumption, Candidates
<1> HIDE DEF word
<1>3. /\ judging'[t].cand = cand /\ judging'[t].midashi = m
      /\ verdict'[t] = cand.note /\ res'[t] = res[t]
      /\ pc'[t] = IF early THEN "done" ELSE "looking"
      /\ left'[t] = IF early THEN << >> ELSE DictQueries(word, m)
      /\ \A u \in Tasks : u # t => /\ left'[u] = left[u] /\ verdict'[u] = verdict[u]
                                   /\ pc'[u] = pc[u] /\ judging'[u] = judging[u] /\ res'[u] = res[u]
  BY <1>1 DEF IInv, TypeOK
<1>4. DictQueries(word, m) \in Seq(ToSet(DictQueries(word, m))) /\ DictQueries(word, m) # << >>
  BY QueriesType
<1>5. TaskInv(t)'
  <2>1. CASE early
    <3>1. is_annotated_or_in_dict(cand, m) = cand.note
      BY <1>2, <2>1 DEF is_annotated_or_in_dict, word
    <3> QED BY <1>3, <2>1, <3>1 DEF TaskInv, LeftInv, ResInv, Verdict, InCall
  <2>2. CASE ~early
    <3>1. Queries(t)' = DictQueries(word, m)
      BY <1>3 DEF Queries, word
    <3>2. LeftInv(t)'
      BY <1>3, <1>4, <2>2, <3>1 DEF LeftInv, Asked, InDictionary, word
    <3> QED BY <1>3, <2>2, <3>2 DEF TaskInv, ResInv, Verdict
  <2> QED BY <2>1, <2>2
<1>6. \A u \in Tasks : u # t => TaskInv(u)'
  BY <1>3, Frame DEF IInv
<1>7. TypeOK'
  <2>1. \A u \in Tasks : InCall(u)' <=> (left'[u] # << >>)
    BY <1>3, <1>4 DEF IInv, TypeOK, InCall
  <2> QED BY <1>1, <1>2, <2>1 DEF IInv, TypeOK, InCall
<1>8. left' = [u \in Tasks |-> left'[u]]
  BY <1>1 DEF IInv
<1> QED BY <1>1, <1>5, <1>6, <1>7, <1>8 DEF IInv, CacheBounded, CacheInv

LEMMA LookInv ==
  ASSUME IInv, NEW t \in Tasks, Look(t)
  PROVE  IInv'
<1> DEFINE w == Head(left[t])
<1>1. pc[t] = "looking" /\ UNCHANGED <<cache, judging, res>>
  BY DEF Look
<1>2. CASE w \in DOMAIN cache
  <2>1. Conclude(t, cache[w])
    BY <1>2 DEF Look
  <2>2. cache[w] \in BOOLEAN /\ (cache[w] <=> w \in Dictionary)
    BY <1>2 DEF IInv, TypeOK, CacheInv
  <2>3. InCall(t)
    BY <1>1 DEF InCall
  <2> HIDE DEF w
  <2> DEFINE defined == cache[w]
  <2>4. defined \in BOOLEAN /\ (defined <=> Head(left[t]) \in Dictionary) /\ Conclude(t, defined)
    BY <2>1, <2>2 DEF w
  <2> HIDE DEF defined
  <2>5. /\ pc' \in [Tasks -> {"idle", "looking", "querying", "storing", "done"}]
        /\ verdict' \in [Tasks -> BOOLEAN]
        /\ left' = [u \in Tasks |-> left'[u]]
        /\ \A u \in Tasks : InCall(u)' <=> (left'[u] # << >>)
        /\ \A u \in Tasks : TaskInv(u)'
    BY <1>1, <2>3, <2>4, ConcludeInv
  <2>6. TypeOK'
    BY <1>1, <2>5 DEF IInv, TypeOK, InCall
  <2> QED BY <1>1, <2>5, <2>6 DEF IInv, CacheBounded, CacheInv
<1>3. CASE w \notin DOMAIN cache
  <2>1. pc' = [pc EXCEPT ![t] = "querying"] /\ UNCHANGED <<left, verdict>>
    BY <1>3 DEF Look
  <2>2. TypeOK'
    BY <1>1, <2>1 DEF IInv, TypeOK
  <2>3. TaskInv(t)'
    BY <1>1, <2>1 DEF IInv, TypeOK, TaskInv, LeftInv, ResInv, Verdict, InCall, Asked, Queries, InDictionary
  <2>4. \A u \in Tasks : u # t => TaskInv(u)'
    BY <1>1, <2>1, Frame DEF IInv, TypeOK
  <2> QED BY <1>1, <2>1, <2>2, <2>3, <2>4 DEF IInv, CacheBounded, CacheInv
<1> QED BY <1>2, <1>3

LEMMA QueryInv ==
  ASSUME IInv, NEW t \in Tasks, Query(t)
  PROVE  IInv'
<1>1. /\ pc[t] = "querying" /\ UNCHANGED <<cache, judging, left, verdict>>
      /\ res' = [res EXCEPT ![t] = Head(left[t]) \in Dictionary]
      /\ pc' = [pc EXCEPT ![t] = "storing"]
  BY DEF Query, query_system_dict_definition
<1>2. TypeOK'
  BY <1>1 DEF IInv, TypeOK
<1>3. TaskInv(t)'
  <2>1. res'[t] = (Head(left'[t]) \in Dictionary) /\ pc'[t] = "storing"
    BY <1>1 DEF IInv, TypeOK
  <2>2. LeftInv(t)'
    BY <1>1, <2>1 DEF IInv, TaskInv, LeftInv, InCall, Asked, Queries, InDictionary
  <2> QED BY <2>1, <2>2 DEF TaskInv, ResInv, Verdict
<1>4. \A u \in Tasks : u # t => TaskInv(u)'
  BY <1>1, Frame DEF IInv, TypeOK
<1> QED BY <1>1, <1>2, <1>3, <1>4 DEF IInv, CacheBounded, CacheInv

\* Room is made before a text is stored, and for one text only.
LEMMA InsertInv ==
  ASSUME IInv, NEW text, NEW defined \in BOOLEAN, defined <=> text \in Dictionary,
         Insert(text, defined)
  PROVE  /\ IsFiniteSet(DOMAIN cache') /\ \A w \in DOMAIN cache' : cache'[w] \in BOOLEAN
         /\ CacheBounded' /\ CacheInv'
<1>1. /\ IsFiniteSet(DOMAIN Room) /\ Cardinality(DOMAIN Room) + 1 <= MaxEntries
      /\ \A w \in DOMAIN Room : Room[w] \in BOOLEAN /\ (Room[w] <=> w \in Dictionary)
  <2>1. Cardinality(DOMAIN cache) \in Nat /\ MaxEntries \in Nat \ {0}
    BY FS_CardinalityType, CacheAssumption DEF IInv, TypeOK, CacheAssumption
  <2>2. CASE Cardinality(DOMAIN cache) >= MaxEntries
    <3>1. DOMAIN Room = {}
      BY <2>2 DEF Room
    <3> QED BY <2>1, <3>1, FS_EmptySet
  <2>3. CASE ~(Cardinality(DOMAIN cache) >= MaxEntries)
    <3>1. Room = cache
      BY <2>3 DEF Room
    <3> QED BY <2>1, <2>3, <3>1 DEF IInv, TypeOK, CacheInv
  <2> QED BY <2>2, <2>3
<1>2. /\ DOMAIN cache' = DOMAIN Room \cup {text}
      /\ \A w \in DOMAIN cache' : cache'[w] = IF w = text THEN defined ELSE Room[w]
  BY DEF Insert
<1>3. IsFiniteSet(DOMAIN cache') /\ Cardinality(DOMAIN cache') <= Cardinality(DOMAIN Room) + 1
  <2>1. IsFiniteSet(DOMAIN Room \cup {text})
        /\ Cardinality(DOMAIN Room \cup {text}) =
             IF text \in DOMAIN Room THEN Cardinality(DOMAIN Room) ELSE Cardinality(DOMAIN Room) + 1
    BY <1>1, FS_AddElement
  <2>2. Cardinality(DOMAIN Room) \in Nat
    BY <1>1, FS_CardinalityType
  <2> QED BY <1>2, <2>1, <2>2
<1>4. CacheBounded'
  <2>1. /\ Cardinality(DOMAIN Room) \in Nat /\ Cardinality(DOMAIN cache') \in Nat
        /\ MaxEntries \in Nat
    BY <1>1, <1>3, FS_CardinalityType, CacheAssumption DEF CacheAssumption
  <2> QED BY <1>1, <1>3, <2>1 DEF CacheBounded
<1>5. \A w \in DOMAIN cache' : cache'[w] \in BOOLEAN /\ (cache'[w] <=> w \in Dictionary)
  BY <1>1, <1>2
<1> QED BY <1>3, <1>4, <1>5 DEF CacheInv

LEMMA StoreInv ==
  ASSUME IInv, NEW t \in Tasks, Store(t)
  PROVE  IInv'
<1>1. /\ pc[t] = "storing" /\ Insert(Head(left[t]), res[t]) /\ Conclude(t, res[t])
      /\ UNCHANGED <<judging, res>>
  BY DEF Store
<1>2. res[t] \in BOOLEAN /\ (res[t] <=> Head(left[t]) \in Dictionary) /\ InCall(t)
  BY <1>1 DEF IInv, TypeOK, TaskInv, ResInv, InCall
<1>3. /\ IsFiniteSet(DOMAIN cache') /\ \A w \in DOMAIN cache' : cache'[w] \in BOOLEAN
      /\ CacheBounded' /\ CacheInv'
  BY <1>1, <1>2, InsertInv
<1>4. /\ pc' \in [Tasks -> {"idle", "looking", "querying", "storing", "done"}]
      /\ verdict' \in [Tasks -> BOOLEAN]
      /\ left' = [u \in Tasks |-> left'[u]]
      /\ \A u \in Tasks : InCall(u)' <=> (left'[u] # << >>)
      /\ \A u \in Tasks : TaskInv(u)'
  BY <1>1, <1>2, ConcludeInv
<1>5. TypeOK'
  BY <1>1, <1>3, <1>4 DEF IInv, TypeOK, InCall
<1> QED BY <1>3, <1>4, <1>5 DEF IInv

LEMMA DoneInv ==
  ASSUME IInv, NEW t \in Tasks, Done(t)
  PROVE  IInv'
<1>1. /\ pc[t] = "done" /\ UNCHANGED <<cache, left>>
      /\ pc' = [pc EXCEPT ![t] = "idle"] /\ judging' = [judging EXCEPT ![t] = Nothing]
      /\ res' = [res EXCEPT ![t] = FALSE] /\ verdict' = [verdict EXCEPT ![t] = FALSE]
  BY DEF Done
<1>2. TypeOK'
  BY <1>1 DEF IInv, TypeOK
<1>3. TaskInv(t)'
  BY <1>1 DEF IInv, TypeOK, TaskInv, LeftInv, ResInv, Verdict, InCall
<1>4. \A u \in Tasks : u # t => TaskInv(u)'
  BY <1>1, Frame DEF IInv, TypeOK
<1> QED BY <1>1, <1>2, <1>3, <1>4 DEF IInv, CacheBounded, CacheInv

\* The invariant is inductive.
LEMMA Inductive == IInv /\ [Next]_vars => IInv'
<1> SUFFICES ASSUME IInv, [Next]_vars
             PROVE  IInv'
  OBVIOUS
<1>1. ASSUME NEW t \in Tasks, Task(t)
      PROVE  IInv'
  <2>1. ASSUME NEW cand \in Judged, NEW m \in Midashi, Judge(t, cand, m)
        PROVE  IInv'
    BY <2>1, JudgeInv
  <2>2. CASE Look(t)
    BY <2>2, LookInv
  <2>3. CASE Query(t)
    BY <2>3, QueryInv
  <2>4. CASE Store(t)
    BY <2>4, StoreInv
  <2>5. CASE Done(t)
    BY <2>5, DoneInv
  <2> QED BY <1>1, <2>1, <2>2, <2>3, <2>4, <2>5 DEF Task
<1>2. CASE UNCHANGED vars
  <2>1. UNCHANGED <<cache, pc, judging, left, res, verdict>>
    BY <1>2 DEF vars, taskVars
  <2>2. \A t \in Tasks : TaskInv(t)'
    BY <2>1, Frame DEF IInv
  <2> QED BY <2>1, <2>2 DEF IInv, TypeOK, CacheBounded, CacheInv
<1> QED BY <1>1, <1>2 DEF Next

LEMMA Invariant == Spec => []IInv
BY InitInv, Inductive, PTL DEF Spec

-----------------------------------------------------------------------------

\* The variables keep their types, and a task has texts to ask about just while
\* it is inside has_definition.
THEOREM TypeCorrect == Spec => []TypeOK
<1>1. IInv => TypeOK
  BY DEF IInv
<1> QED BY <1>1, Invariant, PTL

\* The cache never passes its limit, however many tasks found room in it at
\* the same time (has_definition).
THEOREM CacheStaysBounded == Spec => []CacheBounded
<1>1. IInv => CacheBounded
  BY DEF IInv
<1> QED BY <1>1, Invariant, PTL

\* Every verdict is the dictionary's own, whatever other tasks store and clear
\* meanwhile (is_annotated_or_in_dict over has_definition).
THEOREM VerdictsAreRight == Spec => []VerdictIsDictionary
<1>1. IInv => VerdictIsDictionary
  BY DEF IInv, TaskInv, Verdict, VerdictIsDictionary
<1> QED BY <1>1, Invariant, PTL
=============================================================================
