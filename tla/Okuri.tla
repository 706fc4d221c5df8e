-------------------------------- MODULE Okuri -------------------------------
(***************************************************************************)
(* Okuri-ari midashi (src/okuri.rs): a stem in kana followed by the letter *)
(* its okurigana begins with.  The upstream only knows whole words, so the *)
(* letter is replaced by each ending it may stand for, and the ending is   *)
(* taken off what is found.                                                *)
(*                                                                         *)
(* A text is a sequence of characters.  A character is a kanji, an ASCII   *)
(* letter, the marker `*`, or else a kana.  The tables of the module are   *)
(* constants.                                                              *)
(***************************************************************************)
EXTENDS Naturals, Sequences, FiniteSets, SequencesExt

CONSTANTS KanjiChars,      \* is_kanji
          Star,
          LowerOf,         \* an ASCII capital's lower-case letter
          KanaKey,         \* kana_to_okuri_key on kana
          Kana,            \* romaji_to_hiragana: texts of lower-case letters to texts
          ShortSuffixes,   \* okuri_key_to_suffixes: a key's endings, most likely first
          LongSuffixes,    \* order_suffixes_for_stem: the same for longer stems
          LongestSuffixes, \* and for `t` and stems of at least three characters
          DictSuffixes,    \* okuri_key_to_dict_suffixes: endings of dictionary headwords
          NounEndings,     \* endings that a noun made of the verb may drop
          StemEndings      \* kana a stem of two characters or more may end with

Capitals == DOMAIN LowerOf
Letters  == Capitals \cup {LowerOf[c] : c \in Capitals}

ASSUME OkuriAssumption == /\ Star \notin Letters \cup KanjiChars
                          /\ Letters \cap KanjiChars = {}
                          /\ Capitals \cap {LowerOf[c] : c \in Capitals} = {}
                          /\ \A k \in DOMAIN KanaKey : KanaKey[k] \in Letters \ Capitals
                          /\ \A k \in DOMAIN DictSuffixes :
                               DictSuffixes[k] \in Seq(ToSet(DictSuffixes[k]))

\* String
IsText(w) == w \in Seq(ToSet(w))

ASSUME EndingsAssumption ==
  \A table \in {ShortSuffixes, LongSuffixes, LongestSuffixes} : \A k \in DOMAIN table :
    /\ table[k] \in Seq(ToSet(table[k]))
    /\ \A e \in ToSet(table[k]) : IsText(e) /\ e # << >> /\ ToSet(e) \cap Letters = {}

ASSUME KanaAssumption ==
  \A romaji \in DOMAIN Kana :
    /\ IsText(romaji) /\ romaji # << >> /\ ToSet(romaji) \subseteq Letters \ Capitals
    /\ IsText(Kana[romaji]) /\ Kana[romaji] # << >>

LowerChar(c) == IF c \in Capitals THEN LowerOf[c] ELSE c

\* to_ascii_lowercase
Lower(text) == [i \in DOMAIN text |-> LowerChar(text[i])]

IsAscii(text) == \A i \in DOMAIN text : text[i] \in Letters \cup {Star}

HasKanji(text) == \E i \in DOMAIN text : text[i] \in KanjiChars

NoKey == Star

kana_to_okuri_key(c) ==
  CASE c \in DOMAIN KanaKey -> KanaKey[c]
    [] c \in Letters        -> LowerChar(c)
    [] OTHER                -> NoKey

romaji_to_hiragana(romaji) ==
  IF Lower(romaji) \in DOMAIN Kana THEN Kana[Lower(romaji)] ELSE << >>

-----------------------------------------------------------------------------
(* Parsing                                                                 *)

\* The number of letters the text ends with.
AlphaLen(text) ==
  Cardinality({i \in DOMAIN text : \A j \in i..Len(text) : text[j] \in Letters})

Simple(stem, key)           == [kind |-> "Simple", stem |-> stem, key |-> key]
Compound(stem, romaji, key) == [kind |-> "Compound", stem |-> stem, romaji |-> romaji, key |-> key]
Explicit(stem, suffix)      == [kind |-> "Explicit", stem |-> stem, suffix |-> suffix]
NotOkuri                    == [kind |-> "None"]

\* Up to the first star and past it.
BeforeStar(text) == SubSeq(text, 1, SelectInSeq(text, LAMBDA c : c = Star) - 1)
AfterStar(text)  == SubSeq(text, SelectInSeq(text, LAMBDA c : c = Star) + 1, Len(text))

HasStar(text) == /\ Contains(text, Star)
                 /\ BeforeStar(text) # << >> /\ AfterStar(text) # << >>

parse_okuri_midashi_extended(m) ==
  LET stem   == BeforeStar(m)
      suffix == AfterStar(m)
      alpha  == AlphaLen(m)
      prefix == SubSeq(m, 1, Len(m) - alpha)
      romaji == SubSeq(m, Len(prefix) + 1, Len(m) - 1)
  IN CASE HasStar(m) -> IF Len(suffix) = 1 /\ suffix[1] \in Letters
                        THEN Simple(stem, LowerChar(suffix[1]))
                        ELSE Explicit(stem, suffix)
       [] ~HasStar(m) /\ alpha >= 2 /\ ~IsAscii(prefix) /\ romaji[1] \in Capitals
            /\ romaji_to_hiragana(romaji) # << >> -> Compound(prefix, romaji, LowerChar(Last(m)))
       [] ~HasStar(m) /\ alpha = 1 /\ ~IsAscii(prefix) -> Simple(prefix, Last(m))
       [] OTHER -> NotOkuri

\* Mutant: a capital stays a capital.
normalize_okuri_midashi_key_AsTyped(m) ==
  LET p == parse_okuri_midashi_extended(m)
  IN CASE p.kind = "Simple"   -> Append(p.stem, p.key)
       [] p.kind = "Compound" -> Append(p.stem \o romaji_to_hiragana(p.romaji), p.key)
       [] p.kind = "Explicit" -> LET key == kana_to_okuri_key(p.suffix[1])
                                 IN IF key = NoKey THEN m ELSE Append(p.stem, key)
       [] OTHER -> m

\* The midashi as a dictionary writes it.
normalize_okuri_midashi_key(m) ==
  LET p == parse_okuri_midashi_extended(m)
  IN CASE p.kind = "Simple"   -> Append(p.stem, LowerChar(p.key))
       [] p.kind = "Compound" -> Append(p.stem \o romaji_to_hiragana(p.romaji), p.key)
       [] p.kind = "Explicit" -> LET key == kana_to_okuri_key(p.suffix[1])
                                 IN IF key = NoKey THEN m ELSE Append(p.stem, key)
       [] OTHER -> m

-----------------------------------------------------------------------------
(* Expansion                                                               *)

\* A table says nothing of some letters.
EndingsIn(table, key) ==
  IF LowerChar(key) \in DOMAIN table THEN table[LowerChar(key)] ELSE << >>

okuri_key_to_suffixes(key) == EndingsIn(ShortSuffixes, key)
okuri_key_to_dict_suffixes(key) == EndingsIn(DictSuffixes, key)

order_suffixes_for_stem(stem, key) ==
  LET k == LowerChar(key)
  IN CASE Len(stem) >= 3 /\ k \in DOMAIN LongestSuffixes -> LongestSuffixes[k]
       [] Len(stem) >= 2 /\ k \in DOMAIN LongSuffixes
            /\ ~(Len(stem) >= 3 /\ k \in DOMAIN LongestSuffixes) -> LongSuffixes[k]
       [] OTHER -> okuri_key_to_suffixes(k)

\* What to ask for, and the ending to take off what is found.
Inflected(stem, suffixes) ==
  [i \in DOMAIN suffixes |-> [query_midashi |-> stem \o suffixes[i], okuri_suffix |-> suffixes[i]]]

expand_okuri_variations(m) ==
  LET p    == parse_okuri_midashi_extended(m)
      full == p.stem \o romaji_to_hiragana(p.romaji)
  IN CASE p.kind = "Simple"   -> Inflected(p.stem, order_suffixes_for_stem(p.stem, p.key))
       [] p.kind = "Compound" -> Inflected(full, order_suffixes_for_stem(full, p.key))
       [] p.kind = "Explicit" -> Inflected(p.stem, <<p.suffix>>)
       [] OTHER -> << >>

-----------------------------------------------------------------------------
(* Extraction                                                              *)

KanjiCount(text) == Cardinality({i \in DOMAIN text : text[i] \in KanjiChars})

is_valid_stem(stem, stem_char_count) ==
  /\ stem # << >>
  /\ IF stem_char_count < 2 THEN HasKanji(stem)
     ELSE \/ Last(stem) \in KanjiChars
          \/ KanjiCount(stem) >= 2
          \/ KanjiCount(stem) = 1 /\ Last(stem) \in StemEndings

Without(word, suffix) == SubSeq(word, 1, Len(word) - Len(suffix))

\* A candidate is the stem with its ending or, for a compound, may be a noun
\* that does without.
Found(word, suffix, count) ==
  CASE IsSuffix(suffix, word) /\ is_valid_stem(Without(word, suffix), count) ->
         <<Without(word, suffix)>>
    [] /\ ~IsSuffix(suffix, word) /\ suffix \in NounEndings
       /\ count >= 2 /\ Len(word) \in 2..count /\ is_valid_stem(word, count) -> <<word>>
    [] OTHER -> << >>

\* Each once, in the order they come.
PushNew(list, x) == IF Contains(list, x) THEN list ELSE Append(list, x)

extract_stem_candidates_borrowed(words, suffix, query) ==
  LET Extract(stems, word) ==
        FoldLeft(PushNew, stems, Found(word, suffix, Len(query) - Len(suffix)))
  IN FoldLeft(Extract, << >>, words)

-----------------------------------------------------------------------------
(* What a user may write (external): a word is a stem and a key.           *)

Endings == UNION {UNION {ToSet(table[k]) : k \in DOMAIN table} :
                    table \in {ShortSuffixes, LongSuffixes}}

\* A small or a capital letter, after a star or not, or the last kana of the stem
\* in letters, the first of them a capital.
Spellings(word) ==
  LET keys     == {k \in Letters : LowerChar(k) = word.key}
      InLetters(n) == {romaji \in DOMAIN Kana :
                         Kana[romaji] = SubSeq(word.stem, n + 1, Len(word.stem))}
      Capital(romaji) == {<<c>> \o Tail(romaji) : c \in {c \in Capitals : LowerOf[c] = romaji[1]}}
      starts   == {word.stem, Append(word.stem, Star)}
                  \cup UNION {{SubSeq(word.stem, 1, n) \o text :
                                  text \in UNION {Capital(romaji) : romaji \in InLetters(n)}} :
                               n \in 1..Len(word.stem)}
  IN {Append(start, k) : start \in starts, k \in keys}

\* The ending in full, after a star.
SpelledOut(word) ==
  {word.stem \o <<Star>> \o e : e \in {e \in Endings : kana_to_okuri_key(e[1]) = word.key}}
=============================================================================
