------------------------------ MODULE MCTables ------------------------------
(* The rows of `r` and `t` in the tables of okuri.rs, and some words.       *)
EXTENDS Naturals, Sequences, TLC

\* Characters: kanji capitalised, letters and kana in lower case.
MCKanjiChars  == {"Cut", "Wear", "Hand", "Skill"}
MCLowerOf     == "A" :> "a" @@ "D" :> "d" @@ "R" :> "r" @@ "T" :> "t"
MCKanaKey     == [c \in {"ru", "ri", "re", "ro"} |-> "r"] @@ "da" :> "d" @@
                 [c \in {"te", "tu", "ti", "small_tu"} |-> "t"]
MCKana        == <<"d", "a">> :> <<"da">> @@ <<"d">> :> <<"da">> @@ <<"a">> :> <<"kana_a">>
Ru == <<"ru">>
Ri == <<"ri">>
Re == <<"re">>
Tta == <<"small_tu", "ta">>
Tte == <<"small_tu", "te">>
MCShort       == "r" :> <<Ru, Ri, Re, <<"ri", "small_ya">>, <<"ro", "u">> >> @@
                 "t" :> <<Tta, Tte, <<"te">>, <<"tu">>, <<"ti">> >>
MCLong        == "r" :> <<Ri, Ru, Re, Tta, Tte>> @@
                 "t" :> <<Tta, Tte, <<"te">>, <<"tu">>, <<"ti">> >>
MCLongest     == "t" :> << <<"te">>, <<"tu">>, <<"ti">>, Tta, Tte>>
MCDictSuffixes == "r" :> <<Ru, Ri, Re, <<"re", "ru">> >>
MCNounEndings == {Ri, Re}
MCStemEndings == {"ki", "ri", "re"}

Cut       == <<"Cut">>
Wear      == <<"Wear">>
Skill     == <<"Hand", "Skill">>
HandFoot  == <<"Hand", "Cut">>
CutRu     == Cut \o Ru
Assign    == <<"Cut", "ri", "Hand">>
MCWords   == {Cut, CutRu, Cut \o Ri, Cut \o Re, Wear, Wear \o Ru, Wear \o Ri,
              <<"Hand">>, Skill, Skill \o Ri,
              Skill \o Re, HandFoot, <<"Hand", "da">>, <<"Hand", "da", "re">>,
              <<"ki">>, <<"ki", "re">>, Assign, Assign \o <<"te">>}

MCDictionary == {CutRu, Skill, Skill \o Re}
=============================================================================
