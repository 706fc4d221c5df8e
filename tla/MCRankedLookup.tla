--------------------------- MODULE MCRankedLookup ---------------------------
(* An instance of RankedLookup for TLC: lookups of three okuri-ari words,   *)
(* one of them spelled in three ways, and of a plain one.                   *)
EXTENDS RankedLookup, MCTables

Ki   == <<"ki">>
KiR  == <<"ki", "r">>
TedaR == <<"te", "da", "r">>
MCMidashi == {Ki, KiR, <<"te", "da", "R">>, <<"te", "D", "a", "r">>, <<"te", "da", Star, "re">>,
              <<"wa", "ri", "A", "T">>}

MCOkuriWords == {[stem |-> <<"ki">>, key |-> "r"], [stem |-> <<"te", "da">>, key |-> "r"],
                 [stem |-> <<"wa", "ri", "kana_a">>, key |-> "t"]}

MCContexts   == {CutRu, Cut}

Note(w)  == [Plain(w) EXCEPT !.note = TRUE]
Open     == [kind |-> "open", word |-> NoWord, note |-> FALSE]
Close(w) == [kind |-> "close", word |-> w, note |-> FALSE]
Unclosed(cs) == [Response(cs) EXCEPT !.closed = FALSE]

MCPrimary ==
  Ki :> {Response(<<Plain(Wear), Plain(Cut), Plain(CutRu)>>), Response(<<Plain(<<"ki", "re">>)>>)} @@
  (Ki \o Ru) :> {Response(<<Plain(CutRu), Note(Wear \o Ru)>>)} @@
  (Ki \o Ri) :> {Response(<<Plain(Wear \o Ri), Plain(Cut \o Ri)>>)} @@
  (Ki \o Re) :> {Response(<<Plain(Cut \o Re), Plain(<<"ki", "re">>)>>)} @@
  <<"wa", "ri", "kana_a", "te">> :> {Response(<<Plain(Assign \o <<"te">>)>>)} @@
  <<"te", "da", "ri">> :> {Response(<<Plain(<<"Hand", "da">>), Plain(HandFoot)>>)} @@
  <<"te", "da", "re">> :> {Response(<<Plain(Skill \o Re), Plain(<<"Hand", "da", "re">>)>>)}

MCFallback ==
  Ki :> {Unclosed(<<Plain(Cut), Plain(Wear)>>)} @@
  KiR :> {Response(<<Open, Plain(Wear), Close(NoWord), Open, Plain(Wear),
                   [Close(Cut) EXCEPT !.note = TRUE]>>)} @@
  <<"te", "da", "R">> :> {Response(<<Plain(HandFoot), Note(Skill)>>)}

Table(freq, ctx) == [frequencies |-> freq, context_frequencies |-> ctx]

\* DEFAULT_SEED_JSON has contexts only.
MCPresets == CutRu :> (Wear :> 2)

\* As macSKK writes them.
MCUserDicts ==
  {<<Line(KiR, <<Open, Plain(Wear), Note(Cut), Close(NoWord), Open, Plain(Cut), Close(NoWord)>>),
     Line(TedaR, <<Plain(HandFoot), Plain(Skill)>>)>>,
   <<Line(Ki, <<Plain(Cut), Plain(Wear), Plain(CutRu)>>), Line(KiR, <<Plain(Cut), Plain(Wear)>>)>>}

\* No contexts; an empty map that hides that of the lower case; scores for a word
\* and for one it begins, in both tables; and an import into the first.
MCSeeds ==
  LET typed == Table(Ki :> (Cut :> 3 @@ CutRu :> 1) @@ KiR :> (Wear :> 1), NoScores)
  IN {typed,
      Table(<<"te", "da", "R">> :> NoScores @@ TedaR :> (HandFoot :> 1),
            CutRu :> (Wear :> 1 @@ (Skill \o Re) :> 1) @@ Cut :> (Cut :> 1)),
      Table(NoScores, CutRu :> (Wear :> 1 @@ CutRu :> 2))}
     \cup {import_from_skk_dict(typed, d) : d \in MCUserDicts}
=============================================================================
