---------------------------- MODULE MCDictCache -----------------------------
(* An instance of DictCache for TLC: the candidates of two okuri-ari midashi *)
(* spelled differently, and of a plain one, in a cache of three.                      *)
EXTENDS DictCache, MCTables

MCMidashi == {<<"ki">>, <<"ki", "r">>, <<"te", "da", Star, "re">>}

MCJudged == {Plain(Cut), Plain(Skill), [Plain(Wear) EXCEPT !.note = TRUE],
             [kind |-> "close", word |-> NoWord, note |-> FALSE]}

MCPresets == [c \in {} |-> 0]

Symmetry == Permutations(Tasks)
=============================================================================
