--------------------------- MODULE MCTypingSession --------------------------
(* Instances of TypingSession for TLC: one-character words and words that   *)
(* extend them.                                                             *)
EXTENDS TypingSession, TLC

CONSTANTS ni, ku, ki, r  \* kana, and an okuri letter

MCMidashi == {<<ni>>, <<ni, ku>>, <<ki>>, <<ki, r>>}

\* The renamings of characters under which the words remain the same.
MCSymmetry ==
  {p \in Permutations({ni, ku, ki, r}) :
     \A m \in MCMidashi : [i \in DOMAIN m |-> p[m[i]]] \in MCMidashi}
=============================================================================
