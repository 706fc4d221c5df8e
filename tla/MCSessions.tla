----------------------------- MODULE MCSessions -----------------------------
(* Instances of Sessions for TLC: a midashi, its extension, an unrelated one. *)
EXTENDS Sessions, TLC

CONSTANTS ni, ku, ki  \* kana

MCMidashi == {<<ni>>, <<ni, ku>>, <<ki>>}

Symmetry == Permutations(Conns)
=============================================================================
