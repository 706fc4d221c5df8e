---------------------------- MODULE MCSeedStore -----------------------------
(* Instances of SeedStore for TLC.                                          *)
EXTENDS SeedStore, TLC

Symmetry == Permutations(Commands)
=============================================================================
