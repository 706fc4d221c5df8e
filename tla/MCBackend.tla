------------------------------ MODULE MCBackend -----------------------------
(* Instances of Backend for TLC.                                           *)
EXTENDS Backend
=============================================================================
