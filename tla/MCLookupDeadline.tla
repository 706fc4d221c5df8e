-------------------------- MODULE MCLookupDeadline --------------------------
(* Instances of LookupDeadline for TLC: a tick is 50 ms, and every duration *)
(* the program's own.                                                       *)
EXTENDS LookupDeadline

CONSTANTS t1, t2

\* t1 looks up okuri-ari midashi too; t2 does not.
MCVariations == [t \in Tasks |-> IF t = t1 THEN 4 ELSE 0]

MCLineups == {{t1}, {t2}, {t1, t2}, {t1, Warmer}}
MCAlone   == {{t1}}
=============================================================================
