---------------------------- MODULE SharedContext ---------------------------
(***************************************************************************)
(* SharedContextState (src/proxy.rs): the conversion context shared by     *)
(* every client session.  The server never learns which candidate the user *)
(* took; it guesses that the top candidate of a lookup was confirmed when  *)
(* a lookup of another midashi follows.  Until then the word is pending.   *)
(*                                                                         *)
(* A midashi is a sequence (only prefixes matter), a word a plain value, a *)
(* time a number of ticks.                                                 *)
(***************************************************************************)
EXTENDS Naturals, Sequences

CONSTANTS ContextTTL,  \* CONTEXT_TTL, in ticks
          None         \* Option::None

\* duration_since saturates at zero when `earlier` is in fact later.
Since(now, earlier) == IF now >= earlier THEN now - earlier ELSE 0

NoContextYet == [session_context |-> None, pending_context |-> None]

is_input_extension(new, prev) ==
  Len(new) > Len(prev) /\ SubSeq(new, 1, Len(prev)) = prev

\* The code only asks whether a midashi was looked up twice.
ManyHits == 2
OneMore(hits) == IF hits < ManyHits THEN hits + 1 ELSE hits

\* Mutant: the deadline is not checked.
current_context_NoExpiry(s, now) == s

\* The state once an expired context is cleared; its session_context is the
\* snapshot handed out.
current_context(s, now) ==
  IF s.session_context # None /\ Since(now, s.session_context.time) > ContextTTL
  THEN [s EXCEPT !.session_context = None]
  ELSE s

Promoted(pending, now) ==
  IF Since(now, pending.time) <= ContextTTL
  THEN [word |-> pending.word, time |-> pending.time]
  ELSE None

\* Mutants: a converted word is discarded too; nothing is ever discarded.
Discarded_EvenConverted(pending, midashi) == is_input_extension(midashi, pending.midashi)

Discarded_Never(pending, midashi) == FALSE

\* The input only grew: the pending lookup was macSKK's own, of the first
\* character, unless the user converted it too.
Discarded(pending, midashi) ==
  is_input_extension(midashi, pending.midashi) /\ pending.hits < ManyHits

on_lookup_start(s, midashi, now) ==
  LET pending == s.pending_context
      settled ==
        CASE pending = None -> s
          [] pending # None /\ pending.midashi = midashi ->
               [s EXCEPT !.pending_context.hits = OneMore(@)]
          [] pending # None /\ Discarded(pending, midashi) ->
               [s EXCEPT !.pending_context = None]
          [] OTHER ->
               [session_context |-> Promoted(pending, now), pending_context |-> None]
  IN current_context(settled, now)

\* Mutant: a new pending word starts at zero.
on_lookup_result_ZeroHits(s, midashi, word, now) ==
  LET pending == s.pending_context
      hits == IF pending # None /\ pending.midashi = midashi THEN pending.hits ELSE 0
  IN [s EXCEPT !.pending_context =
        [midashi |-> midashi, word |-> word, time |-> now, hits |-> hits]]

\* A second answer for the same midashi keeps the count of its lookups.
on_lookup_result(s, midashi, word, now) ==
  LET pending == s.pending_context
      hits == IF pending # None /\ pending.midashi = midashi THEN pending.hits ELSE 1
  IN [s EXCEPT !.pending_context =
        [midashi |-> midashi, word |-> word, time |-> now, hits |-> hits]]
=============================================================================
