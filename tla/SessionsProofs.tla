--------------------------- MODULE SessionsProofs ---------------------------
(***************************************************************************)
(* Proofs about Sessions.tla, for any number of connections, any midashi   *)
(* and words, any limits, and a behaviour of any length.                   *)
(*                                                                         *)
(* The two operators that change the context are treated once, as lemmas   *)
(* about a state and an instant; the steps of a session only say which of  *)
(* them they call, and with which stamp.                                   *)
(***************************************************************************)
EXTENDS Sessions, TLAPS

Contexts == [session_context : Stamped \cup {None}, pending_context : Waiting \cup {None}]

\* The snapshot is as fresh as current_context leaves it.
Fresh(snap, t) == snap # None => Since(t, snap.time) <= ContextTTL

\* A lookup under way has a midashi.
AskedInv == \A c \in Conns : pc[c] \in {"stamped", "asking"} => midashi[c] \in Midashi

IInv == TypeOK /\ AskedInv /\ SnapshotFresh

-----------------------------------------------------------------------------
(* The operators                                                           *)

\* current_context only ever takes the context away, when it is too old.
LEMMA CurrentContext ==
  ASSUME NEW s \in Contexts, NEW t \in 0..MaxClock
  PROVE  /\ current_context(s, t) \in Contexts
         /\ current_context(s, t).pending_context = s.pending_context
         /\ current_context(s, t).session_context \in {s.session_context, None}
         /\ Fresh(current_context(s, t).session_context, t)
<1>1. CASE s.session_context # None /\ Since(t, s.session_context.time) > ContextTTL
  BY <1>1 DEF current_context, Contexts, Fresh
<1>2. CASE ~(s.session_context # None /\ Since(t, s.session_context.time) > ContextTTL)
  <2>1. current_context(s, t) = s
    BY <1>2 DEF current_context
  <2>2. ASSUME s.session_context # None
        PROVE  Since(t, s.session_context.time) <= ContextTTL
    <3>1. s.session_context.time \in 0..MaxClock
      BY <2>2 DEF Contexts, Stamped
    <3> QED BY <1>2, <2>2, <3>1, TimeAssumption DEF TimeAssumption, Since
  <2> QED BY <2>1, <2>2 DEF Fresh
<1> QED BY <1>1, <1>2

\* A pending word is kept, discarded, promoted with the time of its own lookup,
\* or lost with the context it would have replaced.
LEMMA OnLookupStart ==
  ASSUME NEW s \in Contexts, NEW m, NEW t \in 0..MaxClock
  PROVE  /\ on_lookup_start(s, m, t) \in Contexts
         /\ Fresh(on_lookup_start(s, m, t).session_context, t)
<1> DEFINE pending == s.pending_context
           settled ==
             CASE pending = None -> s
               [] pending # None /\ pending.midashi = m ->
                    [s EXCEPT !.pending_context.hits = OneMore(@)]
               [] pending # None /\ Discarded(pending, m) ->
                    [s EXCEPT !.pending_context = None]
               [] OTHER ->
                    [session_context |-> Promoted(pending, t), pending_context |-> None]
<1>1. on_lookup_start(s, m, t) = current_context(settled, t)
  BY DEF on_lookup_start
<1>2. settled \in Contexts
  <2>1. CASE pending = None
    BY <2>1
  <2>2. CASE pending # None
    <3>1. pending \in Waiting
      BY <2>2 DEF Contexts
    <3>2. [s EXCEPT !.pending_context.hits = OneMore(@)] \in Contexts
      BY <3>1 DEF Contexts, Waiting, OneMore, ManyHits
    <3>3. [s EXCEPT !.pending_context = None] \in Contexts
      BY DEF Contexts
    <3>4. [session_context |-> Promoted(pending, t), pending_context |-> None] \in Contexts
      BY <3>1 DEF Contexts, Waiting, Stamped, Promoted
    <3>5. settled \in {[s EXCEPT !.pending_context.hits = OneMore(@)],
                       [s EXCEPT !.pending_context = None],
                       [session_context |-> Promoted(pending, t), pending_context |-> None]}
      BY <2>2
    <3> QED BY <3>2, <3>3, <3>4, <3>5
  <2> QED BY <2>1, <2>2
<1> HIDE DEF settled
<1> QED BY <1>1, <1>2, CurrentContext

LEMMA OnLookupResult ==
  ASSUME NEW s \in Contexts, NEW m \in Midashi, NEW word \in KanjiWord, NEW t \in 0..MaxClock
  PROVE  /\ on_lookup_result(s, m, word, t) \in Contexts
         /\ on_lookup_result(s, m, word, t).session_context = s.session_context
<1> DEFINE hits == IF s.pending_context # None /\ s.pending_context.midashi = m
                   THEN s.pending_context.hits ELSE 1
<1>1. hits \in 1..ManyHits
  BY DEF Contexts, Waiting, ManyHits
<1>2. on_lookup_result(s, m, word, t) =
        [s EXCEPT !.pending_context = [midashi |-> m, word |-> word, time |-> t, hits |-> hits]]
  BY DEF on_lookup_result
<1> HIDE DEF hits
<1> QED BY <1>1, <1>2 DEF Contexts, Waiting

-----------------------------------------------------------------------------
(* The steps                                                               *)

LEMMA InitInv == Init => IInv
BY TimeAssumption DEF TimeAssumption, Init, IInv, TypeOK, AskedInv, SnapshotFresh, NoContextYet

\* Steps that leave the context and every lookup alone, and start none.
LEMMA ElsewhereInv ==
  ASSUME IInv, UNCHANGED <<context, lookup>>, clock' \in 0..MaxClock,
         pc' \in [Conns -> {"closed", "ready", "stamped", "asking", "completing", "writing"}],
         conn_last_response_time' \in [Conns -> (0..MaxClock) \cup {None}],
         \A c \in Conns : pc'[c] \in {"stamped", "asking"} => pc[c] = pc'[c]
  PROVE  IInv'
BY DEF IInv, TypeOK, AskedInv, SnapshotFresh, lookup

LEMMA WriteInv ==
  ASSUME IInv, NEW c \in Conns, Write(c)
  PROVE  IInv'
<1>1. /\ pc' \in [Conns -> {"closed", "ready", "stamped", "asking", "completing", "writing"}]
      /\ conn_last_response_time' \in [Conns -> (0..MaxClock) \cup {None}]
      /\ \A d \in Conns : pc'[d] \in {"stamped", "asking"} => pc[d] = pc'[d]
  BY DEF IInv, TypeOK, Write, Close, Goto
<1>2. UNCHANGED <<context, lookup>> /\ clock' \in 0..MaxClock
  BY DEF IInv, TypeOK, Write
<1> QED BY <1>1, <1>2, ElsewhereInv

LEMMA ClientInv ==
  ASSUME IInv, NEW c \in Conns, Client(c)
  PROVE  IInv'
<1>1. CASE Accept(c) \/ Leave(c) \/ Completion(c)
  <2>1. /\ pc' \in [Conns -> {"closed", "ready", "stamped", "asking", "completing", "writing"}]
        /\ conn_last_response_time' \in [Conns -> (0..MaxClock) \cup {None}]
        /\ \A d \in Conns : pc'[d] \in {"stamped", "asking"} => pc[d] = pc'[d]
    BY <1>1 DEF IInv, TypeOK, Accept, Leave, Completion, Close, Goto
  <2>2. UNCHANGED <<context, lookup>> /\ clock' \in 0..MaxClock
    BY <1>1 DEF IInv, TypeOK, Accept, Leave, Completion
  <2> QED BY <2>1, <2>2, ElsewhereInv
<1>2. CASE Version(c)
  BY <1>2, WriteInv DEF Version
<1>3. ASSUME NEW m \in Midashi, Stamp(c, m)
      PROVE  IInv'
  <2>1. /\ midashi' = [midashi EXCEPT ![c] = m] /\ now' = [now EXCEPT ![c] = clock]
        /\ burst' = [burst EXCEPT ![c] = IsBurst(c)] /\ pc' = [pc EXCEPT ![c] = "stamped"]
        /\ UNCHANGED <<clock, context, snapshot, conn_last_response_time>>
    BY <1>3 DEF Stamp, Goto
  <2>2. IsBurst(c) \in BOOLEAN
    BY DEF IsBurst
  <2>3. TypeOK'
    BY <2>1, <2>2 DEF IInv, TypeOK
  <2>4. AskedInv' /\ SnapshotFresh'
    BY <2>1 DEF IInv, TypeOK, AskedInv, SnapshotFresh
  <2> QED BY <2>3, <2>4 DEF IInv
<1> QED BY <1>1, <1>2, <1>3 DEF Client, Request

LEMMA StartInv ==
  ASSUME IInv, NEW c \in Conns, Start(c)
  PROVE  IInv'
<1>1. now[c] \in 0..MaxClock /\ context \in Contexts
  BY DEF IInv, TypeOK, Contexts
<1>2. context' \in Contexts /\ Fresh(context'.session_context, now[c])
  <2>1. context' \in {on_lookup_start(context, midashi[c], now[c]), current_context(context, now[c])}
    BY DEF Start
  <2> QED BY <1>1, <2>1, CurrentContext, OnLookupStart
<1>3. /\ snapshot' = [snapshot EXCEPT ![c] = context'.session_context]
      /\ pc' = [pc EXCEPT ![c] = "asking"]
      /\ UNCHANGED <<clock, midashi, now, burst, conn_last_response_time>>
  BY DEF Start, Goto
<1>4. TypeOK'
  BY <1>2, <1>3 DEF IInv, TypeOK, Contexts
<1>5. SnapshotFresh'
  BY <1>2, <1>3 DEF IInv, TypeOK, SnapshotFresh, Fresh
<1>6. AskedInv'
  <2>1. pc[c] = "stamped"
    BY DEF Start
  <2> QED BY <1>3, <2>1 DEF IInv, TypeOK, AskedInv
<1> QED BY <1>4, <1>5, <1>6 DEF IInv

LEMMA AnswerInv ==
  ASSUME IInv, NEW c \in Conns, NEW top \in KanjiWord \cup {None}, Answer(c, top)
  PROVE  IInv'
<1>1. now[c] \in 0..MaxClock /\ context \in Contexts
  BY DEF IInv, TypeOK, Contexts
<1>2. context' \in Contexts
  <2>1. midashi[c] \in Midashi
    BY DEF IInv, AskedInv, Answer
  <2>2. top # None => on_lookup_result(context, midashi[c], top, now[c]) \in Contexts
    BY <1>1, <2>1, OnLookupResult
  <2> QED BY <1>1, <2>2 DEF Answer
<1>3. /\ pc' = [pc EXCEPT ![c] = "writing"]
      /\ midashi' = [midashi EXCEPT ![c] = None] /\ now' = [now EXCEPT ![c] = 0]
      /\ burst' = [burst EXCEPT ![c] = FALSE] /\ snapshot' = [snapshot EXCEPT ![c] = None]
      /\ UNCHANGED <<clock, conn_last_response_time>>
  BY DEF Answer, Goto
<1>4. TypeOK'
  BY <1>2, <1>3, TimeAssumption DEF TimeAssumption, IInv, TypeOK, Contexts
<1>5. AskedInv' /\ SnapshotFresh'
  BY <1>3 DEF IInv, TypeOK, AskedInv, SnapshotFresh
<1> QED BY <1>4, <1>5 DEF IInv

LEMMA NextInv == IInv /\ [Next]_vars => IInv'
<1> SUFFICES ASSUME IInv, [Next]_vars
             PROVE  IInv'
  OBVIOUS
<1>1. CASE Tick
  <2>1. clock' \in 0..MaxClock
    BY <1>1, TimeAssumption DEF TimeAssumption, IInv, TypeOK, Tick
  <2> QED BY <1>1, <2>1, ElsewhereInv DEF IInv, TypeOK, Tick
<1>2. ASSUME NEW c \in Conns, Client(c)
      PROVE  IInv'
  BY <1>2, ClientInv
<1>3. ASSUME NEW c \in Conns, Session(c)
      PROVE  IInv'
  <2>1. CASE Complete(c) \/ Respond(c)
    BY <2>1, WriteInv DEF Complete, Respond
  <2>2. CASE Start(c)
    BY <2>2, StartInv
  <2>3. ASSUME NEW top \in KanjiWord \cup {None}, Answer(c, top)
        PROVE  IInv'
    BY <2>3, AnswerInv
  <2> QED BY <1>3, <2>1, <2>2, <2>3 DEF Session
<1>4. CASE UNCHANGED vars
  BY <1>4, ElsewhereInv DEF vars, IInv, TypeOK
<1> QED BY <1>1, <1>2, <1>3, <1>4 DEF Next

LEMMA Invariance == Spec => []IInv
BY InitInv, NextInv, PTL DEF Spec

\* Of all steps, only those of its own lookup move a lookup, and a burst's do
\* not touch the pending word.
LEMMA BurstStep ==
  ASSUME IInv, [Next]_vars, NEW c \in Conns, burst[c], pc[c] \in {"stamped", "asking"},
         pc'[c] # pc[c]
  PROVE  /\ context'.pending_context = context.pending_context
         /\ context'.session_context \in {context.session_context, None}
<1>1. Start(c) \/ \E top \in KanjiWord \cup {None} : Answer(c, top)
  <2>1. ~Tick /\ ~UNCHANGED vars
    BY DEF Tick, vars
  <2>2. PICK d \in Conns : Client(d) \/ Session(d)
    BY <2>1 DEF Next
  <2>3. d = c
    BY <2>2 DEF IInv, TypeOK, Client, Request, Session, Accept, Leave, Version, Completion, Stamp,
                Complete, Start, Answer, Respond, Write, Close, Goto
  <2> QED BY <2>2, <2>3 DEF Client, Request, Session, Accept, Leave, Version, Completion, Stamp,
                            Complete, Respond
<1>2. CASE Start(c)
  <2>1. context' = current_context(context, now[c])
    BY <1>2 DEF Start, Tracked
  <2>2. now[c] \in 0..MaxClock /\ context \in Contexts
    BY DEF IInv, TypeOK, Contexts
  <2> QED BY <2>1, <2>2, CurrentContext
<1>3. ASSUME NEW top \in KanjiWord \cup {None}, Answer(c, top)
      PROVE  context' = context
  BY <1>3 DEF Answer, Tracked
<1> QED BY <1>1, <1>2, <1>3

-----------------------------------------------------------------------------

\* The context, the locals of every session and the clock keep their types.
THEOREM TypeCorrect == Spec => []TypeOK
<1>1. IInv => TypeOK
  BY DEF IInv
<1> QED BY <1>1, Invariance, PTL

\* No lookup is ranked with a word that is older than CONTEXT_TTL, whichever of
\* the connections brought it into the context (on_lookup_start and
\* current_context).
THEOREM SnapshotsAreFresh == Spec => []SnapshotFresh
<1>1. IInv => SnapshotFresh
  BY DEF IInv
<1> QED BY <1>1, Invariance, PTL

\* A lookup flagged as a burst leaves the pending word alone and brings no word
\* into the context (handle_client's is_completion_burst).
THEOREM BurstsAreHarmless == Spec => BurstsLeaveNoTrace
<1>1. IInv /\ [Next]_vars =>
        [\A c \in Conns :
           burst[c] /\ pc[c] \in {"stamped", "asking"} /\ pc'[c] # pc[c]
           => /\ context'.pending_context = context.pending_context
              /\ context'.session_context \in {context.session_context, None}]_vars
  BY BurstStep
<1> QED BY <1>1, Invariance, PTL DEF Spec, BurstsLeaveNoTrace
=============================================================================
