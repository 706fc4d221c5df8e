------------------------------ MODULE Sessions ------------------------------
(***************************************************************************)
(* The session tasks of src/proxy.rs: one handle_client per accepted       *)
(* connection, and the conversion context they share behind a std Mutex.   *)
(*                                                                         *)
(* A lookup is four steps, with other sessions free to run in between: the *)
(* request is read and stamped with `now`; the context is locked and the   *)
(* snapshot taken; the upstream answer arrives, is ranked, and its top     *)
(* candidate is recorded under the lock, with the stamp of the request;    *)
(* the response is written.                                                *)
(*                                                                         *)
(* The upstream is abstract: an answer has a top candidate containing a    *)
(* kanji, or none (not found, or a top candidate without one).             *)
(***************************************************************************)
EXTENDS SharedContext

CONSTANTS Conns,     \* client connections that may be open at once
          Midashi,   \* what clients look up: a set of sequences
          KanjiWord, \* top candidates that contain a kanji
          context_ranking, \* the --context-ranking switch
          BurstGap,  \* the 50 ms below which a lookup is a machine's, in ticks
          MaxClock   \* bound: the ticks a behaviour may last

ASSUME TimeAssumption == /\ ContextTTL \in Nat /\ BurstGap \in Nat /\ MaxClock \in Nat
                         /\ BurstGap <= ContextTTL
                         /\ context_ranking \in BOOLEAN

VARIABLES
  clock,    \* Instant::now()
  context,  \* the SharedContextState
  pc,       \* where each session stands in its loop
  midashi,  \* the midashi of each session's lookup
  now,      \* the stamp of each session's lookup
  burst,    \* is_completion_burst of each session's lookup
  snapshot, \* the context each session's lookup is ranked with (and its time)
  conn_last_response_time

lookup == <<midashi, now, burst, snapshot>>
vars   == <<clock, context, pc, lookup, conn_last_response_time>>

Stamped == [word : KanjiWord, time : 0..MaxClock]
Waiting == [midashi : Midashi, word : KanjiWord, time : 0..MaxClock, hits : 1..ManyHits]

TypeOK ==
  /\ clock \in 0..MaxClock
  /\ context \in [session_context : Stamped \cup {None}, pending_context : Waiting \cup {None}]
  /\ pc \in [Conns -> {"closed", "ready", "stamped", "asking", "completing", "writing"}]
  /\ midashi \in [Conns -> Midashi \cup {None}]
  /\ now \in [Conns -> 0..MaxClock]
  /\ burst \in [Conns -> BOOLEAN]
  /\ snapshot \in [Conns -> Stamped \cup {None}]
  /\ conn_last_response_time \in [Conns -> (0..MaxClock) \cup {None}]

Init ==
  /\ clock = 0
  /\ context = NoContextYet
  /\ pc = [c \in Conns |-> "closed"]
  /\ midashi = [c \in Conns |-> None]
  /\ now = [c \in Conns |-> 0]
  /\ burst = [c \in Conns |-> FALSE]
  /\ snapshot = [c \in Conns |-> None]
  /\ conn_last_response_time = [c \in Conns |-> None]

Tick == /\ clock < MaxClock
        /\ clock' = clock + 1
        /\ UNCHANGED <<context, pc, lookup, conn_last_response_time>>

Goto(c, place) == pc' = [pc EXCEPT ![c] = place]

\* The locals of a session that ends go with it.
Close(c) == /\ Goto(c, "closed")
            /\ conn_last_response_time' = [conn_last_response_time EXCEPT ![c] = None]

-----------------------------------------------------------------------------
(* The connection                                                          *)

Accept(c) == /\ pc[c] = "closed"
             /\ Goto(c, "ready")
             /\ UNCHANGED <<clock, context, lookup, conn_last_response_time>>

\* End of stream, Request::End, an invalid or overlong line.
Leave(c) == /\ pc[c] = "ready"
            /\ Close(c)
            /\ UNCHANGED <<clock, context, lookup>>

\* write_all either stores the time of the response or ends the session.
Write(c) ==
  /\ \/ /\ Goto(c, "ready")
        /\ conn_last_response_time' = [conn_last_response_time EXCEPT ![c] = clock]
     \/ Close(c)
  /\ UNCHANGED <<clock, context, lookup>>

\* Request::Version and Request::Host are answered on the spot.
Version(c) == pc[c] = "ready" /\ Write(c)

\* Request::Completion asks the backends; the context is not consulted.
Completion(c) == /\ pc[c] = "ready"
                 /\ Goto(c, "completing")
                 /\ UNCHANGED <<clock, context, lookup, conn_last_response_time>>

Complete(c) == pc[c] = "completing" /\ Write(c)

-----------------------------------------------------------------------------
(* Request::Lookup                                                         *)

IsBurst(c) == /\ conn_last_response_time[c] # None
              /\ Since(clock, conn_last_response_time[c]) < BurstGap

Stamp(c, m) ==
  /\ pc[c] = "ready"
  /\ midashi' = [midashi EXCEPT ![c] = m]
  /\ now' = [now EXCEPT ![c] = clock]
  /\ burst' = [burst EXCEPT ![c] = IsBurst(c)]
  /\ Goto(c, "stamped")
  /\ UNCHANGED <<clock, context, snapshot, conn_last_response_time>>

\* Mutant: the burst flag is not consulted.
Tracked_BurstToo(c) == context_ranking

\* Bursts, and everything when the switch is off, stay out of the context.
Tracked(c) == context_ranking /\ ~burst[c]

\* Under the lock: the pending word is settled.
Start(c) ==
  /\ pc[c] = "stamped"
  /\ context' = IF Tracked(c)
                THEN on_lookup_start(context, midashi[c], now[c])
                ELSE current_context(context, now[c])
  /\ snapshot' = [snapshot EXCEPT ![c] = context'.session_context]
  /\ Goto(c, "asking")
  /\ UNCHANGED <<clock, midashi, now, burst, conn_last_response_time>>

\* The upstream answered; under the lock, the top candidate becomes pending.
Answer(c, top) ==
  /\ pc[c] = "asking"
  /\ context' = IF top # None /\ Tracked(c)
                THEN on_lookup_result(context, midashi[c], top, now[c])
                ELSE context
  /\ Goto(c, "writing")
  /\ midashi' = [midashi EXCEPT ![c] = None]   \* out of scope from here on
  /\ now' = [now EXCEPT ![c] = 0]
  /\ burst' = [burst EXCEPT ![c] = FALSE]
  /\ snapshot' = [snapshot EXCEPT ![c] = None]
  /\ UNCHANGED <<clock, conn_last_response_time>>

Respond(c) == pc[c] = "writing" /\ Write(c)

-----------------------------------------------------------------------------

\* A line is read: what parse_request makes of it decides.
Request(c) == Leave(c) \/ Version(c) \/ Completion(c) \/ \E m \in Midashi : Stamp(c, m)

Client(c) == Accept(c) \/ Request(c)

Session(c) == Complete(c) \/ Start(c) \/ (\E top \in KanjiWord \cup {None} : Answer(c, top)) \/ Respond(c)

Next == Tick \/ \E c \in Conns : Client(c) \/ Session(c)

Spec == Init /\ [][Next]_vars

-----------------------------------------------------------------------------

\* A lookup is never ranked with a word whose own lookup is more than
\* CONTEXT_TTL older, however the word reached it: promoted just now, promoted
\* earlier by another session, or left there by a burst (current_context).
SnapshotFresh ==
  \A c \in Conns :
    pc[c] = "asking" /\ snapshot[c] # None => Since(now[c], snapshot[c].time) <= ContextTTL

\* macSKK's machine-speed scans leave no trace: whatever else is going on, no
\* step of a lookup flagged as a burst changes the pending word or brings a
\* word into the context (handle_client's is_completion_burst).
BurstsLeaveNoTrace ==
  [][\A c \in Conns :
        burst[c] /\ pc[c] \in {"stamped", "asking"} /\ pc'[c] # pc[c]
        => /\ context'.pending_context = context.pending_context
           /\ context'.session_context \in {context.session_context, None}]_vars

\* README: the context is the word confirmed last, shared by all connections;
\* so it is never replaced by the word of an earlier lookup.
ContextNeverGoesBack ==
  [][context.session_context # None /\ context'.session_context # None
     => context'.session_context.time >= context.session_context.time]_vars
=============================================================================
