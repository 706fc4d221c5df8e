------------------------------ MODULE Backend -------------------------------
(***************************************************************************)
(* One upstream skkserv (src/backend.rs) and the single persistent TCP     *)
(* connection to it that every session task, and the start-up warm-up      *)
(* task, shares behind a tokio Mutex.                                      *)
(*                                                                         *)
(* The skkserv protocol carries no request identifiers: a line that comes  *)
(* back is the answer to the oldest request still unanswered on that       *)
(* connection.  All the code has to keep answers and questions together is *)
(* the mutex, held for a whole query, and the rule that a connection on    *)
(* which anything went wrong is thrown away.                               *)
(*                                                                         *)
(* One action per await point of `query_inner`, so that the server may     *)
(* answer, hang up, crash or restart, and the timer may fire, between any  *)
(* two of them.  Time is abstract: the timer may fire whenever it runs     *)
(* (LookupDeadline.tla has the durations).                                 *)
(***************************************************************************)
EXTENDS Naturals, Sequences

CONSTANTS Tasks,     \* tasks that call query_with_timeout
          Requests,  \* request lines they may send
          NoTask     \* the mutex is free

ASSUME NoTaskAssumption == NoTask \notin Tasks

VARIABLES
  pc,        \* pc[t]: where t stands in query_inner
  req,       \* req[t]: the encoded request, `wire`
  result,    \* result[t]: what t's latest query returned
  guard,     \* the task that holds the MutexGuard
  waiters,   \* the tasks queued on the mutex (tokio's Mutex is FIFO)
  attempt,   \* loop counter of the guard's holder
  conn,      \* "none": Option is None; "up"; "closed": by the server, unnoticed
  wire,      \* request lines the server has not read yet
  inbox,     \* lines the server has sent and the client has not read yet
  listening, \* the server accepts connections
  fresh      \* history: the guard's holder opened conn itself

taskVars == <<pc, req, result, guard, waiters, attempt>>
connVars == <<conn, wire, inbox, fresh>>
vars     == <<taskVars, connVars, listening>>

Failures == {"Connect", "Timeout", "Io", "EmptyResponse", "Malformed"}
\* The code reports "Malformed" (no newline, over 64KB) as EmptyResponse too;
\* it is told apart here because that branch returns without a second attempt.

Unknown  == [kind |-> "unknown"]
Reply(r) == [kind |-> "ok", to |-> r]
Error(k) == [kind |-> "err", why |-> k]
Results  == {Unknown} \cup {Reply(r) : r \in Requests} \cup {Error(k) : k \in Failures}

Forms == {"whole", "oversize", "cut"}
Lines == [to : Requests, form : Forms]

Running == {"dial", "send", "recv"}

TypeOK == /\ pc \in [Tasks -> {"idle", "queued"} \cup Running]
          /\ req \in [Tasks -> Requests]
          /\ result \in [Tasks -> Results]
          /\ guard \in Tasks \cup {NoTask}
          /\ waiters \in Seq(Tasks)
          /\ attempt \in {0, 1}
          /\ conn \in {"none", "up", "closed"}
          /\ wire \in Seq(Requests)
          /\ inbox \in Seq(Lines)
          /\ listening \in BOOLEAN
          /\ fresh \in BOOLEAN

Init == /\ pc = [t \in Tasks |-> "idle"]
        /\ req \in [Tasks -> Requests]
        /\ result = [t \in Tasks |-> Unknown]
        /\ guard = NoTask
        /\ waiters = << >>
        /\ attempt = 0
        /\ conn = "none"
        /\ wire = << >>
        /\ inbox = << >>
        /\ listening \in BOOLEAN
        /\ fresh = FALSE

-----------------------------------------------------------------------------
(* The connection                                                          *)

DropConn == /\ conn' = "none"      \* *guard = None: unread bytes go with it
            /\ wire' = << >>
            /\ inbox' = << >>
            /\ fresh' = FALSE

KeepConn == UNCHANGED <<conn, wire, inbox, fresh>>

(* The query                                                               *)

Finish(t, outcome) == /\ pc' = [pc EXCEPT ![t] = "idle"]
                      /\ result' = [result EXCEPT ![t] = outcome]
                      /\ guard' = NoTask
                      /\ UNCHANGED <<req, waiters, attempt, listening>>

\* Mutants: a single attempt; `loop` instead of `for attempt in 0..2`.
Retry_Once(t, why) == DropConn /\ Finish(t, Error(why))

Retry_Forever(t, why) ==
  /\ DropConn
  /\ attempt' = attempt + 1
  /\ pc' = [pc EXCEPT ![t] = "dial"]
  /\ UNCHANGED <<req, result, guard, waiters, listening>>

\* `last_err = Some(err); continue`: a transport error drops the connection
\* and is returned only when it ends the second attempt.
Retry(t, why) ==
  /\ DropConn
  /\ \/ /\ attempt = 0
        /\ attempt' = 1
        /\ pc' = [pc EXCEPT ![t] = "dial"]
        /\ UNCHANGED <<req, result, guard, waiters, listening>>
     \/ /\ attempt = 1
        /\ Finish(t, Error(why))

Call(t, r) ==
  /\ pc[t] = "idle"
  /\ pc' = [pc EXCEPT ![t] = "queued"]
  /\ req' = [req EXCEPT ![t] = r]
  /\ result' = [result EXCEPT ![t] = Unknown]
  /\ waiters' = Append(waiters, t)
  /\ UNCHANGED <<guard, attempt, connVars, listening>>

\* Mutant: a mutex that serves its waiters in any order.
Acquire_AnyWaiter(t) ==
  /\ guard = NoTask
  /\ pc[t] = "queued"
  /\ guard' = t
  /\ waiters' = SelectSeq(waiters, LAMBDA u : u # t)
  /\ attempt' = 0
  /\ fresh' = FALSE
  /\ pc' = [pc EXCEPT ![t] = IF conn = "none" THEN "dial" ELSE "send"]
  /\ UNCHANGED <<req, result, conn, wire, inbox, listening>>

\* The lock is awaited outside the timer, which starts here.
Acquire(t) ==
  /\ guard = NoTask
  /\ waiters # << >>
  /\ t = Head(waiters)
  /\ pc[t] = "queued"
  /\ guard' = t
  /\ waiters' = Tail(waiters)
  /\ attempt' = 0
  /\ fresh' = FALSE
  /\ pc' = [pc EXCEPT ![t] = IF conn = "none" THEN "dial" ELSE "send"]
  /\ UNCHANGED <<req, result, conn, wire, inbox, listening>>

Dial(t) ==
  /\ guard = t
  /\ pc[t] = "dial"
  /\ \/ /\ listening
        /\ conn' = "up"
        /\ fresh' = TRUE
        /\ pc' = [pc EXCEPT ![t] = "send"]
        /\ UNCHANGED <<req, result, guard, waiters, attempt, wire, inbox, listening>>
     \/ /\ ~listening
        /\ KeepConn
        /\ Finish(t, Error("Connect"))

\* Mutant: the guard is dropped once the request is written.
Send_ReleasesLock(t) ==
  /\ guard = t
  /\ pc[t] = "send"
  /\ wire' = IF conn = "up" THEN Append(wire, req[t]) ELSE wire
  /\ pc' = [pc EXCEPT ![t] = "recv"]
  /\ guard' = NoTask
  /\ UNCHANGED <<req, result, waiters, attempt, conn, inbox, fresh, listening>>

\* A write on a connection the server has closed may be accepted by the
\* kernel (the bytes vanish) or fail.
Send(t) ==
  /\ guard = t
  /\ pc[t] = "send"
  /\ \/ /\ wire' = IF conn = "up" THEN Append(wire, req[t]) ELSE wire
        /\ pc' = [pc EXCEPT ![t] = "recv"]
        /\ UNCHANGED <<req, result, guard, waiters, attempt, conn, inbox, fresh, listening>>
     \/ /\ conn = "closed"
        /\ Retry(t, "Io")

RecvLine(t) ==
  /\ guard = t
  /\ pc[t] = "recv"
  /\ inbox # << >>
  /\ \/ /\ Head(inbox).form = "whole"
        /\ inbox' = Tail(inbox)
        /\ UNCHANGED <<conn, wire, fresh>>
        /\ Finish(t, Reply(Head(inbox).to))
     \/ /\ Head(inbox).form # "whole"
        /\ DropConn
        /\ Finish(t, Error("Malformed"))

RecvEnd(t) ==
  /\ guard = t
  /\ pc[t] = "recv"
  /\ inbox = << >>
  /\ conn = "closed"
  /\ \E why \in {"EmptyResponse", "Io"} : Retry(t, why)

\* Mutants: the timed-out connection is kept; there is no timer.
Timeout_KeepsConn(t) == guard = t /\ KeepConn /\ Finish(t, Error("Timeout"))

Timeout_Never(t) == FALSE

\* The timer covers everything done under the lock.
Timeout(t) ==
  /\ guard = t
  /\ DropConn
  /\ Finish(t, Error("Timeout"))

-----------------------------------------------------------------------------
(* The upstream server (external): it answers requests in order, one line  *)
(* each, and may at any time fail to.                                      *)

ServerAnswer ==
  /\ conn = "up"
  /\ wire # << >>
  /\ \E form \in {"whole", "oversize"} :
        inbox' = Append(inbox, [to |-> Head(wire), form |-> form])
  /\ wire' = Tail(wire)
  /\ UNCHANGED <<taskVars, conn, fresh, listening>>

\* Part of a line, then the end of the stream.
ServerCut ==
  /\ conn = "up"
  /\ wire # << >>
  /\ inbox' = Append(inbox, [to |-> Head(wire), form |-> "cut"])
  /\ wire' = << >>
  /\ conn' = "closed"
  /\ UNCHANGED <<taskVars, fresh, listening>>

\* The server closes the connection, being idle, restarting or crashed; lines
\* it had sent may still be delivered or be lost to a reset.
ServerHangup ==
  /\ conn = "up"
  /\ conn' = "closed"
  /\ wire' = << >>
  /\ inbox' \in {inbox, << >>}
  /\ listening' \in BOOLEAN
  /\ UNCHANGED <<taskVars, fresh>>

ServerRestart ==
  /\ conn # "up"
  /\ listening' = ~listening
  /\ UNCHANGED <<taskVars, connVars>>

-----------------------------------------------------------------------------

Step(t) == Acquire(t) \/ Dial(t) \/ Send(t) \/ RecvLine(t) \/ RecvEnd(t) \/ Timeout(t)

Server == ServerAnswer \/ ServerCut \/ ServerHangup \/ ServerRestart

Next == \/ \E t \in Tasks : Step(t) \/ \E r \in Requests : Call(t, r)
        \/ Server

Spec == Init /\ [][Next]_vars

\* The runtime polls every ready task and its timer wheel fires; nothing is
\* assumed of the server or of the callers.
FairSpec == Spec /\ \A t \in Tasks : WF_vars(Step(t))

-----------------------------------------------------------------------------

\* A query that returns a line returns the answer to the request it sent,
\* never a line meant for an earlier query that timed out, failed or was
\* retried on the shared connection (query_inner).
AnswersOwnRequest ==
  \A t \in Tasks : result[t].kind = "ok" => result[t].to = req[t]

\* Whenever the mutex is free, the connection left in the Option carries no
\* unanswered request and no unread byte: it is safe to hand to any task.
HandedOverClean ==
  guard = NoTask => wire = << >> /\ inbox = << >>

\* A connection that died while it was parked between two queries never costs
\* the next query its answer: a transport error is reported only on a
\* connection the failing query has opened itself (the `for attempt in 0..2`).
StaleConnectionIsRetried ==
  [][\A t \in Tasks :
        /\ pc[t] # "idle" /\ pc'[t] = "idle"
        /\ result'[t] \in {Error("Io"), Error("EmptyResponse")}
        => fresh]_vars

\* Every call returns, whatever the server does: no task waits on the mutex
\* for ever (query_inner's timer covers everything done under the lock).
EveryCallReturns ==
  \A t \in Tasks : pc[t] = "queued" ~> pc[t] = "idle"

\* The shared connection implements a first-come first-served query service.
Service == INSTANCE QueryService
             WITH queue <- IF guard = NoTask THEN waiters ELSE <<guard>> \o waiters,
                  asked <- req, outcome <- result

IsQueryService == Service!ServiceSpec
=============================================================================
