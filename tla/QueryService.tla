---------------------------- MODULE QueryService ----------------------------
(***************************************************************************)
(* What `Backend::query_with_timeout` promises its callers: however many   *)
(* session tasks share one upstream skkserv, each call is served alone, in *)
(* the order in which the calls were made, and ends with the answer to its *)
(* own request or with an error.  Connections, attempts, half-read lines   *)
(* and server restarts are invisible at this level.  Backend.tla is shown  *)
(* to implement this module.                                               *)
(***************************************************************************)
EXTENDS Sequences

CONSTANTS Tasks,     \* the tasks that may call the backend
          Requests,  \* the requests they send
          Failures   \* the BackendError variants a call may end with

VARIABLES queue,   \* tasks whose call is not over, oldest call first
          asked,   \* asked[t]: the request of t's latest call
          outcome  \* outcome[t]: how t's latest call ended

Unknown  == [kind |-> "unknown"]
Reply(r) == [kind |-> "ok", to |-> r]
Error(k) == [kind |-> "err", why |-> k]

SInit == /\ queue = << >>
         /\ asked \in [Tasks -> Requests]
         /\ outcome = [t \in Tasks |-> Unknown]

Ask(t, r) == /\ \A i \in DOMAIN queue : queue[i] # t
             /\ queue' = Append(queue, t)
             /\ asked' = [asked EXCEPT ![t] = r]
             /\ outcome' = [outcome EXCEPT ![t] = Unknown]

Serve(t) == /\ queue # << >>
            /\ t = Head(queue)
            /\ queue' = Tail(queue)
            /\ outcome' \in {[outcome EXCEPT ![t] = o] :
                               o \in {Reply(asked[t])} \cup {Error(k) : k \in Failures}}
            /\ UNCHANGED asked

SNext == \E t \in Tasks : Serve(t) \/ \E r \in Requests : Ask(t, r)

svars == <<queue, asked, outcome>>

ServiceSpec == SInit /\ [][SNext]_svars
=============================================================================
