---------------------------- MODULE BackendProofs ---------------------------
(***************************************************************************)
(* Proofs about Backend.tla, for any set of tasks and requests.            *)
(*                                                                         *)
(* None of the properties is inductive: that the line a task reads answers *)
(* its own request depends on nobody else having written on the connection *)
(* (the mutex) and on nothing having been left on it (every failure drops  *)
(* it).  IInv says both, and is preserved by every action.                 *)
(***************************************************************************)
EXTENDS Backend, Integers, TLAPS

\* The mutex excludes: exactly its holder is past `lock().await`.
LockInv == /\ \A t \in Tasks : pc[t] \in Running <=> t = guard
           /\ guard = NoTask \/ guard \in Tasks

\* A connection carries at most one exchange, that of the guard's holder, and
\* only while the holder is reading its answer.
Exchange(t) == /\ pc[t] = "recv"
               /\ \/ wire = <<req[t]>> /\ inbox = << >>
                  \/ wire = << >> /\ \E f \in Forms : inbox = <<[to |-> req[t], form |-> f]>>

PipeInv == \/ wire = << >> /\ inbox = << >>
           \/ guard \in Tasks /\ Exchange(guard)

\* An answer kept by an idle task is the answer to the request it sent.
AnswerInv == \A t \in Tasks : result[t].kind = "ok" => result[t].to = req[t]

\* The second attempt runs on a connection of its own.
AttemptInv == guard \in Tasks /\ attempt = 1 => pc[guard] = "dial" \/ fresh

IInv == TypeOK /\ LockInv /\ PipeInv /\ AnswerInv /\ AttemptInv

-----------------------------------------------------------------------------

\* Types of the values the actions assign.
LEMMA ResultTypes == /\ Unknown \in Results
                     /\ \A r \in Requests : Reply(r) \in Results
                     /\ \A k \in Failures : Error(k) \in Results
  BY DEF Results

\* The initial states satisfy the inductive invariant: nobody holds the mutex
\* and there is no connection (Backend::new).
LEMMA InitInv == Init => IInv
<1> SUFFICES ASSUME Init PROVE IInv
  OBVIOUS
<1> USE NoTaskAssumption DEF Init
<1>1. TypeOK
  <2>1. pc \in [Tasks -> {"idle", "queued"} \cup Running]
    OBVIOUS
  <2>2. result \in [Tasks -> Results]
    BY ResultTypes
  <2>3. waiters \in Seq(Tasks) /\ wire \in Seq(Requests) /\ inbox \in Seq(Lines)
    OBVIOUS
  <2>4. fresh \in BOOLEAN
    OBVIOUS
  <2> QED BY <2>1, <2>2, <2>3, <2>4 DEF TypeOK
<1>2. LockInv
  BY DEF LockInv, Running
<1>3. PipeInv
  BY DEF PipeInv
<1>4. AnswerInv
  BY DEF AnswerInv, Unknown
<1>5. AttemptInv
  BY DEF AttemptInv
<1> QED BY <1>1, <1>2, <1>3, <1>4, <1>5 DEF IInv

\* A call joins the queue of the mutex and touches nothing under it.
LEMMA CallInv == ASSUME IInv, NEW t \in Tasks, NEW r \in Requests, Call(t, r)
                 PROVE  IInv'
<1> USE DEF IInv, Call, connVars
<1>1. TypeOK'
  BY ResultTypes DEF TypeOK, Running
<1>2. LockInv'
  BY DEF TypeOK, LockInv, Running
<1>3. PipeInv'
  BY <1>1 DEF TypeOK, LockInv, PipeInv, Exchange, Running
<1>4. AnswerInv'
  BY DEF TypeOK, AnswerInv, Unknown
<1>5. AttemptInv'
  BY NoTaskAssumption DEF TypeOK, LockInv, AttemptInv, Running
<1> QED BY <1>1, <1>2, <1>3, <1>4, <1>5

\* Taking the mutex finds a connection with nothing on it.
LEMMA AcquireInv == ASSUME IInv, NEW t \in Tasks, Acquire(t)
                    PROVE  IInv'
<1> USE NoTaskAssumption DEF IInv, Acquire
<1>1. TypeOK'
  <2>1. waiters \in Seq(Tasks) /\ waiters # << >>
    BY DEF TypeOK
  <2>2. waiters' \in Seq(Tasks)
    BY <2>1
  <2>3. pc' \in [Tasks -> {"idle", "queued"} \cup Running]
    BY DEF TypeOK, Running
  <2>4. fresh' \in BOOLEAN
    OBVIOUS
  <2> QED BY <2>2, <2>3, <2>4 DEF TypeOK
<1>2. LockInv'
  BY DEF TypeOK, LockInv, Running
<1>3. PipeInv'
  BY DEF TypeOK, PipeInv
<1>4. AnswerInv'
  BY DEF TypeOK, AnswerInv
<1>5. AttemptInv'
  BY DEF TypeOK, AttemptInv
<1> QED BY <1>1, <1>2, <1>3, <1>4, <1>5

\* Giving the mutex up, having thrown the connection away or with nothing on
\* it, is safe for any outcome that is no one else's answer.
LEMMA FinishInv ==
  ASSUME IInv, NEW t \in Tasks, guard = t, NEW o \in Results, Finish(t, o),
         o.kind = "ok" => o.to = req[t],
         wire' = << >>, inbox' = << >>, conn' \in {"none", "up", "closed"}, fresh' \in BOOLEAN
  PROVE  IInv'
<1> USE NoTaskAssumption DEF IInv, Finish
<1>1. TypeOK'
  BY DEF TypeOK, Running
<1>2. LockInv'
  BY DEF TypeOK, LockInv, Running
<1>3. PipeInv'
  BY DEF PipeInv
<1>4. AnswerInv'
  BY DEF TypeOK, AnswerInv
<1>5. AttemptInv'
  BY DEF AttemptInv
<1> QED BY <1>1, <1>2, <1>3, <1>4, <1>5

\* A transport error empties the connection, whether it is retried or returned.
LEMMA RetryInv ==
  ASSUME IInv, NEW t \in Tasks, guard = t, NEW why \in Failures, Retry(t, why)
  PROVE  IInv'
<1> USE NoTaskAssumption DEF Retry, DropConn
<1>1. CASE attempt = 1
  <2>1. Finish(t, Error(why))
    BY <1>1
  <2>2. Error(why) \in Results /\ Error(why).kind # "ok"
    BY ResultTypes DEF Error
  <2> QED BY <2>1, <2>2, FinishInv
<1>2. CASE attempt = 0
  <2> USE <1>2 DEF IInv
  <2>1. TypeOK'
    <3>1. pc' \in [Tasks -> {"idle", "queued"} \cup Running]
      BY DEF TypeOK, Running
    <3>2. conn' \in {"none", "up", "closed"} /\ fresh' \in BOOLEAN
      OBVIOUS
    <3>3. attempt' \in {0, 1} /\ UNCHANGED <<req, result, guard, waiters, listening>>
      BY DEF Finish
    <3> QED BY <3>1, <3>2, <3>3 DEF TypeOK
  <2>2. LockInv'
    BY DEF TypeOK, LockInv, Running
  <2>3. PipeInv'
    BY DEF PipeInv
  <2>4. AnswerInv'
    BY DEF TypeOK, AnswerInv
  <2>5. AttemptInv'
    BY DEF TypeOK, AttemptInv
  <2> QED BY <2>1, <2>2, <2>3, <2>4, <2>5
<1> QED BY <1>1, <1>2 DEF IInv, TypeOK

\* Outside "recv" nothing is on the connection, in "recv" only the holder's
\* own exchange is.
LEMMA EmptyUnlessRecv ==
  ASSUME IInv, NEW t \in Tasks, guard = t
  PROVE  /\ pc[t] # "recv" => wire = << >> /\ inbox = << >>
         /\ inbox # << >> => /\ wire = << >> /\ Tail(inbox) = << >>
                             /\ Head(inbox) \in Lines /\ Head(inbox).to = req[t]
<1>1. pc[t] # "recv" => wire = << >> /\ inbox = << >>
  BY DEF IInv, PipeInv, Exchange
<1>2. ASSUME inbox # << >>
      PROVE  wire = << >> /\ Tail(inbox) = << >> /\ Head(inbox) \in Lines /\ Head(inbox).to = req[t]
  <2>1. PICK f \in Forms : wire = << >> /\ inbox = <<[to |-> req[t], form |-> f]>>
    BY <1>2 DEF IInv, PipeInv, Exchange
  <2>2. req[t] \in Requests
    BY DEF IInv, TypeOK
  <2> QED BY <2>1, <2>2 DEF Lines
<1> QED BY <1>1, <1>2

\* Connecting starts on an empty connection; a refused one ends the query.
LEMMA DialInv == ASSUME IInv, NEW t \in Tasks, Dial(t) PROVE IInv'
<1>1. wire = << >> /\ inbox = << >> /\ guard = t
  BY EmptyUnlessRecv DEF Dial
<1>2. CASE listening
  <2> USE <1>1, <1>2, NoTaskAssumption DEF IInv, Dial
  <2>1. TypeOK'
    BY DEF TypeOK, Running
  <2>2. LockInv'
    BY DEF TypeOK, LockInv, Running
  <2>3. PipeInv'
    BY DEF PipeInv
  <2>4. AnswerInv'
    BY DEF TypeOK, AnswerInv
  <2>5. AttemptInv'
    BY DEF TypeOK, AttemptInv
  <2> QED BY <2>1, <2>2, <2>3, <2>4, <2>5
<1>3. CASE ~listening
  <2>1. Error("Connect") \in Results /\ Error("Connect").kind # "ok"
    BY ResultTypes DEF Failures, Error
  <2>2. Finish(t, Error("Connect")) /\ KeepConn
    BY <1>3 DEF Dial
  <2>3. conn' \in {"none", "up", "closed"} /\ fresh' \in BOOLEAN
    BY <2>2 DEF KeepConn, IInv, TypeOK
  <2> QED BY <1>1, <2>1, <2>2, <2>3, FinishInv DEF KeepConn
<1> QED BY <1>2, <1>3 DEF IInv, TypeOK

\* The request written is the only thing on the connection.
LEMMA SendInv == ASSUME IInv, NEW t \in Tasks, Send(t) PROVE IInv'
<1>1. wire = << >> /\ inbox = << >> /\ guard = t /\ pc[t] = "send"
  BY EmptyUnlessRecv DEF Send
<1>2. CASE /\ wire' = IF conn = "up" THEN Append(wire, req[t]) ELSE wire
           /\ pc' = [pc EXCEPT ![t] = "recv"]
           /\ UNCHANGED <<req, result, guard, waiters, attempt, conn, inbox, fresh, listening>>
  <2> USE <1>1, <1>2, NoTaskAssumption DEF IInv
  <2>0. wire' = << >> \/ wire' = <<req[t]>>
    OBVIOUS
  <2>1. TypeOK'
    BY <2>0 DEF TypeOK, Running
  <2>2. LockInv'
    BY DEF TypeOK, LockInv, Running
  <2>3. PipeInv'
    BY <2>0 DEF TypeOK, PipeInv, Exchange
  <2>4. AnswerInv'
    BY DEF TypeOK, AnswerInv
  <2>5. AttemptInv'
    BY DEF TypeOK, AttemptInv
  <2> QED BY <2>1, <2>2, <2>3, <2>4, <2>5
<1>3. CASE Retry(t, "Io")
  BY <1>1, <1>3, RetryInv DEF Failures
<1> QED BY <1>2, <1>3 DEF Send

\* The line read is the answer to the reader's own request.
LEMMA RecvLineInv == ASSUME IInv, NEW t \in Tasks, RecvLine(t) PROVE IInv'
<1>1. /\ guard = t /\ wire = << >> /\ Tail(inbox) = << >>
      /\ Head(inbox) \in Lines /\ Head(inbox).to = req[t]
  BY EmptyUnlessRecv DEF RecvLine
<1>2. CASE Head(inbox).form = "whole"
  <2>1. /\ Finish(t, Reply(Head(inbox).to)) /\ inbox' = << >> /\ wire' = << >>
        /\ conn' = conn /\ fresh' = fresh
    BY <1>1, <1>2 DEF RecvLine
  <2>2. Reply(Head(inbox).to) \in Results /\ Reply(Head(inbox).to).to = req[t]
    BY <1>1, ResultTypes DEF Lines, Reply
  <2>3. conn' \in {"none", "up", "closed"} /\ fresh' \in BOOLEAN
    BY <2>1 DEF IInv, TypeOK
  <2> QED BY <1>1, <2>1, <2>2, <2>3, FinishInv
<1>3. CASE Head(inbox).form # "whole"
  <2>1. Finish(t, Error("Malformed")) /\ DropConn
    BY <1>3 DEF RecvLine
  <2>2. Error("Malformed") \in Results /\ Error("Malformed").kind # "ok"
    BY ResultTypes DEF Failures, Error
  <2> QED BY <1>1, <2>1, <2>2, FinishInv DEF DropConn
<1> QED BY <1>2, <1>3

\* The end of the stream empties the connection.
LEMMA RecvEndInv == ASSUME IInv, NEW t \in Tasks, RecvEnd(t) PROVE IInv'
  BY RetryInv DEF RecvEnd, Failures

\* So does the timer, wherever it interrupts the query.
LEMMA TimeoutInv == ASSUME IInv, NEW t \in Tasks, Timeout(t) PROVE IInv'
<1>1. Error("Timeout") \in Results /\ Error("Timeout").kind # "ok"
  BY ResultTypes DEF Failures, Error
<1> QED BY <1>1, FinishInv DEF Timeout, DropConn

\* What the server does, it does to the one exchange on the connection.
LEMMA ServerInv == ASSUME IInv, Server PROVE IInv'
<1> USE NoTaskAssumption DEF IInv, taskVars
<1>1. CASE ServerAnswer \/ ServerCut
  <2>1. /\ guard \in Tasks /\ pc[guard] = "recv" /\ wire = <<req[guard]>> /\ inbox = << >>
        /\ req[guard] \in Requests
    BY <1>1 DEF ServerAnswer, ServerCut, PipeInv, Exchange, TypeOK
  <2>2. /\ wire' = << >> /\ UNCHANGED <<taskVars, fresh, listening>>
        /\ conn' \in {"none", "up", "closed"}
        /\ \E f \in Forms : inbox' = <<[to |-> req[guard], form |-> f]>>
    BY <1>1, <2>1 DEF ServerAnswer, ServerCut, Forms
  <2>3. TypeOK'
    BY <2>1, <2>2 DEF TypeOK, Lines
  <2>4. PipeInv'
    BY <2>1, <2>2 DEF PipeInv, Exchange
  <2> QED BY <2>2, <2>3, <2>4 DEF LockInv, AnswerInv, AttemptInv
<1>2. CASE ServerHangup
  <2>1. TypeOK'
    <3>1. wire' \in Seq(Requests) /\ inbox' \in Seq(Lines)
      <4>1. wire' = << >> /\ (inbox' = inbox \/ inbox' = << >>)
        BY <1>2 DEF ServerHangup
      <4>2. inbox \in Seq(Lines) /\ << >> \in Seq(Lines) /\ << >> \in Seq(Requests)
        BY DEF TypeOK
      <4> HIDE DEF IInv
      <4> QED BY <4>1, <4>2
    <3>2. listening' \in BOOLEAN /\ fresh' \in BOOLEAN /\ conn' \in {"none", "up", "closed"}
      BY <1>2 DEF ServerHangup, TypeOK
    <3> QED BY <1>2, <3>1, <3>2 DEF ServerHangup, TypeOK
  <2>2. PipeInv'
    BY <1>2 DEF ServerHangup, PipeInv, Exchange
  <2> QED BY <1>2, <2>1, <2>2 DEF ServerHangup, LockInv, AnswerInv, AttemptInv
<1>3. CASE ServerRestart
  BY <1>3 DEF ServerRestart, TypeOK, LockInv, PipeInv, Exchange, AnswerInv, AttemptInv, connVars
<1> QED BY <1>1, <1>2, <1>3 DEF Server

\* IInv is inductive.
LEMMA NextInv == IInv /\ [Next]_vars => IInv'
<1> SUFFICES ASSUME IInv, [Next]_vars PROVE IInv'
  OBVIOUS
<1>1. ASSUME NEW t \in Tasks, Step(t) PROVE IInv'
  BY <1>1, AcquireInv, DialInv, SendInv, RecvLineInv, RecvEndInv, TimeoutInv DEF Step
<1>2. ASSUME NEW t \in Tasks, NEW r \in Requests, Call(t, r) PROVE IInv'
  BY <1>2, CallInv
<1>3. CASE Server
  BY <1>3, ServerInv
<1>4. CASE UNCHANGED vars
  BY <1>4 DEF IInv, TypeOK, LockInv, PipeInv, Exchange, AnswerInv, AttemptInv,
              vars, taskVars, connVars
<1> QED BY <1>1, <1>2, <1>3, <1>4 DEF Next

\* Every reachable state satisfies the inductive invariant.
THEOREM Invariance == Spec => []IInv
  BY InitInv, NextInv, PTL DEF Spec

\* The variables keep their types.
THEOREM TypeCorrect == Spec => []TypeOK
  BY Invariance, PTL DEF IInv

\* For any number of tasks sharing the connection, a query that returns a line
\* returns the answer to its own request.
THEOREM OwnAnswer == Spec => []AnswersOwnRequest
<1>1. IInv => AnswersOwnRequest
  BY DEF IInv, AnswerInv, AnswersOwnRequest
<1> QED BY <1>1, Invariance, PTL

\* A connection parked in the Option carries nothing.
THEOREM CleanHandOver == Spec => []HandedOverClean
<1>1. IInv => HandedOverClean
  BY NoTaskAssumption DEF IInv, PipeInv, HandedOverClean
<1> QED BY <1>1, Invariance, PTL

\* A transport error is returned only on a connection the failing query has
\* opened itself: one that died while parked is retried.
THEOREM StaleRetried == Spec => StaleConnectionIsRetried
<1> DEFINE A == \A t \in Tasks :
                  /\ pc[t] # "idle" /\ pc'[t] = "idle"
                  /\ result'[t] \in {Error("Io"), Error("EmptyResponse")}
                  => fresh
<1>1. IInv /\ [Next]_vars => [A]_vars
  <2> SUFFICES ASSUME IInv, Next, NEW t \in Tasks,
                      pc[t] # "idle", pc'[t] = "idle",
                      result'[t] \in {Error("Io"), Error("EmptyResponse")}
               PROVE  fresh
    BY DEF vars
  <2>0. pc \in [Tasks -> {"idle", "queued"} \cup Running] /\ result \in [Tasks -> Results]
    BY DEF IInv, TypeOK
  <2>1. ASSUME NEW u \in Tasks, NEW o \in Results, guard = u, Finish(u, o)
        PROVE  u = t /\ o \in {Error("Io"), Error("EmptyResponse")}
    BY <2>0, <2>1 DEF Finish
  <2>2. ASSUME NEW u \in Tasks, NEW why \in Failures, guard = u, Retry(u, why), pc[u] # "dial"
        PROVE  fresh
    <3>1. attempt = 1
      BY <2>0, <2>2 DEF Retry
    <3> QED BY <2>2, <3>1 DEF IInv, AttemptInv
  <2>3. ASSUME NEW u \in Tasks, Step(u) PROVE fresh
    <3>1. CASE Acquire(u)
      BY <2>0, <3>1 DEF Acquire
    <3>2. CASE Dial(u)
      <4>1. Finish(u, Error("Connect")) /\ guard = u
        BY <2>0, <3>2 DEF Dial
      <4> QED BY <2>1, <4>1, ResultTypes DEF Failures, Error
    <3>3. CASE Send(u)
      <4>1. Retry(u, "Io") /\ guard = u /\ pc[u] # "dial"
        BY <2>0, <3>3 DEF Send
      <4> QED BY <2>2, <4>1 DEF Failures
    <3>4. CASE RecvLine(u)
      <4>1. guard = u /\ Head(inbox).to \in Requests
        BY <3>4, EmptyUnlessRecv DEF RecvLine, Lines
      <4>2. CASE Finish(u, Reply(Head(inbox).to))
        BY <2>1, <4>1, <4>2, ResultTypes DEF Reply, Error
      <4>3. CASE Finish(u, Error("Malformed"))
        BY <2>1, <4>1, <4>3, ResultTypes DEF Failures, Error
      <4> QED BY <3>4, <4>2, <4>3 DEF RecvLine
    <3>5. CASE RecvEnd(u)
      <4>1. guard = u /\ pc[u] # "dial" /\ \E why \in Failures : Retry(u, why)
        BY <3>5 DEF RecvEnd, Failures
      <4> QED BY <2>2, <4>1
    <3>6. CASE Timeout(u)
      <4>1. Finish(u, Error("Timeout")) /\ guard = u
        BY <3>6 DEF Timeout
      <4> QED BY <2>1, <4>1, ResultTypes DEF Failures, Error
    <3> QED BY <2>3, <3>1, <3>2, <3>3, <3>4, <3>5, <3>6 DEF Step
  <2>4. ASSUME NEW u \in Tasks, NEW r \in Requests, Call(u, r) PROVE fresh
    BY <2>0, <2>4 DEF Call
  <2>5. CASE Server
    BY <2>0, <2>5 DEF Server, ServerAnswer, ServerCut, ServerHangup, ServerRestart, taskVars
  <2> QED BY <2>3, <2>4, <2>5 DEF Next
<1> QED BY <1>1, Invariance, PTL DEF Spec, StaleConnectionIsRetried

-----------------------------------------------------------------------------
(* Backend implements QueryService.                                        *)

\* A task waits in the queue of the mutex once, and only while "queued".
QueueInv == /\ \A i \in DOMAIN waiters : pc[waiters[i]] = "queued"
            /\ \A i, j \in DOMAIN waiters : waiters[i] = waiters[j] => i = j

\* Every step keeps the queue of the mutex free of duplicates.
LEMMA NextQueue == IInv /\ QueueInv /\ [Next]_vars => QueueInv'
<1> SUFFICES ASSUME IInv, QueueInv, [Next]_vars PROVE QueueInv'
  OBVIOUS
<1>0. pc \in [Tasks -> {"idle", "queued"} \cup Running] /\ waiters \in Seq(Tasks)
  BY DEF IInv, TypeOK
<1>1. ASSUME waiters' = waiters, NEW u \in Tasks, pc[u] # "queued", NEW s, pc' = [pc EXCEPT ![u] = s]
      PROVE  QueueInv'
  BY <1>0, <1>1 DEF QueueInv
<1>2. ASSUME NEW u \in Tasks, Step(u) PROVE QueueInv'
  <2>1. CASE Acquire(u)
    <3>0. /\ waiters # << >> /\ u = waiters[1] /\ waiters' = Tail(waiters)
          /\ \E s : pc' = [pc EXCEPT ![u] = s]
      <4>1. waiters # << >> /\ u = waiters[1] /\ waiters' = Tail(waiters)
        BY <1>0, <2>1 DEF Acquire
      <4>2. pc' = [pc EXCEPT ![u] = IF conn = "none" THEN "dial" ELSE "send"]
        BY <2>1 DEF Acquire
      <4> QED BY <4>1, <4>2
    <3>1. /\ 1 \in DOMAIN waiters
          /\ \A i \in DOMAIN waiters' : /\ i + 1 \in DOMAIN waiters /\ waiters'[i] = waiters[i + 1]
                                        /\ i \in Nat /\ i # 0
      BY <1>0, <3>0
    <3>2. \A i \in DOMAIN waiters' : waiters'[i] # u /\ waiters'[i] \in Tasks
      BY <1>0, <3>0, <3>1 DEF QueueInv
    <3> QED BY <1>0, <3>0, <3>1, <3>2 DEF QueueInv
  <2>2. CASE ~Acquire(u)
    <3>1. waiters' = waiters /\ pc[u] # "queued" /\ \E s : pc' = [pc EXCEPT ![u] = s]
      <4>1. CASE Dial(u)
        BY <4>1 DEF Dial, Finish
      <4>2. CASE Send(u)
        BY <4>2 DEF Send, Retry, Finish
      <4>3. CASE RecvLine(u)
        BY <4>3 DEF RecvLine, Finish
      <4>4. CASE RecvEnd(u)
        BY <4>4 DEF RecvEnd, Retry, Finish
      <4>5. CASE Timeout(u)
        BY <4>5 DEF Timeout, Finish, IInv, LockInv, Running
      <4> QED BY <1>2, <2>2, <4>1, <4>2, <4>3, <4>4, <4>5 DEF Step
    <3> QED BY <1>1, <3>1
  <2> QED BY <2>1, <2>2
<1>3. ASSUME NEW u \in Tasks, NEW r \in Requests, Call(u, r) PROVE QueueInv'
  <2>1. /\ waiters' = Append(waiters, u) /\ pc' = [pc EXCEPT ![u] = "queued"] /\ pc[u] = "idle"
    BY <1>3 DEF Call
  <2>2. \A i \in DOMAIN waiters : waiters[i] # u /\ waiters[i] \in Tasks
    BY <1>0, <2>1 DEF QueueInv
  <2>3. /\ DOMAIN waiters' = DOMAIN waiters \cup {Len(waiters) + 1}
        /\ \A i \in DOMAIN waiters : waiters'[i] = waiters[i]
        /\ waiters'[Len(waiters) + 1] = u
    BY <1>0, <2>1
  <2> QED BY <1>0, <2>1, <2>2, <2>3 DEF QueueInv
<1>4. CASE Server \/ UNCHANGED vars
  <2>1. UNCHANGED <<pc, waiters>>
    BY <1>4 DEF Server, ServerAnswer, ServerCut, ServerHangup, ServerRestart, vars, taskVars
  <2> QED BY <2>1 DEF QueueInv
<1> QED BY <1>2, <1>3, <1>4 DEF Next

\* The queue of QueryService: the holder is served first.
queueBar == IF guard = NoTask THEN waiters ELSE <<guard>> \o waiters

\* Handing the mutex over does not change the order of service.
LEMMA Queues ==
  ASSUME NEW S, NEW q \in Seq(S), NEW x \in S
  PROVE  /\ Head(<<x>> \o q) = x /\ Tail(<<x>> \o q) = q /\ <<x>> \o q # << >>
         /\ \A y \in S : Append(<<x>> \o q, y) = <<x>> \o Append(q, y)
         /\ q # << >> => <<Head(q)>> \o Tail(q) = q
  OBVIOUS

\* Ending a query, with an answer or an error, serves the head of the queue.
LEMMA FinishServes ==
  ASSUME IInv, NEW t \in Tasks, guard = t, NEW o, Finish(t, o),
         o \in {Reply(req[t])} \cup {Error(k) : k \in Failures}
  PROVE  Service!Serve(t)
<1>1. queueBar = <<t>> \o waiters /\ queueBar' = waiters
  BY NoTaskAssumption DEF queueBar, Finish
<1>2. queueBar # << >> /\ Head(queueBar) = t /\ Tail(queueBar) = queueBar'
  BY <1>1, Queues DEF IInv, TypeOK
<1>3. result' \in {[result EXCEPT ![t] = p] :
                    p \in {Service!Reply(req[t])} \cup {Service!Error(k) : k \in Failures}}
  BY DEF Finish, Service!Reply, Service!Error, Reply, Error
<1>4. UNCHANGED req
  BY DEF Finish
<1> QED BY <1>2, <1>3, <1>4 DEF Service!Serve, queueBar

\* Every step of Backend is a step of QueryService or changes nothing there.
LEMMA StepRefines ==
  IInv /\ QueueInv /\ [Next]_vars => [Service!SNext]_Service!svars
<1> SUFFICES ASSUME IInv, QueueInv, [Next]_vars
             PROVE  Service!SNext \/ UNCHANGED <<queueBar, req, result>>
  BY DEF Service!svars, queueBar
<1>0. waiters \in Seq(Tasks) /\ (guard = NoTask \/ guard \in Tasks)
  BY DEF IInv, TypeOK, LockInv
<1>1. ASSUME NEW t \in Tasks, guard = t, NEW why \in Failures, Retry(t, why)
      PROVE  Service!Serve(t) \/ UNCHANGED <<queueBar, req, result>>
  <2>1. CASE Finish(t, Error(why))
    BY <1>1, <2>1, FinishServes
  <2>2. CASE UNCHANGED <<req, result, guard, waiters, listening>>
    BY <2>2 DEF queueBar
  <2> QED BY <1>1, <2>1, <2>2 DEF Retry
<1>2. ASSUME NEW t \in Tasks, Step(t)
      PROVE  Service!Serve(t) \/ UNCHANGED <<queueBar, req, result>>
  <2>1. CASE Acquire(t)
    <3>1. queueBar = waiters /\ queueBar' = <<Head(waiters)>> \o Tail(waiters)
      BY <2>1, NoTaskAssumption DEF Acquire, queueBar
    <3>2. queueBar' = queueBar
      BY <1>0, <2>1, <3>1, Queues DEF Acquire
    <3> QED BY <2>1, <3>2 DEF Acquire
  <2>2. CASE Dial(t)
    <3>1. CASE Finish(t, Error("Connect"))
      BY <2>2, <3>1, FinishServes DEF Dial, Failures
    <3>2. CASE UNCHANGED <<req, result, guard, waiters>>
      BY <3>2 DEF queueBar
    <3> QED BY <2>2, <3>1, <3>2 DEF Dial
  <2>3. CASE Send(t)
    <3>1. CASE Retry(t, "Io")
      BY <1>1, <2>3, <3>1 DEF Send, Failures
    <3>2. CASE UNCHANGED <<req, result, guard, waiters>>
      BY <3>2 DEF queueBar
    <3> QED BY <2>3, <3>1, <3>2 DEF Send
  <2>4. CASE RecvLine(t)
    <3>1. guard = t /\ Head(inbox).to = req[t]
      BY <2>4, EmptyUnlessRecv DEF RecvLine
    <3>2. CASE Finish(t, Reply(Head(inbox).to))
      BY <3>1, <3>2, FinishServes
    <3>3. CASE Finish(t, Error("Malformed"))
      BY <3>1, <3>3, FinishServes DEF Failures
    <3> QED BY <2>4, <3>2, <3>3 DEF RecvLine
  <2>5. CASE RecvEnd(t)
    BY <1>1, <2>5 DEF RecvEnd, Failures
  <2>6. CASE Timeout(t)
    BY <2>6, FinishServes DEF Timeout, Failures
  <2> QED BY <1>2, <2>1, <2>2, <2>3, <2>4, <2>5, <2>6 DEF Step
<1>3. ASSUME NEW t \in Tasks, NEW r \in Requests, Call(t, r)
      PROVE  Service!Ask(t, r)
  <2>1. /\ pc[t] = "idle" /\ waiters' = Append(waiters, t) /\ guard' = guard
        /\ req' = [req EXCEPT ![t] = r] /\ result' = [result EXCEPT ![t] = Service!Unknown]
    BY <1>3 DEF Call, Unknown, Service!Unknown
  <2>2. guard # t /\ \A i \in DOMAIN waiters : waiters[i] # t
    BY <2>1, NoTaskAssumption DEF IInv, LockInv, QueueInv, Running
  <2>3. \A i \in DOMAIN queueBar : queueBar[i] # t
    BY <1>0, <2>2 DEF queueBar
  <2>4. queueBar' = Append(queueBar, t)
    BY <1>0, <2>1, Queues DEF queueBar
  <2> QED BY <2>1, <2>3, <2>4 DEF Service!Ask, queueBar
<1>4. CASE Server \/ UNCHANGED vars
  BY <1>4 DEF Server, ServerAnswer, ServerCut, ServerHangup, ServerRestart, vars, taskVars, queueBar
<1> QED BY <1>2, <1>3, <1>4 DEF Next, Service!SNext

\* Whatever the server does, the shared connection serves calls one at a time,
\* in the order they were made, each with its own answer or an error.
THEOREM Refinement == Spec => IsQueryService
<1>1. Init => QueueInv /\ Service!SInit
  BY NoTaskAssumption DEF Init, QueueInv, Service!SInit, Unknown, Service!Unknown
<1> QED BY <1>1, InitInv, NextInv, NextQueue, StepRefines, PTL
        DEF Spec, IsQueryService, Service!ServiceSpec
=============================================================================
