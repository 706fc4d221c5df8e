--------------------------- MODULE DeadlineProofs ---------------------------
(***************************************************************************)
(* Proofs about LookupDeadline.tla, for any durations (the primary's cap   *)
(* no longer than the overall deadline), any clients and any number of     *)
(* variations.                                                             *)
(*                                                                         *)
(* What a stage has spent and what its query's timer still allows never    *)
(* exceed the stage's budget, as long as nobody else holds a backend: only *)
(* then does the timer of a waiting task always run.                       *)
(***************************************************************************)
EXTENDS LookupDeadline, FiniteSetTheorems, TLAPS

\* A task that has the backends to itself, and where it stands.
AloneInv(t) ==
  /\ \A u \in Names \ {t} : stage[u] = "idle"
  /\ stage[t] # "warmup"
  /\ queue["primary"]  = IF stage[t] \in {"okuri", "primary"} THEN <<t>> ELSE << >>
  /\ queue["fallback"] = IF stage[t] \in {"merge", "fallback"} THEN <<t>> ELSE << >>
  /\ started[t] <= waited[t]
  /\ stage[t] = "idle" => waited[t] = 0
  /\ stage[t] = "okuri" => waited[t] + timer[t] <= OkuriBudget
  /\ stage[t] = "merge" => waited[t] + timer[t] <= OkuriBudget + MergeCap
  /\ stage[t] \in {"primary", "fallback"} =>
       (waited[t] - started[t]) + timer[t] <= OverallDeadline

IInv == TypeOK /\ \A t \in Tasks : Alone(t) => AloneInv(t)

-----------------------------------------------------------------------------
(* Budgets                                                                 *)

LEMMA Durations ==
  /\ PrimaryTimeout \in Nat /\ FallbackTimeout \in Nat /\ OkuriBudget \in Nat /\ OkuriCap \in Nat
  /\ MergeCap \in Nat /\ PrimaryCap \in Nat /\ OverallDeadline \in Nat /\ WarmupLookup \in Nat
  /\ WarmupCompletion \in Nat /\ WarmupChars \in Nat
  /\ PrimaryCap <= OverallDeadline
BY DeadlineAssumption DEF DeadlineAssumption

LEMMA OkuriBudgetLeftBound ==
  ASSUME NEW spent \in Nat
  PROVE  /\ OkuriBudgetLeft(spent) \in Nat
         /\ spent <= OkuriBudget => spent + OkuriBudgetLeft(spent) <= OkuriBudget
BY Durations DEF OkuriBudgetLeft, Least, Monus

LEMMA CapsBound ==
  /\ Least(FallbackTimeout, MergeCap) \in Nat /\ Least(FallbackTimeout, MergeCap) <= MergeCap
  /\ Least(PrimaryTimeout, PrimaryCap) \in Nat
  /\ Least(PrimaryTimeout, PrimaryCap) <= OverallDeadline
BY Durations DEF Least

\* `spent` of the overall deadline is never more than all of it.
LEMMA FallbackBudgetBound ==
  ASSUME TypeOK, NEW t \in Names
  PROVE  /\ FallbackBudget(t) \in Nat
         /\ started[t] <= waited[t] /\ waited[t] - started[t] <= OverallDeadline =>
              (waited[t] - started[t]) + FallbackBudget(t) <= OverallDeadline
BY Durations DEF TypeOK, FallbackBudget, Monus

-----------------------------------------------------------------------------
(* Leaving one backend for another                                         *)

LEMMA PopType ==
  ASSUME TypeOK, NEW t
  PROVE  Pop(t) \in [Backends -> Seq(Names)]
<1>1. ASSUME NEW b \in Backends, Asking(t, b)
      PROVE  Tail(queue[b]) \in Seq(Names)
  BY <1>1 DEF TypeOK, Asking
<1> QED BY <1>1 DEF TypeOK, Pop

LEMMA AskType ==
  ASSUME TypeOK, NEW t \in Names, NEW next \in Stages, NEW b \in Backends, NEW budget \in Nat,
         Ask(t, next, b, budget)
  PROVE  /\ stage' \in [Names -> Stages] /\ queue' \in [Backends -> Seq(Names)]
         /\ timer' \in [Names -> Nat]
<1>1. Append(Pop(t)[b], t) \in Seq(Names)
  BY PopType
<1>2. queue' \in [Backends -> Seq(Names)]
  BY <1>1, PopType DEF Ask
<1> QED BY <1>2 DEF TypeOK, Ask

LEMMA RestType ==
  ASSUME TypeOK, NEW t \in Names, NEW where \in Stages, Rest(t, where)
  PROVE  /\ stage' \in [Names -> Stages] /\ queue' \in [Backends -> Seq(Names)]
         /\ timer' \in [Names -> Nat] /\ started' \in [Names -> Nat] /\ left' \in [Names -> Nat]
         /\ stems' \in [Names -> BOOLEAN]
BY PopType DEF TypeOK, Rest

LEMMA PopAlone ==
  ASSUME NEW t, AloneInv(t)
  PROVE  Pop(t) = [b \in Backends |-> << >>]
<1>1. ASSUME NEW b \in Backends
      PROVE  (IF Asking(t, b) THEN Tail(queue[b]) ELSE queue[b]) = << >>
  <2>1. queue[b] \in {<<t>>, << >>}
    BY DEF AloneInv, Backends
  <2>2. CASE queue[b] = <<t>>
    BY <2>2 DEF Asking
  <2>3. CASE queue[b] = << >>
    BY <2>3 DEF Asking
  <2> QED BY <2>1, <2>2, <2>3
<1> QED BY <1>1 DEF Pop

\* The next query of a task that is alone is at once under way.
LEMMA AskAlone ==
  ASSUME TypeOK, NEW t \in Tasks, AloneInv(t), NEW next, NEW b \in Backends, NEW budget,
         Ask(t, next, b, budget)
  PROVE  /\ \A u \in Names \ {t} : stage'[u] = "idle"
         /\ stage'[t] = next /\ timer'[t] = budget
         /\ queue'["primary"]  = IF b = "primary" THEN <<t>> ELSE << >>
         /\ queue'["fallback"] = IF b = "fallback" THEN <<t>> ELSE << >>
<1>1. queue' = [[c \in Backends |-> << >>] EXCEPT ![b] = Append(@, t)]
  BY PopAlone DEF Ask
<1>2. Append(<< >>, t) = <<t>>
  OBVIOUS
<1>3. t \in Names
  BY DEF Names
<1> QED BY <1>1, <1>2, <1>3 DEF Ask, AloneInv, TypeOK, Backends

LEMMA RestAlone ==
  ASSUME TypeOK, NEW t \in Tasks, AloneInv(t), NEW where, Rest(t, where)
  PROVE  /\ \A u \in Names \ {t} : stage'[u] = "idle"
         /\ stage'[t] = where /\ started'[t] = 0
         /\ queue'["primary"] = << >> /\ queue'["fallback"] = << >>
<1>1. queue' = [c \in Backends |-> << >>]
  BY PopAlone DEF Rest
<1>2. t \in Names
  BY DEF Names
<1> QED BY <1>1, <1>2 DEF Rest, AloneInv, TypeOK, Backends

-----------------------------------------------------------------------------
(* The steps                                                               *)

LEMMA InitInv == Init => IInv
<1> SUFFICES ASSUME Init
             PROVE  IInv
  OBVIOUS
<1>1. << >> \in Seq(Names) /\ <<Warmer>> \in Seq(Names)
  BY DEF Names
<1>2. TypeOK
  BY <1>1, Durations DEF Init, TypeOK, Backends, Stages
<1>3. ASSUME NEW t \in Tasks, Alone(t)
      PROVE  AloneInv(t)
  <2>1. Warmer \notin present /\ t \in Names
    BY <1>3, DeadlineAssumption DEF Alone, DeadlineAssumption, Names
  <2>2. /\ stage = [u \in Names |-> "idle"] /\ queue = [b \in Backends |-> << >>]
        /\ waited = [u \in Names |-> 0] /\ started = [u \in Names |-> 0]
    BY <2>1 DEF Init
  <2> QED BY <2>1, <2>2 DEF AloneInv, Backends
<1> QED BY <1>2, <1>3 DEF IInv

LEMMA TickInv == IInv /\ Tick => IInv'
<1> SUFFICES ASSUME IInv, Tick
             PROVE  IInv'
  OBVIOUS
<1>1. /\ \A t \in Names, b \in Backends : Asking(t, b) => timer[t] > 0
      /\ timer' = [t \in Names |-> IF \E b \in Backends : Asking(t, b) THEN timer[t] - 1 ELSE timer[t]]
      /\ waited' = [t \in Names |-> IF t \in Tasks /\ Waiting(t) THEN waited[t] + 1 ELSE waited[t]]
      /\ UNCHANGED <<stage, queue, started, left, stems, present>>
  BY DEF Tick
<1>2. TypeOK'
  <2>1. timer' \in [Names -> Nat]
    BY <1>1 DEF IInv, TypeOK
  <2>2. waited' \in [Names -> Nat]
    BY <1>1 DEF IInv, TypeOK
  <2> QED BY <1>1, <2>1, <2>2 DEF IInv, TypeOK
<1>3. ASSUME NEW t \in Tasks, Alone(t)'
      PROVE  AloneInv(t)'
  <2>1. AloneInv(t) /\ t \in Names
    BY <1>1, <1>3 DEF IInv, Alone, Names
  <2>2. CASE ~Waiting(t)
    <3>1. ~Asking(t, "primary") /\ ~Asking(t, "fallback")
      BY <2>1, <2>2 DEF AloneInv, Waiting, Asking
    <3>2. waited'[t] = waited[t] /\ timer'[t] = timer[t]
      BY <1>1, <2>1, <2>2, <3>1 DEF Backends
    <3> QED BY <1>1, <2>1, <3>2 DEF AloneInv
  <2>3. CASE Waiting(t)
    <3>1. stage[t] \in {"okuri", "merge", "primary", "fallback"}
      BY <2>1, <2>3 DEF IInv, TypeOK, Stages, AloneInv, Waiting
    <3>2. \E b \in Backends : Asking(t, b)
      <4>1. CASE stage[t] \in {"okuri", "primary"}
        BY <2>1, <4>1 DEF AloneInv, Asking, Backends
      <4>2. CASE stage[t] \in {"merge", "fallback"}
        BY <2>1, <4>2 DEF AloneInv, Asking, Backends
      <4> QED BY <3>1, <4>1, <4>2
    <3>3. timer[t] > 0 /\ timer'[t] = timer[t] - 1 /\ waited'[t] = waited[t] + 1
      BY <1>1, <2>1, <2>3, <3>2
    <3>4. timer[t] \in Nat /\ waited[t] \in Nat /\ started[t] \in Nat
      BY <2>1 DEF IInv, TypeOK
    <3> QED BY <1>1, <2>1, <3>1, <3>3, <3>4, Durations DEF AloneInv
  <2> QED BY <2>2, <2>3
<1> QED BY <1>2, <1>3 DEF IInv

\* A query of lookup_with_fallback, begun at any time.
LEMMA AskPrimaryInv ==
  ASSUME TypeOK, NEW t \in Tasks, AskPrimary(t), UNCHANGED present
  PROVE  /\ TypeOK'
         /\ AloneInv(t) => AloneInv(t)'
<1>1. t \in Names /\ "primary" \in Stages /\ "primary" \in Backends
  BY DEF Names, Stages, Backends
<1>2. /\ Ask(t, "primary", "primary", Least(PrimaryTimeout, PrimaryCap))
      /\ started' = [started EXCEPT ![t] = waited[t]] /\ left' = [left EXCEPT ![t] = 0]
      /\ UNCHANGED <<waited, stems>>
  BY DEF AskPrimary
<1>3. TypeOK'
  BY <1>1, <1>2, AskType, CapsBound DEF TypeOK
<1>4. ASSUME AloneInv(t)
      PROVE  AloneInv(t)'
  <2>1. /\ \A u \in Names \ {t} : stage'[u] = "idle"
        /\ stage'[t] = "primary" /\ timer'[t] = Least(PrimaryTimeout, PrimaryCap)
        /\ queue'["primary"] = <<t>> /\ queue'["fallback"] = << >>
    BY <1>1, <1>2, <1>4, AskAlone
  <2>2. started'[t] = waited'[t] /\ waited'[t] \in Nat
    BY <1>1, <1>2 DEF TypeOK
  <2> QED BY <2>1, <2>2, CapsBound, Durations DEF AloneInv
<1> QED BY <1>3, <1>4

\* Any other task is idle, so a step is of the task that is alone.
LEMMA OnlyOne ==
  ASSUME IInv, NEW t \in Tasks, Alone(t), NEW u \in Names,
         stage[u] # "idle" \/ u \in present
  PROVE  u = t /\ AloneInv(t)
BY DEF IInv, Alone, AloneInv

\* The loop starts with its whole budget.
LEMMA RequestInv ==
  ASSUME IInv, NEW t \in Tasks, Request(t), UNCHANGED present
  PROVE  TypeOK' /\ (AloneInv(t) => AloneInv(t)')
<1>1. TypeOK /\ t \in Names /\ stage[t] = "idle"
  BY DEF IInv, Names, Request
<1>2. CASE AskPrimary(t)
  BY <1>1, <1>2, AskPrimaryInv
<1>3. ASSUME NEW n \in 1..MaxVariations[t], Ask(t, "okuri", "primary", OkuriBudgetLeft(0)),
             left' = [left EXCEPT ![t] = n - 1], UNCHANGED <<waited, started, stems>>
      PROVE  TypeOK' /\ (AloneInv(t) => AloneInv(t)')
  <2>1. OkuriBudgetLeft(0) \in Nat /\ 0 + OkuriBudgetLeft(0) <= OkuriBudget
    BY OkuriBudgetLeftBound, Durations
  <2>2. n - 1 \in Nat
    BY DeadlineAssumption DEF DeadlineAssumption
  <2>3. "okuri" \in Stages /\ "primary" \in Backends
    BY DEF Stages, Backends
  <2>4. TypeOK'
    BY <1>1, <1>3, <2>1, <2>2, <2>3, AskType DEF TypeOK
  <2>5. ASSUME AloneInv(t)
        PROVE  AloneInv(t)'
    <3>1. /\ \A u \in Names \ {t} : stage'[u] = "idle"
          /\ stage'[t] = "okuri" /\ timer'[t] = OkuriBudgetLeft(0)
          /\ queue'["primary"] = <<t>> /\ queue'["fallback"] = << >>
      BY <1>1, <1>3, <2>3, <2>5, AskAlone
    <3>2. waited'[t] = 0 /\ started'[t] <= waited'[t]
      BY <1>1, <1>3, <2>5 DEF AloneInv
    <3> QED BY <2>1, <3>1, <3>2 DEF AloneInv
  <2> QED BY <2>4, <2>5
<1> QED BY <1>2, <1>3 DEF Request

\* A variation is only asked for while some of the budget is left, and gets no
\* more than that.
LEMMA VariationInv ==
  ASSUME IInv, NEW t \in Tasks, Variation(t), UNCHANGED present
  PROVE  TypeOK' /\ (AloneInv(t) => AloneInv(t)')
<1>1. /\ TypeOK /\ t \in Names /\ stage[t] = "okuri"
      /\ waited[t] \in Nat /\ left[t] \in Nat /\ timer[t] \in Nat
  BY DEF IInv, TypeOK, Names, Variation
<1>2. {"okuri", "merge", "primary"} \subseteq Stages /\ {"primary", "fallback"} = Backends
  BY DEF Stages, Backends
<1>3. ASSUME NEW some \in BOOLEAN, left[t] > 0, waited[t] < OkuriBudget,
             AskVariation(t, waited[t]), stems' = [stems EXCEPT ![t] = some],
             UNCHANGED <<waited, started>>
      PROVE  TypeOK' /\ (AloneInv(t) => AloneInv(t)')
  <2>1. /\ Ask(t, "okuri", "primary", OkuriBudgetLeft(waited[t]))
        /\ left' = [left EXCEPT ![t] = left[t] - 1]
    BY <1>3 DEF AskVariation
  <2>2. /\ OkuriBudgetLeft(waited[t]) \in Nat
        /\ waited[t] + OkuriBudgetLeft(waited[t]) <= OkuriBudget
    BY <1>1, <1>3, OkuriBudgetLeftBound, Durations
  <2>3. left[t] - 1 \in Nat
    BY <1>1, <1>3
  <2>4. TypeOK'
    BY <1>1, <1>2, <1>3, <2>1, <2>2, <2>3, AskType DEF TypeOK
  <2>5. ASSUME AloneInv(t)
        PROVE  AloneInv(t)'
    <3>1. /\ \A u \in Names \ {t} : stage'[u] = "idle"
          /\ stage'[t] = "okuri" /\ timer'[t] = OkuriBudgetLeft(waited[t])
          /\ queue'["primary"] = <<t>> /\ queue'["fallback"] = << >>
      BY <1>1, <1>2, <2>1, <2>5, AskAlone
    <3> QED BY <1>3, <2>2, <2>5, <3>1 DEF AloneInv
  <2> QED BY <2>4, <2>5
<1>4. ASSUME Ask(t, "merge", "fallback", Least(FallbackTimeout, MergeCap)),
             left' = [left EXCEPT ![t] = 0], stems' = [stems EXCEPT ![t] = TRUE],
             UNCHANGED <<waited, started>>
      PROVE  TypeOK' /\ (AloneInv(t) => AloneInv(t)')
  <2>1. TypeOK'
    BY <1>1, <1>2, <1>4, CapsBound, AskType DEF TypeOK
  <2>2. ASSUME AloneInv(t)
        PROVE  AloneInv(t)'
    <3>1. /\ \A u \in Names \ {t} : stage'[u] = "idle"
          /\ stage'[t] = "merge" /\ timer'[t] = Least(FallbackTimeout, MergeCap)
          /\ queue'["primary"] = << >> /\ queue'["fallback"] = <<t>>
      BY <1>1, <1>2, <1>4, <2>2, AskAlone
    <3>2. waited[t] <= OkuriBudget
      BY <1>1, <2>2, Durations DEF AloneInv
    <3>3. waited[t] + Least(FallbackTimeout, MergeCap) <= OkuriBudget + MergeCap
      BY <1>1, <3>2, CapsBound, Durations
    <3> QED BY <1>4, <2>2, <3>1, <3>3 DEF AloneInv
  <2> QED BY <2>1, <2>2
<1>5. CASE AskPrimary(t)
  BY <1>1, <1>5, AskPrimaryInv
<1> QED
  <2>1. PICK found \in BOOLEAN :
          \/ /\ left[t] > 0 /\ waited[t] < OkuriBudget
             /\ AskVariation(t, waited[t])
             /\ stems' = [stems EXCEPT ![t] = stems[t] \/ found]
             /\ UNCHANGED <<waited, started>>
          \/ /\ Ask(t, "merge", "fallback", Least(FallbackTimeout, MergeCap))
             /\ left' = [left EXCEPT ![t] = 0]
             /\ stems' = [stems EXCEPT ![t] = TRUE]
             /\ UNCHANGED <<waited, started>>
          \/ AskPrimary(t)
    BY DEF Variation
  <2>2. (stems[t] \/ found) \in BOOLEAN
    OBVIOUS
  <2> QED BY <1>3, <1>4, <1>5, <2>1, <2>2

LEMMA RestInv ==
  ASSUME IInv, NEW t \in Tasks, NEW where \in {"idle", "done"}, Rest(t, where), UNCHANGED present,
         waited' = waited \/ waited' = [waited EXCEPT ![t] = 0],
         where = "idle" => waited'[t] = 0
  PROVE  TypeOK' /\ (AloneInv(t) => AloneInv(t)')
<1>1. TypeOK /\ t \in Names /\ where \in Stages
  BY DEF IInv, Names, Stages
<1>2. waited' \in [Names -> Nat]
  <2>1. waited \in [Names -> Nat]
    BY <1>1 DEF TypeOK
  <2>2. CASE waited' = waited
    BY <2>1, <2>2
  <2>3. CASE waited' = [waited EXCEPT ![t] = 0]
    BY <2>1, <2>3
  <2> QED BY <2>2, <2>3
<1>3. TypeOK'
  BY <1>1, <1>2, RestType DEF TypeOK
<1>4. ASSUME AloneInv(t)
      PROVE  AloneInv(t)'
  <2>1. /\ \A u \in Names \ {t} : stage'[u] = "idle"
        /\ stage'[t] = where /\ started'[t] = 0
        /\ queue'["primary"] = << >> /\ queue'["fallback"] = << >>
    BY <1>1, <1>4, RestAlone
  <2> QED BY <1>1, <1>2, <2>1 DEF AloneInv
<1> QED BY <1>3, <1>4

\* The fallback gets what the primary left.
LEMMA PrimaryInv ==
  ASSUME IInv, NEW t \in Tasks, Primary(t), UNCHANGED present
  PROVE  TypeOK' /\ (AloneInv(t) => AloneInv(t)')
<1>1. CASE Rest(t, "done")
  BY <1>1, RestInv DEF Primary
<1>2. CASE Ask(t, "fallback", "fallback", FallbackBudget(t)) /\ UNCHANGED <<started, left, stems>>
  <2>1. TypeOK /\ t \in Names /\ stage[t] = "primary" /\ UNCHANGED waited
    BY DEF IInv, Names, Primary
  <2>2. "fallback" \in Stages /\ "fallback" \in Backends
    BY DEF Stages, Backends
  <2>3. TypeOK'
    BY <1>2, <2>1, <2>2, FallbackBudgetBound, AskType DEF TypeOK
  <2>4. ASSUME AloneInv(t)
        PROVE  AloneInv(t)'
    <3>1. /\ \A u \in Names \ {t} : stage'[u] = "idle"
          /\ stage'[t] = "fallback" /\ timer'[t] = FallbackBudget(t)
          /\ queue'["primary"] = << >> /\ queue'["fallback"] = <<t>>
      BY <1>2, <2>1, <2>2, <2>4, AskAlone
    <3>2. timer[t] \in Nat /\ waited[t] \in Nat /\ started[t] \in Nat
      BY <2>1 DEF TypeOK
    <3>3. started[t] <= waited[t] /\ waited[t] - started[t] <= OverallDeadline
      BY <2>1, <2>4, <3>2, Durations DEF AloneInv
    <3>4. (waited[t] - started[t]) + FallbackBudget(t) <= OverallDeadline
      BY <2>1, <3>3, FallbackBudgetBound
    <3> QED BY <1>2, <2>1, <3>1, <3>3, <3>4 DEF AloneInv
  <2> QED BY <2>3, <2>4
<1> QED BY <1>1, <1>2 DEF Primary

LEMMA StepInv ==
  ASSUME IInv, NEW t \in Tasks, Step(t), UNCHANGED present
  PROVE  TypeOK' /\ (AloneInv(t) => AloneInv(t)') /\ stage[t] # "idle"
<1>1. CASE Variation(t)
  BY <1>1, VariationInv DEF Variation
<1>2. CASE Primary(t)
  BY <1>2, PrimaryInv DEF Primary
<1>3. CASE Merge(t) \/ Fallback(t)
  BY <1>3, RestInv DEF Merge, Fallback
<1>4. CASE Respond(t)
  <2>1. waited'[t] = 0
    BY <1>4 DEF IInv, TypeOK, Names, Respond
  <2> QED BY <1>4, <2>1, RestInv DEF Respond
<1> QED BY <1>1, <1>2, <1>3, <1>4 DEF Step

LEMMA WarmUpInv ==
  ASSUME IInv, WarmUp, UNCHANGED present
  PROVE  TypeOK'
<1>1. TypeOK /\ Warmer \in Names /\ "warmup" \in Stages /\ "idle" \in Stages
      /\ "primary" \in Backends /\ left[Warmer] \in Nat
  BY DEF IInv, TypeOK, Names, Stages, Backends
<1>2. ASSUME left[Warmer] > 0, Ask(Warmer, "warmup", "primary", WarmupCompletion),
             left' = [left EXCEPT ![Warmer] = left[Warmer] - 1], UNCHANGED <<waited, started, stems>>
      PROVE  TypeOK'
  <2>1. left[Warmer] - 1 \in Nat
    BY <1>1, <1>2
  <2> QED BY <1>1, <1>2, <2>1, Durations, AskType DEF TypeOK
<1>3. ASSUME Rest(Warmer, "idle"), UNCHANGED waited
      PROVE  TypeOK'
  BY <1>1, <1>3, RestType DEF TypeOK
<1> QED BY <1>2, <1>3 DEF WarmUp

LEMMA NextInv == IInv /\ [Next]_vars => IInv'
<1> SUFFICES ASSUME IInv, [Next]_vars
             PROVE  IInv'
  OBVIOUS
<1>1. CASE Tick
  BY <1>1, TickInv
<1>2. ASSUME WarmUp, UNCHANGED present
      PROVE  IInv'
  <2>1. stage[Warmer] = "warmup" /\ Warmer \in Names
    BY <1>2 DEF WarmUp, Names
  <2>2. ~\E t \in Tasks : Alone(t)
    BY <2>1, OnlyOne DEF AloneInv
  <2> QED BY <1>2, <2>2, WarmUpInv DEF IInv, Alone
<1>3. ASSUME NEW t \in Tasks, Request(t) \/ Step(t), UNCHANGED present
      PROVE  IInv'
  <2>1. TypeOK' /\ (AloneInv(t) => AloneInv(t)')
    BY <1>3, RequestInv, StepInv
  <2>2. ASSUME NEW u \in Tasks, Alone(u)'
        PROVE  AloneInv(u)'
    <3>1. Alone(u) /\ t \in Names
      BY <1>3, <2>2 DEF Alone, Names
    <3>2. stage[t] # "idle" \/ t \in present
      BY <1>3, StepInv DEF Request
    <3>3. t = u /\ AloneInv(u)
      BY <3>1, <3>2, OnlyOne
    <3> QED BY <2>1, <3>3
  <2> QED BY <2>1, <2>2 DEF IInv
<1>4. CASE UNCHANGED vars
  BY <1>4 DEF vars, IInv, TypeOK, Alone, AloneInv
<1> QED BY <1>1, <1>2, <1>3, <1>4 DEF Next

LEMMA Invariance == Spec => []IInv
BY InitInv, NextInv, PTL DEF Spec

-----------------------------------------------------------------------------
(* Clients that share the backends, however many                           *)

ServedBy(s) == IF s \in {"okuri", "primary"} THEN "primary" ELSE "fallback"

\* The longest query a backend's queue holds.
Cap(b) == IF b = "primary" THEN PrimaryCap ELSE OverallDeadline

\* A task that waits stands in one queue, once.
QueueInv ==
  /\ \A u \in Names : Waiting(u) =>
       \E i \in 1..Len(queue[ServedBy(stage[u])]) : queue[ServedBy(stage[u])][i] = u
  /\ \A b \in Backends : \A i \in 1..Len(queue[b]) :
       LET u == queue[b][i]
       IN  /\ u \in Tasks \cap present /\ Waiting(u) /\ ServedBy(stage[u]) = b
           /\ timer[u] <= Cap(b)
           /\ \A j \in 1..Len(queue[b]) : queue[b][j] = u => j = i

\* How long the queries ahead of the i-th may still take.
Ahead(b, i) == IF i = 1 THEN 0 ELSE timer[queue[b][1]] + (i - 2) * Cap(b)

Others == Cardinality(present) - 1
OkuriPart(t) == IF MaxVariations[t] > 0 THEN OkuriBudget + Others * PrimaryCap ELSE 0
LookupPart == (1 + Others) * OverallDeadline

\* When the query a task makes must have returned.
Limit(t) == CASE stage[t] = "okuri" -> OkuriPart(t)
              [] stage[t] = "merge" -> OkuriPart(t) + LookupPart
              [] OTHER -> started[t] + LookupPart

WaitInv(t) ==
  /\ stage[t] = "idle" => waited[t] = 0
  /\ stage[t] \in {"okuri", "merge"} => MaxVariations[t] > 0
  /\ started[t] <= waited[t] /\ started[t] <= OkuriPart(t)
  /\ waited[t] <= OkuriPart(t) + LookupPart
  /\ \A b \in Backends : \A i \in 1..Len(queue[b]) :
       queue[b][i] = t => waited[t] + timer[t] + Ahead(b, i) <= Limit(t)

CrowdInv == Warmer \notin present => QueueInv /\ \A t \in Tasks : WaitInv(t)

\* The queues and the clients, as far as the proofs about them need it.
LEMMA Crowd ==
  ASSUME TypeOK, Warmer \notin present
  PROVE  /\ present \subseteq Tasks /\ present # {} /\ IsFiniteSet(present) /\ Cardinality(present) \in Nat
         /\ Tasks \subseteq Names
         /\ \A t \in Names : timer[t] \in Nat /\ waited[t] \in Nat /\ started[t] \in Nat
         /\ \A b \in Backends : Len(queue[b]) \in Nat /\ Cap(b) \in Nat
         /\ \A t \in Tasks : MaxVariations[t] \in Nat
<1>1. present \subseteq Tasks /\ present # {} /\ IsFiniteSet(present)
  BY DeadlineAssumption DEF DeadlineAssumption, TypeOK, Names
<1>2. \A t \in Tasks : MaxVariations[t] \in Nat
  BY DeadlineAssumption DEF DeadlineAssumption
<1> QED BY <1>1, <1>2, Durations, FS_CardinalityType DEF TypeOK, Names, Cap

-----------------------------------------------------------------------------
(* Sums of whole queries                                                   *)

LEMMA Times ==
  ASSUME NEW k \in Nat, NEW c \in Nat
  PROVE  /\ k * c \in Nat
         /\ (k + 1) * c = k * c + c
OBVIOUS

LEMMA TimesGrows ==
  ASSUME NEW k \in Nat, NEW n \in Nat, k <= n, NEW c \in Nat, NEW d \in Nat, c <= d
  PROVE  k * c <= n * d
<1>1. k * c <= k * d
  <2>1. PICK e \in Nat : d = c + e
    <3> WITNESS d - c \in Nat
    <3> QED OBVIOUS
  <2>2. k * d = k * c + k * e /\ k * e \in Nat /\ k * c \in Nat
    BY <2>1
  <2> QED BY <2>2
<1>2. k * d <= n * d
  <2>1. PICK e \in Nat : n = k + e
    <3> WITNESS n - k \in Nat
    <3> QED OBVIOUS
  <2>2. n * d = k * d + e * d /\ e * d \in Nat /\ k * d \in Nat
    BY <2>1
  <2> QED BY <2>2
<1>3. k * c \in Nat /\ k * d \in Nat /\ n * d \in Nat
  BY Times
<1> QED BY <1>1, <1>2, <1>3

\* With each client comes one more query of every kind.
LEMMA Parts ==
  ASSUME TypeOK, Warmer \notin present
  PROVE  /\ Others \in Nat /\ LookupPart \in Nat /\ Others * PrimaryCap \in Nat
         /\ LookupPart = Others * OverallDeadline + OverallDeadline
         /\ Others * PrimaryCap <= Others * OverallDeadline
         /\ \A t \in Tasks : OkuriPart(t) \in Nat
<1>1. Others \in Nat
  BY Crowd, FS_EmptySet DEF Others
<1>2. /\ Others * PrimaryCap \in Nat /\ Others * OverallDeadline \in Nat
      /\ (Others + 1) * OverallDeadline = Others * OverallDeadline + OverallDeadline
      /\ Others * PrimaryCap <= Others * OverallDeadline
  BY <1>1, Durations, Times, TimesGrows
<1>3. LookupPart = (Others + 1) * OverallDeadline
  BY <1>1 DEF LookupPart
<1> HIDE DEF Others
<1> QED BY <1>1, <1>2, <1>3, Durations DEF OkuriPart

LEMMA LimitType ==
  ASSUME TypeOK, Warmer \notin present, NEW t \in Tasks
  PROVE  Limit(t) \in Nat
<1>1. LookupPart \in Nat /\ OkuriPart(t) \in Nat /\ started[t] \in Nat
  BY Parts, Crowd
<1>2. Limit(t) \in {OkuriPart(t), OkuriPart(t) + LookupPart, started[t] + LookupPart}
  BY DEF Limit
<1> QED BY <1>1, <1>2

-----------------------------------------------------------------------------
(* A task leaves its queue, and may join another                           *)

Gone(t, b) == IF Asking(t, b) THEN 1 ELSE 0

\* A task that may ask its next query.
Free(t) == ~Waiting(t) \/ Asking(t, ServedBy(stage[t]))

LEMMA Popped ==
  ASSUME TypeOK, NEW t, NEW b \in Backends
  PROVE  /\ Pop(t)[b] \in Seq(Names) /\ Len(Pop(t)[b]) = Len(queue[b]) - Gone(t, b)
         /\ \A i \in 1..Len(Pop(t)[b]) : /\ i + Gone(t, b) \in 1..Len(queue[b])
                                         /\ Pop(t)[b][i] = queue[b][i + Gone(t, b)]
<1>1. queue[b] \in Seq(Names) /\ Pop(t)[b] \in Seq(Names)
  BY PopType DEF TypeOK
<1>2. CASE Asking(t, b)
  <2>1. Pop(t)[b] = Tail(queue[b]) /\ queue[b] # << >> /\ Gone(t, b) = 1
    BY <1>2 DEF Pop, Asking, Gone
  <2>2. /\ Len(Tail(queue[b])) = Len(queue[b]) - 1
        /\ \A i \in 1..Len(Tail(queue[b])) : Tail(queue[b])[i] = queue[b][i + 1]
    BY <1>1, <2>1
  <2> QED BY <1>1, <2>1, <2>2
<1>3. CASE ~Asking(t, b)
  BY <1>1, <1>3 DEF Pop, Gone
<1> QED BY <1>2, <1>3

\* Having left, it stands nowhere.
LEMMA LeftAll ==
  ASSUME TypeOK, QueueInv, NEW t \in Tasks, Free(t), NEW b \in Backends,
         NEW i \in 1..Len(Pop(t)[b])
  PROVE  Pop(t)[b][i] # t
<1> SUFFICES ASSUME Pop(t)[b][i] = t
             PROVE  FALSE
  OBVIOUS
<1>1. /\ i + Gone(t, b) \in 1..Len(queue[b]) /\ queue[b][i + Gone(t, b)] = t /\ i \in Nat /\ i >= 1
  BY Popped
<1>2. Waiting(t) /\ ServedBy(stage[t]) = b
  BY <1>1 DEF QueueInv
<1>3. Asking(t, b) /\ Gone(t, b) = 1
  BY <1>2 DEF Free, Gone
<1>4. queue[b][1] = t /\ 1 \in 1..Len(queue[b])
  BY <1>1, <1>3 DEF Asking
<1> QED BY <1>1, <1>3, <1>4 DEF QueueInv

\* So all that stand in a queue are other clients.
LEMMA Room ==
  ASSUME TypeOK, QueueInv, Warmer \notin present, NEW t \in Tasks \cap present, Free(t),
         NEW b \in Backends
  PROVE  Len(Pop(t)[b]) \in Nat /\ Len(Pop(t)[b]) <= Others
<1> DEFINE n == Len(Pop(t)[b])
           f == [i \in 1..n |-> Pop(t)[b][i]]
<1>1. n \in Nat
  BY Popped
<1>2. ASSUME NEW i \in 1..n
      PROVE  f[i] \in present \ {t}
  BY <1>2, Popped, LeftAll DEF QueueInv
<1>3. ASSUME NEW i \in 1..n, NEW j \in 1..n, f[i] = f[j]
      PROVE  i = j
  <2>1. /\ i + Gone(t, b) \in 1..Len(queue[b]) /\ j + Gone(t, b) \in 1..Len(queue[b])
        /\ queue[b][i + Gone(t, b)] = queue[b][j + Gone(t, b)]
    BY <1>3, Popped
  <2>2. i + Gone(t, b) = j + Gone(t, b)
    BY <2>1 DEF QueueInv
  <2> QED BY <1>1, <2>2 DEF Gone
<1>4. f \in Injection(1..n, present \ {t})
  <2> HIDE DEF n
  <2> QED BY <1>2, <1>3 DEF Injection, IsInjective
<1>5. /\ IsFiniteSet(present) /\ IsFiniteSet(present \ {t})
      /\ Cardinality(present \ {t}) = Others
  BY Crowd, FS_RemoveElement DEF Others
<1>6. Cardinality(1..n) = n
  BY <1>1, FS_Interval
<1> HIDE DEF f, n
<1>7. Cardinality(1..n) <= Cardinality(present \ {t})
  BY <1>4, <1>5, FS_Injection
<1> QED BY <1>1, <1>5, <1>6, <1>7 DEF n

\* Nobody waits longer for another's leaving.
LEMMA MovedUp ==
  ASSUME TypeOK, QueueInv, Warmer \notin present, NEW t \in Tasks, Free(t),
         NEW u \in Tasks, WaitInv(u), NEW b \in Backends,
         NEW i \in 1..Len(Pop(t)[b]), Pop(t)[b][i] = u
  PROVE  waited[u] + timer[u] + (IF i = 1 THEN 0 ELSE timer[Pop(t)[b][1]] + (i - 2) * Cap(b))
           <= Limit(u)
<1>1. /\ i \in Nat /\ i >= 1 /\ 1 \in 1..Len(Pop(t)[b])
      /\ i + Gone(t, b) \in 1..Len(queue[b]) /\ queue[b][i + Gone(t, b)] = u
      /\ 1 + Gone(t, b) \in 1..Len(queue[b]) /\ queue[b][1 + Gone(t, b)] = Pop(t)[b][1]
  BY Popped
<1>2. waited[u] + timer[u] + Ahead(b, i + Gone(t, b)) <= Limit(u)
  BY <1>1 DEF WaitInv
<1>3. CASE ~Asking(t, b)
  <2>1. i + Gone(t, b) = i /\ 1 + Gone(t, b) = 1
    BY <1>1, <1>3 DEF Gone
  <2> QED BY <1>1, <1>2, <2>1 DEF Ahead
<1>4. CASE Asking(t, b)
  <2>1. i + Gone(t, b) = i + 1 /\ 1 + Gone(t, b) = 2 /\ 1 \in 1..Len(queue[b])
    BY <1>1, <1>4 DEF Gone
  <2>2. /\ timer[queue[b][1]] \in Nat /\ timer[Pop(t)[b][1]] \in Nat /\ Cap(b) \in Nat
        /\ timer[Pop(t)[b][1]] <= Cap(b) /\ waited[u] \in Nat /\ timer[u] \in Nat
    BY <1>1, <2>1, Crowd DEF QueueInv
  <2>3. waited[u] + timer[u] + (timer[queue[b][1]] + (i - 1) * Cap(b)) <= Limit(u)
    <3>1. i + 1 # 1 /\ (i + 1) - 2 = i - 1
      BY <1>1
    <3> QED BY <1>2, <2>1, <3>1 DEF Ahead
  <2>4. CASE i = 1
    <3>1. (i - 1) * Cap(b) = 0
      BY <2>2, <2>4
    <3>2. Limit(u) \in Nat
      BY LimitType
    <3> QED BY <2>2, <2>3, <2>4, <3>1, <3>2
  <2>5. CASE i # 1
    <3>1. i - 2 \in Nat /\ i - 1 = (i - 2) + 1
      BY <1>1, <2>5
    <3>2. (i - 1) * Cap(b) = (i - 2) * Cap(b) + Cap(b) /\ (i - 2) * Cap(b) \in Nat
      BY <2>2, <3>1, Times
    <3>3. Limit(u) \in Nat
      BY LimitType
    <3> DEFINE k == (i - 2) * Cap(b)
               m == (i - 1) * Cap(b)
    <3>4. /\ waited[u] + timer[u] + (timer[queue[b][1]] + m) <= Limit(u)
          /\ m = k + Cap(b) /\ k \in Nat
      BY <2>3, <3>2
    <3> HIDE DEF k, m
    <3>5. waited[u] + timer[u] + (timer[Pop(t)[b][1]] + k) <= Limit(u)
      <4>1. PICK w \in Nat, x \in Nat, f \in Nat, h \in Nat, c \in Nat, n \in Nat, l \in Nat :
              /\ w = waited[u] /\ x = timer[u] /\ l = Limit(u) /\ n = k /\ c = Cap(b)
              /\ f = timer[queue[b][1]] /\ h = timer[Pop(t)[b][1]]
        BY <2>2, <3>3, <3>4
      <4>2. w + x + (f + (n + c)) <= l /\ h <= c
        BY <2>2, <3>4, <4>1
      <4>3. w + x + (h + n) <= l
        BY <4>2
      <4> QED BY <4>1, <4>3
    <3> QED BY <2>5, <3>5 DEF k
  <2> QED BY <2>4, <2>5
<1> QED BY <1>3, <1>4

\* Where everybody stands once a task has asked its next query.
LEMMA AskPlaces ==
  ASSUME TypeOK, NEW t \in Names, NEW next, NEW b \in Backends, NEW budget,
         Ask(t, next, b, budget)
  PROVE  /\ \A c \in Backends \ {b} : queue'[c] = Pop(t)[c]
         /\ Len(queue'[b]) = Len(Pop(t)[b]) + 1 /\ queue'[b][Len(Pop(t)[b]) + 1] = t
         /\ \A i \in 1..Len(Pop(t)[b]) : queue'[b][i] = Pop(t)[b][i]
         /\ stage'[t] = next /\ timer'[t] = budget
         /\ \A u \in Names \ {t} : stage'[u] = stage[u] /\ timer'[u] = timer[u]
<1>1. queue' = [Pop(t) EXCEPT ![b] = Append(Pop(t)[b], t)]
  BY DEF Ask
<1>2. Pop(t)[b] \in Seq(Names) /\ Pop(t) \in [Backends -> Seq(Names)]
  BY PopType
<1>3. /\ \A c \in Backends \ {b} : queue'[c] = Pop(t)[c]
      /\ queue'[b] = Append(Pop(t)[b], t)
  BY <1>1, <1>2
<1>4. /\ Len(Append(Pop(t)[b], t)) = Len(Pop(t)[b]) + 1
      /\ Append(Pop(t)[b], t)[Len(Pop(t)[b]) + 1] = t
      /\ \A i \in 1..Len(Pop(t)[b]) : Append(Pop(t)[b], t)[i] = Pop(t)[b][i]
  BY <1>2
<1>5. /\ stage'[t] = next /\ timer'[t] = budget
      /\ \A u \in Names \ {t} : stage'[u] = stage[u] /\ timer'[u] = timer[u]
  BY DEF Ask, TypeOK
<1> QED BY <1>3, <1>4, <1>5

\* A task that waits and does not move is still in its queue.
LEMMA StillThere ==
  ASSUME TypeOK, QueueInv, NEW t \in Tasks, Free(t), NEW u \in Names, u # t, Waiting(u)
  PROVE  \E i \in 1..Len(Pop(t)[ServedBy(stage[u])]) : Pop(t)[ServedBy(stage[u])][i] = u
<1> DEFINE b == ServedBy(stage[u])
<1>1. b \in Backends
  BY DEF ServedBy, Backends
<1>2. PICK i \in 1..Len(queue[b]) : queue[b][i] = u
  BY DEF QueueInv
<1>3. Len(queue[b]) \in Nat /\ (Asking(t, b) => queue[b][1] = t)
  BY <1>1 DEF TypeOK, Asking
<1> HIDE DEF b
<1>4. i - Gone(t, b) \in 1..Len(Pop(t)[b])
  <2>1. Len(Pop(t)[b]) = Len(queue[b]) - Gone(t, b)
    BY <1>1, Popped
  <2>2. CASE Asking(t, b)
    <3>1. i # 1
      BY <1>2, <1>3, <2>2
    <3> QED BY <1>2, <1>3, <2>1, <2>2, <3>1 DEF Gone
  <2>3. CASE ~Asking(t, b)
    BY <1>2, <1>3, <2>1, <2>3 DEF Gone
  <2> QED BY <2>2, <2>3
<1>5. Pop(t)[b][i - Gone(t, b)] = queue[b][(i - Gone(t, b)) + Gone(t, b)]
  BY <1>1, <1>4, Popped
<1>6. (i - Gone(t, b)) + Gone(t, b) = i
  BY DEF Gone
<1> QED BY <1>2, <1>4, <1>5, <1>6 DEF b

LEMMA PoppedPlaces ==
  ASSUME TypeOK, QueueInv, NEW t \in Tasks, Free(t), NEW b \in Backends,
         NEW i \in 1..Len(Pop(t)[b])
  PROVE  LET u == Pop(t)[b][i]
         IN  /\ u \in (Tasks \cap present) \ {t} /\ Waiting(u) /\ ServedBy(stage[u]) = b
             /\ timer[u] <= Cap(b)
             /\ \A j \in 1..Len(Pop(t)[b]) : Pop(t)[b][j] = u => j = i
<1>1. i + Gone(t, b) \in 1..Len(queue[b]) /\ Pop(t)[b][i] = queue[b][i + Gone(t, b)]
  BY Popped
<1>2. ASSUME NEW j \in 1..Len(Pop(t)[b]), Pop(t)[b][j] = Pop(t)[b][i]
      PROVE  j = i
  <2>1. j + Gone(t, b) \in 1..Len(queue[b]) /\ Pop(t)[b][j] = queue[b][j + Gone(t, b)]
    BY Popped
  <2>2. queue[b][j + Gone(t, b)] = queue[b][i + Gone(t, b)]
    BY <1>1, <1>2, <2>1
  <2>3. j + Gone(t, b) = i + Gone(t, b)
    BY <1>1, <2>1, <2>2 DEF QueueInv
  <2> QED BY <2>3 DEF Gone
<1> QED BY <1>1, <1>2, LeftAll DEF QueueInv

LEMMA AskQueue ==
  ASSUME TypeOK, QueueInv, NEW t \in Tasks \cap present, Free(t), UNCHANGED present,
         NEW next \in {"okuri", "merge", "primary", "fallback"}, NEW budget \in Nat,
         budget <= Cap(ServedBy(next)), Ask(t, next, ServedBy(next), budget)
  PROVE  QueueInv'
<1> DEFINE b == ServedBy(next)
<1>1. b \in Backends /\ t \in Names /\ Tasks \subseteq Names
  BY DEF ServedBy, Backends, Names
<1>2. /\ \A c \in Backends \ {b} : queue'[c] = Pop(t)[c]
      /\ Len(queue'[b]) = Len(Pop(t)[b]) + 1 /\ queue'[b][Len(Pop(t)[b]) + 1] = t
      /\ \A i \in 1..Len(Pop(t)[b]) : queue'[b][i] = Pop(t)[b][i]
      /\ stage'[t] = next /\ timer'[t] = budget
      /\ \A u \in Names \ {t} : stage'[u] = stage[u] /\ timer'[u] = timer[u]
  BY <1>1, AskPlaces
<1>3. \A c \in Backends : Len(Pop(t)[c]) \in Nat
  BY Popped
<1>4. Waiting(t)' /\ ServedBy(stage'[t]) = b /\ budget <= Cap(b)
  BY <1>2 DEF Waiting
<1> HIDE DEF b
<1>5. ASSUME NEW u \in Names, Waiting(u)'
      PROVE  \E i \in 1..Len(queue'[ServedBy(stage'[u])]) : queue'[ServedBy(stage'[u])][i] = u
  <2>1. CASE u = t
    <3>1. Len(Pop(t)[b]) + 1 \in 1..Len(queue'[b])
      BY <1>1, <1>2, <1>3
    <3> QED BY <1>2, <1>4, <2>1, <3>1
  <2>2. CASE u # t
    <3>1. stage'[u] = stage[u] /\ Waiting(u) /\ ServedBy(stage[u]) \in Backends
      BY <1>2, <1>5, <2>2 DEF Waiting, ServedBy, Backends
    <3>2. PICK i \in 1..Len(Pop(t)[ServedBy(stage[u])]) : Pop(t)[ServedBy(stage[u])][i] = u
      BY <2>2, <3>1, StillThere
    <3>3. /\ i \in 1..Len(queue'[ServedBy(stage[u])])
          /\ queue'[ServedBy(stage[u])][i] = u
      BY <1>1, <1>2, <1>3, <3>1, <3>2
    <3> QED BY <3>1, <3>3
  <2> QED BY <2>1, <2>2
<1>6. ASSUME NEW c \in Backends, NEW i \in 1..Len(queue'[c])
      PROVE  /\ queue'[c][i] \in Tasks \cap present
             /\ stage'[queue'[c][i]] \notin {"idle", "done"} /\ ServedBy(stage'[queue'[c][i]]) = c
             /\ timer'[queue'[c][i]] <= Cap(c)
             /\ \A j \in 1..Len(queue'[c]) : queue'[c][j] = queue'[c][i] => j = i
  <2>1. ASSUME NEW k \in 1..Len(Pop(t)[c])
        PROVE  /\ queue'[c][k] = Pop(t)[c][k] /\ queue'[c][k] # t
               /\ queue'[c][k] \in Tasks \cap present
               /\ stage'[queue'[c][k]] \notin {"idle", "done"}
               /\ ServedBy(stage'[queue'[c][k]]) = c
               /\ timer'[queue'[c][k]] <= Cap(c)
               /\ \A j \in 1..Len(Pop(t)[c]) : queue'[c][j] = queue'[c][k] => j = k
    <3>1. \A j \in 1..Len(Pop(t)[c]) : queue'[c][j] = Pop(t)[c][j]
      BY <1>1, <1>2
    <3> DEFINE u == Pop(t)[c][k]
    <3>2. /\ u \in (Tasks \cap present) \ {t} /\ Waiting(u) /\ ServedBy(stage[u]) = c
          /\ timer[u] <= Cap(c)
          /\ \A j \in 1..Len(Pop(t)[c]) : Pop(t)[c][j] = u => j = k
      BY PoppedPlaces
    <3>3. queue'[c][k] = u /\ stage'[u] = stage[u] /\ timer'[u] = timer[u]
      BY <1>1, <1>2, <3>1, <3>2
    <3> HIDE DEF u
    <3> QED BY <3>1, <3>2, <3>3 DEF Waiting, u
  <2>2. CASE c # b
    <3>1. Len(queue'[c]) = Len(Pop(t)[c])
      BY <1>2, <2>2
    <3> QED BY <2>1, <3>1
  <2>3. CASE c = b /\ i \in 1..Len(Pop(t)[b])
    <3>1. ASSUME NEW j \in 1..Len(queue'[c]), queue'[c][j] = queue'[c][i]
          PROVE  j \in 1..Len(Pop(t)[c])
      BY <1>2, <1>3, <2>1, <2>3, <3>1
    <3> QED BY <2>1, <2>3, <3>1
  <2>4. CASE c = b /\ i = Len(Pop(t)[b]) + 1
    <3>1. queue'[c][i] = t
      BY <1>2, <2>4
    <3>2. ASSUME NEW j \in 1..Len(queue'[c]), queue'[c][j] = t
          PROVE  j = i
      BY <1>2, <1>3, <2>1, <2>4, <3>2
    <3>3. t \in Tasks \cap present /\ stage'[t] \notin {"idle", "done"}
      BY <1>2
    <3>4. ServedBy(stage'[t]) = c /\ timer'[t] <= Cap(c)
      BY <1>2, <1>4, <2>4
    <3> QED BY <3>1, <3>2, <3>3, <3>4
  <2>5. i \in 1..Len(Pop(t)[b]) \/ i = Len(Pop(t)[b]) + 1 \/ c # b
    BY <1>1, <1>2, <1>3
  <2> QED BY <2>2, <2>3, <2>4, <2>5
<1> QED BY <1>5, <1>6 DEF QueueInv, Waiting

\* A task has gone to the end of a queue, or out of all of them.
Moved(t) ==
  /\ UNCHANGED present
  /\ \A b \in Backends :
       /\ Len(queue'[b]) \in Nat /\ Len(queue'[b]) >= Len(Pop(t)[b])
       /\ \A i \in 1..Len(queue'[b]) :
            queue'[b][i] = IF i <= Len(Pop(t)[b]) THEN Pop(t)[b][i] ELSE t
  /\ \A u \in Names \ {t} : /\ stage'[u] = stage[u] /\ timer'[u] = timer[u]
                            /\ waited'[u] = waited[u] /\ started'[u] = started[u]

LEMMA AskMoved ==
  ASSUME TypeOK, NEW t \in Names, NEW next, NEW b \in Backends, NEW budget,
         Ask(t, next, b, budget), UNCHANGED present,
         \A u \in Names \ {t} : waited'[u] = waited[u] /\ started'[u] = started[u]
  PROVE  Moved(t)
<1>1. /\ \A c \in Backends \ {b} : queue'[c] = Pop(t)[c]
      /\ Len(queue'[b]) = Len(Pop(t)[b]) + 1 /\ queue'[b][Len(Pop(t)[b]) + 1] = t
      /\ \A i \in 1..Len(Pop(t)[b]) : queue'[b][i] = Pop(t)[b][i]
      /\ stage'[t] = next /\ timer'[t] = budget
      /\ \A u \in Names \ {t} : stage'[u] = stage[u] /\ timer'[u] = timer[u]
  BY AskPlaces
<1>2. \A c \in Backends : Len(Pop(t)[c]) \in Nat
  BY Popped
<1>3. ASSUME NEW c \in Backends
      PROVE  /\ Len(queue'[c]) \in Nat /\ Len(queue'[c]) >= Len(Pop(t)[c])
             /\ \A i \in 1..Len(queue'[c]) :
                  queue'[c][i] = IF i <= Len(Pop(t)[c]) THEN Pop(t)[c][i] ELSE t
  <2>1. CASE c = b
    BY <1>1, <1>2, <2>1
  <2>2. CASE c # b
    BY <1>1, <1>2, <2>2
  <2> QED BY <2>1, <2>2
<1> QED BY <1>1, <1>3 DEF Moved

LEMMA RestMoved ==
  ASSUME TypeOK, NEW t \in Names, NEW where, Rest(t, where), UNCHANGED present,
         \A u \in Names \ {t} : waited'[u] = waited[u]
  PROVE  Moved(t) /\ stage'[t] = where /\ started'[t] = 0
<1>1. queue' = Pop(t) /\ \A c \in Backends : Len(Pop(t)[c]) \in Nat
  BY Popped DEF Rest
<1>2. \A u \in Names \ {t} : stage'[u] = stage[u] /\ timer'[u] = timer[u] /\ started'[u] = started[u]
  BY DEF Rest, TypeOK
<1> QED BY <1>1, <1>2 DEF Moved, Rest, TypeOK

LEMMA RestQueue ==
  ASSUME TypeOK, QueueInv, NEW t \in Tasks, Free(t), Rest(t, "idle") \/ Rest(t, "done"),
         UNCHANGED present
  PROVE  QueueInv'
<1>1. /\ queue' = Pop(t) /\ t \in Names /\ stage'[t] \in {"idle", "done"}
      /\ \A u \in Names \ {t} : stage'[u] = stage[u] /\ timer'[u] = timer[u]
  BY DEF Rest, TypeOK, Names
<1>2. ASSUME NEW u \in Names, Waiting(u)'
      PROVE  \E i \in 1..Len(queue'[ServedBy(stage'[u])]) : queue'[ServedBy(stage'[u])][i] = u
  <2>1. u # t /\ stage'[u] = stage[u] /\ Waiting(u)
    BY <1>1, <1>2 DEF Waiting
  <2> QED BY <1>1, <2>1, StillThere
<1>3. ASSUME NEW c \in Backends, NEW i \in 1..Len(queue'[c])
      PROVE  /\ queue'[c][i] \in Tasks \cap present
             /\ stage'[queue'[c][i]] \notin {"idle", "done"} /\ ServedBy(stage'[queue'[c][i]]) = c
             /\ timer'[queue'[c][i]] <= Cap(c)
             /\ \A j \in 1..Len(queue'[c]) : queue'[c][j] = queue'[c][i] => j = i
  <2> DEFINE u == Pop(t)[c][i]
  <2>1. /\ u \in (Tasks \cap present) \ {t} /\ Waiting(u) /\ ServedBy(stage[u]) = c
        /\ timer[u] <= Cap(c)
        /\ \A j \in 1..Len(Pop(t)[c]) : Pop(t)[c][j] = u => j = i
    BY <1>1, PoppedPlaces
  <2>2. u \in Names /\ stage'[u] = stage[u] /\ timer'[u] = timer[u] /\ queue'[c][i] = u
    BY <1>1, <2>1 DEF Names
  <2> HIDE DEF u
  <2> QED BY <1>1, <2>1, <2>2 DEF Waiting, u
<1> QED BY <1>2, <1>3 DEF QueueInv, Waiting

\* Nobody else waits longer for it.
LEMMA OthersWait ==
  ASSUME TypeOK, QueueInv, Warmer \notin present, NEW t \in Tasks, Free(t), Moved(t),
         NEW u \in Tasks \ {t}, WaitInv(u)
  PROVE  WaitInv(u)'
<1>1. /\ u \in Names /\ stage'[u] = stage[u] /\ timer'[u] = timer[u]
      /\ waited'[u] = waited[u] /\ started'[u] = started[u] /\ present' = present
  BY DEF Names, Moved
<1>2. Limit(u)' = Limit(u) /\ OkuriPart(u)' = OkuriPart(u) /\ LookupPart' = LookupPart
  BY <1>1 DEF Limit, OkuriPart, LookupPart, Others
<1>3. ASSUME NEW b \in Backends, NEW i \in 1..Len(queue'[b]), queue'[b][i] = u
      PROVE  waited'[u] + timer'[u] + Ahead(b, i)' <= Limit(u)'
  <2>1. Len(Pop(t)[b]) \in Nat /\ i \in Nat /\ i >= 1
    BY Popped
  <2>2. i \in 1..Len(Pop(t)[b]) /\ Pop(t)[b][i] = u /\ 1 \in 1..Len(queue'[b])
    BY <1>3, <2>1 DEF Moved
  <2>3. queue'[b][1] = Pop(t)[b][1] /\ 1 \in 1..Len(Pop(t)[b])
    BY <2>1, <2>2 DEF Moved
  <2>4. timer'[queue'[b][1]] = timer[Pop(t)[b][1]]
    <3>1. Pop(t)[b][1] \in Names \ {t}
      BY <2>3, PoppedPlaces DEF Names
    <3> QED BY <2>3, <3>1 DEF Moved
  <2>5. waited[u] + timer[u] + (IF i = 1 THEN 0 ELSE timer[Pop(t)[b][1]] + (i - 2) * Cap(b)) <= Limit(u)
    BY <2>2, MovedUp
  <2> QED BY <1>1, <1>2, <2>4, <2>5 DEF Ahead, Cap
<1> QED BY <1>1, <1>2, <1>3 DEF WaitInv

\* A query of each of the others.
Turns(b) == Others * Cap(b)

\* It waits for one query of each of the others, at most.
LEMMA OwnWait ==
  ASSUME TypeOK, QueueInv, Warmer \notin present, NEW t \in Tasks \cap present, Free(t), Moved(t),
         NEW b \in Backends, \A c \in Backends \ {b} : queue'[c] = Pop(t)[c],
         Len(queue'[b]) = Len(Pop(t)[b]) + 1,
         NEW limit \in Nat, waited'[t] \in Nat, timer'[t] \in Nat,
         waited'[t] + timer'[t] + Turns(b) <= limit,
         NEW c \in Backends, NEW i \in 1..Len(queue'[c]), queue'[c][i] = t
  PROVE  waited'[t] + timer'[t] + Ahead(c, i)' <= limit
<1> DEFINE n == Len(Pop(t)[b])
<1>1. n \in Nat /\ n <= Others
  BY Room
<1>2. c = b
  <2>1. CASE c # b
    BY <2>1, LeftAll
  <2> QED BY <2>1
<1>3. i = n + 1
  <2>1. ~(i <= n)
    <3>1. CASE i <= n
      <4>1. i \in 1..n
        BY <1>1, <3>1
      <4>2. Pop(t)[b][i] = t
        BY <1>1, <1>2, <4>1 DEF Moved
      <4> QED BY <4>1, <4>2, LeftAll
    <3> QED BY <3>1
  <2> QED BY <1>1, <1>2, <2>1
<1>4. Cap(b) \in Nat /\ Others \in Nat
  BY Crowd, Parts
<1>5. n * Cap(b) \in Nat /\ Turns(b) \in Nat /\ n * Cap(b) <= Turns(b)
  <2>1. ASSUME NEW k \in Nat, NEW o \in Nat, k <= o, NEW d \in Nat
        PROVE  k * d \in Nat /\ o * d \in Nat /\ k * d <= o * d
    <3>1. k * d \in Nat /\ o * d \in Nat
      BY Times
    <3>2. d <= d
      OBVIOUS
    <3>3. k * d <= o * d
      BY <2>1, <3>2, TimesGrows
    <3> QED BY <3>1, <3>3
  <2> HIDE DEF n
  <2> QED BY <1>1, <1>4, <2>1 DEF Turns
<1>6. Ahead(c, i)' \in Nat /\ Ahead(c, i)' <= n * Cap(b)
  <2>1. CASE n = 0
    BY <1>3, <1>5, <2>1 DEF Ahead
  <2>2. CASE n # 0
    <3>1. 1 \in 1..n /\ n - 1 \in Nat /\ i # 1 /\ i - 2 = n - 1
      BY <1>1, <1>3, <2>2
    <3>2. queue'[b][1] = Pop(t)[b][1]
      <4>1. 1 \in 1..Len(queue'[b])
        BY <1>1, <3>1
      <4> QED BY <3>1, <4>1 DEF Moved
    <3>3. Pop(t)[b][1] \in Names \ {t} /\ timer[Pop(t)[b][1]] <= Cap(b)
      BY <3>1, PoppedPlaces DEF Names
    <3>4. timer'[queue'[b][1]] \in Nat /\ timer'[queue'[b][1]] <= Cap(b)
      BY <3>2, <3>3, Crowd DEF Moved
    <3>5. (n - 1) * Cap(b) \in Nat /\ n * Cap(b) = (n - 1) * Cap(b) + Cap(b)
      <4>1. ((n - 1) + 1) * Cap(b) = (n - 1) * Cap(b) + Cap(b) /\ (n - 1) * Cap(b) \in Nat
        BY <1>4, <3>1, Times
      <4>2. (n - 1) + 1 = n
        BY <1>1
      <4> HIDE DEF n
      <4> QED BY <4>1, <4>2
    <3>6. Ahead(c, i)' = timer'[queue'[b][1]] + (n - 1) * Cap(b)
      BY <1>2, <3>1 DEF Ahead, Cap
    <3> DEFINE p == (n - 1) * Cap(b)
               q == n * Cap(b)
    <3>7. p \in Nat /\ q = p + Cap(b) /\ Ahead(c, i)' = timer'[queue'[b][1]] + p
      BY <3>5, <3>6
    <3> HIDE DEF n, p, q
    <3>8. Ahead(c, i)' \in Nat /\ Ahead(c, i)' <= q
      <4>1. PICK x \in Nat, k \in Nat, r \in Nat :
              x = timer'[queue'[b][1]] /\ k = Cap(b) /\ r = p /\ x <= k
        BY <1>4, <3>4, <3>7
      <4>2. Ahead(c, i)' = x + r /\ q = r + k
        BY <3>7, <4>1
      <4>3. x + r <= r + k /\ x + r \in Nat
        BY <4>1
      <4> QED BY <4>2, <4>3
    <3> QED BY <3>8 DEF q
  <2> QED BY <2>1, <2>2
<1>7. ASSUME NEW w \in Nat, NEW v \in Nat, NEW a \in Nat, NEW p \in Nat, NEW q \in Nat,
             a <= p, p <= q, w + v + q <= limit
      PROVE  w + v + a <= limit
  BY <1>7
<1> DEFINE p == n * Cap(b)
           q == Turns(b)
<1>8. /\ Ahead(c, i)' \in Nat /\ p \in Nat /\ q \in Nat /\ Ahead(c, i)' <= p /\ p <= q
      /\ waited'[t] + timer'[t] + q <= limit
  BY <1>5, <1>6
<1> HIDE DEF n, p, q
<1> QED BY <1>7, <1>8

-----------------------------------------------------------------------------
(* The clients' steps                                                      *)

\* A task that waits takes part, and the head of its queue may go on.
LEMMA HeadIsFree ==
  ASSUME TypeOK, QueueInv, NEW t \in Tasks, NEW b \in Backends, Asking(t, b)
  PROVE  t \in present /\ Waiting(t) /\ ServedBy(stage[t]) = b /\ Free(t)
         /\ 1 \in 1..Len(queue[b]) /\ queue[b][1] = t
<1>1. 1 \in 1..Len(queue[b]) /\ queue[b][1] = t
  BY DEF TypeOK, Asking
<1>2. t \in present /\ Waiting(t) /\ ServedBy(stage[t]) = b
  BY <1>1 DEF QueueInv
<1> QED BY <1>1, <1>2 DEF Free

CrowdHere == TypeOK /\ Warmer \notin present /\ CrowdInv

\* A task asks a query that will return within its limit, if each of the others
\* is ahead of it with the longest there is.
LEMMA AskCrowd ==
  ASSUME CrowdHere, NEW t \in Tasks \cap present, Free(t), UNCHANGED present,
         NEW next \in {"okuri", "merge", "primary", "fallback"}, NEW budget \in Nat,
         budget <= Cap(ServedBy(next)), Ask(t, next, ServedBy(next), budget),
         waited' = waited, \A u \in Names \ {t} : started'[u] = started[u],
         next \in {"okuri", "merge"} => MaxVariations[t] > 0,
         started'[t] \in Nat, started'[t] <= waited[t], started'[t] <= OkuriPart(t),
         waited[t] + budget + Others * Cap(ServedBy(next))
           <= CASE next = "okuri" -> OkuriPart(t)
                [] next = "merge" -> OkuriPart(t) + LookupPart
                [] OTHER -> started'[t] + LookupPart
  PROVE  CrowdInv'
<1> DEFINE b == ServedBy(next)
<1>1. /\ TypeOK /\ Warmer \notin present /\ QueueInv /\ \A u \in Tasks : WaitInv(u)
      /\ b \in Backends /\ t \in Names
  BY DEF CrowdHere, CrowdInv, ServedBy, Backends, Names
<1>2. Moved(t)
  BY <1>1, AskMoved
<1>3. QueueInv'
  BY <1>1, AskQueue
<1>4. ASSUME NEW u \in Tasks \ {t}
      PROVE  WaitInv(u)'
  BY <1>1, <1>2, OthersWait
<1>5. /\ stage'[t] = next /\ timer'[t] = budget /\ waited'[t] = waited[t] /\ waited[t] \in Nat
      /\ \A c \in Backends \ {b} : queue'[c] = Pop(t)[c]
      /\ Len(queue'[b]) = Len(Pop(t)[b]) + 1
  <2>1. Ask(t, next, b, budget) /\ waited'[t] = waited[t] /\ waited[t] \in Nat
    BY <1>1, Crowd
  <2>2. /\ \A c \in Backends \ {b} : queue'[c] = Pop(t)[c]
        /\ Len(queue'[b]) = Len(Pop(t)[b]) + 1 /\ queue'[b][Len(Pop(t)[b]) + 1] = t
        /\ \A i \in 1..Len(Pop(t)[b]) : queue'[b][i] = Pop(t)[b][i]
        /\ stage'[t] = next /\ timer'[t] = budget
        /\ \A u \in Names \ {t} : stage'[u] = stage[u] /\ timer'[u] = timer[u]
    BY <1>1, <2>1, AskPlaces
  <2> QED BY <2>1, <2>2
<1>6. OkuriPart(t)' = OkuriPart(t) /\ LookupPart' = LookupPart
  BY DEF OkuriPart, LookupPart, Others
<1>7. /\ OkuriPart(t) \in Nat /\ LookupPart \in Nat
      /\ Limit(t)' = CASE next = "okuri" -> OkuriPart(t)
                       [] next = "merge" -> OkuriPart(t) + LookupPart
                       [] OTHER -> started'[t] + LookupPart
  BY <1>1, <1>5, <1>6, Parts DEF Limit
<1>8. Limit(t)' \in Nat
  BY <1>7
<1>9. waited'[t] + timer'[t] + Turns(b) <= Limit(t)'
  BY <1>5, <1>7 DEF Turns
<1> HIDE DEF b
<1>10. ASSUME NEW c \in Backends, NEW i \in 1..Len(queue'[c]), queue'[c][i] = t
       PROVE  waited'[t] + timer'[t] + Ahead(c, i)' <= Limit(t)'
  BY <1>1, <1>2, <1>5, <1>8, <1>9, <1>10, OwnWait
<1>11. WaitInv(t)'
  BY <1>1, <1>5, <1>6, <1>10 DEF WaitInv
<1> QED BY <1>3, <1>4, <1>11 DEF CrowdInv

LEMMA RestCrowd ==
  ASSUME CrowdHere, NEW t \in Tasks, Free(t), UNCHANGED present,
         \/ Rest(t, "done") /\ UNCHANGED waited
         \/ Rest(t, "idle") /\ waited' = [waited EXCEPT ![t] = 0]
  PROVE  CrowdInv'
<1>1. /\ TypeOK /\ Warmer \notin present /\ QueueInv /\ \A u \in Tasks : WaitInv(u) /\ t \in Names
  BY DEF CrowdHere, CrowdInv, Names
<1>2. \A u \in Names \ {t} : waited'[u] = waited[u]
  BY <1>1 DEF TypeOK
<1>3. Moved(t) /\ stage'[t] \in {"idle", "done"} /\ started'[t] = 0
      /\ (stage'[t] = "idle" => waited'[t] = 0)
      /\ waited'[t] \in {waited[t], 0} /\ waited[t] \in Nat
  BY <1>1, <1>2, RestMoved DEF TypeOK
<1>4. QueueInv'
  BY <1>1, RestQueue
<1>5. ASSUME NEW u \in Tasks \ {t}
      PROVE  WaitInv(u)'
  BY <1>1, <1>3, OthersWait
<1>6. /\ OkuriPart(t)' = OkuriPart(t) /\ LookupPart' = LookupPart
      /\ OkuriPart(t) \in Nat /\ LookupPart \in Nat
  BY <1>1, Parts DEF OkuriPart, LookupPart, Others
<1>7. ASSUME NEW c \in Backends, NEW i \in 1..Len(queue'[c])
      PROVE  queue'[c][i] # t
  BY <1>3, <1>4 DEF QueueInv, Waiting
<1>8. WaitInv(t)'
  BY <1>1, <1>3, <1>6, <1>7 DEF WaitInv
<1> QED BY <1>4, <1>5, <1>8 DEF CrowdInv

\* What is known of a task whose query returns, or that makes a request.
LEMMA Known ==
  ASSUME CrowdHere, NEW t \in Tasks
  PROVE  /\ TypeOK /\ Warmer \notin present /\ QueueInv /\ WaitInv(t) /\ t \in Names
         /\ waited[t] \in Nat /\ started[t] \in Nat /\ timer[t] \in Nat
         /\ Others \in Nat /\ LookupPart \in Nat /\ OkuriPart(t) \in Nat
         /\ Others * PrimaryCap \in Nat
         /\ LookupPart = Others * OverallDeadline + OverallDeadline
         /\ Others * PrimaryCap <= Others * OverallDeadline
         /\ Cap("primary") = PrimaryCap /\ Cap("fallback") = OverallDeadline
         /\ ServedBy("okuri") = "primary" /\ ServedBy("primary") = "primary"
         /\ ServedBy("merge") = "fallback" /\ ServedBy("fallback") = "fallback"
         /\ MaxVariations[t] > 0 => OkuriPart(t) = OkuriBudget + Others * PrimaryCap
<1>1. TypeOK /\ Warmer \notin present /\ QueueInv /\ WaitInv(t) /\ t \in Names
  BY DEF CrowdHere, CrowdInv, Names
<1> QED BY <1>1, Crowd, Parts DEF Cap, ServedBy, OkuriPart

\* Its wait so far is within its limit.
LEMMA Returned ==
  ASSUME CrowdHere, NEW t \in Tasks, NEW b \in Backends, Asking(t, b)
  PROVE  waited[t] <= Limit(t)
<1>1. 1 \in 1..Len(queue[b]) /\ queue[b][1] = t
  BY Known, HeadIsFree
<1>2. waited[t] + timer[t] + Ahead(b, 1) <= Limit(t) /\ Ahead(b, 1) = 0
  BY <1>1, Known DEF WaitInv, Ahead
<1>3. waited[t] \in Nat /\ timer[t] \in Nat /\ Limit(t) \in Nat
  BY Known, LimitType
<1> QED BY <1>2, <1>3

LEMMA AskPrimaryCrowd ==
  ASSUME CrowdHere, NEW t \in Tasks \cap present, Free(t), UNCHANGED present, AskPrimary(t),
         waited[t] <= OkuriPart(t)
  PROVE  CrowdInv'
<1> DEFINE budget == Least(PrimaryTimeout, PrimaryCap)
<1>1. budget \in Nat /\ budget <= PrimaryCap
  BY Durations DEF Least
<1>2. /\ Ask(t, "primary", ServedBy("primary"), budget) /\ waited' = waited
      /\ started' = [started EXCEPT ![t] = waited[t]]
  BY Known DEF AskPrimary
<1> HIDE DEF budget
<1>3. started'[t] = waited[t] /\ \A u \in Names \ {t} : started'[u] = started[u]
  BY <1>2, Known DEF TypeOK
<1>4. waited[t] + budget + Others * PrimaryCap <= started'[t] + LookupPart
  <2>1. PICK w \in Nat, x \in Nat, p \in Nat, q \in Nat, d \in Nat :
          /\ w = waited[t] /\ x = budget /\ p = Others * PrimaryCap
          /\ q = Others * OverallDeadline /\ d = OverallDeadline
    BY <1>1, Known, Durations, Times
  <2>2. x <= d /\ p <= q /\ LookupPart = q + d
    BY <1>1, <2>1, Known, Durations
  <2>3. w + x + p <= w + (q + d)
    BY <2>1, <2>2
  <2> QED BY <1>3, <2>1, <2>2, <2>3
<1>5. started'[t] \in Nat /\ started'[t] <= waited[t] /\ started'[t] <= OkuriPart(t)
  BY <1>3, Known
<1> QED BY <1>1, <1>2, <1>3, <1>4, <1>5, Known, AskCrowd

LEMMA AskVariationCrowd ==
  ASSUME CrowdHere, NEW t \in Tasks \cap present, Free(t), UNCHANGED <<present, waited, started>>,
         Ask(t, "okuri", "primary", OkuriBudgetLeft(waited[t])),
         waited[t] <= OkuriBudget, MaxVariations[t] > 0
  PROVE  CrowdInv'
<1> DEFINE budget == OkuriBudgetLeft(waited[t])
<1>1. budget \in Nat /\ budget <= PrimaryCap /\ waited[t] + budget <= OkuriBudget
  <2>1. budget \in Nat /\ waited[t] + budget <= OkuriBudget
    BY Known, OkuriBudgetLeftBound
  <2>2. budget <= OkuriCap /\ OkuriCap <= PrimaryCap
    BY Known, Durations, DeadlineAssumption
       DEF DeadlineAssumption, OkuriBudgetLeft, Least, Monus
  <2> HIDE DEF budget
  <2> QED BY <2>1, <2>2, Durations
<1>2. Ask(t, "okuri", ServedBy("okuri"), budget)
  BY Known
<1> HIDE DEF budget
<1>3. waited[t] + budget + Others * PrimaryCap <= OkuriPart(t)
  <2>1. PICK x \in Nat, p \in Nat, d \in Nat :
          x = waited[t] + budget /\ p = Others * PrimaryCap /\ d = OkuriBudget
    BY <1>1, Known, Durations
  <2>2. x <= d /\ OkuriPart(t) = d + p
    BY <1>1, <2>1, Known
  <2>3. x + p <= d + p
    BY <2>1, <2>2
  <2> QED BY <2>1, <2>2, <2>3
<1>4. started'[t] \in Nat /\ started'[t] <= waited[t] /\ started'[t] <= OkuriPart(t)
  BY Known DEF WaitInv
<1> QED BY <1>1, <1>2, <1>3, <1>4, Known, AskCrowd

LEMMA AskMergeCrowd ==
  ASSUME CrowdHere, NEW t \in Tasks \cap present, Free(t), UNCHANGED <<present, waited, started>>,
         Ask(t, "merge", "fallback", Least(FallbackTimeout, MergeCap)),
         waited[t] <= OkuriPart(t), MaxVariations[t] > 0
  PROVE  CrowdInv'
<1> DEFINE budget == Least(FallbackTimeout, MergeCap)
<1>1. budget \in Nat /\ budget <= OverallDeadline
  BY Durations, DeadlineAssumption DEF DeadlineAssumption, Least
<1>2. Ask(t, "merge", ServedBy("merge"), budget)
  BY Known
<1> HIDE DEF budget
<1>3. waited[t] + budget + Others * OverallDeadline <= OkuriPart(t) + LookupPart
  <2>1. PICK w \in Nat, o \in Nat, x \in Nat, q \in Nat, d \in Nat :
          /\ w = waited[t] /\ o = OkuriPart(t) /\ x = budget
          /\ q = Others * OverallDeadline /\ d = OverallDeadline
    BY <1>1, Known, Durations, Times
  <2>2. x <= d /\ w <= o /\ LookupPart = q + d
    BY <1>1, <2>1, Known
  <2>3. w + x + q <= o + (q + d)
    BY <2>1, <2>2
  <2> QED BY <2>1, <2>2, <2>3
<1>4. started'[t] \in Nat /\ started'[t] <= waited[t] /\ started'[t] <= OkuriPart(t)
  BY Known DEF WaitInv
<1> QED BY <1>1, <1>2, <1>3, <1>4, Known, AskCrowd

LEMMA AskFallbackCrowd ==
  ASSUME CrowdHere, NEW t \in Tasks \cap present, Free(t), UNCHANGED <<present, waited, started>>,
         Ask(t, "fallback", "fallback", FallbackBudget(t)), FallbackBudget(t) > 0
  PROVE  CrowdInv'
<1> DEFINE budget == FallbackBudget(t)
<1>1. /\ budget \in Nat /\ budget <= OverallDeadline
      /\ waited[t] + budget = started[t] + OverallDeadline
  <2>1. started[t] <= waited[t] /\ waited[t] \in Nat /\ started[t] \in Nat /\ OverallDeadline \in Nat
    BY Known, Durations DEF WaitInv
  <2>2. OverallDeadline > waited[t] - started[t]
    BY <2>1 DEF FallbackBudget, Monus
  <2>3. budget = OverallDeadline - (waited[t] - started[t])
    BY <2>2 DEF FallbackBudget, Monus
  <2> HIDE DEF budget
  <2> QED BY <2>1, <2>2, <2>3
<1>2. Ask(t, "fallback", ServedBy("fallback"), budget)
  BY Known
<1> HIDE DEF budget
<1>3. waited[t] + budget + Others * OverallDeadline <= started[t] + LookupPart
  <2>1. PICK v \in Nat, x \in Nat, q \in Nat, d \in Nat :
          /\ v = started[t] /\ x = waited[t] + budget
          /\ q = Others * OverallDeadline /\ d = OverallDeadline
    BY <1>1, Known, Durations, Times
  <2>2. x = v + d /\ LookupPart = q + d
    BY <1>1, <2>1, Known
  <2>3. x + q <= v + (q + d)
    BY <2>1, <2>2
  <2> QED BY <2>1, <2>2, <2>3
<1>4. started'[t] \in Nat /\ started'[t] <= waited[t] /\ started'[t] <= OkuriPart(t)
  BY Known DEF WaitInv
<1> QED BY <1>1, <1>2, <1>3, <1>4, Known, AskCrowd

LEMMA ClientCrowd ==
  ASSUME CrowdHere, NEW t \in Tasks, Request(t) \/ Step(t), UNCHANGED present
  PROVE  CrowdInv'
<1>1. CASE Request(t)
  <2>1. t \in Tasks \cap present /\ Free(t) /\ waited[t] = 0
    BY <1>1, Known DEF Request, Free, Waiting, WaitInv
  <2>2. CASE AskPrimary(t)
    BY <2>1, <2>2, Known, AskPrimaryCrowd
  <2>3. ASSUME NEW n \in 1..MaxVariations[t], Ask(t, "okuri", "primary", OkuriBudgetLeft(0)),
               UNCHANGED <<waited, started, stems>>
        PROVE  CrowdInv'
    <3>1. MaxVariations[t] \in Nat /\ MaxVariations[t] > 0 /\ waited[t] <= OkuriBudget
      BY <2>1, <2>3, Durations, DeadlineAssumption DEF DeadlineAssumption
    <3> QED BY <2>1, <2>3, <3>1, AskVariationCrowd
  <2> QED BY <1>1, <2>2, <2>3 DEF Request
<1>2. CASE Variation(t)
  <2>1. stage[t] = "okuri" /\ Asking(t, "primary") /\ "primary" \in Backends
    BY <1>2 DEF Variation, Backends
  <2>2. t \in Tasks \cap present /\ Free(t) /\ MaxVariations[t] > 0
    BY <2>1, Known, HeadIsFree DEF WaitInv
  <2>3. waited[t] <= OkuriPart(t)
    BY <2>1, Returned DEF Limit
  <2>4. CASE AskPrimary(t)
    BY <2>2, <2>3, <2>4, AskPrimaryCrowd
  <2>5. CASE Ask(t, "merge", "fallback", Least(FallbackTimeout, MergeCap))
             /\ UNCHANGED <<waited, started>>
    BY <2>2, <2>3, <2>5, AskMergeCrowd
  <2>6. CASE waited[t] < OkuriBudget /\ AskVariation(t, waited[t]) /\ UNCHANGED <<waited, started>>
    <3>1. waited[t] <= OkuriBudget
      BY <2>6, Known, Durations
    <3> QED BY <2>2, <2>6, <3>1, AskVariationCrowd DEF AskVariation
  <2> QED BY <1>2, <2>4, <2>5, <2>6 DEF Variation
<1>3. CASE Merge(t) \/ Fallback(t)
  <2>1. /\ Free(t)
        /\ Rest(t, "done") /\ UNCHANGED waited
    BY <1>3, Known, HeadIsFree DEF Merge, Fallback, Backends
  <2> QED BY <2>1, RestCrowd
<1>4. CASE Primary(t)
  <2>1. t \in Tasks \cap present /\ Free(t) /\ UNCHANGED waited
    BY <1>4, Known, HeadIsFree DEF Primary, Backends
  <2> QED BY <1>4, <2>1, RestCrowd, AskFallbackCrowd DEF Primary
<1>5. CASE Respond(t)
  BY <1>5, RestCrowd DEF Respond, Free, Waiting
<1> QED BY <1>1, <1>2, <1>3, <1>4, <1>5 DEF Step

-----------------------------------------------------------------------------
(* Time passes                                                             *)

LEMMA TickCrowd ==
  ASSUME CrowdHere, Tick
  PROVE  CrowdInv'
<1>1. /\ \A t \in Names, b \in Backends : Asking(t, b) => timer[t] > 0
      /\ timer' = [t \in Names |-> IF \E b \in Backends : Asking(t, b) THEN timer[t] - 1 ELSE timer[t]]
      /\ waited' = [t \in Names |-> IF t \in Tasks /\ Waiting(t) THEN waited[t] + 1 ELSE waited[t]]
      /\ UNCHANGED <<stage, queue, started, present>>
  BY DEF Tick
<1>2. TypeOK /\ Warmer \notin present /\ QueueInv /\ Tasks \subseteq Names
  BY DEF CrowdHere, CrowdInv, Names
\* The head's timer runs, and no other's in its queue.
<1>3. ASSUME NEW b \in Backends, NEW i \in 1..Len(queue[b])
      PROVE  LET u == queue[b][i]
             IN  /\ u \in Tasks /\ Waiting(u) /\ timer[u] \in Nat
                 /\ i = 1 => timer[u] > 0 /\ timer'[u] = timer[u] - 1
                 /\ i # 1 => timer'[u] = timer[u]
  <2> DEFINE u == queue[b][i]
  <2>1. u \in Tasks /\ Waiting(u) /\ ServedBy(stage[u]) = b /\ timer[u] \in Nat
    BY <1>2, Crowd DEF QueueInv
  <2>2. i = 1 => Asking(u, b)
    BY <1>2 DEF Asking, TypeOK
  <2>3. i # 1 => \A c \in Backends : ~Asking(u, c)
    <3> SUFFICES ASSUME NEW c \in Backends, Asking(u, c)
                 PROVE  i = 1
      OBVIOUS
    <3>1. c = b /\ queue[b][1] = u /\ 1 \in 1..Len(queue[b])
      BY <1>2, <2>1, HeadIsFree
    <3> QED BY <1>2, <3>1 DEF QueueInv
  <2> HIDE DEF u
  <2>4. i = 1 => timer[u] > 0 /\ timer'[u] = timer[u] - 1
    BY <1>1, <1>2, <2>1, <2>2
  <2>5. i # 1 => timer'[u] = timer[u]
    BY <1>1, <1>2, <2>1, <2>3
  <2> QED BY <2>1, <2>4, <2>5 DEF u
<1>4. QueueInv'
  <2>1. ASSUME NEW b \in Backends, NEW i \in 1..Len(queue[b])
        PROVE  timer'[queue[b][i]] <= Cap(b)
    <3>1. timer[queue[b][i]] <= Cap(b) /\ Cap(b) \in Nat /\ timer[queue[b][i]] \in Nat
      BY <1>2, <1>3, Crowd DEF QueueInv
    <3>2. timer'[queue[b][i]] \in {timer[queue[b][i]], timer[queue[b][i]] - 1}
      BY <1>3
    <3> QED BY <3>1, <3>2
  <2>2. ServedBy("okuri") \in Backends
    BY DEF ServedBy, Backends
  <2> QED BY <1>1, <1>2, <2>1 DEF QueueInv, Waiting
<1>5. ASSUME NEW t \in Tasks
      PROVE  WaitInv(t)'
  <2>1. /\ Limit(t)' = Limit(t) /\ OkuriPart(t)' = OkuriPart(t) /\ LookupPart' = LookupPart
        /\ stage'[t] = stage[t] /\ started'[t] = started[t]
    BY <1>1 DEF Limit, OkuriPart, LookupPart, Others
  <2>2. CASE ~Waiting(t)
    <3>1. waited'[t] = waited[t]
      BY <1>1, <1>2, <2>2
    <3>2. ASSUME NEW b \in Backends, NEW i \in 1..Len(queue[b])
          PROVE  queue[b][i] # t
      BY <1>2, <2>2 DEF QueueInv
    <3> QED BY <1>1, <2>1, <3>1, <3>2, Known DEF WaitInv
  <2>3. CASE Waiting(t)
    <3>1. waited'[t] = waited[t] + 1 /\ stage[t] # "idle"
      BY <1>1, <1>2, <2>3 DEF Waiting
    <3>2. ASSUME NEW b \in Backends, NEW i \in 1..Len(queue[b]), queue[b][i] = t
          PROVE  /\ waited'[t] + timer'[t] + Ahead(b, i)' <= Limit(t)
                 /\ waited'[t] <= Limit(t)
      <4>1. /\ waited[t] + timer[t] + Ahead(b, i) <= Limit(t) /\ i \in Nat
            /\ waited[t] \in Nat /\ timer[t] \in Nat /\ Limit(t) \in Nat
            /\ Len(queue[b]) \in Nat /\ Cap(b) \in Nat
        BY <1>2, <3>2, Known, Crowd, LimitType DEF WaitInv
      <4>2. CASE i = 1
        <5>1. timer[t] > 0 /\ timer'[t] = timer[t] - 1
          BY <1>3, <3>2, <4>2
        <5>2. Ahead(b, i) = 0 /\ Ahead(b, i)' = 0
          BY <4>2 DEF Ahead
        <5> QED BY <3>1, <4>1, <5>1, <5>2
      <4>3. CASE i # 1
        <5>1. 1 \in 1..Len(queue[b]) /\ i - 2 \in Nat
          BY <4>1, <4>3
        <5>2. /\ timer'[t] = timer[t]
              /\ timer[queue[b][1]] \in Nat /\ timer[queue[b][1]] > 0
              /\ timer'[queue[b][1]] = timer[queue[b][1]] - 1
          BY <1>3, <3>2, <4>3, <5>1
        <5>3. /\ Ahead(b, i) = timer[queue[b][1]] + (i - 2) * Cap(b)
              /\ Ahead(b, i)' = timer'[queue[b][1]] + (i - 2) * Cap(b)
              /\ (i - 2) * Cap(b) \in Nat
          BY <1>1, <4>1, <4>3, <5>1, Times DEF Ahead, Cap
        <5>4. PICK w \in Nat, x \in Nat, h \in Nat, k \in Nat, l \in Nat :
                /\ w = waited[t] /\ x = timer[t] /\ h = timer[queue[b][1]]
                /\ k = (i - 2) * Cap(b) /\ l = Limit(t)
          BY <4>1, <5>2, <5>3
        <5>5. w + x + (h + k) <= l /\ h > 0 /\ Ahead(b, i)' = (h - 1) + k
          BY <4>1, <5>2, <5>3, <5>4
        <5>6. (w + 1) + x + ((h - 1) + k) <= l
          BY <5>5
        <5>7. w + 1 <= l
          BY <5>5
        <5> QED BY <3>1, <5>2, <5>4, <5>5, <5>6, <5>7
      <4> QED BY <4>2, <4>3
    <3>3. waited'[t] <= Limit(t)
      <4>1. ServedBy(stage[t]) \in Backends
        BY DEF ServedBy, Backends
      <4>2. PICK i \in 1..Len(queue[ServedBy(stage[t])]) : queue[ServedBy(stage[t])][i] = t
        BY <1>2, <2>3 DEF QueueInv
      <4> QED BY <3>2, <4>1, <4>2
    <3>4. Limit(t) <= OkuriPart(t) + LookupPart /\ Limit(t) \in Nat
      <4>1. started[t] <= OkuriPart(t)
        BY Known DEF WaitInv
      <4> QED BY <4>1, Known, LimitType DEF Limit
    <3>5. waited'[t] <= OkuriPart(t) + LookupPart /\ started[t] <= waited'[t]
      BY <3>1, <3>3, <3>4, Known DEF WaitInv
    <3> QED BY <1>1, <2>1, <3>1, <3>2, <3>5, Known DEF WaitInv
  <2> QED BY <2>2, <2>3
<1> QED BY <1>4, <1>5 DEF CrowdInv

-----------------------------------------------------------------------------

LEMMA InitCrowd == Init /\ TypeOK => CrowdInv
<1> SUFFICES ASSUME Init, TypeOK, Warmer \notin present
             PROVE  QueueInv /\ \A t \in Tasks : WaitInv(t)
  BY DEF CrowdInv
<1>1. /\ stage = [t \in Names |-> "idle"] /\ queue = [b \in Backends |-> << >>]
      /\ waited = [t \in Names |-> 0] /\ started = [t \in Names |-> 0] /\ Tasks \subseteq Names
  BY DEF Init, Names
<1>2. \A b \in Backends : 1..Len(queue[b]) = {}
  BY <1>1
<1>3. QueueInv
  BY <1>1, <1>2 DEF QueueInv, Waiting
<1>4. ASSUME NEW t \in Tasks
      PROVE  WaitInv(t)
  BY <1>1, <1>2, Parts DEF WaitInv
<1> QED BY <1>3, <1>4

LEMMA NextCrowd == IInv /\ CrowdInv /\ [Next]_vars => CrowdInv'
<1> SUFFICES ASSUME IInv, CrowdInv, [Next]_vars, Warmer \notin present'
             PROVE  CrowdInv'
  BY DEF CrowdInv
<1>1. present' = present
  BY DEF Next, Tick, vars
<1>2. CrowdHere
  BY <1>1 DEF CrowdHere, IInv
<1>3. CASE Tick
  BY <1>2, <1>3, TickCrowd
<1>4. CASE WarmUp
  <2>1. Waiting(Warmer) /\ Warmer \in Names
    BY <1>4 DEF WarmUp, Waiting, Names
  <2>2. Asking(Warmer, "primary") /\ "primary" \in Backends
    BY <1>4 DEF WarmUp, Backends
  <2>3. 1 \in 1..Len(queue["primary"]) /\ queue["primary"][1] = Warmer
    BY <1>2, <2>2 DEF CrowdHere, TypeOK, Asking
  <2>4. Warmer \in Tasks
    BY <1>2, <2>2, <2>3 DEF CrowdHere, CrowdInv, QueueInv
  <2> QED BY <2>4, DeadlineAssumption DEF DeadlineAssumption
<1>5. ASSUME NEW t \in Tasks, Request(t) \/ Step(t), UNCHANGED present
      PROVE  CrowdInv'
  BY <1>2, <1>5, ClientCrowd
<1>6. CASE UNCHANGED vars
  BY <1>6 DEF vars, CrowdInv, QueueInv, WaitInv, Ahead, Limit, OkuriPart, LookupPart, Others, Waiting
<1> QED BY <1>3, <1>4, <1>5, <1>6 DEF Next

LEMMA CrowdInvariance == Spec => [](IInv /\ CrowdInv)
<1>1. Init => IInv /\ CrowdInv
  BY InitInv, InitCrowd DEF IInv
<1>2. IInv /\ CrowdInv /\ [Next]_vars => (IInv /\ CrowdInv)'
  BY NextInv, NextCrowd
<1> QED BY <1>1, <1>2, PTL DEF Spec

\* When the warm-up takes no part, no client waits longer for its answer than for
\* its own deadlines, one whole lookup of each other client and, if it has okuri,
\* one more query of each: for any number of clients and variations (handle_client,
\* lookup_with_fallback; the mutex in query_inner is outside its timeout).
THEOREM AnsweredAmongClients ==
  Spec => [](Warmer \notin present => AnsweredInTime)
<1>1. IInv /\ CrowdInv => (Warmer \notin present => AnsweredInTime)
  <2> SUFFICES ASSUME IInv, CrowdInv, Warmer \notin present, NEW t \in Tasks
               PROVE  waited[t] <= WorstCase(t)
    BY DEF AnsweredInTime
  <2>1. CrowdHere
    BY DEF CrowdHere, IInv, TypeOK
  <2>2. waited[t] <= OkuriPart(t) + LookupPart /\ OkuriPart(t) \in Nat /\ LookupPart \in Nat
    BY <2>1, Known DEF WaitInv
  <2>3. WorstCase(t) = LookupPart + OkuriPart(t)
    BY <2>1 DEF WorstCase, LookupPart, OkuriPart, Others, CrowdHere
  <2> QED BY <2>2, <2>3
<1> QED BY <1>1, CrowdInvariance, PTL

-----------------------------------------------------------------------------

\* Tasks, queues, timers and counts keep their types: no timer or count of what
\* is left to ask for goes below zero.
THEOREM TypeCorrect == Spec => []TypeOK
<1>1. IInv => TypeOK
  BY DEF IInv
<1> QED BY <1>1, Invariance, PTL

\* However many variations a midashi has, a lookup that meets nobody is past the
\* okuri-ari loop and its merge within the loop's budget and the merge's cap
\* (handle_client's max_total_okuri).
THEOREM OkuriLoopInTime == Spec => []OkuriInTime
<1>1. IInv => OkuriInTime
  <2> SUFFICES ASSUME IInv, NEW t \in Tasks, Alone(t), stage[t] = "merge"
               PROVE  waited[t] <= OkuriBudget + MergeCap
    BY DEF OkuriInTime
  <2>1. waited[t] + timer[t] <= OkuriBudget + MergeCap
    BY DEF IInv, AloneInv
  <2>2. waited[t] \in Nat /\ timer[t] \in Nat
    BY DEF IInv, TypeOK, Names
  <2> QED BY <2>1, <2>2, Durations
<1> QED BY <1>1, Invariance, PTL

\* A lookup that meets nobody keeps the overall deadline of lookup_with_fallback,
\* however the two backends share it out.
THEOREM DeadlineKept == Spec => []OverallDeadlineKept
<1>1. IInv => OverallDeadlineKept
  <2> SUFFICES ASSUME IInv, NEW t \in Tasks, Alone(t), stage[t] \in {"primary", "fallback"}
               PROVE  waited[t] - started[t] <= OverallDeadline
    BY DEF OverallDeadlineKept
  <2>1. (waited[t] - started[t]) + timer[t] <= OverallDeadline
    BY DEF IInv, AloneInv
  <2>2. waited[t] \in Nat /\ started[t] \in Nat /\ timer[t] \in Nat
    BY DEF IInv, TypeOK, Names
  <2> QED BY <2>1, <2>2, Durations
<1> QED BY <1>1, Invariance, PTL
=============================================================================
