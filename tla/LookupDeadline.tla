--------------------------- MODULE LookupDeadline ---------------------------
(***************************************************************************)
(* How long a client waits for the answer to a lookup: the okuri-ari loop  *)
(* of handle_client and lookup_with_fallback (src/proxy.rs), each query of *)
(* which goes through a Backend.  A backend is what QueryService promises  *)
(* and Backend.tla implements: a first-come first-served queue, of which   *)
(* only the head's timer runs, because query_inner takes the mutex outside *)
(* its timeout.                                                            *)
(*                                                                         *)
(* Time is discrete, in ticks.  Everything but a query's wait is instant;  *)
(* a query returns at any tick up to its timeout, and at its timeout does. *)
(***************************************************************************)
EXTENDS Naturals, Sequences, FiniteSets

CONSTANTS
  Tasks,            \* session tasks with a lookup under way
  MaxVariations,    \* bound: how many okuri variations the midashi each
                    \* task looks up may expand to
  Lineups,          \* bound: who may take part together; the warm-up task of
                    \* Proxy::run is over before long
  PrimaryTimeout,   \* --azookey-timeout-ms
  FallbackTimeout,  \* --yaskkserv2-timeout-ms
  OkuriBudget,      \* max_total_okuri, 600 ms
  OkuriCap,         \* 300 ms, for one variation
  MergeCap,         \* 200 ms, to merge the dictionary's candidates
  PrimaryCap,       \* 600 ms
  OverallDeadline,  \* 850 ms
  WarmupLookup,     \* 3 s
  WarmupCompletion, \* 500 ms
  WarmupChars,      \* how many completions the warm-up asks for
  ClientLimit       \* macSKK gives up after 1 s

Warmer == "warmup"
Names  == Tasks \cup {Warmer}

ASSUME DeadlineAssumption ==
  /\ Warmer \notin Tasks
  /\ MaxVariations \in [Tasks -> Nat]
  /\ Lineups \subseteq (SUBSET Names) \ {{}}
  /\ {PrimaryTimeout, FallbackTimeout, OkuriBudget, OkuriCap, MergeCap,
      PrimaryCap, OverallDeadline, WarmupLookup, WarmupCompletion, WarmupChars,
      ClientLimit} \subseteq Nat
  /\ OkuriCap <= PrimaryCap /\ PrimaryCap <= OverallDeadline /\ MergeCap <= OverallDeadline
  /\ \A l \in Lineups : IsFiniteSet(l)

VARIABLES
  stage,   \* which query each task is making, or "idle" / "done"
  queue,   \* per backend: the tasks inside query_with_timeout, holder first
  timer,   \* what is left of each task's timeout
  waited,  \* since the task's request was read
  started, \* waited, when the stage's own Instant was taken
  left,    \* variations (warm-up: characters) still to ask for
  stems,   \* the okuri loop has found a stem
  present  \* who takes part in this behaviour

vars == <<stage, queue, timer, waited, started, left, stems, present>>

Backends == {"primary", "fallback"}
Stages   == {"idle", "done", "okuri", "merge", "primary", "fallback", "warmup"}

Least(a, b) == IF a < b THEN a ELSE b
Monus(a, b) == IF a > b THEN a - b ELSE 0   \* saturating_sub

TypeOK ==
  /\ stage \in [Names -> Stages]
  /\ queue \in [Backends -> Seq(Names)]
  /\ timer \in [Names -> Nat]
  /\ waited \in [Names -> Nat]
  /\ started \in [Names -> Nat]
  /\ left \in [Names -> Nat]
  /\ stems \in [Names -> BOOLEAN]
  /\ present \in Lineups

Init ==
  /\ present \in Lineups
  /\ LET warming == Warmer \in present IN
     /\ stage = [t \in Names |-> IF t = Warmer /\ warming THEN "warmup" ELSE "idle"]
     /\ queue = [b \in Backends |-> IF b = "primary" /\ warming THEN <<Warmer>> ELSE << >>]
     /\ timer = [t \in Names |-> IF t = Warmer /\ warming THEN WarmupLookup ELSE 0]
     /\ left = [t \in Names |-> IF t = Warmer /\ warming THEN WarmupChars ELSE 0]
  /\ waited = [t \in Names |-> 0]
  /\ started = [t \in Names |-> 0]
  /\ stems = [t \in Names |-> FALSE]

\* The head of a queue holds the backend: its query is under way.
Asking(t, b) == queue[b] # << >> /\ t = Head(queue[b])

Waiting(t) == stage[t] \notin {"idle", "done"}

\* Mutant: a query may outlast its timeout.
Tick_Untimed ==
  /\ \E t \in Names : Waiting(t)
  /\ timer' = [t \in Names |-> IF \E b \in Backends : Asking(t, b) THEN timer[t] - 1 ELSE timer[t]]
  /\ waited' = [t \in Names |-> IF t \in Tasks /\ Waiting(t) THEN waited[t] + 1 ELSE waited[t]]
  /\ UNCHANGED <<stage, queue, started, left, stems, present>>

Tick ==
  /\ \E t \in Names : Waiting(t)
  /\ \A t \in Names, b \in Backends : Asking(t, b) => timer[t] > 0
  /\ timer' = [t \in Names |-> IF \E b \in Backends : Asking(t, b) THEN timer[t] - 1 ELSE timer[t]]
  /\ waited' = [t \in Names |-> IF t \in Tasks /\ Waiting(t) THEN waited[t] + 1 ELSE waited[t]]
  /\ UNCHANGED <<stage, queue, started, left, stems, present>>

-----------------------------------------------------------------------------
(* A task leaves the backend it asked, if any, for its next query          *)

Pop(t) == [b \in Backends |-> IF Asking(t, b) THEN Tail(queue[b]) ELSE queue[b]]

Ask(t, next, b, budget) ==
  /\ stage' = [stage EXCEPT ![t] = next]
  /\ queue' = [Pop(t) EXCEPT ![b] = Append(@, t)]
  /\ timer' = [timer EXCEPT ![t] = budget]

Rest(t, where) ==
  /\ stage' = [stage EXCEPT ![t] = where]
  /\ queue' = Pop(t)
  /\ timer' = [timer EXCEPT ![t] = 0]
  /\ started' = [started EXCEPT ![t] = 0]
  /\ left' = [left EXCEPT ![t] = 0]
  /\ stems' = [stems EXCEPT ![t] = FALSE]

\* Mutant: what earlier variations took is not taken off.
OkuriBudgetLeft_Ignored(spent) == Least(OkuriCap, PrimaryTimeout)

\* okuri_timeout, `spent` after start_okuri.
OkuriBudgetLeft(spent) ==
  Least(Least(PrimaryTimeout, OkuriCap), Monus(OkuriBudget, spent))

AskVariation(t, spent) ==
  /\ Ask(t, "okuri", "primary", OkuriBudgetLeft(spent))
  /\ left' = [left EXCEPT ![t] = @ - 1]

\* lookup_with_fallback takes an Instant of its own.
AskPrimary(t) ==
  /\ Ask(t, "primary", "primary", Least(PrimaryTimeout, PrimaryCap))
  /\ started' = [started EXCEPT ![t] = waited[t]]
  /\ left' = [left EXCEPT ![t] = 0]
  /\ UNCHANGED <<waited, stems>>

-----------------------------------------------------------------------------
(* The steps of a task                                                     *)

\* A completion, or a lookup whose midashi has no okuri or okuri_expansion
\* off, has no variations and goes straight to lookup_with_fallback.
Request(t) ==
  /\ t \in Tasks \cap present
  /\ stage[t] = "idle"
  /\ \/ AskPrimary(t)
     \/ \E n \in 1..MaxVariations[t] :
          /\ Ask(t, "okuri", "primary", OkuriBudgetLeft(0))
          /\ left' = [left EXCEPT ![t] = n - 1]
          /\ UNCHANGED <<waited, started, stems>>

\* The query of a variation returned.  `found`: it is a hit with a stem in it.
Variation(t) ==
  /\ stage[t] = "okuri"
  /\ Asking(t, "primary")
  /\ \E found \in BOOLEAN :
       LET some == stems[t] \/ found IN
       \/ /\ left[t] > 0 /\ waited[t] < OkuriBudget
          /\ AskVariation(t, waited[t])
          /\ stems' = [stems EXCEPT ![t] = some]
          /\ UNCHANGED <<waited, started>>
       \/ /\ left[t] = 0 \/ waited[t] >= OkuriBudget
          /\ some
          /\ Ask(t, "merge", "fallback", Least(FallbackTimeout, MergeCap))
          /\ left' = [left EXCEPT ![t] = 0]
          /\ stems' = [stems EXCEPT ![t] = TRUE]
          /\ UNCHANGED <<waited, started>>
       \/ /\ left[t] = 0 \/ waited[t] >= OkuriBudget
          /\ ~some
          /\ AskPrimary(t)

Merge(t) == /\ stage[t] = "merge"
            /\ Asking(t, "fallback")
            /\ Rest(t, "done")
            /\ UNCHANGED waited

\* Mutant: what the primary took is not taken off.
FallbackBudget_Whole(t) == OverallDeadline

\* overall_deadline.saturating_sub(start.elapsed())
FallbackBudget(t) == Monus(OverallDeadline, waited[t] - started[t])

\* A hit answers; a miss or an error goes on to the fallback, if time is left.
Primary(t) ==
  /\ stage[t] = "primary"
  /\ Asking(t, "primary")
  /\ \/ Rest(t, "done")
     \/ /\ FallbackBudget(t) > 0
        /\ Ask(t, "fallback", "fallback", FallbackBudget(t))
        /\ UNCHANGED <<started, left, stems>>
  /\ UNCHANGED waited

Fallback(t) == /\ stage[t] = "fallback"
               /\ Asking(t, "fallback")
               /\ Rest(t, "done")
               /\ UNCHANGED waited

\* The response is written and the session reads its next request.
Respond(t) == /\ stage[t] = "done"
              /\ Rest(t, "idle")
              /\ waited' = [waited EXCEPT ![t] = 0]

\* The warm-up: one lookup, then a completion for each character.
WarmUp ==
  /\ stage[Warmer] = "warmup"
  /\ Asking(Warmer, "primary")
  /\ \/ /\ left[Warmer] > 0
        /\ Ask(Warmer, "warmup", "primary", WarmupCompletion)
        /\ left' = [left EXCEPT ![Warmer] = @ - 1]
        /\ UNCHANGED <<waited, started, stems>>
     \/ /\ left[Warmer] = 0
        /\ Rest(Warmer, "idle")
        /\ UNCHANGED waited

-----------------------------------------------------------------------------

Step(t) == Variation(t) \/ Merge(t) \/ Primary(t) \/ Fallback(t) \/ Respond(t)

Next == \/ Tick
        \/ (WarmUp \/ \E t \in Tasks : Request(t) \/ Step(t)) /\ UNCHANGED present

Spec == Init /\ [][Next]_vars

-----------------------------------------------------------------------------

Alone(t) == present = {t}

\* A lookup that has the backends to itself takes its deadlines; each other
\* client may add a whole lookup of its own, and one more query for an
\* okuri-ari lookup; the warm-up, two queries.
WorstCase(t) ==
  LET others == Cardinality(present) - 1
      okuri  == MaxVariations[t] > 0
  IN IF Warmer \in present
     THEN WarmupLookup + OkuriCap + WarmupCompletion + PrimaryCap
     ELSE (1 + others) * OverallDeadline
          + (IF okuri THEN OkuriBudget + others * PrimaryCap ELSE 0)

\* No client waits longer for its answer than that: deadlines bound the wait
\* for a mutex only through those of the queries ahead (handle_client).
AnsweredInTime == \A t \in Tasks : waited[t] <= WorstCase(t)

\* An okuri-ari lookup that found a stem and met nobody is answered within the
\* budget of the loop and the cap of the merge, whatever the number of
\* variations (handle_client's max_total_okuri).
OkuriInTime ==
  \A t \in Tasks : Alone(t) /\ stage[t] = "merge" => waited[t] <= OkuriBudget + MergeCap

\* lookup_with_fallback, met by nobody, keeps its overall deadline of 850 ms
\* however the two queries share it out.
OverallDeadlineKept ==
  \A t \in Tasks : Alone(t) /\ stage[t] \in {"primary", "fallback"}
                  => waited[t] - started[t] <= OverallDeadline

\* proxy.rs: macSKK's limit of one second is never exceeded.
WithinClientLimit == \A t \in Tasks : waited[t] <= ClientLimit
=============================================================================
