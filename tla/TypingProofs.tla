----------------------------- MODULE TypingProofs ---------------------------
(***************************************************************************)
(* Proofs about TypingSession.tla, for any words, limits and length of a   *)
(* behaviour.                                                              *)
(*                                                                         *)
(* A typing user is a behaviour of Sessions, so what SessionsProofs proves *)
(* holds here too.  The invariant follows the word confirmed last: until   *)
(* the next word is begun it is pending, then it is the context, and       *)
(* nothing else is ever pending but the word being typed and its first     *)
(* character.                                                              *)
(***************************************************************************)
EXTENDS TypingSession, SessionsProofs, SequenceTheorems

InFlight  == pc[conn] \in {"stamped", "asking"}
Own       == InFlight /\ ~burst[conn]
Pending   == context.pending_context
InContext == context.session_context

\* What the user and macSKK are at.
TypistInv ==
  /\ phase = "rest" => pc[conn] \in {"closed", "ready"}
  /\ phase # "rest" => target \in Midashi
  /\ Own => \/ phase = "typing" /\ midashi[conn] = First(target)
            \/ phase = "converting" /\ midashi[conn] = target /\ now[conn] = spaced
  /\ phase = "converting" /\ InFlight => ~burst[conn]

\* Time runs forward.
TimeInv ==
  /\ InFlight => now[conn] <= clock
  /\ spaced <= clock
  /\ confirmed # None =>
       confirmed.time <= clock /\ (InFlight => confirmed.time <= now[conn])

\* Nothing waits unless contexts are ranked with.  A midashi names its word.
WordsInv ==
  /\ ~context_ranking => Pending = None /\ InContext = None
  /\ confirmed # None => confirmed.word \in everConfirmed
  /\ pc[conn] = "asking" => snapshot[conn] = InContext
  /\ Pending # None => Pending.word = Pending.midashi /\ Pending.word \in has_kanji

\* A longer word that waits, or is the context, got there by a Space.
GrownInv ==
  /\ phase = "converting" => [word |-> target, time |-> spaced] \in conversions
  /\ InContext # None /\ Len(InContext.word) > 1 => InContext \in conversions
  /\ Pending # None /\ Len(Pending.word) > 1
     => [word |-> Pending.word, time |-> Pending.time] \in conversions

\* The lookup of a word's first character has been stamped, and no more.
Begun == phase = "typing" /\ pc[conn] = "stamped" /\ ~burst[conn]

\* The first character's word waits, looked up once.
Started == /\ \/ phase = "typing" /\ ~Begun
              \/ phase = "converting" /\ pc[conn] = "stamped"
           /\ Pending.midashi = First(target) /\ Pending.hits = 1

Converted == phase = "converting" /\ Pending.midashi = target

\* Nothing else waits unconfirmed.
UnconfirmedInv ==
  ~abandoned =>
    /\ InContext # None => InContext.word \in everConfirmed
    /\ Pending # None => Pending.word \in everConfirmed \/ Started \/ Converted

\* What has been answered waits.
AnsweredInv ==
  context_ranking =>
    /\ phase = "converting" /\ ~InFlight /\ target \in has_kanji =>
         Pending # None /\ Pending.midashi = target /\ Pending.time = spaced
    /\ /\ \/ phase = "typing" /\ ~Own
          \/ phase = "converting" /\ target = First(target)
       /\ First(target) \in has_kanji
       => /\ Pending # None /\ Pending.midashi = First(target)
          /\ phase = "converting" /\ pc[conn] # "stamped" => Pending.hits = ManyHits

LastStamp == IF InFlight THEN now[conn] ELSE clock

\* The word confirmed last still waits to be promoted.
StillPending ==
  /\ Pending # None /\ Pending.word = confirmed.word /\ Pending.time >= confirmed.time
  /\ Len(Pending.word) = 1 => Pending.hits = ManyHits
  /\ \/ phase = "rest" \/ Begun
     \/ /\ Pending.midashi = First(target)
        /\ phase = "converting" /\ pc[conn] # "stamped" => target = First(target)

\* It is the context.
IsContext ==
  /\ InContext # None /\ InContext.word = confirmed.word /\ InContext.time >= confirmed.time
  /\ Pending = None \/ Started \/ Converted

ConfirmedInv ==
  /\ context_ranking /\ ~abandoned
  /\ confirmed # None /\ Since(LastStamp, confirmed.time) <= ContextTTL
  => StillPending \/ IsContext

UserInv == /\ TypingTypeOK /\ TypistInv /\ TimeInv /\ WordsInv /\ GrownInv
           /\ UnconfirmedInv /\ AnsweredInv /\ ConfirmedInv

TypingInv == IInv /\ UserInv

-----------------------------------------------------------------------------
(* Words and times                                                         *)

LEMMA Words ==
  ASSUME NEW m \in Midashi
  PROVE  /\ Len(m) \in Nat /\ Len(m) >= 1
         /\ First(m) \in Midashi /\ Len(First(m)) = 1
         /\ First(m) = m \/ is_input_extension(m, First(m))
         /\ Len(m) = 1 => First(m) = m
         /\ First(First(m)) = First(m)
<1>1. m \in Seq({m[i] : i \in DOMAIN m}) /\ m # << >> /\ First(m) \in Midashi
  BY TypingAssumption DEF TypingAssumption
<1>2. Len(m) \in Nat /\ Len(m) >= 1 /\ Len(First(m)) = 1
  BY <1>1 DEF First
<1>3. SubSeq(m, 1, 1) = First(m)
  <2> DEFINE S == {m[i] : i \in DOMAIN m}
  <2>1. m \in Seq(S) /\ m[1] \in S
    BY <1>1, <1>2
  <2> HIDE DEF S
  <2>2. <<m[1]>> \in Seq(S) /\ SubSeq(m, 1, 1) \in Seq(S)
    BY <1>2, <2>1
  <2>3. /\ Len(SubSeq(m, 1, 1)) = 1 /\ Len(<<m[1]>>) = 1
        /\ \A i \in 1..1 : SubSeq(m, 1, 1)[i] = <<m[1]>>[i]
    BY <1>2, <2>1
  <2>4. SubSeq(m, 1, 1) = <<m[1]>>
    BY <2>2, <2>3, SeqEqual
  <2> QED BY <2>4 DEF First
<1>4. Len(m) = 1 => First(m) = m
  BY <1>1 DEF First
<1>5. First(First(m)) = First(m)
  BY DEF First
<1> QED BY <1>1, <1>2, <1>3, <1>4, <1>5 DEF is_input_extension

\* A first character grows out of nothing.
LEMMA NotGrown ==
  ASSUME NEW m \in Midashi, NEW w \in Midashi
  PROVE  ~is_input_extension(First(m), w)
BY Words DEF is_input_extension

LEMMA SinceMonotone ==
  ASSUME NEW a \in 0..MaxClock, NEW b \in 0..MaxClock, NEW c \in 0..MaxClock
  PROVE  /\ a <= b => Since(a, c) <= Since(b, c) /\ Since(c, b) <= Since(c, a)
         /\ Since(a, b) \in Nat
BY TimeAssumption DEF TimeAssumption, Since

-----------------------------------------------------------------------------
(* Every step is a step of Sessions                                        *)

LEMMA StepIsNext == TypingInv /\ [TypingNext]_tvars => [Next]_vars
<1> SUFFICES ASSUME TypingInv, [TypingNext]_tvars
             PROVE  [Next]_vars
  OBVIOUS
<1>0. conn \in Conns
  BY TypingAssumption DEF TypingAssumption
<1>1. CASE Convert
  <2>1. target \in Midashi
    BY <1>1 DEF TypingInv, UserInv, TypistInv, Convert
  <2> QED BY <1>0, <1>1, <2>1 DEF Convert, Next, Client, Request
<1>2. ASSUME NEW m \in Midashi, Begin(m) \/ Scan(m)
      PROVE  Next
  <2>1. First(m) \in Midashi
    BY Words
  <2> QED BY <1>0, <1>2, <2>1 DEF Begin, Scan, Next, Client, Request
<1>3. CASE Serve
  <2>1. (IF midashi[conn] \in has_kanji THEN midashi[conn] ELSE None) \in KanjiWord \cup {None}
    BY TypingAssumption DEF TypingAssumption, TypingInv, UserInv, TypingTypeOK
  <2> QED BY <1>0, <1>3, <2>1 DEF Serve, Next, Client, Session
<1>4. CASE AskCompletions \/ Pass
  BY <1>0, <1>4 DEF AskCompletions, Pass, Next, Client, Request
<1>5. CASE Confirm \/ Abandon \/ UNCHANGED tvars
  BY <1>5 DEF Confirm, Abandon, tvars
<1> QED BY <1>1, <1>2, <1>3, <1>4, <1>5 DEF TypingNext

-----------------------------------------------------------------------------
(* The context                                                             *)

\* What is true of the state, one connection at a time.
LEMMA Facts ==
  ASSUME TypingInv
  PROVE  /\ conn \in Conns /\ KanjiWord = Midashi
         /\ context \in Contexts
         /\ Pending = None \/ Pending \in Waiting
         /\ InContext = None \/ InContext \in Stamped
         /\ None \notin Midashi /\ None \notin Stamped /\ None \notin Waiting
         /\ clock \in 0..MaxClock /\ now[conn] \in 0..MaxClock /\ spaced \in 0..MaxClock
         /\ confirmed = None \/ confirmed \in Stamped
         /\ burst[conn] \in BOOLEAN /\ context_ranking \in BOOLEAN
         /\ InFlight => midashi[conn] \in Midashi
         /\ DOMAIN pc = Conns /\ DOMAIN midashi = Conns /\ DOMAIN now = Conns
         /\ DOMAIN burst = Conns /\ DOMAIN snapshot = Conns
         /\ has_kanji \subseteq Midashi /\ ContextTTL \in Nat
BY TypingAssumption, TimeAssumption
   DEF TypingAssumption, TimeAssumption, TypingInv, UserInv, TypingTypeOK, IInv, TypeOK, AskedInv,
       Pending, InContext, InFlight, Contexts

Kept(word, t) == IF word # None /\ Since(t, word.time) > ContextTTL THEN None ELSE word

\* What a lookup that is not tracked makes of the context.
LEMMA Untracked ==
  ASSUME TypingInv, Start(conn), ~Tracked(conn)
  PROVE  Pending' = Pending /\ InContext' = Kept(InContext, now[conn])
BY Facts DEF Start, Contexts, Pending, InContext, current_context, Kept

\* The three ends of a pending word.
LEMMA TrackedStart ==
  ASSUME TypingInv, Start(conn), Tracked(conn), NEW m, m = midashi[conn]
  PROVE  /\ Pending = None =>
              Pending' = None /\ InContext' = Kept(InContext, now[conn])
         /\ Pending # None /\ Pending.midashi = m =>
              /\ Pending' # None /\ Pending'.midashi = m /\ Pending'.word = Pending.word
              /\ Pending'.time = Pending.time /\ Pending'.hits = ManyHits
              /\ InContext' = Kept(InContext, now[conn])
         /\ Pending # None /\ Pending.midashi # m /\ Discarded(Pending, m) =>
              Pending' = None /\ InContext' = Kept(InContext, now[conn])
         /\ Pending # None /\ Pending.midashi # m /\ ~Discarded(Pending, m) =>
              Pending' = None /\ InContext' = Promoted(Pending, now[conn])
<1> DEFINE t == now[conn]
           again == [context EXCEPT !.pending_context.hits = OneMore(@)]
           settled ==
             CASE Pending = None -> context
               [] Pending # None /\ Pending.midashi = m -> again
               [] Pending # None /\ Discarded(Pending, m) ->
                    [context EXCEPT !.pending_context = None]
               [] OTHER ->
                    [session_context |-> Promoted(Pending, t), pending_context |-> None]
<1>1. context' = current_context(settled, t)
  BY DEF Start, on_lookup_start, Pending
<1>2. /\ context = [session_context |-> InContext, pending_context |-> Pending]
      /\ None \notin Waiting
      /\ Pending = None \/ Pending \in Waiting
  BY Facts DEF Contexts, Pending, InContext
<1>3. ASSUME NEW s, NEW p
      PROVE  current_context([session_context |-> s, pending_context |-> p], t)
               = [session_context |-> Kept(s, t), pending_context |-> p]
  BY DEF current_context, Kept
<1>4. CASE Pending = None
  <2>1. settled = [session_context |-> InContext, pending_context |-> None]
    BY <1>2, <1>4
  <2> HIDE DEF settled
  <2>2. context' = [session_context |-> Kept(InContext, t), pending_context |-> None]
    BY <1>1, <1>3, <2>1
  <2> QED BY <1>4, <2>2 DEF Pending, InContext
<1>5. CASE Pending # None /\ Pending.midashi = m
  <2> DEFINE more == [Pending EXCEPT !.hits = OneMore(@)]
  <2>1. settled = [session_context |-> InContext, pending_context |-> more]
    <3>1. again = [session_context |-> InContext, pending_context |-> more]
      BY <1>2, Facts DEF Contexts, Pending, InContext
    <3>2. ~Discarded(Pending, m)
      BY <1>2, <1>5, Words, Facts DEF Discarded, is_input_extension, Waiting
    <3> HIDE DEF again
    <3> QED BY <1>5, <3>1, <3>2
  <2>2. /\ more.midashi = m /\ more.word = Pending.word /\ more.time = Pending.time
        /\ more.hits = ManyHits /\ more \in Waiting
    BY <1>2, <1>5 DEF Waiting, OneMore, ManyHits
  <2> HIDE DEF settled, more
  <2>3. context' = [session_context |-> Kept(InContext, t), pending_context |-> more]
    BY <1>1, <1>3, <2>1
  <2>4. Pending' = more /\ InContext' = Kept(InContext, t)
    BY <2>3 DEF Pending, InContext
  <2>5. /\ Pending' # None /\ Pending'.midashi = m /\ Pending'.word = Pending.word
        /\ Pending'.time = Pending.time /\ Pending'.hits = ManyHits
    BY <1>2, <2>2, <2>4
  <2> QED BY <1>5, <2>4, <2>5
<1>6. CASE Pending # None /\ Pending.midashi # m /\ Discarded(Pending, m)
  <2>1. settled = [session_context |-> InContext, pending_context |-> None]
    BY <1>2, <1>6
  <2> HIDE DEF settled
  <2>2. context' = [session_context |-> Kept(InContext, t), pending_context |-> None]
    BY <1>1, <1>3, <2>1
  <2> QED BY <1>6, <2>2 DEF Pending, InContext
<1>7. CASE Pending # None /\ Pending.midashi # m /\ ~Discarded(Pending, m)
  <2>1. settled = [session_context |-> Promoted(Pending, t), pending_context |-> None]
    BY <1>7
  <2>2. Kept(Promoted(Pending, t), t) = Promoted(Pending, t)
    <3>1. Pending.time \in 0..MaxClock /\ t \in 0..MaxClock /\ ContextTTL \in Nat
      BY <1>2, <1>7, Facts DEF Waiting
    <3>2. Since(t, Pending.time) \in Nat
      BY <3>1, SinceMonotone
    <3> HIDE DEF t
    <3> QED BY <3>1, <3>2 DEF Kept, Promoted
  <2> HIDE DEF settled
  <2> QED BY <1>1, <1>3, <1>7, <2>1, <2>2 DEF Pending, InContext
<1> QED BY <1>4, <1>5, <1>6, <1>7

\* The word of an answer is pending, looked up as often as before.
LEMMA TrackedAnswer ==
  ASSUME TypingInv, NEW top \in Midashi, Answer(conn, top), Tracked(conn)
  PROVE  /\ Pending' # None /\ Pending'.midashi = midashi[conn] /\ Pending'.word = top
         /\ Pending'.time = now[conn]
         /\ Pending'.hits = IF Pending # None /\ Pending.midashi = midashi[conn]
                            THEN Pending.hits ELSE 1
         /\ InContext' = InContext
<1> DEFINE hits == IF Pending # None /\ Pending.midashi = midashi[conn] THEN Pending.hits ELSE 1
           next == [midashi |-> midashi[conn], word |-> top, time |-> now[conn], hits |-> hits]
<1>1. context' = [context EXCEPT !.pending_context = next]
  BY Facts DEF Answer, on_lookup_result, Pending
<1>2. next \in Waiting
  <2>1. hits \in 1..ManyHits
    BY Facts DEF Waiting, ManyHits
  <2>2. InFlight
    BY DEF InFlight, Answer
  <2> HIDE DEF hits
  <2> QED BY <2>1, <2>2, Facts DEF Waiting
<1>3. Pending' = next /\ InContext' = InContext
  BY <1>1, Facts DEF Contexts, Pending, InContext
<1> QED BY <1>2, <1>3, Facts

\* A later lookup is further from a word; a later word is nearer to a lookup.
LEMMA StaysYoung ==
  ASSUME TypingInv, confirmed # None, NEW t \in 0..MaxClock, t >= LastStamp,
         Since(t, confirmed.time) <= ContextTTL
  PROVE  Since(LastStamp, confirmed.time) <= ContextTTL
<1>1. LastStamp \in 0..MaxClock /\ confirmed.time \in 0..MaxClock
  BY Facts DEF LastStamp, Stamped
<1> QED BY <1>1, SinceMonotone, Facts

LEMMA YoungerWord ==
  ASSUME TypingInv, confirmed # None, NEW t \in 0..MaxClock, NEW u \in 0..MaxClock,
         u >= confirmed.time, Since(t, confirmed.time) <= ContextTTL
  PROVE  Since(t, u) <= ContextTTL
<1>1. confirmed.time \in 0..MaxClock
  BY Facts DEF Stamped
<1> QED BY <1>1, SinceMonotone, Facts

-----------------------------------------------------------------------------
(* The steps                                                               *)

\* Steps that leave the context, the lookup and the user alone.
LEMMA QuietStep ==
  ASSUME TypingInv, TypeOK', UNCHANGED <<context, lookup, user>>, clock <= clock',
         pc'[conn] = pc[conn] \/ (~InFlight /\ ~InFlight'),
         phase = "rest" => pc'[conn] \in {"closed", "ready"}
  PROVE  UserInv'
<1>1. /\ Pending' = Pending /\ InContext' = InContext /\ InFlight' = InFlight /\ Own' = Own
      /\ UNCHANGED <<midashi, now, burst, snapshot, phase, target, spaced, has_kanji,
                     confirmed, everConfirmed, conversions, abandoned>>
      /\ (pc'[conn] = "stamped") = (pc[conn] = "stamped")
      /\ (pc'[conn] = "asking") = (pc[conn] = "asking")
  BY DEF Pending, InContext, InFlight, Own, lookup, user
<1>2. TypingTypeOK' /\ TypistInv' /\ WordsInv' /\ GrownInv'
  BY <1>1 DEF TypingInv, UserInv, TypingTypeOK, TypistInv, WordsInv, GrownInv
<1>3. Begun' = Begun /\ Started' = Started /\ Converted' = Converted
  BY <1>1 DEF Begun, Started, Converted
<1>4. /\ clock' \in 0..MaxClock /\ spaced \in Nat /\ clock \in Nat /\ now[conn] \in Nat
      /\ confirmed # None => confirmed.time \in Nat
  BY Facts DEF TypeOK, Stamped
<1>5. TimeInv'
  BY <1>1, <1>4 DEF TypingInv, UserInv, TimeInv
<1>6. UnconfirmedInv' /\ AnsweredInv'
  BY <1>1, <1>3 DEF TypingInv, UserInv, UnconfirmedInv, AnsweredInv
<1>7. LastStamp' \in 0..MaxClock /\ LastStamp' >= LastStamp
  BY <1>1, <1>4, Facts DEF LastStamp
<1>8. StillPending' = StillPending /\ IsContext' = IsContext
  BY <1>1, <1>3 DEF StillPending, IsContext
<1>9. ConfirmedInv'
  BY <1>1, <1>7, <1>8, StaysYoung DEF TypingInv, UserInv, ConfirmedInv
<1> QED BY <1>2, <1>5, <1>6, <1>9 DEF UserInv

\* What a key or a scan does to the lookup and the context.
LEMMA Stamping ==
  ASSUME TypingInv, NEW m \in Midashi, Stamp(conn, m)
  PROVE  /\ pc[conn] = "ready" /\ pc'[conn] = "stamped"
         /\ midashi'[conn] = m /\ now'[conn] = clock /\ burst'[conn] = IsBurst(conn)
         /\ clock' = clock /\ Pending' = Pending /\ InContext' = InContext
         /\ ~InFlight /\ InFlight' /\ Own' = ~IsBurst(conn) /\ LastStamp' = LastStamp
BY Facts DEF Stamp, Goto, Pending, InContext, InFlight, Own, LastStamp, IsBurst

LEMMA BeginStep ==
  ASSUME TypingInv, TypeOK', NEW m \in Midashi, Begin(m)
  PROVE  UserInv'
<1>1. First(m) \in Midashi /\ Stamp(conn, First(m))
  BY Words DEF Begin
<1>2. /\ phase = "rest" /\ phase' = "typing" /\ target' = m /\ Own'
      /\ UNCHANGED <<spaced, has_kanji, confirmed, everConfirmed, conversions, abandoned>>
  BY <1>1, Stamping DEF Begin
<1>3. TypingTypeOK' /\ TypistInv' /\ TimeInv'
  <2>1. TypingTypeOK'
    BY <1>1, <1>2, Facts DEF TypingInv, UserInv, TypingTypeOK
  <2>2. TypistInv'
    BY <1>1, <1>2, Stamping DEF TypingInv, UserInv, TypistInv
  <2>3. now'[conn] = clock /\ clock' = clock /\ clock \in Nat
    BY <1>1, Stamping, Facts
  <2>4. TimeInv'
    BY <1>2, <2>3 DEF TypingInv, UserInv, TimeInv
  <2> QED BY <2>1, <2>2, <2>4
<1>4. WordsInv' /\ GrownInv'
  BY <1>1, <1>2, Stamping DEF TypingInv, UserInv, WordsInv, GrownInv
<1>5. Begun' /\ ~Started /\ ~Converted /\ ~Begun
  BY <1>1, <1>2, Stamping DEF Begun, Started, Converted, Own
<1>6. UnconfirmedInv' /\ AnsweredInv'
  BY <1>1, <1>2, <1>5, Stamping DEF TypingInv, UserInv, UnconfirmedInv, AnsweredInv
<1>7. ConfirmedInv'
  BY <1>1, <1>2, <1>5, Stamping DEF TypingInv, UserInv, ConfirmedInv, StillPending, IsContext
<1> QED BY <1>3, <1>4, <1>6, <1>7 DEF UserInv

LEMMA ScanStep ==
  ASSUME TypingInv, TypeOK', NEW m \in Midashi, Scan(m)
  PROVE  UserInv'
<1>1. /\ Stamp(conn, m) /\ IsBurst(conn) /\ phase = "typing" /\ phase' = phase /\ target' = target
      /\ UNCHANGED <<spaced, has_kanji, confirmed, everConfirmed, conversions, abandoned>>
  BY DEF Scan, user
<1>2. ~Own /\ ~Own' /\ ~Begun /\ ~Begun'
  BY <1>1, Stamping DEF Own, Begun
<1>3. TypingTypeOK' /\ TypistInv' /\ TimeInv'
  <2>1. TypingTypeOK'
    BY <1>1, <1>2, Facts DEF TypingInv, UserInv, TypingTypeOK
  <2>2. TypistInv'
    BY <1>1, <1>2, Stamping DEF TypingInv, UserInv, TypistInv
  <2>3. now'[conn] = clock /\ clock' = clock
    BY <1>1, Stamping
  <2>4. clock \in Nat
    BY Facts
  <2>5. TimeInv'
    BY <1>1, <2>3, <2>4 DEF TypingInv, UserInv, TimeInv
  <2> QED BY <2>1, <2>2, <2>5
<1>4. WordsInv' /\ GrownInv'
  BY <1>1, Stamping DEF TypingInv, UserInv, WordsInv, GrownInv
<1>5. Started' = Started /\ Converted' = Converted
  BY <1>1, <1>2, Stamping DEF Started, Converted
<1>6. UnconfirmedInv' /\ AnsweredInv'
  BY <1>1, <1>2, <1>5, Stamping DEF TypingInv, UserInv, UnconfirmedInv, AnsweredInv
<1>7. ConfirmedInv'
  BY <1>1, <1>2, <1>5, Stamping DEF TypingInv, UserInv, ConfirmedInv, StillPending, IsContext
<1> QED BY <1>3, <1>4, <1>6, <1>7 DEF UserInv

LEMMA ConvertStep ==
  ASSUME TypingInv, TypeOK', Convert
  PROVE  UserInv'
<1>1. /\ Stamp(conn, target) /\ ~IsBurst(conn) /\ phase \in {"typing", "converting"}
      /\ phase' = "converting" /\ spaced' = clock /\ target' = target /\ target \in Midashi
      /\ conversions' = conversions \cup {[word |-> target, time |-> clock]}
      /\ UNCHANGED <<has_kanji, confirmed, everConfirmed, abandoned>>
  BY DEF Convert, TypingInv, UserInv, TypistInv
<1>2. ~Own /\ Own' /\ ~Begun /\ ~Begun' /\ First(target) \in Midashi
  BY <1>1, Stamping, Words DEF Own, Begun
<1>3. TypingTypeOK' /\ TypistInv' /\ TimeInv'
  <2>1. [word |-> target, time |-> clock] \in Stamped
    BY <1>1, Facts DEF Stamped
  <2>2. conversions' \subseteq Stamped
    BY <1>1, <2>1 DEF TypingInv, UserInv, TypingTypeOK
  <2> QED
    BY <1>1, <1>2, <2>2, Stamping, Facts
       DEF TypingInv, UserInv, TypingTypeOK, TypistInv, TimeInv, Own
<1>4. WordsInv' /\ GrownInv'
  BY <1>1, Stamping DEF TypingInv, UserInv, WordsInv, GrownInv
<1>5. (Started => Started') /\ (Converted => Converted')
  BY <1>1, <1>2, Stamping DEF Started, Converted
<1>6. UnconfirmedInv'
  BY <1>1, <1>2, <1>5, Stamping DEF TypingInv, UserInv, UnconfirmedInv
<1>7. AnsweredInv'
  BY <1>1, <1>2, Stamping DEF TypingInv, UserInv, AnsweredInv
<1>8. ConfirmedInv'
  BY <1>1, <1>2, <1>5, Stamping DEF TypingInv, UserInv, ConfirmedInv, StillPending, IsContext
<1> QED BY <1>3, <1>4, <1>6, <1>7, <1>8 DEF UserInv

\* The lookup starts: the context word is kept while it is young.
LEMMA Starting ==
  ASSUME TypingInv, Start(conn)
  PROVE  /\ pc[conn] = "stamped" /\ pc'[conn] = "asking"
         /\ UNCHANGED <<clock, midashi, now, burst>>
         /\ snapshot'[conn] = InContext'
         /\ InFlight /\ InFlight' /\ Own' = Own /\ LastStamp' = LastStamp /\ LastStamp = now[conn]
BY Facts DEF Start, Goto, InContext, InFlight, Own, LastStamp

LEMMA PromotedWord ==
  ASSUME TypingInv, Pending # None
  PROVE  LET promoted == Promoted(Pending, now[conn])
         IN  /\ Since(now[conn], Pending.time) <= ContextTTL => promoted # None
             /\ promoted # None => promoted.word = Pending.word /\ promoted.time = Pending.time
<1>1. [word |-> Pending.word, time |-> Pending.time] \in Stamped
  BY Facts DEF Waiting, Stamped
<1> QED BY <1>1, Facts DEF Promoted

LEMMA KeptWord ==
  ASSUME TypingInv, InFlight, confirmed # None, Since(LastStamp, confirmed.time) <= ContextTTL
  PROVE  /\ IsContext => Kept(InContext, now[conn]) = InContext
         /\ Pending # None /\ Pending.time >= confirmed.time
            => Promoted(Pending, now[conn]) # None
<1>1. LastStamp = now[conn] /\ now[conn] \in 0..MaxClock
  BY Facts DEF LastStamp
<1>2. /\ InContext # None => InContext.time \in 0..MaxClock
      /\ Pending # None => Pending.time \in 0..MaxClock
  BY Facts DEF Stamped, Waiting
<1>3. IsContext => Since(now[conn], InContext.time) <= ContextTTL
  BY <1>1, <1>2, YoungerWord DEF IsContext
<1>4. Pending # None /\ Pending.time >= confirmed.time => Since(now[conn], Pending.time) <= ContextTTL
  BY <1>1, <1>2, YoungerWord
<1>5. IsContext => ~(Since(now[conn], InContext.time) > ContextTTL)
  BY <1>1, <1>2, <1>3, SinceMonotone, Facts DEF IsContext
<1> QED BY <1>4, <1>5, PromotedWord DEF Kept, Promoted

\* Of a lookup that starts, the parts of the invariant that do not depend on
\* what becomes of the pending word.
LEMMA StartFrame ==
  ASSUME TypingInv, TypeOK', Start(conn), UNCHANGED user
  PROVE  TypingTypeOK' /\ TypistInv' /\ TimeInv' /\ GrownInv'
<1>1. UNCHANGED <<phase, target, spaced, has_kanji, confirmed, everConfirmed, conversions, abandoned>>
  BY DEF user
<1>2. TypingTypeOK'
  BY <1>1 DEF TypingInv, UserInv, TypingTypeOK
<1>3. TypistInv'
  BY <1>1, Starting DEF TypingInv, UserInv, TypistInv
<1>4. TimeInv'
  BY <1>1, Starting DEF TypingInv, UserInv, TimeInv
<1>5. /\ \/ InContext' \in {InContext, None}
         \/ Pending # None /\ InContext' = Promoted(Pending, now[conn])
      /\ Pending' # None => /\ Pending # None
                            /\ Pending'.word = Pending.word /\ Pending'.time = Pending.time
  <2>1. Kept(InContext, now[conn]) \in {InContext, None}
    BY DEF Kept
  <2>2. CASE ~Tracked(conn)
    BY <2>1, <2>2, Untracked
  <2>3. CASE Tracked(conn) /\ Pending = None
    BY <2>1, <2>3, TrackedStart
  <2>4. CASE Tracked(conn) /\ Pending # None /\ Pending.midashi = midashi[conn]
    BY <2>1, <2>4, TrackedStart
  <2>5. CASE Tracked(conn) /\ Pending # None /\ Pending.midashi # midashi[conn]
    <3>1. CASE Discarded(Pending, midashi[conn])
      BY <2>1, <2>5, <3>1, TrackedStart
    <3>2. CASE ~Discarded(Pending, midashi[conn])
      BY <2>5, <3>2, TrackedStart
    <3> QED BY <3>1, <3>2
  <2> QED BY <2>2, <2>3, <2>4, <2>5
<1>6. /\ phase = "converting" => [word |-> target, time |-> spaced] \in conversions
      /\ InContext # None /\ Len(InContext.word) > 1 => InContext \in conversions
      /\ Pending # None /\ Len(Pending.word) > 1
         => [word |-> Pending.word, time |-> Pending.time] \in conversions
  BY DEF TypingInv, UserInv, GrownInv
<1>7. InContext' # None /\ Len(InContext'.word) > 1 => InContext' \in conversions
  BY <1>5, <1>6 DEF Promoted
<1>8. GrownInv'
  BY <1>1, <1>5, <1>6, <1>7 DEF GrownInv
<1> QED BY <1>2, <1>3, <1>4, <1>8

LEMMA StartUntracked ==
  ASSUME TypingInv, TypeOK', Start(conn), UNCHANGED user, ~Tracked(conn)
  PROVE  UserInv'
<1>1. UNCHANGED <<phase, target, spaced, has_kanji, confirmed, everConfirmed, conversions, abandoned>>
  BY DEF user
<1>2. /\ Pending' = Pending /\ InContext' = Kept(InContext, now[conn])
      /\ InContext' = InContext \/ InContext' = None
  BY Untracked DEF Kept
<1>3. ~context_ranking \/ (phase = "typing" /\ burst[conn])
  BY Starting DEF Tracked, TypingInv, UserInv, TypingTypeOK, TypistInv
<1>4. WordsInv'
  BY <1>1, <1>2, Starting DEF TypingInv, UserInv, WordsInv
<1>5. CASE ~context_ranking
  <2>1. Pending = None /\ InContext = None
    BY <1>5 DEF TypingInv, UserInv, WordsInv
  <2>2. UnconfirmedInv' /\ AnsweredInv' /\ ConfirmedInv'
    BY <1>2, <1>5, <2>1 DEF UnconfirmedInv, AnsweredInv, ConfirmedInv
  <2> QED BY <1>4, <2>2, StartFrame DEF UserInv
<1>6. CASE phase = "typing" /\ burst[conn]
  <2>1. Started' = Started /\ ~Converted /\ ~Converted' /\ ~Begun /\ ~Begun' /\ ~Own /\ ~Own'
    BY <1>1, <1>2, <1>6, Starting DEF Started, Converted, Begun, Own
  <2>2. UnconfirmedInv' /\ AnsweredInv'
    BY <1>1, <1>2, <1>6, <2>1 DEF TypingInv, UserInv, UnconfirmedInv, AnsweredInv
  <2>3. ConfirmedInv'
    <3> SUFFICES ASSUME context_ranking, ~abandoned, confirmed # None,
                        Since(LastStamp, confirmed.time) <= ContextTTL
                 PROVE  StillPending' \/ IsContext'
      BY <1>1, Starting DEF ConfirmedInv
    <3>1. StillPending \/ IsContext
      BY DEF TypingInv, UserInv, ConfirmedInv
    <3>2. IsContext => InContext' = InContext
      BY <1>2, KeptWord, Starting
    <3> QED BY <1>1, <1>2, <1>6, <2>1, <3>1, <3>2 DEF StillPending, IsContext
  <2> QED BY <1>4, <2>2, <2>3, StartFrame DEF UserInv
<1> QED BY <1>3, <1>5, <1>6

\* A word has been begun, and its first character is looked up.
LEMMA StartBegun ==
  ASSUME TypingInv, TypeOK', Start(conn), UNCHANGED user, Tracked(conn), phase = "typing"
  PROVE  UserInv'
<1>1. UNCHANGED <<phase, target, spaced, has_kanji, confirmed, everConfirmed, conversions, abandoned>>
  BY DEF user
<1>2. /\ context_ranking /\ Own /\ Begun /\ ~Begun' /\ Own' /\ ~Started /\ ~Converted
      /\ target \in Midashi /\ midashi[conn] = First(target)
      /\ First(target) \in Midashi /\ Len(First(target)) = 1
  BY <1>1, Starting, Words
     DEF Tracked, Own, Begun, Started, Converted, TypingInv, UserInv, TypistInv
<1>3. Pending # None => ~Discarded(Pending, midashi[conn])
  <2>1. Pending # None => Pending.midashi \in Midashi
    BY Facts DEF Waiting
  <2> QED BY <1>2, <2>1, NotGrown DEF Discarded
<1>4. /\ Pending # None => /\ Pending.word = Pending.midashi /\ Pending.word \in has_kanji
                           /\ ~abandoned => Pending.word \in everConfirmed
      /\ InContext # None /\ ~abandoned => InContext.word \in everConfirmed
      /\ confirmed # None => confirmed.word \in everConfirmed
  BY <1>1, <1>2 DEF TypingInv, UserInv, WordsInv, UnconfirmedInv
<1>5. AnsweredInv'
  BY <1>1, <1>2 DEF AnsweredInv
<1>6. ASSUME context_ranking, ~abandoned, confirmed # None,
             Since(LastStamp, confirmed.time) <= ContextTTL
      PROVE  \/ /\ Pending # None /\ Pending.word = confirmed.word
                /\ Pending.time >= confirmed.time
                /\ Promoted(Pending, now[conn]) # None
             \/ Pending = None /\ IsContext /\ Kept(InContext, now[conn]) = InContext
  <2>1. StillPending \/ IsContext
    BY <1>6 DEF TypingInv, UserInv, ConfirmedInv
  <2> QED BY <1>2, <1>6, <2>1, KeptWord, Starting DEF StillPending, IsContext
<1>7. CASE Pending = None
  <2>1. Pending' = None /\ InContext' = Kept(InContext, now[conn])
    BY <1>7, TrackedStart
  <2>2. WordsInv' /\ UnconfirmedInv'
    BY <1>1, <1>2, <1>4, <2>1, Starting DEF WordsInv, UnconfirmedInv, Kept
  <2>3. ConfirmedInv'
    BY <1>1, <1>6, <1>7, <2>1, Starting DEF ConfirmedInv, IsContext
  <2> QED BY <1>5, <2>2, <2>3, StartFrame DEF UserInv
<1>8. CASE Pending # None /\ Pending.midashi = midashi[conn]
  <2>1. /\ Pending' # None /\ Pending'.midashi = midashi[conn] /\ Pending'.word = Pending.word
        /\ Pending'.time = Pending.time /\ Pending'.hits = ManyHits
        /\ InContext' = Kept(InContext, now[conn])
    BY <1>8, TrackedStart
  <2>2. WordsInv' /\ UnconfirmedInv'
    BY <1>1, <1>2, <1>4, <1>8, <2>1, Starting DEF WordsInv, UnconfirmedInv, Kept
  <2>3. ConfirmedInv'
    BY <1>1, <1>2, <1>6, <1>8, <2>1, Starting DEF ConfirmedInv, StillPending
  <2> QED BY <1>5, <2>2, <2>3, StartFrame DEF UserInv
<1>9. CASE Pending # None /\ Pending.midashi # midashi[conn]
  <2>1. Pending' = None /\ InContext' = Promoted(Pending, now[conn])
    BY <1>3, <1>9, TrackedStart
  <2>2. InContext' # None => abandoned \/ InContext'.word \in everConfirmed
    BY <1>4, <1>9, <2>1, PromotedWord
  <2>3. WordsInv' /\ UnconfirmedInv'
    BY <1>1, <1>2, <1>4, <2>1, <2>2, Starting DEF WordsInv, UnconfirmedInv
  <2>4. ConfirmedInv'
    BY <1>1, <1>6, <1>9, <2>1, Starting, PromotedWord DEF ConfirmedInv, IsContext
  <2> QED BY <1>5, <2>3, <2>4, StartFrame DEF UserInv
<1> QED BY <1>7, <1>8, <1>9

\* The word is converted.
LEMMA StartConverting ==
  ASSUME TypingInv, TypeOK', Start(conn), UNCHANGED user, Tracked(conn), phase = "converting"
  PROVE  UserInv'
<1>1. UNCHANGED <<phase, target, spaced, has_kanji, confirmed, everConfirmed, conversions, abandoned>>
  BY DEF user
<1>2. /\ context_ranking /\ Own /\ ~Begun /\ Own' /\ pc[conn] = "stamped" /\ pc'[conn] = "asking"
      /\ target \in Midashi /\ midashi[conn] = target
      /\ First(target) \in Midashi /\ Len(First(target)) = 1
      /\ First(target) = target \/ is_input_extension(target, First(target))
  BY <1>1, Starting, Words
     DEF Tracked, Own, Begun, TypingInv, UserInv, TypistInv
<1>3. /\ Pending # None => /\ Pending.word = Pending.midashi /\ Pending.word \in has_kanji
                           /\ ~abandoned => \/ Pending.word \in everConfirmed
                                            \/ Pending.midashi = First(target) /\ Pending.hits = 1
                                            \/ Pending.midashi = target
      /\ InContext # None /\ ~abandoned => InContext.word \in everConfirmed
      /\ confirmed # None => confirmed.word \in everConfirmed
      /\ target = First(target) /\ target \in has_kanji
         => Pending # None /\ Pending.midashi = target
  BY <1>1, <1>2 DEF TypingInv, UserInv, WordsInv, UnconfirmedInv, AnsweredInv, Started, Converted
<1>4. ASSUME context_ranking, ~abandoned, confirmed # None,
             Since(LastStamp, confirmed.time) <= ContextTTL
      PROVE  \/ /\ Pending # None /\ Pending.word = confirmed.word
                /\ Pending.time >= confirmed.time
                /\ Promoted(Pending, now[conn]) # None
                /\ Pending.midashi = First(target) /\ Pending.hits = ManyHits
             \/ /\ IsContext /\ Kept(InContext, now[conn]) = InContext
                /\ \/ Pending = None
                   \/ Pending.midashi = First(target) /\ Pending.hits = 1
                   \/ Pending.midashi = target
  <2>1. StillPending \/ IsContext
    BY <1>4 DEF TypingInv, UserInv, ConfirmedInv
  <2>2. CASE StillPending
    BY <1>2, <1>3, <1>4, <2>2, KeptWord, Starting DEF StillPending, Begun
  <2>3. CASE IsContext
    BY <1>2, <1>4, <2>3, KeptWord, Starting DEF IsContext, Started, Converted
  <2> QED BY <2>1, <2>2, <2>3
<1>5. CASE Pending = None
  <2>1. Pending' = None /\ InContext' = Kept(InContext, now[conn])
    BY <1>5, TrackedStart
  <2>2. WordsInv' /\ UnconfirmedInv'
    BY <1>1, <1>2, <1>3, <2>1, Starting DEF WordsInv, UnconfirmedInv, Kept
  <2>3. AnsweredInv'
    BY <1>1, <1>2, <1>3, <1>5, Starting DEF AnsweredInv, Own
  <2>4. ConfirmedInv'
    BY <1>1, <1>4, <1>5, <2>1, Starting DEF ConfirmedInv, IsContext
  <2> QED BY <2>2, <2>3, <2>4, StartFrame DEF UserInv
<1>6. CASE Pending # None /\ Pending.midashi = midashi[conn]
  <2>1. /\ Pending' # None /\ Pending'.midashi = target /\ Pending'.word = Pending.word
        /\ Pending'.time = Pending.time /\ Pending'.hits = ManyHits
        /\ InContext' = Kept(InContext, now[conn])
    BY <1>2, <1>6, TrackedStart
  <2>2. Converted'
    BY <1>1, <2>1 DEF Converted
  <2>3. WordsInv' /\ UnconfirmedInv'
    BY <1>1, <1>2, <1>3, <1>6, <2>1, <2>2, Starting DEF WordsInv, UnconfirmedInv, Kept
  <2>4. AnsweredInv'
    BY <1>1, <1>2, <1>3, <1>6, <2>1, Starting DEF AnsweredInv, Own
  <2>5. ConfirmedInv'
    BY <1>1, <1>2, <1>4, <1>6, <2>1, <2>2, Starting DEF ConfirmedInv, IsContext, StillPending
  <2> QED BY <2>3, <2>4, <2>5, StartFrame DEF UserInv
<1>7. CASE Pending # None /\ Pending.midashi # midashi[conn] /\ Discarded(Pending, midashi[conn])
  <2>1. Pending' = None /\ InContext' = Kept(InContext, now[conn])
    BY <1>7, TrackedStart
  <2>2. WordsInv' /\ UnconfirmedInv'
    BY <1>1, <1>2, <1>3, <2>1, Starting DEF WordsInv, UnconfirmedInv, Kept
  <2>3. AnsweredInv'
    BY <1>1, <1>2, <1>3, <1>7, Starting DEF AnsweredInv, Own
  <2>4. Pending.hits # ManyHits
    BY <1>7 DEF Discarded, ManyHits
  <2>5. ConfirmedInv'
    BY <1>1, <1>4, <2>1, <2>4, Starting DEF ConfirmedInv, IsContext
  <2> QED BY <2>2, <2>3, <2>5, StartFrame DEF UserInv
<1>8. CASE Pending # None /\ Pending.midashi # midashi[conn] /\ ~Discarded(Pending, midashi[conn])
  <2>1. Pending' = None /\ InContext' = Promoted(Pending, now[conn])
    BY <1>8, TrackedStart
  <2>2. Pending.midashi # target /\ ~(Pending.midashi = First(target) /\ Pending.hits = 1)
    BY <1>2, <1>8 DEF Discarded, ManyHits
  <2>3. InContext' # None => abandoned \/ InContext'.word \in everConfirmed
    BY <1>3, <1>8, <2>1, <2>2, PromotedWord
  <2>4. WordsInv' /\ UnconfirmedInv'
    BY <1>1, <1>2, <1>3, <1>8, <2>1, <2>2, <2>3, Starting DEF WordsInv, UnconfirmedInv
  <2>5. AnsweredInv'
    BY <1>1, <1>2, <1>3, <1>8, Starting DEF AnsweredInv, Own
  <2>6. ConfirmedInv'
    BY <1>1, <1>4, <1>8, <2>1, <2>2, Starting, PromotedWord DEF ConfirmedInv, IsContext
  <2> QED BY <2>4, <2>5, <2>6, StartFrame DEF UserInv
<1> QED BY <1>5, <1>6, <1>7, <1>8

\* The lookup is answered.
LEMMA Answering ==
  ASSUME TypingInv, NEW top, Answer(conn, top)
  PROVE  /\ pc[conn] = "asking" /\ pc'[conn] = "writing" /\ clock' = clock
         /\ InFlight /\ ~InFlight' /\ ~Own' /\ ~Begun /\ ~Begun'
         /\ LastStamp = now[conn] /\ LastStamp' = clock /\ now[conn] <= clock
BY Facts DEF Answer, Goto, InFlight, Own, Begun, LastStamp, TypingInv, UserInv, TimeInv

LEMMA AnswerFrame ==
  ASSUME TypingInv, TypeOK', NEW top, Answer(conn, top), UNCHANGED user
  PROVE  /\ TypingTypeOK' /\ TypistInv' /\ TimeInv'
         /\ confirmed # None /\ Since(clock, confirmed.time) <= ContextTTL
            => Since(now[conn], confirmed.time) <= ContextTTL
<1>1. UNCHANGED <<phase, target, spaced, has_kanji, confirmed, everConfirmed, conversions, abandoned>>
  BY DEF user
<1>2. TypingTypeOK'
  BY <1>1 DEF TypingInv, UserInv, TypingTypeOK
<1>3. TypistInv'
  BY <1>1, Answering DEF TypingInv, UserInv, TypistInv
<1>4. TimeInv'
  BY <1>1, Answering DEF TypingInv, UserInv, TimeInv
<1>5. ASSUME confirmed # None, Since(clock, confirmed.time) <= ContextTTL
      PROVE  Since(now[conn], confirmed.time) <= ContextTTL
  BY <1>5, Answering, Facts, StaysYoung
<1> QED BY <1>2, <1>3, <1>4, <1>5

LEMMA AnswerUntracked ==
  ASSUME TypingInv, TypeOK', NEW top, Answer(conn, top), UNCHANGED user,
         top = (IF midashi[conn] \in has_kanji THEN midashi[conn] ELSE None),
         ~Tracked(conn) \/ top = None
  PROVE  UserInv'
<1>1. UNCHANGED <<phase, target, spaced, has_kanji, confirmed, everConfirmed, conversions, abandoned>>
  BY DEF user
<1>2. Pending' = Pending /\ InContext' = InContext
  BY DEF Answer, Pending, InContext
<1>3. WordsInv' /\ GrownInv'
  BY <1>1, <1>2, Answering DEF TypingInv, UserInv, WordsInv, GrownInv
<1>4. Started' = Started /\ Converted' = Converted
  BY <1>1, <1>2, Answering DEF Started, Converted
<1>5. UnconfirmedInv'
  BY <1>1, <1>2, <1>4 DEF TypingInv, UserInv, UnconfirmedInv
<1>6. ConfirmedInv'
  BY <1>1, <1>2, <1>4, Answering, AnswerFrame
     DEF TypingInv, UserInv, ConfirmedInv, StillPending, IsContext
<1>7. AnsweredInv'
  <2> SUFFICES ASSUME context_ranking PROVE AnsweredInv'
    BY DEF AnsweredInv
  <2>1. CASE Own
    <3>1. midashi[conn] \notin has_kanji
      <4>1. top = None
        BY <2>1 DEF Tracked, Own
      <4>2. midashi[conn] \in Midashi /\ None \notin Midashi
        BY Answering, Facts
      <4> QED BY <4>1, <4>2
    <3>2. \/ phase = "typing" /\ midashi[conn] = First(target)
          \/ phase = "converting" /\ midashi[conn] = target
      BY <2>1 DEF TypingInv, UserInv, TypistInv
    <3> QED BY <1>1, <3>1, <3>2 DEF AnsweredInv
  <2>2. CASE ~Own
    <3>1. phase = "typing"
      BY <2>2, Answering DEF Own, TypingInv, UserInv, TypingTypeOK, TypistInv
    <3> QED BY <1>1, <1>2, <2>2, <3>1 DEF TypingInv, UserInv, AnsweredInv
  <2> QED BY <2>1, <2>2
<1> QED BY <1>3, <1>5, <1>6, <1>7, AnswerFrame DEF UserInv

LEMMA AnswerTracked ==
  ASSUME TypingInv, TypeOK', Answer(conn, midashi[conn]), UNCHANGED user, Tracked(conn),
         midashi[conn] \in has_kanji
  PROVE  UserInv'
<1>1. UNCHANGED <<phase, target, spaced, has_kanji, confirmed, everConfirmed, conversions, abandoned>>
  BY DEF user
<1>2. /\ Own /\ context_ranking /\ target \in Midashi
      /\ \/ phase = "typing" /\ midashi[conn] = First(target)
         \/ phase = "converting" /\ midashi[conn] = target /\ now[conn] = spaced
  BY Answering DEF Tracked, Own, TypingInv, UserInv, TypistInv
<1>3. midashi[conn] \in Midashi /\ Len(First(target)) = 1
  BY <1>2, Answering, Facts, Words
<1>4. /\ Pending' # None /\ Pending'.midashi = midashi[conn] /\ Pending'.word = midashi[conn]
      /\ Pending'.time = now[conn] /\ InContext' = InContext
      /\ Pending'.hits = IF Pending # None /\ Pending.midashi = midashi[conn]
                         THEN Pending.hits ELSE 1
  BY <1>3, TrackedAnswer
<1>5. WordsInv'
  BY <1>1, <1>2, <1>3, <1>4, Answering DEF TypingInv, UserInv, WordsInv
<1>10. GrownInv'
  <2>1. /\ phase = "converting" => [word |-> target, time |-> spaced] \in conversions
        /\ InContext # None /\ Len(InContext.word) > 1 => InContext \in conversions
    BY DEF TypingInv, UserInv, GrownInv
  <2>2. Len(midashi[conn]) > 1 => phase = "converting"
    <3>1. Len(midashi[conn]) = 1 => ~(Len(midashi[conn]) > 1)
      OBVIOUS
    <3> QED BY <1>2, <1>3, <3>1
  <2>3. phase = "converting" =>
          [word |-> Pending'.word, time |-> Pending'.time] = [word |-> target, time |-> spaced]
    BY <1>2, <1>3, <1>4
  <2> QED BY <1>1, <1>4, <2>1, <2>2, <2>3 DEF GrownInv
<1>6. Pending # None => Pending.hits \in {1, ManyHits}
  BY Facts DEF Waiting, ManyHits
<1>7. UnconfirmedInv'
  <2>1. CASE phase = "typing"
    <3>1. Pending'.hits = 1 => Started'
      BY <1>1, <1>2, <1>4, <2>1, Answering DEF Started
    <3>2. Pending'.hits # 1 /\ ~abandoned => Pending'.word \in everConfirmed
      BY <1>2, <1>4, <2>1
         DEF TypingInv, UserInv, UnconfirmedInv, WordsInv, Started, Converted
    <3> QED BY <1>1, <1>4, <3>1, <3>2 DEF TypingInv, UserInv, UnconfirmedInv
  <2>2. CASE phase = "converting"
    <3>1. Converted'
      BY <1>1, <1>2, <1>4, <2>2 DEF Converted
    <3> QED BY <1>1, <1>4, <3>1 DEF TypingInv, UserInv, UnconfirmedInv
  <2> QED BY <1>2, <2>1, <2>2
<1>8. AnsweredInv'
  BY <1>1, <1>2, <1>4, Answering DEF TypingInv, UserInv, AnsweredInv, Own
<1>9. ConfirmedInv'
  <2> SUFFICES ASSUME ~abandoned, confirmed # None, Since(clock, confirmed.time) <= ContextTTL
               PROVE  StillPending' \/ IsContext'
    BY <1>1, <1>2, Answering DEF ConfirmedInv
  <2>1. StillPending \/ IsContext
    BY <1>2, Answering, AnswerFrame DEF TypingInv, UserInv, ConfirmedInv
  <2>2. confirmed.time <= now[conn] /\ (Pending # None => Pending.word = Pending.midashi)
    BY Answering DEF TypingInv, UserInv, TimeInv, WordsInv
  <2>3. CASE phase = "typing"
    <3>1. CASE StillPending
      BY <1>1, <1>2, <1>3, <1>4, <2>2, <2>3, <3>1, Answering DEF StillPending
    <3>2. CASE IsContext
      <4>1. Pending'.hits = 1
        BY <1>2, <1>4, <2>3, <3>2 DEF IsContext, Started, Converted
      <4>2. Started'
        BY <1>1, <1>2, <1>4, <2>3, <4>1, Answering DEF Started
      <4> QED BY <1>1, <1>4, <3>2, <4>2 DEF IsContext
    <3> QED BY <2>1, <3>1, <3>2
  <2>4. CASE phase = "converting"
    <3>1. CASE StillPending
      BY <1>1, <1>2, <1>3, <1>4, <2>2, <2>4, <3>1, Answering DEF StillPending
    <3>2. CASE IsContext
      BY <1>1, <1>2, <1>4, <2>4, <3>2 DEF IsContext, Converted
    <3> QED BY <2>1, <3>1, <3>2
  <2> QED BY <1>2, <2>3, <2>4
<1> QED BY <1>5, <1>7, <1>8, <1>9, <1>10, AnswerFrame DEF UserInv

\* The word on the screen is taken.
LEMMA ConfirmStep ==
  ASSUME TypingInv, TypeOK', Confirm
  PROVE  UserInv'
<1>1. /\ phase = "converting" /\ phase' = "rest" /\ pc[conn] = "ready" /\ pc' = pc
      /\ UNCHANGED <<vars, target, spaced, has_kanji, conversions, abandoned>>
      /\ Pending' = Pending /\ InContext' = InContext /\ ~InFlight /\ ~InFlight' /\ ~Own'
      /\ clock' = clock /\ LastStamp' = clock /\ LastStamp = clock
  BY DEF Confirm, vars, Pending, InContext, InFlight, Own, LastStamp
<1>2. /\ target \in Midashi /\ ~Begun /\ ~Started
      /\ Pending # None => Pending.word = Pending.midashi /\ Pending.word \in has_kanji
      /\ Len(target) = 1 => First(target) = target
  BY <1>1, Words DEF Begun, Started, TypingInv, UserInv, TypistInv, WordsInv
<1>3. TypistInv' /\ AnsweredInv' /\ GrownInv'
  BY <1>1 DEF TypistInv, AnsweredInv, GrownInv, TypingInv, UserInv
<1>4. CASE target \in has_kanji
  <2>1. /\ confirmed' = [word |-> target, time |-> spaced]
        /\ everConfirmed' = everConfirmed \cup {target}
    BY <1>4 DEF Confirm
  <2>2. confirmed' \in Stamped /\ confirmed' # None
    BY <1>2, <2>1, Facts DEF Stamped
  <2>3. TypingTypeOK'
    BY <1>1, <1>4, <2>1, <2>2 DEF TypingInv, UserInv, TypingTypeOK
  <2>4. TimeInv'
    BY <1>1, <2>1 DEF TypingInv, UserInv, TimeInv
  <2>5. WordsInv' /\ UnconfirmedInv'
    BY <1>1, <1>2, <2>1 DEF TypingInv, UserInv, WordsInv, UnconfirmedInv, Converted, vars
  <2>6. context_ranking =>
          /\ Pending # None /\ Pending.midashi = target /\ Pending.time = spaced
          /\ target = First(target) => Pending.hits = ManyHits
    BY <1>1, <1>4 DEF TypingInv, UserInv, AnsweredInv
  <2>7. spaced \in Nat
    BY Facts
  <2>8. context_ranking => StillPending'
    BY <1>1, <1>2, <2>1, <2>6, <2>7 DEF StillPending
  <2> QED BY <1>3, <2>3, <2>4, <2>5, <2>8 DEF UserInv, ConfirmedInv
<1>5. CASE target \notin has_kanji
  <2>1. UNCHANGED <<confirmed, everConfirmed>>
    BY <1>5 DEF Confirm
  <2>2. ~Converted \/ Pending = None
    BY <1>2, <1>5 DEF Converted
  <2>3. TypingTypeOK' /\ TimeInv'
    BY <1>1, <2>1 DEF TypingInv, UserInv, TypingTypeOK, TimeInv
  <2>4. WordsInv' /\ UnconfirmedInv'
    BY <1>1, <1>2, <2>1, <2>2 DEF TypingInv, UserInv, WordsInv, UnconfirmedInv, Converted, vars
  <2>5. ConfirmedInv'
    BY <1>1, <1>2, <2>1, <2>2 DEF TypingInv, UserInv, ConfirmedInv, StillPending, IsContext
  <2> QED BY <1>3, <2>3, <2>4, <2>5 DEF UserInv
<1> QED BY <1>4, <1>5

LEMMA AbandonStep ==
  ASSUME TypingInv, TypeOK', Abandon
  PROVE  UserInv'
<1>1. /\ phase # "rest" /\ phase' = "rest" /\ pc[conn] = "ready" /\ pc' = pc /\ abandoned'
      /\ UNCHANGED <<vars, target, spaced, has_kanji, confirmed, everConfirmed, conversions>>
      /\ Pending' = Pending /\ InContext' = InContext /\ ~InFlight /\ ~InFlight' /\ ~Own'
      /\ abandoned' \in BOOLEAN /\ clock' = clock
  BY DEF Abandon, vars, Pending, InContext, InFlight, Own
<1>2. TypingTypeOK' /\ TypistInv' /\ TimeInv'
  BY <1>1 DEF TypingInv, UserInv, TypingTypeOK, TypistInv, TimeInv
<1>3. WordsInv' /\ GrownInv'
  BY <1>1 DEF TypingInv, UserInv, WordsInv, GrownInv, vars
<1>4. UnconfirmedInv' /\ AnsweredInv' /\ ConfirmedInv'
  BY <1>1 DEF UnconfirmedInv, AnsweredInv, ConfirmedInv
<1> QED BY <1>2, <1>3, <1>4 DEF UserInv

-----------------------------------------------------------------------------

LEMMA TypingInitInv == TypingInit => TypingInv
<1> SUFFICES ASSUME TypingInit
             PROVE  TypingInv
  OBVIOUS
<1>1. IInv /\ conn \in Conns
  BY InitInv, TypingAssumption DEF TypingAssumption, TypingInit
<1>2. /\ pc[conn] = "closed" /\ Pending = None /\ InContext = None /\ ~InFlight /\ ~Own
      /\ phase = "rest" /\ confirmed = None /\ spaced = 0 /\ clock = 0
      /\ everConfirmed = {} /\ conversions = {} /\ has_kanji \subseteq Midashi /\ target = None /\ ~abandoned
      /\ abandoned \in BOOLEAN
  BY <1>1 DEF TypingInit, Init, NoContextYet, Pending, InContext, InFlight, Own
<1>3. TypingTypeOK
  BY <1>1, <1>2, TimeAssumption DEF TimeAssumption, IInv, TypingTypeOK
<1>4. /\ TypistInv /\ TimeInv /\ WordsInv /\ GrownInv
      /\ UnconfirmedInv /\ AnsweredInv /\ ConfirmedInv
  BY <1>2 DEF TypistInv, TimeInv, WordsInv, GrownInv, UnconfirmedInv, AnsweredInv, ConfirmedInv
<1> QED BY <1>1, <1>3, <1>4 DEF TypingInv, UserInv

LEMMA ServeStep ==
  ASSUME TypingInv, TypeOK', Serve
  PROVE  UserInv'
<1>1. CASE Start(conn)
  <2>1. UNCHANGED user
    BY DEF Serve
  <2>2. phase \in {"typing", "converting"}
    BY <1>1 DEF Start, TypingInv, UserInv, TypingTypeOK, TypistInv
  <2> QED BY <1>1, <2>1, <2>2, StartUntracked, StartBegun, StartConverting
<1>2. ASSUME NEW top, top = (IF midashi[conn] \in has_kanji THEN midashi[conn] ELSE None),
             Answer(conn, top)
      PROVE  UserInv'
  <2>1. UNCHANGED user
    BY DEF Serve
  <2>2. CASE ~Tracked(conn) \/ top = None
    BY <1>2, <2>1, <2>2, AnswerUntracked
  <2>3. CASE Tracked(conn) /\ top # None
    <3>1. midashi[conn] \in has_kanji /\ top = midashi[conn]
      BY <1>2, <2>3
    <3> QED BY <1>2, <2>1, <2>3, <3>1, AnswerTracked
  <2> QED BY <2>2, <2>3
<1>3. CASE (Accept(conn) \/ Complete(conn) \/ Respond(conn)) /\ pc'[conn] = "ready"
  <2>1. UNCHANGED <<context, lookup, user>> /\ clock' = clock
    BY <1>3 DEF Serve, Accept, Complete, Respond, Write
  <2>2. ~InFlight /\ ~InFlight'
    BY <1>3 DEF Accept, Complete, Respond, InFlight
  <2>3. clock <= clock'
    BY <2>1, Facts
  <2> QED BY <1>3, <2>1, <2>2, <2>3, QuietStep
<1> QED BY <1>1, <1>2, <1>3 DEF Serve

LEMMA TypingNextInv == TypingInv /\ [TypingNext]_tvars => TypingInv'
<1> SUFFICES ASSUME TypingInv, [TypingNext]_tvars
             PROVE  TypingInv'
  OBVIOUS
<1>1. IInv'
  BY StepIsNext, NextInv DEF TypingInv
<1>2. TypeOK' /\ clock \in Nat
  BY <1>1, Facts DEF IInv
<1>3. UserInv'
  <2>1. CASE Convert \/ Confirm \/ Abandon \/ Serve
    BY <1>2, <2>1, ConvertStep, ConfirmStep, AbandonStep, ServeStep
  <2>2. ASSUME NEW m \in Midashi, Begin(m) \/ Scan(m)
        PROVE  UserInv'
    BY <1>2, <2>2, BeginStep, ScanStep
  <2>3. CASE AskCompletions
    <3>1. /\ UNCHANGED <<context, lookup, user>> /\ clock' = clock
          /\ ~InFlight /\ ~InFlight' /\ phase = "typing"
      BY <2>3, Facts DEF AskCompletions, Completion, Goto, InFlight
    <3> QED BY <1>2, <3>1, QuietStep
  <2>4. CASE Pass \/ UNCHANGED tvars
    <3>1. UNCHANGED <<context, lookup, user, pc>> /\ clock <= clock'
      BY <1>2, <2>4 DEF Pass, Tick, tvars, vars
    <3>2. phase = "rest" => pc'[conn] \in {"closed", "ready"}
      BY <3>1 DEF TypingInv, UserInv, TypistInv
    <3> QED BY <1>2, <3>1, <3>2, QuietStep
  <2> QED BY <2>1, <2>2, <2>3, <2>4 DEF TypingNext
<1> QED BY <1>1, <1>3 DEF TypingInv

LEMMA TypingInvariance == TypingSpec => []TypingInv
BY TypingInitInv, TypingNextInv, PTL DEF TypingSpec

-----------------------------------------------------------------------------

\* A user who types makes the sessions of proxy.rs do nothing they could not do
\* for any client: what is proved of them in SessionsProofs holds here as well.
THEOREM TypingIsSessions == TypingSpec => Spec
<1>1. TypingInit => Init
  BY DEF TypingInit
<1> QED BY <1>1, StepIsNext, TypingInvariance, PTL DEF TypingSpec, Spec

\* The context, the session and what the user is at keep their types.
THEOREM TypingTypeCorrect == TypingSpec => []TypingTypeOK
<1>1. TypingInv => TypingTypeOK
  BY DEF TypingInv, UserInv
<1> QED BY <1>1, TypingInvariance, PTL

\* The context of a lookup is one character long, or a word the user pressed Space
\* on, as old as that Space: whatever is begun, scanned and cancelled, before or
\* after Space (on_lookup_start discards the lookup of a first character,
\* handle_client leaves bursts out).
THEOREM GrownWordsConverted == TypingSpec => []GrownWordsAreConverted
<1>1. TypingInv => GrownWordsAreConverted
  BY DEF TypingInv, UserInv, WordsInv, GrownInv, GrownWordsAreConverted
<1> QED BY <1>1, TypingInvariance, PTL

\* The context of a lookup is a word the user confirmed, as long as no word was
\* begun and abandoned.
THEOREM OnlyConfirmed == TypingSpec => []OnlyConfirmedUnlessAbandoned
<1>1. TypingInv => OnlyConfirmedUnlessAbandoned
  BY DEF TypingInv, UserInv, WordsInv, UnconfirmedInv, OnlyConfirmedUnlessAbandoned,
         OnlyConfirmedIsContext
<1> QED BY <1>1, TypingInvariance, PTL

\* With --context-ranking, a conversion is ranked with the kanji word confirmed
\* last: not with an older one, not with what macSKK looked up in between, and
\* not with nothing while the TTL lasts.
THEOREM ContextIsConfirmed ==
  ASSUME context_ranking
  PROVE  TypingSpec => []ConfirmedIsContext
<1>1. TypingInv => ConfirmedIsContext
  <2> SUFFICES ASSUME TypingInv, ~abandoned, Ranking, confirmed # None,
                      Since(now[conn], confirmed.time) <= ContextTTL, target # confirmed.word
               PROVE  snapshot[conn] # None /\ snapshot[conn].word = confirmed.word
    BY DEF ConfirmedIsContext
  <2>1. /\ InFlight /\ LastStamp = now[conn] /\ ~Begun /\ phase = "converting"
        /\ pc[conn] = "asking" /\ snapshot[conn] = InContext
    BY DEF Ranking, InFlight, LastStamp, Begun, TypingInv, UserInv, WordsInv
  <2>2. StillPending \/ IsContext
    BY <2>1 DEF TypingInv, UserInv, ConfirmedInv
  <2>3. ~StillPending
    BY <2>1 DEF StillPending, TypingInv, UserInv, WordsInv
  <2> QED BY <2>1, <2>2, <2>3 DEF IsContext
<1> QED BY <1>1, TypingInvariance, PTL
=============================================================================
