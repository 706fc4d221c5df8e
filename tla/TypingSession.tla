---------------------------- MODULE TypingSession ---------------------------
(***************************************************************************)
(* One user typing through macSKK (external; modelled from what proxy.rs   *)
(* and its tests say of it) on one connection of Sessions.tla.             *)
(*                                                                         *)
(* A word is begun, at which macSKK itself looks up its first character;   *)
(* converted with Space, once or more; and confirmed.  In between macSKK   *)
(* asks for completions and scans them with lookups at machine speed.      *)
(* Keys are pressed at human speed.  The user always takes the top         *)
(* candidate, which is all the server can hope for.                        *)
(***************************************************************************)
EXTENDS Sessions

CONSTANT conn \* the connection

\* What macSKK looks up when a word is begun.
First(m) == <<m[1]>>

\* Words have a first character, which is looked up too.
ASSUME TypingAssumption ==
  /\ conn \in Conns
  /\ KanjiWord = Midashi
  /\ \A m \in Midashi : /\ m \in Seq({m[i] : i \in DOMAIN m}) \ {<< >>}
                        /\ First(m) \in Midashi
  /\ None \notin Midashi \cup Stamped \cup Waiting

VARIABLES
  phase,     \* "rest", "typing" (begun), "converting" (Space was pressed)
  target,    \* the midashi being typed
  spaced,    \* when Space was last pressed
  has_kanji, \* midashi whose top candidate contains a kanji: that word is
             \* named by its midashi, KanjiWord = Midashi
  confirmed, \* the last such word confirmed, and the time of its lookup
  everConfirmed, \* history: all such words
  conversions,   \* history: each word converted with Space, and when
  abandoned      \* history: a word begun was left without being confirmed

user  == <<phase, target, spaced, has_kanji, confirmed, everConfirmed, conversions, abandoned>>
tvars == <<vars, user>>

TypingTypeOK ==
  /\ TypeOK
  /\ phase \in {"rest", "typing", "converting"}
  /\ target \in Midashi \cup {None}
  /\ spaced \in 0..MaxClock
  /\ has_kanji \subseteq Midashi
  /\ confirmed \in Stamped \cup {None}
  /\ everConfirmed \subseteq has_kanji
  /\ conversions \subseteq Stamped
  /\ abandoned \in BOOLEAN

TypingInit ==
  /\ Init
  /\ phase = "rest"
  /\ target = None
  /\ spaced = 0
  /\ has_kanji \in SUBSET Midashi
  /\ confirmed = None
  /\ everConfirmed = {}
  /\ conversions = {}
  /\ abandoned = FALSE

-----------------------------------------------------------------------------
(* Keys, pressed when the connection is quiet and not within a burst       *)

Begin(m) == /\ phase = "rest"
            /\ ~IsBurst(conn)
            /\ Stamp(conn, First(m))
            /\ phase' = "typing"
            /\ target' = m
            /\ UNCHANGED <<spaced, has_kanji, confirmed, everConfirmed, conversions, abandoned>>

Convert == /\ phase \in {"typing", "converting"}
           /\ ~IsBurst(conn)
           /\ Stamp(conn, target)
           /\ phase' = "converting"
           /\ spaced' = clock
           /\ conversions' = conversions \cup {[word |-> target, time |-> clock]}
           /\ UNCHANGED <<target, has_kanji, confirmed, everConfirmed, abandoned>>

Confirm ==
  /\ phase = "converting"
  /\ pc[conn] = "ready"
  /\ phase' = "rest"
  /\ IF target \in has_kanji
     THEN /\ confirmed' = [word |-> target, time |-> spaced]
          /\ everConfirmed' = everConfirmed \cup {target}
     ELSE UNCHANGED <<confirmed, everConfirmed>>
  /\ UNCHANGED <<vars, target, spaced, has_kanji, conversions, abandoned>>

\* The word is cancelled, before or after Space, or confirmed as kana.
Abandon == /\ phase \in {"typing", "converting"}
           /\ pc[conn] = "ready"
           /\ phase' = "rest"
           /\ abandoned' = TRUE
           /\ UNCHANGED <<vars, target, spaced, has_kanji, confirmed, everConfirmed,
                          conversions>>

-----------------------------------------------------------------------------
(* macSKK and the server                                                   *)

AskCompletions == phase = "typing" /\ Completion(conn) /\ UNCHANGED user

Scan(m) == phase = "typing" /\ IsBurst(conn) /\ Stamp(conn, m) /\ UNCHANGED user

Serve ==
  /\ \/ Start(conn)
     \/ Answer(conn, IF midashi[conn] \in has_kanji THEN midashi[conn] ELSE None)
     \/ (Accept(conn) \/ Complete(conn) \/ Respond(conn)) /\ pc'[conn] = "ready"
  /\ UNCHANGED user

Pass == Tick /\ UNCHANGED user

TypingNext ==
  \/ Convert \/ Confirm \/ Abandon \/ AskCompletions \/ Serve \/ Pass
  \/ \E m \in Midashi : Begin(m) \/ Scan(m)

TypingSpec == TypingInit /\ [][TypingNext]_tvars

-----------------------------------------------------------------------------

Ranking == pc[conn] = "asking" /\ ~burst[conn] /\ phase = "converting"

\* What the feature is for: when Space converts a word, the context it is
\* ranked with is the kanji word confirmed last, as long as that is within the
\* TTL and no word was begun and abandoned, through all the lookups macSKK
\* makes on its own in between.  (A word converted again at once is its own
\* context only if it is longer than one character; else all its lookups look
\* like one.)
ConfirmedIsContext ==
  /\ ~abandoned
  /\ Ranking /\ confirmed # None
  /\ Since(now[conn], confirmed.time) <= ContextTTL
  /\ target # confirmed.word
  => snapshot[conn] # None /\ snapshot[conn].word = confirmed.word

\* README: the transient lookup of the first character never pollutes the
\* context, which holds truly confirmed words only.
OnlyConfirmedIsContext ==
  pc[conn] = "asking" /\ snapshot[conn] # None => snapshot[conn].word \in everConfirmed

\* That is so for a user who converts every word begun: neither the lookup of
\* the first character nor any scan is ever taken for a confirmation.
OnlyConfirmedUnlessAbandoned == ~abandoned => OnlyConfirmedIsContext

\* Even when words are abandoned, before or after Space, a word of more than one
\* character enters the context only because the user pressed Space on it, and
\* its age counts from that Space: neither a completion nor a scan ever brings
\* one in, or makes it younger.  (Whether the user then took the word or cancelled
\* it, on_lookup_start cannot tell.)
GrownWordsAreConverted ==
  pc[conn] = "asking" /\ snapshot[conn] # None /\ Len(snapshot[conn].word) > 1
  => snapshot[conn] \in conversions
=============================================================================
