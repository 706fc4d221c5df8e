\* One user, up to four words.
CONSTANTS
  None = None
  ni = ni
  ku = ku
  ki = ki
  r = r
  c1 = c1
  Conns = {c1}
  conn = c1
  Midashi <- MCMidashi
  KanjiWord <- MCMidashi
  context_ranking = TRUE
  ContextTTL = 4
  BurstGap = 1
  MaxClock = 7
SPECIFICATION TypingSpec
INVARIANTS
  TypingTypeOK
  ConfirmedIsContext
  OnlyConfirmedUnlessAbandoned
  GrownWordsAreConverted
SYMMETRY MCSymmetry
CHECK_DEADLOCK FALSE
