\* Two connections; a context lives one tick, a burst is within one tick.
CONSTANTS
  None = None
  ni = ni
  ku = ku
  ki = ki
  c1 = c1
  c2 = c2
  w1 = w1
  Conns = {c1, c2}
  KanjiWord = {w1}
  Midashi <- MCMidashi
  context_ranking = TRUE
  ContextTTL = 1
  BurstGap = 1
  MaxClock = 3
SPECIFICATION Spec
SYMMETRY Symmetry
INVARIANTS
  TypeOK
  SnapshotFresh
PROPERTIES
  BurstsLeaveNoTrace
CHECK_DEADLOCK FALSE
