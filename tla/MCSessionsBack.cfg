\* Two connections whose lookups overlap: the slower, older one answers last.
CONSTANTS
  None = None
  ni = ni
  ku = ku
  ki = ki
  c1 = c1
  c2 = c2
  w1 = w1
  w2 = w2
  Conns = {c1, c2}
  KanjiWord = {w1, w2}
  Midashi <- MCMidashi
  context_ranking = TRUE
  ContextTTL = 1
  BurstGap = 1
  MaxClock = 3
SPECIFICATION Spec
PROPERTY ContextNeverGoesBack
CHECK_DEADLOCK FALSE
