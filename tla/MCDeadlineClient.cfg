\* One client alone is enough.
CONSTANTS
  t1 = t1
  t2 = t2
  Tasks = {t1, t2}
  MaxVariations <- MCVariations
  Lineups <- MCAlone
  PrimaryTimeout = 30
  FallbackTimeout = 14
  OkuriBudget = 12
  OkuriCap = 6
  MergeCap = 4
  PrimaryCap = 12
  OverallDeadline = 17
  WarmupLookup = 60
  WarmupCompletion = 10
  WarmupChars = 10
  ClientLimit = 20
SPECIFICATION Spec
INVARIANT WithinClientLimit
CHECK_DEADLOCK TRUE
