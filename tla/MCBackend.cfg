\* Three tasks: one holds the mutex while two wait, in either order.  No
\* symmetry, which liveness forbids.
CONSTANTS
  t1 = t1
  t2 = t2
  t3 = t3
  r1 = r1
  r2 = r2
  NoTask = NoTask
  Tasks = {t1, t2, t3}
  Requests = {r1, r2}
SPECIFICATION FairSpec
INVARIANTS
  TypeOK
  AnswersOwnRequest
  HandedOverClean
PROPERTIES
  StaleConnectionIsRetried
  IsQueryService
  EveryCallReturns
CHECK_DEADLOCK TRUE
