\* One command at a time, a careful user, nothing crashes.
CONSTANTS
  c1 = c1
  c2 = c2
  Commands = {c1}
  Kinds = {"import", "import reload", "hourly import", "init", "force"}
  Mishaps = {}
SPECIFICATION FairSpec
INVARIANTS
  TypeOK
  NoAliasOnDisk
  HandEditsSurvive
PROPERTY ImportReachesServer
CHECK_DEADLOCK TRUE
