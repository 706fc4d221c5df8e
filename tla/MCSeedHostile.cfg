\* Two commands at once, and every mishap.
CONSTANTS
  c1 = c1
  c2 = c2
  Commands = {c1, c2}
  Kinds = {"import reload", "hourly import", "init", "force"}
  Mishaps = {"crash", "typo", "edit under way"}
SPECIFICATION Spec
SYMMETRY Symmetry
INVARIANTS
  ServerHasContext
PROPERTIES
  ReloadIsAllOrNothing
CHECK_DEADLOCK TRUE
