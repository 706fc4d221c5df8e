\* A user who makes a typing error.
CONSTANTS
  c1 = c1
  c2 = c2
  Commands = {c1}
  Kinds = {"init"}
  Mishaps = {"typo"}
SPECIFICATION Spec
INVARIANT HandEditsSurvive
CHECK_DEADLOCK TRUE
