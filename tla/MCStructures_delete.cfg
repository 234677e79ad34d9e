SPECIFICATION Spec
CHECK_DEADLOCK FALSE
CONSTANTS
  absent = absent
  junk = junk
  AnyDeleted = TRUE
INVARIANT TreesBalanced
