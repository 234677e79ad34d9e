SPECIFICATION Spec
CHECK_DEADLOCK FALSE
CONSTANTS
  Nil = Nil
  Layouts <- TwoWords
INVARIANT MapsKept
