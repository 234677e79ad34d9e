SPECIFICATION Spec
CHECK_DEADLOCK FALSE
CONSTANTS
  Nil = Nil
  Layouts <- OneWord
INVARIANT ErrorsSent
