SPECIFICATION Spec
CHECK_DEADLOCK FALSE
CONSTANTS
  Nil = Nil
  Layouts <- OneWord
INVARIANTS
  TypeOK
  MapsKept
  ServerAgrees
  ClientAgrees
PROPERTIES
  CallsRight
  CellsKept
