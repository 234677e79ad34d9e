SPECIFICATION Spec
CHECK_DEADLOCK FALSE
CONSTANTS
  absent = absent
  junk = junk
  AnyDeleted = FALSE
INVARIANTS
  TypeOK
  TreesBalanced
  LinksAgree
PROPERTIES
  KeepContracts
  LoopsEnd
