SPECIFICATION Spec
CHECK_DEADLOCK FALSE
CONSTANTS
  Clients = {"c1", "c2"}
  Leavers = {"c1", "c2"}
  Quitters = {"c1"}
  MaxFd = 6
  Capacity = 2
  Chunk = 1
  MaxMessages = 1
INVARIANTS
  TypeOK
  RepliesInOrder
  DescriptorsAgree
  WellDirected
  QueuedIsWatched
