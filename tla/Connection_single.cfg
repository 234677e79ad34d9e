SPECIFICATION FairSpec
CHECK_DEADLOCK FALSE
CONSTANTS
  Nobody = nobody
  Main = main
  Dispatcher = dispatcher
  Apps = {}
  Callers = {main}
  Requests = {r1, r2, r3, r4}
  Failing = {}
  Handlers = {r2, r3}
  Mode = "run"
  Stoppers = {main}
  MaxEvents = 2
  SocketSize = 2
  ExpiredTimer = FALSE
INVARIANTS
  TypeOK
  InOrder
  NoFault
  NoLostReply
PROPERTIES
  StopEnds
  KeepsContract
