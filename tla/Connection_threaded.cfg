SPECIFICATION FairSpec
CHECK_DEADLOCK FALSE
CONSTANTS
  Nobody = nobody
  Main = main
  Dispatcher = dispatcher
  Apps = {a1}
  Callers = {a1}
  Requests = {r1, r2}
  Failing = {}
  Handlers = {}
  Mode = "threaded"
  Stoppers = {dispatcher}
  MaxEvents = 1
  SocketSize = 2
  ExpiredTimer = TRUE
PROPERTIES
  ReceivedIsDispatched
