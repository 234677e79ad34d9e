SPECIFICATION FairSpec
CHECK_DEADLOCK FALSE
CONSTANTS
  Nobody = nobody
  Main = main
  Dispatcher = dispatcher
  Apps = {a1}
  Callers = {}
  Requests = {r1}
  Failing = {}
  Handlers = {}
  Mode = "threaded"
  Stoppers = {}
  MaxEvents = 2
  SocketSize = 1
  ExpiredTimer = FALSE
PROPERTY ReceivedIsDispatched
