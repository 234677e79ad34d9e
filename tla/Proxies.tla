------------------------------- MODULE Proxies -------------------------------
(***************************************************************************)
(* The objects of a client, libYc++/Y/c++/object.cc, class.cc,             *)
(* connection_objects.cc and processMessage of connection.cc: each stands  *)
(* for one of the server, which the constructor asks for without waiting   *)
(* for the answer; the number is needed, and waited for, at the first use. *)
(* While the thread waits it dispatches what arrives, so that the handlers *)
(* of events use the same objects.  The messages are those of Connection,  *)
(* in order, and one thread uses the connection.                           *)
(***************************************************************************)
EXTENDS Integers, Sequences, SequencesExt

CONSTANTS
  Names, Objects,  \* of classes; the Object instances of the client
  ClassOf,         \* className of each object
  Failing,         \* objects that the server does not create
  Nil,
  MaxEvents,       \* bound: events sent
  MaxDepth,        \* bound: calls within handlers, and messages not served
  SharesWaits,     \* whether a handler may wait for what is waited for already
  DeletesNotified  \* whether the client deletes objects that get events

VARIABLES
  classes,    \* classes: what findClass has made
  made,       \* objects whose constructor has sent its request
  dead,       \* objects that were deleted
  pending,    \* classes with a findReply, objects with a createReply
  arrived,    \* what the reply for each says: Nil, a number, or that it failed
  idOf,       \* id_v of objects
  objects,    \* the map from numbers to objects
  toServer, toClient,
  stack,      \* the calls and handlers of the thread, the last on top
  created,    \* at the server: the object of each number
  subscribed, \* at the server: the numbers that send events
  events,     \* history: those sent, and those that found an object
  undefined   \* a deleted Object or Reply was used

vars == <<classes, made, dead, pending, arrived, idOf, objects,
          toServer, toClient, stack, created, subscribed, events, undefined>>
serverVars == <<created, subscribed>>

Failure == -1
Init ==
  /\ classes = {} /\ made = {} /\ dead = {} /\ pending = {}
  /\ arrived = [x \in Names \cup Objects |-> Nil]
  /\ idOf = [o \in Objects |-> 0] /\ objects = [n \in {} |-> Nil]
  /\ toServer = <<>> /\ toClient = <<>> /\ stack = <<>>
  /\ created = <<>> /\ subscribed = {}
  /\ events = [sent |-> 0, found |-> 0] /\ undefined = FALSE

(* A call waits for the number of x, to do what then says for o; held says *)
(* that it saw a reply that x still had to be asked for.  A handler waits  *)
(* for nothing.                                                            *)
Call(x, then, o, held) == [waitsFor |-> x, then |-> then, of |-> o, held |-> held]
Handler(o) == Call(Nil, "return", o, FALSE)
Top == IF stack = <<>> THEN Handler(Nil) ELSE Last(stack)
Push(frame) == stack' = Append(stack, frame)
InCall(x) == \E i \in 1 .. Len(stack) : stack[i].waitsFor = x
Building(o) == \E i \in 1 .. Len(stack) : stack[i].of = o /\ stack[i].then = "instantiate"

(* The application runs, or a handler; it keeps off what a call below it   *)
(* waits for, unless SharesWaits.                                          *)
May(x) ==
  /\ ~undefined /\ Top.waitsFor = Nil
  /\ Len(stack) < MaxDepth /\ Len(toServer) < MaxDepth
  /\ SharesWaits \/ ~InCall(x)

-----------------------------------------------------------------------------
(* findClass asks once for each class.                                     *)
FindClass(c) ==
  /\ classes' = classes \cup {c}
  /\ IF c \in classes THEN UNCHANGED <<pending, toServer>>
     ELSE /\ pending' = pending \cup {c}
          /\ toServer' = Append(toServer, [op |-> "find", of |-> c])

(* The constructor: instantiate waits for the number of the class.         *)
Construct(o) ==
  LET c == ClassOf[o]
  IN /\ May(c) /\ o \notin made /\ ~Building(o)
     /\ FindClass(c)
     /\ Push(Call(c, "instantiate", o, c \in pending'))
     /\ UNCHANGED <<made, dead, arrived, idOf, objects, toClient, serverVars, events, undefined>>

Notified(o) ==
  \/ idOf[o] \in subscribed
  \/ \E i \in 1 .. Len(toServer) : toServer[i].op = "subscribe" /\ toServer[i].of = o

(* A method, here subscribeSignal, and the destructor, call id.            *)
Use(o, then) ==
  /\ May(o) /\ o \in made \ dead /\ (then = "delete" => DeletesNotified \/ ~Notified(o))
  /\ Push(Call(o, then, o, o \in pending))
  /\ UNCHANGED <<classes, made, dead, pending, arrived, idOf, objects,
                 toServer, toClient, serverVars, events, undefined>>

(* Where the call goes on when it has the number n.  destroyObject erases  *)
(* what is not in the map, and so nothing.                                 *)
Then(f, n, left) ==
  CASE f.then = "instantiate" ->
         /\ made' = made \cup {f.of} /\ pending' = left \cup {f.of}
         /\ toServer' = Append(toServer, [op |-> "create", of |-> f.of]) /\ UNCHANGED dead
    [] f.then = "subscribe" ->
         /\ toServer' = Append(toServer, [op |-> "subscribe", of |-> f.of, is |-> n])
         /\ pending' = left /\ UNCHANGED <<made, dead>>
    [] f.then = "delete" ->
         /\ dead' = dead \cup {f.of} /\ pending' = left /\ UNCHANGED <<made, toServer>>

(* createdObject, with the number of the reply.                            *)
CreatedObject(x, n) ==
  /\ idOf' = [idOf EXCEPT ![x] = n]
  /\ objects' = [m \in DOMAIN objects \cup {n} |-> IF m = n THEN x ELSE objects[m]]

(* id: the reply has come, is deleted, and an object is entered in the     *)
(* map; or it failed, and stays, and the caller gets an exception; or a    *)
(* handler has deleted it meanwhile.                                       *)
Continue ==
  /\ ~undefined /\ Top.waitsFor # Nil
  /\ stack' = Front(stack)
  /\ LET f == Top  x == f.waitsFor
     IN \/ /\ ~f.held /\ Then(f, IF x \in Objects THEN idOf[x] ELSE 0, pending)
           /\ UNCHANGED <<idOf, objects, undefined>>
        \/ /\ f.held /\ x \notin pending /\ undefined' = TRUE
           /\ UNCHANGED <<made, dead, pending, idOf, objects, toServer>>
        \/ /\ f.held /\ x \in pending /\ arrived[x] = Failure
           /\ UNCHANGED <<made, dead, pending, idOf, objects, toServer, undefined>>
        \/ /\ f.held /\ x \in pending /\ arrived[x] \notin {Nil, Failure}
           /\ IF x \in Objects THEN CreatedObject(x, arrived[x]) ELSE UNCHANGED <<idOf, objects>>
           /\ Then(f, arrived[x], pending \ {x}) /\ UNCHANGED undefined
  /\ UNCHANGED <<classes, arrived, toClient, serverVars, events>>

(* The next message, in the loop of the connection or in that of a call    *)
(* that waits: a reply, or an event, whose object is looked up and handles *)
(* it.                                                                     *)
Dispatch ==
  /\ ~undefined /\ toClient # <<>> /\ toClient' = Tail(toClient)
  /\ stack = <<>> \/ (Top.held /\ arrived[Top.waitsFor] = Nil)
  /\ LET m == Head(toClient)
     IN IF m.op = "reply"
        THEN /\ arrived' = [arrived EXCEPT ![m.of] = m.is]
             /\ UNCHANGED <<stack, events, undefined>>
        ELSE /\ UNCHANGED arrived
             /\ IF m.of \in DOMAIN objects
                THEN /\ undefined' = (objects[m.of] \in dead)
                     /\ events' = [events EXCEPT !.found = @ + 1]
                     /\ Push(Handler(objects[m.of]))
                ELSE UNCHANGED <<stack, events, undefined>>
  /\ UNCHANGED <<classes, made, dead, pending, idOf, objects, toServer, serverVars>>

Return ==
  /\ ~undefined /\ stack # <<>> /\ Top.waitsFor = Nil /\ stack' = Front(stack)
  /\ UNCHANGED <<classes, made, dead, pending, arrived, idOf, objects,
                 toServer, toClient, serverVars, events, undefined>>

-----------------------------------------------------------------------------
(* The server answers in order, and sends events to those who subscribed.  *)
Serve ==
  /\ toServer # <<>> /\ toServer' = Tail(toServer)
  /\ LET m == Head(toServer)
         reply(x) == toClient' = Append(toClient, [op |-> "reply", of |-> m.of, is |-> x])
     IN \/ m.op = "find" /\ reply(1) /\ UNCHANGED serverVars
        \/ m.op = "create" /\ m.of \in Failing /\ reply(Failure) /\ UNCHANGED serverVars
        \/ /\ m.op = "create" /\ m.of \notin Failing /\ reply(Len(created) + 1)
           /\ created' = Append(created, m.of) /\ UNCHANGED subscribed
        \/ /\ m.op = "subscribe" /\ subscribed' = subscribed \cup {m.is}
           /\ UNCHANGED <<toClient, created>>
  /\ UNCHANGED <<classes, made, dead, pending, arrived, idOf, objects, stack, events, undefined>>

SendEvent(n) ==
  /\ n \in subscribed /\ events.sent < MaxEvents
  /\ toClient' = Append(toClient, [op |-> "event", of |-> n])
  /\ events' = [events EXCEPT !.sent = @ + 1]
  /\ UNCHANGED <<classes, made, dead, pending, arrived, idOf, objects,
                 toServer, stack, serverVars, undefined>>

Next ==
  \/ \E o \in Objects : Construct(o) \/ Use(o, "subscribe") \/ Use(o, "delete")
  \/ Continue \/ Dispatch \/ Return \/ Serve
  \/ \E n \in subscribed : SendEvent(n)

Spec == Init /\ [][Next]_vars

-----------------------------------------------------------------------------
TypeOK ==
  /\ classes \subseteq Names /\ dead \subseteq made /\ made \subseteq Objects
  /\ pending \subseteq classes \cup made
  /\ idOf \in [Objects -> Nat] /\ \A n \in DOMAIN objects : objects[n] \in Objects
  /\ undefined \in BOOLEAN

(* An object's number is that of what the server made for it, and the map  *)
(* leads back to it.                                                       *)
NumbersAgree ==
  /\ \A o \in Objects : idOf[o] # 0 => created[idOf[o]] = o /\ objects[idOf[o]] = o
  /\ ~undefined

(* No event comes before its object can be found: what subscribes has      *)
(* waited for its number.                                                  *)
EventsFound ==
  events.sent = events.found + Len(SelectSeq(toClient, LAMBDA m : m.op = "event"))
=============================================================================
