----------------------------- MODULE Connection -----------------------------
(***************************************************************************)
(* The client library's connection, libYc++/Y/c++/connection*.cc and       *)
(* reply.cc: threads send messages and wait for their replies, one or more *)
(* of them poll the socket and dispatch what arrives, and handlers of      *)
(* events use the connection again from inside the dispatch.               *)
(*                                                                         *)
(* One action is one critical section of a mutex, one system call or one   *)
(* unlocked access to shared data.  A thread is a stack of frames, one for *)
(* each call of the connection in progress:                                *)
(*   app         application code, handler: the same in a handler          *)
(*   request     sendMessage, then Reply::wait with its calls of poll      *)
(*   run         run                                                       *)
(*   poller      runThreaded and its pollThreadMain                        *)
(*   dispatcher  dispatchThreadMain                                        *)
(* The socket is a pair of bounded queues; its far end answers requests in *)
(* order and sends events, as Y/message/message.c does.  Descriptors       *)
(* registered by the application are left out.                             *)
(***************************************************************************)
EXTENDS Naturals, FiniteSets, Sequences, SequencesExt

CONSTANTS
  Nobody,           \* not a thread, not a request
  Main,             \* the thread that may call run or runThreaded
  Dispatcher,       \* the thread that runThreaded creates
  Apps,             \* the other application threads
  Callers,          \* Main and Apps that make requests of their own
  Requests,         \* requests made in all, each by some thread
  Failing,          \* requests whose method returns an error
  Handlers,         \* requests that are made by handlers only
  Mode,             \* "run", "threaded" or "poll": what Main does
  Stoppers,         \* threads that may call stop, once in all
  MaxEvents,        \* bound on the events the server sends
  SocketSize,       \* messages a direction of the socket holds
  ExpiredTimer      \* a timer is due: in threaded mode nothing ticks it

ASSUME ThreadsAssumption == Main # Dispatcher /\ {Main, Dispatcher} \cap Apps = {}
ASSUME CallersAssumption == Callers \subseteq {Main} \cup Apps
ASSUME RequestsAssumption == /\ Failing \subseteq Requests
                             /\ Handlers \subseteq Requests
                             /\ Nobody \notin Requests
ASSUME ModeAssumption == Mode \in {"run", "threaded", "poll"}
ASSUME BoundsAssumption == MaxEvents \in Nat /\ SocketSize \in Nat \ {0}

Threads == {Main, Dispatcher} \cup Apps

VARIABLES
  stack,        \* of each thread: its frames, the last one running
  state,        \* Connection::state
  stateMutex,   \* the thread that holds state_mutex across steps
  stopping,     \* Connection::stopping
  stopCalled,   \* history: stop has been called
  started,      \* requests some thread has begun
  nextSeq,      \* the static counter of Message::nextSeq
  seqOf,        \* sequence number of each request's message, 0 before
  outbound,     \* outbound_buffer
  pollout,      \* POLLOUT in pollfd_list's entry of the server
  working,      \* working_pollfd_list is not NULL
  ufds,         \* of each thread: POLLOUT in the list it polls with
  revents,      \* of each thread: what its last poll reported
  inbound,      \* inbound_buffer
  oldLength,    \* old_length of pollThreadMain
  messages,     \* Connection::messages
  popped,       \* of each thread: the message it is about to process
  handled,      \* history: what processMessage was called with
  replies,      \* Connection::replies: sequence number -> request
  got,          \* requests whose Reply has got_tuple set
  returned,     \* requests whose wait has returned
  toServer,     \* the socket, client to server
  toClient,     \* the socket, server to client
  sent,         \* history: what the server sent
  fault         \* the undefined behaviour or abort met, or "none"

stateVars == <<state, stateMutex, stopping, stopCalled>>
seqVars == <<started, nextSeq, seqOf>>
pollVars == <<pollout, working, ufds, revents>>
inVars == <<inbound, oldLength, messages, popped, handled>>
replyVars == <<replies, got, returned>>
netVars == <<toServer, toClient, sent>>
vars == <<stack, stateVars, seqVars, outbound, pollVars, inVars, replyVars,
          netVars, fault>>

-----------------------------------------------------------------------------
(* Messages from the server; an event's seq tells events apart.            *)
Message == [op : {"reply", "event"}, seq : Nat]
Reply(s) == [op |-> "reply", seq |-> s]
Event(i) == [op |-> "event", seq |-> i]
NoMessage == Reply(0)

Frame(kind, pc, r) ==
  [kind |-> kind, pc |-> pc, req |-> r, wasNone |-> FALSE]

Top(t) == Last(stack[t])

(* t may take its next step, which is at pc in a call of one of the kinds. *)
At(t, kinds, pc) ==
  /\ fault = "none"
  /\ stack[t] # <<>>
  /\ Top(t).kind \in kinds
  /\ Top(t).pc = pc

Goto(t, pc) == stack' = [stack EXCEPT ![t][Len(stack[t])].pc = pc]
Call(t, pc, f) ==
  stack' = [stack EXCEPT ![t] =
              Append([stack[t] EXCEPT ![Len(stack[t])].pc = pc], f)]
Return(t) == stack' = [stack EXCEPT ![t] = Front(stack[t])]

StateFree == stateMutex = Nobody

Init ==
  /\ stack = [t \in Threads |->
                IF t = Dispatcher THEN <<>>
                ELSE <<Frame("app", "idle", Nobody)>>]
  /\ state = "none" /\ stateMutex = Nobody
  /\ stopping = FALSE /\ stopCalled = FALSE
  /\ started = {} /\ nextSeq = 1 /\ seqOf = [r \in Requests |-> 0]
  /\ outbound = <<>>
  /\ pollout = FALSE /\ working = TRUE
  /\ ufds = [t \in Threads |-> FALSE]
  /\ revents = [t \in Threads |-> [in |-> FALSE, out |-> FALSE]]
  /\ inbound = <<>> /\ oldLength = 0 /\ messages = <<>>
  /\ popped = [t \in Threads |-> NoMessage] /\ handled = <<>>
  /\ replies = <<>> /\ got = {} /\ returned = {}
  /\ toServer = <<>> /\ toClient = <<>> /\ sent = <<>>
  /\ fault = "none"

-----------------------------------------------------------------------------
(* Application code, in a thread of its own or in a handler of an event.   *)

(* A message that expects a reply is constructed: nextSeq increments its   *)
(* counter without a lock, in a load and a store.  The other application   *)
(* threads are created once Main's loop runs: that run and runThreaded     *)
(* abort when a poll is in progress is documented (connection.h:217).      *)
BeginRequest(t, r) ==
  /\ At(t, {"app", "handler"}, "idle")
  /\ Top(t).kind = "app" => t \in Callers
  /\ t \in Apps => Mode = "poll" \/ state \in {"running", "threaded"}
  /\ r \notin started
  /\ r \in Handlers <=> Top(t).kind = "handler"
  /\ started' = started \cup {r}
  /\ Call(t, "idle", Frame("request", "store", r))
  /\ seqOf' = [seqOf EXCEPT ![r] = nextSeq + 1]
  /\ UNCHANGED <<stateVars, nextSeq, outbound, pollVars, inVars, replyVars,
                 netVars, fault>>

StoreSeq(t) ==
  /\ At(t, {"request"}, "store")
  /\ nextSeq' = seqOf[Top(t).req]
  /\ Goto(t, "serialise")
  /\ UNCHANGED <<stateVars, started, seqOf, outbound, pollVars, inVars,
                 replyVars, netVars, fault>>

(* The handler returns to the loop that dispatched the event.              *)
HandlerReturn(t) ==
  /\ At(t, {"handler"}, "idle")
  /\ Return(t)
  /\ UNCHANGED <<stateVars, seqVars, outbound, pollVars, inVars, replyVars,
                 netVars, fault>>

(* stop.  In threaded mode stopThreaded ends the dispatch thread when it   *)
(* is the caller; otherwise it locks state_mutex, which stop holds.        *)
Stop(t) ==
  /\ At(t, {"app", "handler"}, "idle")
  /\ t \in Stoppers /\ ~stopCalled /\ StateFree
  /\ stopCalled' = TRUE
  /\ stopping' = (stopping \/ state \in {"running", "threaded"})
  /\ IF state # "threaded" THEN UNCHANGED <<stack, stateMutex>>
     ELSE IF t = Dispatcher
     THEN /\ stack' = [stack EXCEPT ![t] = <<>>]
          /\ UNCHANGED stateMutex
     ELSE /\ Goto(t, "relock")
          /\ stateMutex' = t
  /\ UNCHANGED <<state, seqVars, outbound, pollVars, inVars, replyVars,
                 netVars, fault>>

-----------------------------------------------------------------------------
(* sendMessage: three critical sections.                                   *)

PolloutRequested == TRUE

Serialise(t) ==
  /\ At(t, {"request"}, "serialise")
  /\ outbound' = Append(outbound, Top(t).req)
  /\ Goto(t, "pollout")
  /\ UNCHANGED <<stateVars, seqVars, pollVars, inVars, replyVars, netVars,
                 fault>>

SetPollout(t) ==
  /\ At(t, {"request"}, "pollout")
  /\ pollout' = PolloutRequested
  /\ Goto(t, "register")
  /\ UNCHANGED <<stateVars, seqVars, outbound, working, ufds, revents,
                 inVars, replyVars, netVars, fault>>

(* Mutation: only the latest request can be answered.                      *)
OnlyLatest(r) == [s \in {seqOf[r]} |-> r]
Registered(r) ==
  [s \in DOMAIN replies \cup {seqOf[r]} |->
     IF s = seqOf[r] THEN r ELSE replies[s]]

RegisterReply(t) ==
  /\ At(t, {"request"}, "register")
  /\ replies' = Registered(Top(t).req)
  /\ Goto(t, "wait")
  /\ UNCHANGED <<stateVars, seqVars, outbound, pollVars, inVars, got,
                 returned, netVars, fault>>

-----------------------------------------------------------------------------
(* Reply::wait and Connection::poll.                                       *)

Answered(r) == r \in got

DetachReply(r) == [s \in DOMAIN replies \ {seqOf[r]} |-> replies[s]]

(* The reply is there: the caller reads it and deletes the Reply, whose    *)
(* destructor calls detachReply.                                           *)
WaitReturn(t) ==
  /\ \/ At(t, {"request"}, "wait")
     \/ At(t, {"request"}, "blocked")
     \/ At(t, {"request"}, "again")
  /\ LET r == Top(t).req IN
       /\ Answered(r)
       /\ returned' = returned \cup {r}
       /\ replies' = DetachReply(r)
  /\ Return(t)
  /\ UNCHANGED <<stateVars, seqVars, outbound, pollVars, inVars, got,
                 netVars, fault>>

(* No reply yet: block on the condition in threaded mode, poll otherwise.  *)
ChooseWait(t) ==
  /\ At(t, {"request"}, "wait")
  /\ Top(t).req \notin got
  /\ StateFree
  /\ Goto(t, IF state = "threaded" THEN "blocked" ELSE "again")
  /\ UNCHANGED <<stateVars, seqVars, outbound, pollVars, inVars, replyVars,
                 netVars, fault>>

(* poll, from the loop of wait: the first lock of state_mutex.             *)
EnterPoll(t) ==
  /\ At(t, {"request"}, "again")
  /\ Top(t).req \notin got
  /\ StateFree
  /\ state # "threaded"
  /\ state' = IF state = "none" THEN "polling" ELSE state
  /\ stack' = [stack EXCEPT ![t][Len(stack[t])] =
                 [@ EXCEPT !.pc = "claim", !.wasNone = (state = "none")]]
  /\ UNCHANGED <<stateMutex, stopping, stopCalled, seqVars, outbound,
                 pollVars, inVars, replyVars, netVars, fault>>

(* poll: the second lock, if this call found the state none.               *)
LeavePoll(t) ==
  /\ At(t, {"request"}, "leave")
  /\ Top(t).wasNone => StateFree
  /\ state' = IF Top(t).wasNone THEN "none" ELSE state
  /\ Goto(t, "again")
  /\ UNCHANGED <<stateMutex, stopping, stopCalled, seqVars, outbound,
                 pollVars, inVars, replyVars, netVars, fault>>

-----------------------------------------------------------------------------
(* doPoll and doPollIO.                                                    *)
Polling == {"run", "request", "poller"}

(* The working list is taken, and copied into before it is tested.         *)
ClaimList(t) ==
  /\ At(t, Polling, "claim")
  /\ working' = FALSE
  /\ ufds' = [ufds EXCEPT ![t] = pollout]
  /\ fault' = IF working THEN fault ELSE "null list"
  /\ Goto(t, "poll")
  /\ UNCHANGED <<stateVars, seqVars, outbound, pollout, revents, inVars,
                 replyVars, netVars>>

(* The system call: it reports what is ready, or nothing in the end.       *)
PollSocket(t) ==
  /\ At(t, Polling, "poll")
  /\ revents' = [revents EXCEPT ![t] =
                   [in |-> toClient # <<>>,
                    out |-> ufds[t] /\ Len(toServer) < SocketSize]]
  /\ Goto(t, "read")
  /\ UNCHANGED <<stateVars, seqVars, outbound, pollout, working, ufds,
                 inVars, replyVars, netVars, fault>>

(* readServer moves what it is given; with nothing left to read the call   *)
(* fails with EAGAIN and the library aborts.                               *)
ReadServer(t) ==
  /\ At(t, Polling, "read")
  /\ Goto(t, "write")
  /\ IF ~revents[t].in
     THEN UNCHANGED <<inbound, toClient, fault>>
     ELSE IF toClient = <<>>
     THEN /\ fault' = "would block"
          /\ UNCHANGED <<inbound, toClient>>
     ELSE \E k \in 1 .. Len(toClient) :
            /\ inbound' = inbound \o SubSeq(toClient, 1, k)
            /\ toClient' = SubSeq(toClient, k + 1, Len(toClient))
            /\ UNCHANGED fault
  /\ UNCHANGED <<stateVars, seqVars, outbound, pollVars, oldLength, messages,
                 popped, handled, replyVars, toServer, sent>>

(* writeServer, under outbound_mutex: as much as the socket takes.         *)
WriteServer(t) ==
  /\ At(t, Polling, "write")
  /\ LET room == SocketSize - Len(toServer) IN
       IF ~revents[t].out
       THEN /\ Goto(t, "release")
            /\ UNCHANGED <<outbound, toServer, fault>>
       ELSE IF outbound # <<>> /\ room = 0
       THEN /\ fault' = "would block"
            /\ UNCHANGED <<stack, outbound, toServer>>
       ELSE \E k \in 0 .. room :
              /\ k = 0 <=> outbound = <<>>
              /\ k <= Len(outbound)
              /\ toServer' = toServer \o SubSeq(outbound, 1, k)
              /\ outbound' = SubSeq(outbound, k + 1, Len(outbound))
              /\ Goto(t, "check")
              /\ UNCHANGED fault
  /\ UNCHANGED <<stateVars, seqVars, pollVars, inVars, replyVars, toClient,
                 sent>>

NothingLeft == outbound = <<>>

(* writeServer again: the length is read once more, without the lock.      *)
CheckOutbound(t) ==
  /\ At(t, Polling, "check")
  /\ Goto(t, IF NothingLeft THEN "clear" ELSE "release")
  /\ UNCHANGED <<stateVars, seqVars, outbound, pollVars, inVars, replyVars,
                 netVars, fault>>

ClearPollout(t) ==
  /\ At(t, Polling, "clear")
  /\ pollout' = FALSE
  /\ Goto(t, "release")
  /\ UNCHANGED <<stateVars, seqVars, outbound, working, ufds, revents,
                 inVars, replyVars, netVars, fault>>

(* Mutation: the list is not put back.                                     *)
KeepsList == working
ListPutBack == TRUE

ReleaseList(t) ==
  /\ At(t, Polling, "release")
  /\ working' = ListPutBack
  /\ Goto(t, IF Top(t).kind = "poller" THEN "signal" ELSE "unbuffer")
  /\ UNCHANGED <<stateVars, seqVars, outbound, pollout, ufds, revents,
                 inVars, replyVars, netVars, fault>>
-----------------------------------------------------------------------------
(* doDispatch, and the same loops of dispatchThreadMain.                   *)
Dispatching == {"run", "request", "dispatcher"}

(* Mutation: messages an outer dispatch has not processed are dropped.     *)
DropsOuter == inbound
Unbuffered == messages \o inbound

Pushed(m) == Append(messages, m)

(* unbufferMessages takes everything that has arrived; the dispatch thread *)
(* takes one message at a time.                                            *)
Unbuffer(t) ==
  /\ At(t, {"run", "request"}, "unbuffer")
  /\ messages' = Unbuffered
  /\ inbound' = <<>>
  /\ Goto(t, "empty")
  /\ UNCHANGED <<stateVars, seqVars, outbound, pollVars, oldLength, popped,
                 handled, replyVars, netVars, fault>>

ParseOne(t) ==
  /\ At(t, {"dispatcher"}, "unbuffer")
  /\ IF inbound = <<>>
     THEN Goto(t, "empty") /\ UNCHANGED <<inbound, messages>>
     ELSE /\ messages' = Pushed(Head(inbound))
          /\ inbound' = Tail(inbound)
          /\ UNCHANGED stack
  /\ UNCHANGED <<stateVars, seqVars, outbound, pollVars, oldLength, popped,
                 handled, replyVars, netVars, fault>>

(* The queue is tested under one lock and popped under another.            *)
TestEmpty(t) ==
  /\ At(t, Dispatching, "empty")
  /\ Goto(t, IF messages # <<>> THEN "pop"
             ELSE CASE Top(t).kind = "run" -> "loop"
                    [] Top(t).kind = "request" -> "leave"
                    [] Top(t).kind = "dispatcher" -> "cond")
  /\ UNCHANGED <<stateVars, seqVars, outbound, pollVars, inVars, replyVars,
                 netVars, fault>>

PopMessage(t) ==
  /\ At(t, Dispatching, "pop")
  /\ IF messages = <<>>
     THEN /\ fault' = "empty pop"
          /\ UNCHANGED <<messages, popped>>
     ELSE /\ popped' = [popped EXCEPT ![t] = Head(messages)]
          /\ messages' = Tail(messages)
          /\ UNCHANGED fault
  /\ Goto(t, "process")
  /\ UNCHANGED <<stateVars, seqVars, outbound, pollVars, inbound, oldLength,
                 handled, replyVars, netVars>>

(* Mutation: the message's number is stored for the request.               *)
GotNumber(m) == got \cup {m.seq}
Delivered(m) ==
  IF m.seq \in DOMAIN replies THEN got \cup {replies[m.seq]} ELSE got

(* processMessage: a reply is given to the Reply registered under its      *)
(* number, if there is one; an event runs its handler.                     *)
ProcessMessage(t) ==
  /\ At(t, Dispatching, "process")
  /\ LET m == popped[t] IN
       /\ handled' = Append(handled, m)
       /\ IF m.op = "event"
          THEN /\ Call(t, "empty", Frame("handler", "idle", Nobody))
               /\ UNCHANGED got
          ELSE /\ Goto(t, "empty")
               /\ got' = Delivered(m)
  /\ popped' = [popped EXCEPT ![t] = NoMessage]
  /\ UNCHANGED <<stateVars, seqVars, outbound, pollVars, inbound, oldLength,
                 messages, replies, returned, netVars, fault>>

-----------------------------------------------------------------------------
(* Mutation: the loops ignore stopping.                                    *)
NeverStops == FALSE
MustStop == stopping

(* run, which Main calls once.                                             *)
BeginRun(t) ==
  /\ t = Main /\ Mode = "run" /\ ~stopCalled
  /\ At(t, {"app"}, "idle")
  /\ StateFree
  /\ IF state # "none"
     THEN fault' = "abort" /\ UNCHANGED <<stack, state>>
     ELSE /\ state' = "running"
          /\ Call(t, "idle", Frame("run", "loop", Nobody))
          /\ UNCHANGED fault
  /\ UNCHANGED <<stateMutex, stopping, stopCalled, seqVars, outbound,
                 pollVars, inVars, replyVars, netVars>>

RunLoop(t) ==
  /\ At(t, {"run"}, "loop")
  /\ Goto(t, IF MustStop THEN "reset" ELSE "claim")
  /\ UNCHANGED <<stateVars, seqVars, outbound, pollVars, inVars, replyVars,
                 netVars, fault>>

(* The flag is cleared first, the state afterwards.                        *)
ResetStopping(t) ==
  /\ At(t, {"run", "poller"}, "reset")
  /\ stopping' = FALSE
  /\ Goto(t, IF Top(t).kind = "run" THEN "finish" ELSE "join")
  /\ UNCHANGED <<state, stateMutex, stopCalled, seqVars, outbound, pollVars,
                 inVars, replyVars, netVars, fault>>

Finish(t) ==
  /\ At(t, {"run", "poller"}, "finish")
  /\ StateFree
  /\ state' = "none"
  /\ Return(t)
  /\ UNCHANGED <<stateMutex, stopping, stopCalled, seqVars, outbound,
                 pollVars, inVars, replyVars, netVars, fault>>

-----------------------------------------------------------------------------
(* runThreaded and pollThreadMain.                                         *)
BeginThreaded(t) ==
  /\ t = Main /\ Mode = "threaded" /\ ~stopCalled
  /\ At(t, {"app"}, "idle")
  /\ StateFree
  /\ IF state # "none"
     THEN fault' = "abort" /\ UNCHANGED <<stack, state>>
     ELSE /\ state' = "threaded"
          /\ Call(t, "idle", Frame("poller", "create", Nobody))
          /\ UNCHANGED fault
  /\ UNCHANGED <<stateMutex, stopping, stopCalled, seqVars, outbound,
                 pollVars, inVars, replyVars, netVars>>

CreateDispatcher(t) ==
  /\ At(t, {"poller"}, "create")
  /\ stack' = [stack EXCEPT
                 ![t][Len(stack[t])].pc = "loop",
                 ![Dispatcher] = <<Frame("dispatcher", "loop", Nobody)>>]
  /\ UNCHANGED <<stateVars, seqVars, outbound, pollVars, inVars, replyVars,
                 netVars, fault>>

PollerLoop(t) ==
  /\ At(t, {"poller"}, "loop")
  /\ IF MustStop
     THEN Goto(t, "reset") /\ UNCHANGED oldLength
     ELSE Goto(t, "claim") /\ oldLength' = Len(inbound)
  /\ UNCHANGED <<stateVars, seqVars, outbound, pollVars, inbound, messages,
                 popped, handled, replyVars, netVars, fault>>

(* Mutation: an expired timer does not wake the dispatch thread.           *)
OnlyNewData == Len(inbound) > oldLength
WakeNeeded == Len(inbound) > oldLength \/ ExpiredTimer

(* Whether to wake the dispatch thread is decided first ...                *)
DecideSignal(t) ==
  /\ At(t, {"poller"}, "signal")
  /\ Goto(t, IF WakeNeeded THEN "wake" ELSE "loop")
  /\ UNCHANGED <<stateVars, seqVars, outbound, pollVars, inVars, replyVars,
                 netVars, fault>>

(* ... and the condition is signalled afterwards: lost unless it waits.    *)
Asleep == stack[Dispatcher] # <<>> /\ Top(Dispatcher).pc = "asleep"

SignalDispatcher(t) ==
  /\ At(t, {"poller"}, "wake")
  /\ stack' = [stack EXCEPT
                 ![t][Len(stack[t])].pc = "loop",
                 ![Dispatcher] = IF Asleep
                                 THEN <<Frame("dispatcher", "loop", Nobody)>>
                                 ELSE @]
  /\ UNCHANGED <<stateVars, seqVars, outbound, pollVars, inVars, replyVars,
                 netVars, fault>>

JoinDispatcher(t) ==
  /\ At(t, {"poller"}, "join")
  /\ stack[Dispatcher] = <<>>
  /\ Goto(t, "finish")
  /\ UNCHANGED <<stateVars, seqVars, outbound, pollVars, inVars, replyVars,
                 netVars, fault>>

(* dispatchThreadMain: the test of stopping, and one wait per round.       *)
DispatcherLoop(t) ==
  /\ At(t, {"dispatcher"}, "loop")
  /\ IF MustStop THEN Return(t) ELSE Goto(t, "unbuffer")
  /\ UNCHANGED <<stateVars, seqVars, outbound, pollVars, inVars, replyVars,
                 netVars, fault>>

DispatcherWait(t) ==
  /\ At(t, {"dispatcher"}, "cond")
  /\ Goto(t, "asleep")
  /\ UNCHANGED <<stateVars, seqVars, outbound, pollVars, inVars, replyVars,
                 netVars, fault>>

(* pthread_cond_wait may return without a signal.                          *)
SpuriousWake(t) ==
  /\ At(t, {"dispatcher"}, "asleep")
  /\ Goto(t, "loop")
  /\ UNCHANGED <<stateVars, seqVars, outbound, pollVars, inVars, replyVars,
                 netVars, fault>>

-----------------------------------------------------------------------------
(* The server answers requests in order; when a method returns an error it *)
(* sends no reply (messageDespatchInvokeInstanceMethod).                   *)
Serve ==
  /\ fault = "none"
  /\ toServer # <<>> /\ Len(toClient) < SocketSize
  /\ toServer' = Tail(toServer)
  /\ LET r == Head(toServer)
         answer == IF r \in Failing THEN <<>> ELSE <<Reply(seqOf[r])>>
     IN  /\ toClient' = toClient \o answer
         /\ sent' = sent \o answer
  /\ UNCHANGED <<stack, stateVars, seqVars, outbound, pollVars, inVars,
                 replyVars, fault>>

EventsSent == Cardinality({i \in DOMAIN sent : sent[i].op = "event"})

SendEvent ==
  /\ fault = "none"
  /\ EventsSent < MaxEvents /\ Len(toClient) < SocketSize
  /\ toClient' = Append(toClient, Event(EventsSent + 1))
  /\ sent' = Append(sent, Event(EventsSent + 1))
  /\ UNCHANGED <<stack, stateVars, seqVars, outbound, pollVars, inVars,
                 replyVars, toServer, fault>>

-----------------------------------------------------------------------------
PollStep(t) ==
  \/ ClaimList(t) \/ PollSocket(t) \/ ReadServer(t) \/ WriteServer(t)
  \/ CheckOutbound(t) \/ ClearPollout(t) \/ ReleaseList(t)

DispatchStep(t) ==
  \/ Unbuffer(t) \/ ParseOne(t) \/ TestEmpty(t) \/ PopMessage(t)
  \/ ProcessMessage(t) \/ HandlerReturn(t)

RequestStep(t) ==
  \/ StoreSeq(t) \/ Serialise(t) \/ SetPollout(t) \/ RegisterReply(t)
  \/ WaitReturn(t) \/ ChooseWait(t) \/ EnterPoll(t) \/ LeavePoll(t)

LoopStep(t) ==
  \/ BeginRun(t) \/ RunLoop(t) \/ ResetStopping(t) \/ Finish(t)
  \/ BeginThreaded(t) \/ CreateDispatcher(t) \/ PollerLoop(t)
  \/ DecideSignal(t) \/ SignalDispatcher(t) \/ JoinDispatcher(t)
  \/ DispatcherLoop(t) \/ DispatcherWait(t)

(* What a running thread does by itself.                                   *)
ThreadStep(t) ==
  PollStep(t) \/ DispatchStep(t) \/ RequestStep(t) \/ LoopStep(t)

Next ==
  \/ \E t \in Threads : \/ ThreadStep(t)
                        \/ \E r \in Requests : BeginRequest(t, r)
                        \/ Stop(t)
                        \/ SpuriousWake(t)
  \/ Serve \/ SendEvent

Spec == Init /\ [][Next]_vars

(* Threads that can run are scheduled, handlers return, and the server     *)
(* answers; nobody need make a request, call stop or send an event.        *)
Fairness == (\A t \in Threads : WF_vars(ThreadStep(t))) /\ WF_vars(Serve)

FairSpec == Spec /\ Fairness
-----------------------------------------------------------------------------
Pcs == {"idle", "store", "serialise", "pollout", "register", "wait",
        "blocked", "again", "leave", "claim", "poll", "read", "write",
        "check", "clear", "release", "unbuffer", "empty", "pop", "process",
        "loop", "reset", "finish", "create", "signal", "wake", "join",
        "cond", "asleep", "relock"}
Frames == [kind : {"app", "handler", "request", "run", "poller",
                   "dispatcher"},
           pc : Pcs, req : Requests \cup {Nobody}, wasNone : BOOLEAN]

TypeOK ==
  /\ stack \in [Threads -> Seq(Frames)]
  /\ state \in {"none", "running", "threaded", "polling"}
  /\ stateMutex \in Threads \cup {Nobody}
  /\ stopping \in BOOLEAN /\ stopCalled \in BOOLEAN
  /\ started \subseteq Requests /\ nextSeq \in Nat
  /\ seqOf \in [Requests -> Nat]
  /\ outbound \in Seq(Requests)
  /\ pollout \in BOOLEAN /\ working \in BOOLEAN
  /\ ufds \in [Threads -> BOOLEAN]
  /\ revents \in [Threads -> [in : BOOLEAN, out : BOOLEAN]]
  /\ inbound \in Seq(Message) /\ oldLength \in Nat
  /\ messages \in Seq(Message)
  /\ popped \in [Threads -> Message] /\ handled \in Seq(Message)
  /\ DOMAIN replies \subseteq Nat /\ Range(replies) \subseteq Requests
  /\ got \subseteq Requests /\ returned \subseteq Requests
  /\ toServer \in Seq(Requests) /\ toClient \in Seq(Message)
  /\ sent \in Seq(Message)
  /\ fault \in {"none", "null list", "would block", "empty pop", "abort"}

(* Nothing the server sends is lost, duplicated or overtaken on its way    *)
(* through the socket, inbound_buffer, the list of messages and the hands  *)
(* of the dispatching thread, also when handlers dispatch recursively.     *)
Hands == {popped[t] : t \in Threads} \ {NoMessage}
InHand == IF Hands = {} THEN <<>> ELSE <<CHOOSE m \in Hands : TRUE>>
InOrder == handled \o InHand \o messages \o inbound \o toClient = sent

(* poll and run never copy into a list another call has taken, take a      *)
(* message from an empty list, read a socket that would block, or abort.   *)
NoFault == fault = "none"

(* A reply that processMessage has seen reached the Reply of its request.  *)
NoLostReply ==
  \A r \in Requests :
    r \in started /\ Reply(seqOf[r]) \in Range(handled) => r \in got

(* Requests have different sequence numbers, whichever threads make them:  *)
(* "It does not mean "you don't have to be thread safe". People can still  *)
(* call functions from other threads" (connection_nothreads.cc:33).        *)
UniqueSeqs ==
  \A q, r \in started : q # r => seqOf[q] # seqOf[r]

(* Data to be written is polled for, or about to be: POLLOUT is given up   *)
(* only "if we've got nothing left to write" (connection_io.cc:207).       *)
WritePolled ==
  outbound # <<>> =>
    \/ pollout
    \/ \E t \in Threads : stack[t] # <<>> /\ Top(t).pc = "pollout"

(* "Something else is polling right now, so do nothing"                    *)
(* (connection_io.cc:78): a second poll leaves the list alone.             *)
ListNotNull == fault # "null list"

(* Every request returns, with its reply, to the code that made it.        *)
RequestsReturn ==
  \A r \in Requests : (r \in started) ~> (r \in returned)

(* What has been received is dispatched some time, unless stop is called:  *)
(* "we leave it to the polling loop to figure out when to wake us up"      *)
(* (connection_threads.cc:171).                                            *)
ReceivedIsDispatched == (inbound # <<>>) ~> (inbound = <<>> \/ stopCalled)

(* After a call of stop, run and runThreaded return.                       *)
StopEnds == stopping ~> (state = "none")

(* stop returns to its caller, after "the other threads" have "shut down"  *)
(* (connection_threads.cc:75).                                             *)
StopReturns ==
  \A t \in Threads :
    (stack[t] # <<>> /\ Top(t).pc = "relock")
      ~> (stack[t] # <<>> /\ Top(t).pc # "relock")

(* The connection implements the contract of RequestReply.                 *)
Phase == [r \in Requests |->
            IF r \in returned THEN "returned"
            ELSE IF r \notin started THEN "new"
            ELSE IF Reply(seqOf[r]) \in Range(sent) THEN "answered"
            ELSE "asked"]
Contract == INSTANCE RequestReply WITH phase <- Phase
KeepsContract == Contract!FairSpec
=============================================================================
