------------------------------ MODULE Transport ------------------------------
(***************************************************************************)
(* The server's side of its connections: the loop over file descriptors of *)
(* controlIteration (Y/main/control.c) and the driver of Unix sockets      *)
(* (Y/main/unix.c), with the clients of libYc++ at the other end.          *)
(*                                                                         *)
(* A client connects a control socket and asks for a channel; the server   *)
(* makes a pair of sockets, keeps the near end and passes the far end over *)
(* the control socket; messages and replies go over the channel.           *)
(* Descriptors are numbers and the lowest free one is used next, so that a *)
(* number can be used again while the loop still holds what select said    *)
(* about it.  The server does not set O_NONBLOCK: a write blocks it until  *)
(* the socket has taken everything.  The loop despatches readable and      *)
(* writable in one callback; the two halves are two actions, between which *)
(* the clients run.                                                        *)
(***************************************************************************)
EXTENDS Naturals, FiniteSets, Sequences

CONSTANTS
  Clients,       \* connections; each is made at most once
  Leavers,       \* clients that may end at any time
  Quitters,      \* clients whose last message is a YMO_QUIT
  MaxFd,         \* size of the server's table of descriptors
  Capacity,      \* units a direction of a channel holds
  Chunk,         \* units one read or write moves (4096 bytes)
  MaxMessages    \* bound on the messages of a client

ASSUME SizesAssumption ==
  /\ MaxFd \in Nat \ {0} /\ Capacity \in Nat \ {0} /\ Chunk \in Nat \ {0}
  /\ MaxMessages \in Nat

VARIABLES
  fds,         \* the server's table of descriptors
  reg,         \* fileDescriptors: of each registered one its mask and data
  conn,        \* clients: of each registered one its struct unixClient
  backlog,     \* connections not yet accepted
  sock,        \* of each client: what its sockets hold
  peer,        \* of each client: its own end
  pc,          \* where controlIteration is
  ready,       \* the sets select returned, as far as not yet despatched
  cur,         \* the callback in progress: its mask and data
  written,     \* units its write has moved
  sigpipe,     \* SIGPIPE is pending
  crashed,     \* the server has died
  undefined    \* released memory has been used

serverVars == <<fds, reg, conn>>
loopVars == <<pc, ready, cur, written>>
endVars == <<sigpipe, crashed, undefined>>
vars == <<serverVars, backlog, sock, peer, loopVars, endVars>>

-----------------------------------------------------------------------------
Fds == 0 .. MaxFd - 1
Free == <<"free">>
Listen == <<"listen">>
Control(c) == <<"control", c>>
Near(c) == <<"near", c>>
Far(c) == <<"far", c>>

LeastIn(S) == CHOOSE x \in S : \A y \in S : x <= y
With(f, x, v) == [y \in DOMAIN f \cup {x} |-> IF y = x THEN v ELSE f[y]]
FdOf(w) == CHOOSE f \in Fds : fds[f] = w
IsOpen(w) == \E f \in Fds : fds[f] = w
FreeFds == {f \in Fds : fds[f] = Free}

(* A message is two units, its length and its body.                        *)
Unit(m, part) == [msg |-> m, part |-> part]
Whole(m) == <<Unit(m, "length"), Unit(m, "body")>>
IsQuit(c, m) == c \in Quitters /\ m = MaxMessages

(* Somebody holds the far end of c's channel.                              *)
FarHeld(c) == IsOpen(Far(c)) \/ sock[c].passing \/ peer[c].channel

Readable(f) ==
  LET w == fds[f] IN
    \/ w = Listen /\ backlog # <<>>
    \/ \E c \in Clients :
         \/ w = Control(c) /\ (sock[c].asking \/ ~peer[c].control)
         \/ w = Near(c) /\ (sock[c].in # <<>> \/ ~FarHeld(c))

Writable(f) ==
  \/ \E c \in Clients : fds[f] = Control(c)
  \/ \E c \in Clients :
       fds[f] = Near(c) /\ (Len(sock[c].out) < Capacity \/ ~FarHeld(c))

NoCallback == [mask |-> {}, data |-> Free]

Init ==
  /\ fds = [f \in Fds |-> IF f = 0 THEN Listen ELSE Free]
  /\ reg = [f \in {0} |-> [mask |-> {"read"}, data |-> Listen]]
  /\ conn = <<>>
  /\ backlog = <<>>
  /\ sock = [c \in Clients |-> [asking |-> FALSE, passing |-> FALSE,
                                in |-> <<>>, out |-> <<>>]]
  /\ peer = [c \in Clients |-> [state |-> "new", control |-> FALSE,
                                channel |-> FALSE, sent |-> 0, got |-> <<>>]]
  /\ pc = "select" /\ ready = <<>> /\ cur = NoCallback /\ written = 0
  /\ sigpipe = FALSE /\ crashed = FALSE /\ undefined = FALSE

Running == ~crashed /\ ~undefined

-----------------------------------------------------------------------------
(* controlIteration.                                                       *)

(* The sets given to select, and what it returns.                          *)
Reported ==
  LET mask(f) == {k \in reg[f].mask : \/ k = "read" /\ Readable(f)
                                      \/ k = "write" /\ Writable(f)}
  IN [f \in {g \in DOMAIN reg : mask(g) # {}} |->
        [mask |-> mask(f), data |-> reg[f].data]]

(* When nothing is ready select times out and the loop starts again.       *)
Select ==
  /\ Running /\ pc = "select"
  /\ DOMAIN Reported # {}
  /\ ready' = Reported
  /\ pc' = "despatch"
  /\ UNCHANGED <<serverVars, backlog, sock, peer, cur, written, endVars>>

(* The next descriptor of the sets; its callback is looked up now.         *)
Despatching(f) ==
  /\ Running /\ pc = "despatch"
  /\ DOMAIN ready # {} /\ f = LeastIn(DOMAIN ready)
  /\ ready' = [g \in DOMAIN ready \ {f} |-> ready[g]]

Skip(f) ==
  /\ Despatching(f)
  /\ f \notin DOMAIN reg
  /\ UNCHANGED <<serverVars, backlog, sock, peer, pc, cur, written, endVars>>

Mask(f) == ready[f].mask

(* The callback registered for f is called with the mask of f.             *)
Calling(f, w) ==
  /\ Despatching(f)
  /\ f \in DOMAIN reg /\ reg[f].data = w

(* The first half of a callback is over: the second one follows.           *)
HalfDone(f) ==
  IF "write" \in Mask(f)
  THEN /\ pc' = "write"
       /\ cur' = [mask |-> Mask(f), data |-> reg[f].data]
  ELSE UNCHANGED <<pc, cur>>

CallbackDone == pc' = "despatch" /\ cur' = NoCallback

(* controlPollSignals: signals are blocked otherwise; for one that has no  *)
(* handler, like SIGPIPE, signalHandler follows a NULL pointer.            *)
PollSignals ==
  /\ Running /\ pc = "despatch" /\ DOMAIN ready = {}
  /\ pc' = "select"
  /\ crashed' = sigpipe
  /\ UNCHANGED <<serverVars, backlog, sock, peer, ready, cur, written,
                 sigpipe, undefined>>

-----------------------------------------------------------------------------
(* clientClose and unixClose: both sockets are unregistered and closed,    *)
(* and with a queued message the far end.                                  *)

(* Mutation: an end that was never passed on stays open.                   *)
LeavesFar(c) == {Control(c), Near(c)}
EndsOf(c) == {Control(c), Near(c), Far(c)}

UnregisteredWith(c) == {Control(c), Near(c)}

ClientClose(c) ==
  /\ fds' = [f \in Fds |-> IF fds[f] \in EndsOf(c) THEN Free ELSE fds[f]]
  /\ reg' = [f \in {g \in DOMAIN reg :
                      reg[g].data \notin UnregisteredWith(c)} |-> reg[f]]
  /\ conn' = [d \in DOMAIN conn \ {c} |-> conn[d]]

(* unixSocketReady: without a free descriptor the connection stays queued. *)
SocketReady(f) ==
  /\ Calling(f, Listen)
  /\ backlog # <<>>
  /\ IF FreeFds = {} THEN UNCHANGED <<serverVars, backlog>>
     ELSE LET c == Head(backlog)
              new == LeastIn(FreeFds)
          IN /\ fds' = [fds EXCEPT ![new] = Control(c)]
             /\ reg' = With(reg, new, [mask |-> {"read"}, data |-> Control(c)])
             /\ conn' = With(conn, c, [authenticated |-> FALSE, queue |-> FALSE,
                                      sendq |-> <<>>, recvq |-> <<>>])
             /\ backlog' = Tail(backlog)
  /\ UNCHANGED <<sock, peer, pc, cur, written, endVars>>

(* Mutation: the near end, the second of the pair, is registered at once.  *)
RegistersAtOnce(c) ==
  LET far == LeastIn(FreeFds)
      near == LeastIn(FreeFds \ {far})
  IN /\ fds' = [fds EXCEPT ![near] = Near(c), ![far] = Far(c)]
     /\ conn' = [conn EXCEPT ![c].authenticated = TRUE, ![c].queue = TRUE]
     /\ reg' = With([reg EXCEPT ![FdOf(Control(c))].mask = {"read", "write"}],
                    near, [mask |-> {"read"}, data |-> Near(c)])

(* unixNewChannel makes the pair and queues the message that passes the    *)
(* far end; the near end is not registered before that message is sent.    *)
NewChannel(c) ==
  LET near == LeastIn(FreeFds)
      far == LeastIn(FreeFds \ {near})
  IN /\ fds' = [fds EXCEPT ![near] = Near(c), ![far] = Far(c)]
     /\ conn' = [conn EXCEPT ![c].authenticated = TRUE, ![c].queue = TRUE]
     /\ reg' = [reg EXCEPT ![FdOf(Control(c))].mask = {"read", "write"}]

(* doControlRead: an authenticate message, or end of file.                 *)
ControlRead(f, c) ==
  /\ Calling(f, Control(c))
  /\ "read" \in Mask(f)
  /\ IF sock[c].asking
     THEN /\ sock' = [sock EXCEPT ![c].asking = FALSE]
          /\ IF conn[c].authenticated THEN UNCHANGED serverVars
             ELSE IF Cardinality(FreeFds) < 2 THEN ClientClose(c)
             ELSE NewChannel(c)
     ELSE /\ ~peer[c].control
          /\ ClientClose(c)
          /\ UNCHANGED sock
  /\ HalfDone(f)
  /\ UNCHANGED <<backlog, peer, written, endVars>>

(* A callback with no first half.                                          *)
WriteOnly(f) ==
  /\ \E c \in Clients : Calling(f, Control(c)) \/ Calling(f, Near(c))
  /\ "read" \notin Mask(f)
  /\ HalfDone(f)
  /\ UNCHANGED <<serverVars, backlog, sock, peer, written, endVars>>

(* The second half of a callback for c: the record may be gone.            *)
Writing(w) == Running /\ pc = "write" /\ cur.data = w

UseAfterClose(c) ==
  /\ Writing(Control(c)) \/ Writing(Near(c))
  /\ c \notin DOMAIN conn
  /\ undefined' = TRUE
  /\ UNCHANGED <<serverVars, backlog, sock, peer, loopVars, sigpipe, crashed>>

(* doControlWrite passes the far end and registers the near one, or finds  *)
(* the client gone.                                                        *)
ControlWrite(c) ==
  /\ Writing(Control(c)) /\ c \in DOMAIN conn
  /\ IF ~conn[c].queue
     THEN /\ reg' = [reg EXCEPT ![FdOf(Control(c))].mask = {"read"}]
          /\ UNCHANGED <<fds, conn, sock, sigpipe>>
     ELSE IF ~peer[c].control
     THEN ClientClose(c) /\ sigpipe' = TRUE /\ UNCHANGED sock
     ELSE /\ sock' = [sock EXCEPT ![c].passing = TRUE]
          /\ conn' = [conn EXCEPT ![c].queue = FALSE]
          /\ fds' = [fds EXCEPT ![FdOf(Far(c))] = Free]
          /\ reg' = With([reg EXCEPT ![FdOf(Control(c))].mask = {"read"}],
                         FdOf(Near(c)), [mask |-> {"read"}, data |-> Near(c)])
          /\ UNCHANGED sigpipe
  /\ CallbackDone
  /\ UNCHANGED <<backlog, peer, ready, written, crashed, undefined>>

-----------------------------------------------------------------------------
(* clientReadData: the complete messages in a queue, and what is left.     *)
Complete(q) == [i \in 1 .. Len(q) \div 2 |-> q[2 * i - 1].msg]

(* Mutation: an incomplete message is thrown away.                         *)
DropsRest(q) == <<>>
Rest(q) == SubSeq(q, 2 * (Len(q) \div 2) + 1, Len(q))

(* Every message is answered over the channel: the reply is queued and the *)
(* channel watched for writing (clientSendMessage, unixWriteData).         *)
RepliesTo(ms) ==
  [i \in 1 .. 2 * Len(ms) |->
     Unit(ms[(i + 1) \div 2], IF i % 2 = 1 THEN "length" ELSE "body")]

(* Mutation: the mask is left as it is.                                    *)
LeavesMask(c) == reg[FdOf(Near(c))].mask
WatchedForWriting(c) == {"read", "write"}

(* doChannelRead and clientReadData.  After a YMO_QUIT the loop tests the  *)
(* length of the queue that clientClose has just released.                 *)
ChannelRead(f, c) ==
  /\ Calling(f, Near(c))
  /\ "read" \in Mask(f)
  /\ IF sock[c].in = <<>>
     THEN /\ ~FarHeld(c)
          /\ ClientClose(c)
          /\ UNCHANGED <<sock, undefined>>
     ELSE LET k == LeastIn({Chunk, Len(sock[c].in)})
              q == conn[c].recvq \o SubSeq(sock[c].in, 1, k)
              ms == Complete(q)
          IN /\ sock' = [sock EXCEPT ![c].in = SubSeq(@, k + 1, Len(@))]
             /\ IF \E i \in DOMAIN ms : IsQuit(c, ms[i])
                THEN ClientClose(c) /\ undefined' \in BOOLEAN
                ELSE /\ conn' = [conn EXCEPT ![c].recvq = Rest(q),
                                             ![c].sendq = @ \o RepliesTo(ms)]
                     /\ reg' = IF ms = <<>> THEN reg
                               ELSE [reg EXCEPT ![f].mask = WatchedForWriting(c)]
                     /\ UNCHANGED <<fds, undefined>>
  /\ HalfDone(f)
  /\ UNCHANGED <<backlog, peer, written, sigpipe, crashed>>

(* doChannelWrite: a write of at most Chunk units, which the socket takes  *)
(* as it has room, ...                                                     *)
(* Mutation: the size of one write is not bounded.                         *)
Everything(c) == Len(conn[c].sendq)
Amount(c) == LeastIn({Chunk, Len(conn[c].sendq)})

ChannelPush(c) ==
  /\ Writing(Near(c)) /\ c \in DOMAIN conn
  /\ written < Amount(c)
  /\ FarHeld(c) /\ Len(sock[c].out) < Capacity
  /\ sock' = [sock EXCEPT ![c].out = Append(@, conn[c].sendq[written + 1])]
  /\ written' = written + 1
  /\ UNCHANGED <<serverVars, backlog, peer, pc, ready, cur, endVars>>

(* ... and which returns the number taken, ...                             *)
ChannelWritten(c) ==
  /\ Writing(Near(c)) /\ c \in DOMAIN conn
  /\ \/ written = Amount(c)
     \/ written > 0 /\ ~FarHeld(c)
  /\ LET left == SubSeq(conn[c].sendq, written + 1, Len(conn[c].sendq)) IN
       /\ conn' = [conn EXCEPT ![c].sendq = left]
       /\ reg' = IF left = <<>>
                 THEN [reg EXCEPT ![FdOf(Near(c))].mask = {"read"}]
                 ELSE reg
  /\ written' = 0
  /\ CallbackDone
  /\ UNCHANGED <<fds, backlog, sock, peer, ready, endVars>>

(* ... or fails when nobody holds the far end.                             *)
ChannelBroken(c) ==
  /\ Writing(Near(c)) /\ c \in DOMAIN conn
  /\ written = 0 /\ ~FarHeld(c)
  /\ ClientClose(c)
  /\ sigpipe' = TRUE
  /\ CallbackDone
  /\ UNCHANGED <<backlog, sock, peer, ready, written, crashed, undefined>>

-----------------------------------------------------------------------------
(* The client's end: Connection::unixInitialise, then readServer and       *)
(* writeServer.                                                            *)
Connect(c) ==
  /\ peer[c].state = "new" /\ Running
  /\ peer' = [peer EXCEPT ![c].state = "connected", ![c].control = TRUE]
  /\ backlog' = Append(backlog, c)
  /\ UNCHANGED <<serverVars, sock, loopVars, endVars>>

Authenticate(c) ==
  /\ peer[c].state = "connected"
  /\ peer' = [peer EXCEPT ![c].state = "asked"]
  /\ sock' = [sock EXCEPT ![c].asking = TRUE]
  /\ UNCHANGED <<serverVars, backlog, loopVars, endVars>>

ReceiveChannel(c) ==
  /\ peer[c].state = "asked" /\ sock[c].passing
  /\ peer' = [peer EXCEPT ![c].state = "ready", ![c].channel = TRUE]
  /\ sock' = [sock EXCEPT ![c].passing = FALSE]
  /\ UNCHANGED <<serverVars, backlog, loopVars, endVars>>

SendUnit(c) ==
  /\ peer[c].state = "ready" /\ IsOpen(Near(c))
  /\ peer[c].sent < 2 * MaxMessages
  /\ Len(sock[c].in) < Capacity
  /\ LET m == peer[c].sent \div 2 + 1 IN
       sock' = [sock EXCEPT
                  ![c].in = Append(@, Whole(m)[(peer[c].sent % 2) + 1])]
  /\ peer' = [peer EXCEPT ![c].sent = @ + 1]
  /\ UNCHANGED <<serverVars, backlog, loopVars, endVars>>

ReceiveUnit(c) ==
  /\ peer[c].state = "ready" /\ sock[c].out # <<>>
  /\ peer' = [peer EXCEPT ![c].got = Append(@, Head(sock[c].out))]
  /\ sock' = [sock EXCEPT ![c].out = Tail(@)]
  /\ UNCHANGED <<serverVars, backlog, loopVars, endVars>>

(* A client ends, by itself or when the server closes its sockets; they    *)
(* are closed one after the other.                                         *)
MayLeave(c) ==
  c \in Leavers \/ (peer[c].state = "ready" /\ ~IsOpen(Near(c)))

CloseControl(c) ==
  /\ Running /\ peer[c].control
  /\ MayLeave(c) \/ peer[c].state = "gone"
  /\ peer' = [peer EXCEPT ![c].control = FALSE, ![c].state = "gone"]
  /\ sock' = [sock EXCEPT ![c].passing = FALSE]
  /\ UNCHANGED <<serverVars, backlog, loopVars, endVars>>

CloseChannel(c) ==
  /\ Running /\ peer[c].channel
  /\ MayLeave(c) \/ peer[c].state = "gone"
  /\ peer' = [peer EXCEPT ![c].channel = FALSE, ![c].state = "gone"]
  /\ sock' = [sock EXCEPT ![c].out = <<>>]
  /\ UNCHANGED <<serverVars, backlog, loopVars, endVars>>

-----------------------------------------------------------------------------
ServerStep ==
  \/ Select \/ PollSignals
  \/ \E f \in Fds : \/ Skip(f) \/ SocketReady(f) \/ WriteOnly(f)
                    \/ \E c \in Clients : ControlRead(f, c) \/ ChannelRead(f, c)
  \/ \E c \in Clients :
       \/ UseAfterClose(c) \/ ControlWrite(c)
       \/ ChannelPush(c) \/ ChannelWritten(c) \/ ChannelBroken(c)

(* What a client does as long as it runs.                                  *)
ClientStep(c) ==
  Authenticate(c) \/ ReceiveChannel(c) \/ SendUnit(c) \/ ReceiveUnit(c)

Next ==
  \/ ServerStep
  \/ \E c \in Clients :
       ClientStep(c) \/ Connect(c) \/ CloseControl(c) \/ CloseChannel(c)

Spec == Init /\ [][Next]_vars

-----------------------------------------------------------------------------
Ends == {Free, Listen} \cup
        UNION {{Control(c), Near(c), Far(c)} : c \in Clients}
Callback == [mask : SUBSET {"read", "write"}, data : Ends]
Units == [msg : 1 .. MaxMessages, part : {"length", "body"}]

TypeOK ==
  /\ fds \in [Fds -> Ends]
  /\ DOMAIN reg \subseteq Fds /\ reg \in [DOMAIN reg -> Callback]
  /\ DOMAIN conn \subseteq Clients
  /\ conn \in [DOMAIN conn -> [authenticated : BOOLEAN, queue : BOOLEAN,
                               sendq : Seq(Units), recvq : Seq(Units)]]
  /\ backlog \in Seq(Clients)
  /\ sock \in [Clients -> [asking : BOOLEAN, passing : BOOLEAN,
                           in : Seq(Units), out : Seq(Units)]]
  /\ peer \in [Clients ->
                 [state : {"new", "connected", "asked", "ready", "gone"},
                  control : BOOLEAN, channel : BOOLEAN,
                  sent : 0 .. 2 * MaxMessages, got : Seq(Units)]]
  /\ pc \in {"select", "despatch", "write"}
  /\ DOMAIN ready \subseteq Fds /\ ready \in [DOMAIN ready -> Callback]
  /\ cur \in Callback /\ written \in 0 .. Chunk
  /\ sigpipe \in BOOLEAN /\ crashed \in BOOLEAN /\ undefined \in BOOLEAN

(* Every registered descriptor is open and is the one its callback expects *)
(* (the assertions at unix.c:262, 419 and 431), although numbers are used  *)
(* again; a near end is registered once its far end is passed on; and no   *)
(* descriptor stays open without a client that owns it.                    *)
DescriptorsAgree ==
  /\ \A f \in DOMAIN reg : fds[f] = reg[f].data
  /\ \A f \in Fds, c \in Clients :
       /\ fds[f] = Control(c) => c \in DOMAIN conn /\ f \in DOMAIN reg
       /\ fds[f] = Near(c) =>
            c \in DOMAIN conn /\ (f \in DOMAIN reg <=> ~conn[c].queue)
       /\ fds[f] = Far(c) => c \in DOMAIN conn /\ conn[c].queue

(* The loop calls a callback only with what select said about the very     *)
(* connection it serves, although connections are closed and descriptors   *)
(* given out again while the loop goes through the sets (control.c:422).   *)
WellDirected ==
  pc = "despatch" =>
    \A f \in DOMAIN ready \cap DOMAIN reg : reg[f].data = ready[f].data

(* A channel is watched for writing exactly when something is queued for   *)
(* it, and a control socket exactly when a message is: nothing is stuck in *)
(* a queue, and the loop does not spin (unix.c:203, 253, 411).             *)
QueuedIsWatched ==
  \A c \in DOMAIN conn :
    /\ conn[c].queue <=> "write" \in reg[FdOf(Control(c))].mask
    /\ IsOpen(Near(c)) /\ ~conn[c].queue =>
         (conn[c].sendq # <<>> <=> "write" \in reg[FdOf(Near(c))].mask)
    /\ conn[c].sendq # <<>> => IsOpen(Near(c)) /\ ~conn[c].queue

(* What a client has got, what is on its way and what is queued are the    *)
(* replies to its messages, in order, complete and once; and nothing of    *)
(* what it sent is lost, however reads and writes are split.               *)
RepliesInOrder ==
  \A c \in DOMAIN conn :
    peer[c].state = "ready" =>
      LET mine == Running /\ Writing(Near(c))
          queued == IF mine
                    THEN SubSeq(conn[c].sendq, written + 1, Len(conn[c].sendq))
                    ELSE conn[c].sendq
          replies == peer[c].got \o sock[c].out \o queued
      IN /\ replies = RepliesTo([i \in 1 .. Len(replies) \div 2 |-> i])
         /\ Len(replies) + Len(conn[c].recvq) + Len(sock[c].in) = peer[c].sent

(* The server uses no connection it has closed.                            *)
NeverUndefined == ~undefined

(* The end of a client does not end the server.                            *)
ServerSurvives == ~crashed
=============================================================================
