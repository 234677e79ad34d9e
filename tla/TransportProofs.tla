--------------------------- MODULE TransportProofs ---------------------------
(***************************************************************************)
(* Proofs about Transport, for any number of clients and any size of the   *)
(* table of descriptors: that the registrations agree with what is open,   *)
(* that the loop calls no callback with what select said about another     *)
(* connection, that what is queued is watched for writing, and that each   *)
(* client gets its replies once and in the order of its requests.          *)
(***************************************************************************)
EXTENDS Transport, TLAPS, FiniteSetTheorems, SequenceTheorems

-----------------------------------------------------------------------------
(* Ends of different kinds, or of different clients, are different.        *)
LEMMA Apart ==
  /\ Free \in Ends /\ Listen \in Ends /\ Free # Listen
  /\ \A c \in Clients :
       /\ {Control(c), Near(c), Far(c)} \subseteq Ends
       /\ {Free, Listen} \cap {Control(c), Near(c), Far(c)} = {}
  /\ \A c, d \in Clients :
       /\ Control(c) # Near(d) /\ Control(c) # Far(d) /\ Near(c) # Far(d)
       /\ Control(c) = Control(d) => c = d
       /\ Near(c) = Near(d) => c = d
       /\ Far(c) = Far(d) => c = d
BY DEF Ends, Free, Listen, Control, Near, Far

(* Nothing else is an end.                                                 *)
LEMMA EndCases ==
  ASSUME NEW w \in Ends
  PROVE  \/ w = Free \/ w = Listen
         \/ \E c \in Clients : w \in {Control(c), Near(c), Far(c)}
BY DEF Ends

(* A set of numbers has a least one, which LeastIn names.                  *)
LEMMA Least ==
  ASSUME NEW S, S \subseteq Nat, S # {}
  PROVE  LeastIn(S) \in S /\ \A y \in S : LeastIn(S) <= y
<1> DEFINE R == StrictSubsetOrdering(Nat)
           F == FiniteSubsetsOf(Nat)
           T == {0 .. x : x \in S}
<1>1. IsWellFoundedOn(R, F)
  BY FS_StrictSubsetOrderingWellFounded
<1>2. T \subseteq F
  <2>1. SUFFICES ASSUME NEW x \in S  PROVE 0 .. x \in F
    OBVIOUS
  <2>2. 0 .. x \in SUBSET Nat
    OBVIOUS
  <2>3. IsFiniteSet(0 .. x)
    BY FS_Interval
  <2> QED BY <2>2, <2>3 DEF FiniteSubsetsOf
<1>3. T # {}
  OBVIOUS
<1>4. PICK t \in T : \A u \in T : ~(<<u, t>> \in R)
  <2> HIDE DEF R, F, T
  <2> QED BY <1>1, <1>2, <1>3, WFMin
<1>5. PICK x \in S : t = 0 .. x
  BY <1>4
<1>6. \A y \in S : x <= y
  <2>1. TAKE y \in S
  <2>2. SUFFICES ASSUME y < x  PROVE FALSE
    OBVIOUS
  <2>3. 0 .. y \subseteq 0 .. x /\ x \in 0 .. x /\ x \notin 0 .. y
    BY <2>2
  <2>4. <<0 .. y, t>> \in R
    BY <1>5, <2>3 DEF StrictSubsetOrdering
  <2> QED BY <1>4, <2>4
<1> QED BY <1>6 DEF LeastIn

LEMMA LeastFd ==
  ASSUME NEW S, S \subseteq Fds, S # {}
  PROVE  LeastIn(S) \in S /\ (0 \in S => LeastIn(S) = 0)
<1>1. S \subseteq Nat
  BY SizesAssumption DEF Fds
<1>2. LeastIn(S) \in S /\ \A y \in S : LeastIn(S) <= y
  BY <1>1, Least
<1>3. ASSUME 0 \in S  PROVE LeastIn(S) = 0
  <2>1. LeastIn(S) \in Nat /\ LeastIn(S) <= 0
    BY <1>1, <1>2, <1>3
  <2> QED BY <2>1
<1> QED BY <1>2, <1>3

(* Of two descriptors that are free one is left when the other is used.    *)
LEMMA TwoFree ==
  ASSUME ~(Cardinality(FreeFds) < 2), NEW f \in FreeFds
  PROVE  FreeFds \ {f} # {}
<1> SUFFICES ASSUME FreeFds = {f}  PROVE FALSE
  OBVIOUS
<1>1. Cardinality({f}) = 1
  BY FS_Singleton
<1> QED BY <1>1

-----------------------------------------------------------------------------
Record == [authenticated : BOOLEAN, queue : BOOLEAN,
           sendq : Seq(Units), recvq : Seq(Units)]

Holds == [asking : BOOLEAN, passing : BOOLEAN,
          in : Seq(Units), out : Seq(Units)]

Peer == [state : {"new", "connected", "asked", "ready", "gone"},
         control : BOOLEAN, channel : BOOLEAN,
         sent : 0 .. 2 * MaxMessages, got : Seq(Units)]

(* The tables of the server: their types, ...                              *)
Tables ==
  /\ fds \in [Fds -> Ends]
  /\ DOMAIN reg \subseteq Fds /\ reg \in [DOMAIN reg -> Callback]
  /\ DOMAIN conn \subseteq Clients /\ conn \in [DOMAIN conn -> Record]

(* ... an end is open once, and 0 listens, ...                             *)
Once ==
  /\ 0 \in Fds /\ fds[0] = Listen
  /\ \A f, g \in Fds : fds[f] = fds[g] => f = g \/ fds[f] = Free

(* ... what is registered is open and no far end, ...                      *)
Registered ==
  \A f \in DOMAIN reg :
    /\ fds[f] = reg[f].data /\ fds[f] # Free
    /\ \A c \in Clients : fds[f] # Far(c)

(* ... the ends belong to clients, ...                                     *)
Held ==
  \A f \in Fds, c \in Clients :
    /\ fds[f] = Control(c) => c \in DOMAIN conn /\ f \in DOMAIN reg
    /\ fds[f] = Near(c) =>
         c \in DOMAIN conn /\ (f \in DOMAIN reg <=> ~conn[c].queue)
    /\ fds[f] = Far(c) => c \in DOMAIN conn /\ conn[c].queue

(* ... a client has the ends its record speaks of, ...                     *)
Owned ==
  \A c \in DOMAIN conn :
    /\ IsOpen(Control(c))
    /\ conn[c].authenticated <=> IsOpen(Near(c))
    /\ conn[c].queue => conn[c].authenticated /\ IsOpen(Far(c))
    /\ conn[c].sendq # <<>> => conn[c].authenticated /\ ~conn[c].queue

(* ... and the masks say for whom something is queued.                     *)
Watched ==
  \A f \in DOMAIN reg, c \in DOMAIN conn :
    /\ fds[f] = Control(c) => (conn[c].queue <=> "write" \in reg[f].mask)
    /\ fds[f] = Near(c) => (conn[c].sendq # <<>> <=> "write" \in reg[f].mask)

ServerInv == Tables /\ Once /\ Registered /\ Held /\ Owned /\ Watched

(* A connection waits to be accepted once, and is accepted once.           *)
Waiting ==
  /\ \A i, j \in DOMAIN backlog : backlog[i] = backlog[j] => i = j
  /\ \A i \in DOMAIN backlog :
       backlog[i] \notin DOMAIN conn /\ peer[backlog[i]].state # "new"
  /\ \A c \in DOMAIN conn : peer[c].state # "new"

(* What select said is about what is registered now: a number given out    *)
(* anew is not registered while the sets still speak of it, because 0,     *)
(* which accepts, is the first they name, and because a near end is        *)
(* registered by a control socket that the sets spoke of too.              *)
Directed ==
  /\ pc = "select" => DOMAIN ready = {}
  /\ pc = "write" => 0 \notin DOMAIN ready
  /\ 0 \in DOMAIN ready => DOMAIN ready \subseteq DOMAIN reg
  /\ \A f \in DOMAIN ready \cap DOMAIN reg : reg[f].data = ready[f].data
  /\ \A f \in DOMAIN ready, c \in DOMAIN conn :
       fds[f] = Control(c) /\ "write" \in ready[f].mask => conn[c].authenticated
  /\ \A f \in DOMAIN ready, c \in DOMAIN conn :
       conn[c].queue /\ fds[f] = Near(c) =>
         /\ \A g \in DOMAIN ready : fds[g] # Control(c)
         /\ ~(pc = "write" /\ cur.data = Control(c))
  /\ \A c \in DOMAIN conn :
       pc = "write" /\ cur.data = Near(c) => conn[c].authenticated /\ ~conn[c].queue

IInv == TypeOK /\ ServerInv /\ Waiting /\ Directed

-----------------------------------------------------------------------------
(* The number of an end.                                                   *)
LEMMA Number ==
  ASSUME Once, NEW w, w # Free, IsOpen(w)
  PROVE  /\ FdOf(w) \in Fds /\ fds[FdOf(w)] = w
         /\ \A f \in Fds : fds[f] = w <=> f = FdOf(w)
<1>1. PICK f \in Fds : fds[f] = w
  BY DEF IsOpen
<1>2. FdOf(w) \in Fds /\ fds[FdOf(w)] = w
  BY <1>1 DEF FdOf
<1> QED BY <1>2 DEF Once

(* Where a client is known, the numbers of its ends and what is registered *)
(* for them.                                                               *)
LEMMA ControlNumber ==
  ASSUME ServerInv, NEW c \in DOMAIN conn
  PROVE  /\ FdOf(Control(c)) \in DOMAIN reg
         /\ \A f \in Fds : fds[f] = Control(c) <=> f = FdOf(Control(c))
<1>1. c \in Clients /\ IsOpen(Control(c)) /\ Control(c) # Free
  BY Apart DEF ServerInv, Tables, Owned
<1>2. /\ FdOf(Control(c)) \in Fds /\ fds[FdOf(Control(c))] = Control(c)
      /\ \A f \in Fds : fds[f] = Control(c) <=> f = FdOf(Control(c))
  BY <1>1, Number DEF ServerInv
<1> QED BY <1>1, <1>2 DEF ServerInv, Held

LEMMA NearNumber ==
  ASSUME ServerInv, NEW c \in DOMAIN conn, conn[c].authenticated
  PROVE  /\ FdOf(Near(c)) \in Fds
         /\ FdOf(Near(c)) \in DOMAIN reg <=> ~conn[c].queue
         /\ \A f \in Fds : fds[f] = Near(c) <=> f = FdOf(Near(c))
<1>1. c \in Clients /\ IsOpen(Near(c)) /\ Near(c) # Free
  BY Apart DEF ServerInv, Tables, Owned
<1>2. /\ FdOf(Near(c)) \in Fds /\ fds[FdOf(Near(c))] = Near(c)
      /\ \A f \in Fds : fds[f] = Near(c) <=> f = FdOf(Near(c))
  BY <1>1, Number DEF ServerInv
<1> QED BY <1>1, <1>2 DEF ServerInv, Held

LEMMA FarNumber ==
  ASSUME ServerInv, NEW c \in DOMAIN conn, conn[c].queue
  PROVE  /\ FdOf(Far(c)) \in Fds
         /\ \A f \in Fds : fds[f] = Far(c) <=> f = FdOf(Far(c))
<1>1. c \in Clients /\ IsOpen(Far(c)) /\ Far(c) # Free
  BY Apart DEF ServerInv, Tables, Owned
<1> QED BY <1>1, Number DEF ServerInv

-----------------------------------------------------------------------------
(* The changes of the tables, one after the other.                         *)

(* clientClose.                                                            *)
LEMMA CloseServer ==
  ASSUME ServerInv, NEW c \in Clients, ClientClose(c)
  PROVE  ServerInv'
<1> USE DEF ServerInv
<1>1. \A f \in Fds : fds'[f] = IF fds[f] \in EndsOf(c) THEN Free ELSE fds[f]
  BY DEF ClientClose
<1>2. /\ DOMAIN conn' = DOMAIN conn \ {c}
      /\ \A d \in DOMAIN conn' : conn'[d] = conn[d]
  BY DEF ClientClose
<1>3. /\ DOMAIN reg' = {f \in DOMAIN reg : reg[f].data \notin UnregisteredWith(c)}
      /\ \A f \in DOMAIN reg' : reg'[f] = reg[f]
  BY DEF ClientClose
<1>4. \A f \in DOMAIN reg : f \in DOMAIN reg' <=> fds[f] \notin EndsOf(c)
  BY <1>3 DEF Registered, EndsOf, UnregisteredWith
<1>5. Tables'
  BY <1>1, <1>2, <1>3, Apart DEF Tables, ClientClose
<1>6. Once'
  BY <1>1, Apart DEF Once, EndsOf
<1>7. Registered'
  BY <1>1, <1>3, <1>4 DEF Registered, Tables
<1>8. Held'
  BY <1>1, <1>2, <1>3, <1>4, Apart DEF Held, Tables, EndsOf
<1>9. Owned'
  <2>1. \A d \in DOMAIN conn' : /\ d \in Clients /\ d # c
                                /\ IsOpen(Control(d)) <=> IsOpen(Control(d))'
                                /\ IsOpen(Near(d)) <=> IsOpen(Near(d))'
                                /\ IsOpen(Far(d)) <=> IsOpen(Far(d))'
    BY <1>1, <1>2, Apart DEF Tables, EndsOf, IsOpen
  <2> QED BY <1>2, <2>1 DEF Owned
<1>10. Watched'
  BY <1>1, <1>2, <1>3, <1>4 DEF Watched, Tables
<1> QED BY <1>5, <1>6, <1>7, <1>8, <1>9, <1>10

(* unixSocketReady, for a connection not known yet.                        *)
Accepts(c, new) ==
  /\ fds' = [fds EXCEPT ![new] = Control(c)]
  /\ reg' = With(reg, new, [mask |-> {"read"}, data |-> Control(c)])
  /\ conn' = With(conn, c, [authenticated |-> FALSE, queue |-> FALSE,
                            sendq |-> <<>>, recvq |-> <<>>])

LEMMA AcceptServer ==
  ASSUME ServerInv, NEW c \in Clients \ DOMAIN conn, NEW new \in FreeFds,
         Accepts(c, new)
  PROVE  ServerInv'
<1> USE DEF ServerInv, Accepts
<1> DEFINE entry == [mask |-> {"read"}, data |-> Control(c)]
           known == [authenticated |-> FALSE, queue |-> FALSE,
                     sendq |-> <<>>, recvq |-> <<>>]
<1>1. new \in Fds /\ fds[new] = Free /\ new \notin DOMAIN reg /\ new # 0
  BY Apart DEF FreeFds, Registered, Once
<1>2. \A f \in Fds : fds'[f] = IF f = new THEN Control(c) ELSE fds[f]
  BY <1>1 DEF Tables
<1>3. /\ DOMAIN reg' = DOMAIN reg \cup {new} /\ reg'[new] = entry
      /\ \A f \in DOMAIN reg : reg'[f] = reg[f]
  BY <1>1 DEF With
<1>4. /\ DOMAIN conn' = DOMAIN conn \cup {c} /\ conn'[c] = known
      /\ \A d \in DOMAIN conn : conn'[d] = conn[d]
  BY DEF With
<1>5. \A f \in Fds : fds[f] \notin {Control(c), Near(c), Far(c)}
  BY DEF Held
<1>6. Tables'
  <2>1. entry \in Callback /\ known \in Record
    BY Apart DEF Callback, Record
  <2>2. reg' \in [DOMAIN reg' -> Callback]
    BY <1>1, <1>3, <2>1 DEF Tables, With
  <2>3. conn' \in [DOMAIN conn' -> Record]
    BY <1>4, <2>1 DEF Tables, With
  <2> QED BY <1>1, <1>3, <1>4, <2>2, <2>3, Apart DEF Tables
<1>7. Once'
  BY <1>1, <1>2, <1>5, Apart DEF Once
<1>8. Registered'
  <2>1. fds'[new] = Control(c) /\ reg'[new].data = Control(c)
    BY <1>1, <1>2, <1>3
  <2>2. \A f \in DOMAIN reg : fds'[f] = fds[f] /\ reg'[f] = reg[f]
    BY <1>1, <1>2, <1>3 DEF Tables
  <2>3. /\ Control(c) # Free
        /\ \A d \in Clients : Control(c) # Far(d)
    BY Apart
  <2>4. \A f \in DOMAIN reg' : f = new \/ f \in DOMAIN reg
    BY <1>3
  <2> HIDE DEF ServerInv, Accepts
  <2> QED BY <2>1, <2>2, <2>3, <2>4 DEF Registered, ServerInv
<1>9. Held'
  BY <1>1, <1>2, <1>3, <1>4, <1>5, Apart DEF Held, Tables
<1>10. Owned'
  <2>1. \A d \in DOMAIN conn : /\ d \in Clients /\ d # c
                               /\ IsOpen(Control(d)) <=> IsOpen(Control(d))'
                               /\ IsOpen(Near(d)) <=> IsOpen(Near(d))'
                               /\ IsOpen(Far(d)) <=> IsOpen(Far(d))'
    BY <1>1, <1>2, Apart DEF Tables, IsOpen
  <2>2. IsOpen(Control(c))' /\ ~IsOpen(Near(c))'
    BY <1>1, <1>2, <1>5, Apart DEF IsOpen
  <2> QED BY <1>4, <2>1, <2>2 DEF Owned
<1>11. Watched'
  <2>1. SUFFICES ASSUME NEW f \in DOMAIN reg', NEW d \in DOMAIN conn'
                 PROVE  /\ fds'[f] = Control(d) =>
                             (conn'[d].queue <=> "write" \in reg'[f].mask)
                        /\ fds'[f] = Near(d) =>
                             (conn'[d].sendq # <<>> <=> "write" \in reg'[f].mask)
    BY DEF Watched
  <2>2. CASE f = new
    <3>1. fds'[f] = Control(c) /\ reg'[f].mask = {"read"}
      BY <1>1, <1>2, <1>3, <2>2
    <3>2. d \in Clients
      BY <1>4 DEF Tables
    <3>3. ~conn'[c].queue
      BY <1>4
    <3> QED BY <3>1, <3>2, <3>3, Apart
  <2>3. CASE f # new /\ d = c
    <3>1. fds'[f] = fds[f] /\ f \in Fds
      BY <1>2, <1>3, <2>3 DEF Tables
    <3> QED BY <3>1, <1>5, <2>3
  <2>4. CASE f # new /\ d # c
    <3>1. f \in DOMAIN reg /\ d \in DOMAIN conn
      BY <1>3, <1>4, <2>4
    <3>2. fds'[f] = fds[f] /\ reg'[f] = reg[f] /\ conn'[d] = conn[d]
      BY <1>2, <1>3, <1>4, <2>4, <3>1 DEF Tables
    <3> QED BY <3>1, <3>2 DEF Watched
  <2> QED BY <2>2, <2>3, <2>4
<1> QED BY <1>6, <1>7, <1>8, <1>9, <1>10, <1>11

(* unixNewChannel, for a client that has no channel.                       *)
LEMMA NewChannelServer ==
  ASSUME ServerInv, NEW c \in DOMAIN conn, ~conn[c].authenticated,
         ~(Cardinality(FreeFds) < 2), NewChannel(c)
  PROVE  ServerInv'
<1> USE DEF ServerInv
<1> DEFINE near == LeastIn(FreeFds)
           far == LeastIn(FreeFds \ {near})
           known == [conn[c] EXCEPT !.authenticated = TRUE, !.queue = TRUE]
<1>0. c \in Clients
  BY DEF Tables
<1>1. near \in FreeFds
  <2>1. FreeFds # {}
    BY FS_EmptySet
  <2> QED BY <2>1, LeastFd DEF FreeFds
<1>2. far \in FreeFds /\ far # near
  <2>1. FreeFds \ {near} # {}
    BY <1>1, TwoFree
  <2> QED BY <2>1, LeastFd DEF FreeFds
<1>3. /\ near \in Fds /\ fds[near] = Free /\ near \notin DOMAIN reg /\ near # 0
      /\ far \in Fds /\ fds[far] = Free /\ far \notin DOMAIN reg /\ far # 0
  BY <1>1, <1>2, Apart DEF FreeFds, Registered, Once
<1> DEFINE own == FdOf(Control(c))
<1>4. own \in DOMAIN reg /\ \A f \in Fds : fds[f] = Control(c) <=> f = own
  BY ControlNumber
<1> HIDE DEF near, far, own
<1>5. \A f \in Fds : fds'[f] = IF f = near THEN Near(c)
                               ELSE IF f = far THEN Far(c) ELSE fds[f]
  BY <1>2, <1>3 DEF Tables, NewChannel, near, far
<1>6. /\ DOMAIN reg' = DOMAIN reg /\ reg'[own] = [reg[own] EXCEPT !.mask = {"read", "write"}]
      /\ \A f \in DOMAIN reg \ {own} : reg'[f] = reg[f]
  BY <1>4 DEF NewChannel, own
<1>7. /\ DOMAIN conn' = DOMAIN conn /\ conn'[c] = known
      /\ \A d \in DOMAIN conn \ {c} : conn'[d] = conn[d]
  BY DEF NewChannel, Tables
<1>8. /\ known \in Record
      /\ known.authenticated /\ known.queue /\ known.sendq = conn[c].sendq
  BY DEF Tables, Record
<1>9. /\ reg'[own] \in Callback /\ reg'[own].data = reg[own].data
      /\ reg'[own].mask = {"read", "write"}
  BY <1>4, <1>6 DEF Tables, Callback
<1>10. \A f \in Fds : fds[f] \notin {Near(c), Far(c)}
  BY <1>0 DEF Held, Owned, IsOpen
<1>11. conn[c].sendq = <<>>
  BY DEF Owned
<1> HIDE DEF known
<1>12. Tables'
  <2>1. fds' \in [Fds -> Ends]
    BY <1>0, <1>3, Apart DEF NewChannel, Tables, near, far
  <2>2. reg' \in [DOMAIN reg' -> Callback]
    BY <1>4, <1>6, <1>9 DEF NewChannel, Tables
  <2>3. conn' \in [DOMAIN conn' -> Record]
    BY <1>7, <1>8 DEF NewChannel, Tables
  <2> QED BY <1>6, <1>7, <2>1, <2>2, <2>3 DEF Tables
<1>13. Once'
  BY <1>0, <1>2, <1>3, <1>5, <1>10, Apart DEF Once
<1>14. Registered'
  <2>1. \A f \in DOMAIN reg : fds'[f] = fds[f] /\ reg'[f].data = reg[f].data
    BY <1>3, <1>5, <1>6, <1>9 DEF Tables
  <2> QED BY <1>6, <2>1 DEF Registered
<1>15. Held'
  <2>1. SUFFICES ASSUME NEW f \in Fds, NEW d \in Clients
                 PROVE  /\ fds'[f] = Control(d) => d \in DOMAIN conn' /\ f \in DOMAIN reg'
                        /\ fds'[f] = Near(d) =>
                             d \in DOMAIN conn' /\ (f \in DOMAIN reg' <=> ~conn'[d].queue)
                        /\ fds'[f] = Far(d) => d \in DOMAIN conn' /\ conn'[d].queue
    BY DEF Held
  <2>2. CASE f \in {near, far}
    BY <1>0, <1>2, <1>3, <1>5, <1>6, <1>7, <1>8, <2>2, Apart
  <2>3. CASE f \notin {near, far} /\ d = c
    BY <1>0, <1>5, <1>6, <1>7, <1>8, <1>10, <2>3, <1>4
  <2>4. CASE f \notin {near, far} /\ d # c
    BY <1>5, <1>6, <1>7, <2>4 DEF Held
  <2> QED BY <2>2, <2>3, <2>4
<1>16. Owned'
  <2>1. \A d \in DOMAIN conn \ {c} :
          /\ d \in Clients
          /\ IsOpen(Control(d)) <=> IsOpen(Control(d))'
          /\ IsOpen(Near(d)) <=> IsOpen(Near(d))'
          /\ IsOpen(Far(d)) <=> IsOpen(Far(d))'
    BY <1>0, <1>3, <1>5, Apart DEF Tables, IsOpen
  <2>2. IsOpen(Control(c))' /\ IsOpen(Near(c))' /\ IsOpen(Far(c))'
    BY <1>0, <1>2, <1>3, <1>4, <1>5, Apart DEF IsOpen, Tables
  <2> QED BY <1>7, <1>8, <1>11, <2>1, <2>2 DEF Owned
<1>17. Watched'
  <2>1. SUFFICES ASSUME NEW f \in DOMAIN reg', NEW d \in DOMAIN conn'
                 PROVE  /\ fds'[f] = Control(d) =>
                             (conn'[d].queue <=> "write" \in reg'[f].mask)
                        /\ fds'[f] = Near(d) =>
                             (conn'[d].sendq # <<>> <=> "write" \in reg'[f].mask)
    BY DEF Watched
  <2>2. CASE f = own
    <3>1. fds'[f] = Control(c) /\ reg'[f].mask = {"read", "write"}
      BY <1>3, <1>4, <1>5, <1>9, <2>2 DEF Tables
    <3>2. d \in Clients
      BY <1>7 DEF Tables
    <3>3. conn'[c].queue
      BY <1>7, <1>8
    <3> QED BY <1>0, <3>1, <3>2, <3>3, Apart
  <2>3. CASE f # own /\ d = c
    BY <1>0, <1>3, <1>4, <1>5, <1>6, <1>10, <2>3, Apart DEF Tables
  <2>4. CASE f # own /\ d # c
    BY <1>0, <1>3, <1>5, <1>6, <1>7, <2>4 DEF Tables, Watched
  <2> QED BY <2>2, <2>3, <2>4
<1> QED BY <1>12, <1>13, <1>14, <1>15, <1>16, <1>17

(* Nothing is opened, closed or registered, and queues and masks agree.    *)
LEMMA QueuesServer ==
  ASSUME ServerInv, UNCHANGED fds,
         DOMAIN reg' = DOMAIN reg, reg' \in [DOMAIN reg' -> Callback],
         \A f \in DOMAIN reg : reg'[f].data = reg[f].data,
         DOMAIN conn' = DOMAIN conn, conn' \in [DOMAIN conn' -> Record],
         \A c \in DOMAIN conn : /\ conn'[c].authenticated = conn[c].authenticated
                                /\ conn'[c].queue = conn[c].queue
                                /\ conn'[c].sendq # <<>> =>
                                     conn[c].authenticated /\ ~conn[c].queue,
         Watched'
  PROVE  ServerInv'
<1> USE DEF ServerInv
<1>1. Tables'
  BY DEF Tables
<1>2. Once'
  BY DEF Once
<1>3. Registered'
  BY DEF Registered
<1>4. Held'
  BY DEF Held
<1>5. Owned'
  BY DEF Owned, IsOpen
<1> QED BY <1>1, <1>2, <1>3, <1>4, <1>5

LEMMA UnchangedServer ==
  ASSUME ServerInv, UNCHANGED serverVars
  PROVE  ServerInv'
BY DEF serverVars, ServerInv, Tables, Once, Registered, Held, Owned, Watched, IsOpen

(* The mask of a registered end is set.                                    *)
LEMMA SetMask ==
  ASSUME ServerInv, NEW f \in DOMAIN reg, NEW m \in SUBSET {"read", "write"},
         reg' = [reg EXCEPT ![f].mask = m]
  PROVE  /\ DOMAIN reg' = DOMAIN reg /\ reg' \in [DOMAIN reg' -> Callback]
         /\ \A g \in DOMAIN reg : reg'[g].data = reg[g].data
         /\ reg'[f].mask = m
         /\ \A g \in DOMAIN reg \ {f} : reg'[g] = reg[g]
<1>1. reg \in [DOMAIN reg -> Callback]
  BY DEF ServerInv, Tables
<1> QED BY <1>1 DEF Callback

(* doControlWrite with nothing to pass.                                    *)
LEMMA IdleServer ==
  ASSUME ServerInv, NEW c \in DOMAIN conn, ~conn[c].queue,
         reg' = [reg EXCEPT ![FdOf(Control(c))].mask = {"read"}],
         UNCHANGED <<fds, conn>>
  PROVE  ServerInv'
<1> DEFINE own == FdOf(Control(c))
<1>1. own \in DOMAIN reg /\ \A f \in Fds : fds[f] = Control(c) <=> f = own
  BY ControlNumber
<1> HIDE DEF own
<1>2. /\ DOMAIN reg' = DOMAIN reg /\ reg' \in [DOMAIN reg' -> Callback]
      /\ \A g \in DOMAIN reg : reg'[g].data = reg[g].data
      /\ reg'[own].mask = {"read"}
      /\ \A g \in DOMAIN reg \ {own} : reg'[g] = reg[g]
  BY <1>1, SetMask DEF own
<1>3. DOMAIN conn \subseteq Clients /\ DOMAIN reg \subseteq Fds /\ Watched
  BY DEF ServerInv, Tables
<1>4. Watched'
  <2>1. \A d \in DOMAIN conn : fds[own] # Near(d) /\ (fds[own] = Control(d) => d = c)
    BY <1>1, <1>3, Apart
  <2>2. SUFFICES ASSUME NEW g \in DOMAIN reg, NEW d \in DOMAIN conn
                 PROVE  /\ fds[g] = Control(d) =>
                             (conn[d].queue <=> "write" \in reg'[g].mask)
                        /\ fds[g] = Near(d) =>
                             (conn[d].sendq # <<>> <=> "write" \in reg'[g].mask)
    BY <1>2 DEF Watched
  <2>3. CASE g = own
    BY <1>2, <2>1, <2>3
  <2>4. CASE g # own
    BY <1>2, <1>3, <2>4 DEF Watched
  <2> QED BY <2>3, <2>4
<1> QED BY <1>2, <1>4, QueuesServer DEF ServerInv, Tables, Owned

(* clientReadData: r is left over, and a is answered.                      *)
LEMMA ReadServer ==
  ASSUME ServerInv, NEW c \in DOMAIN conn, NEW f \in DOMAIN reg,
         reg[f].data = Near(c), NEW r \in Seq(Units), NEW a \in Seq(Units),
         conn' = [conn EXCEPT ![c].recvq = r, ![c].sendq = @ \o a],
         reg' = IF a = <<>> THEN reg
                ELSE [reg EXCEPT ![f].mask = {"read", "write"}],
         UNCHANGED fds
  PROVE  ServerInv'
<1>1. /\ DOMAIN conn \subseteq Clients /\ conn \in [DOMAIN conn -> Record]
      /\ DOMAIN reg \subseteq Fds /\ fds[f] = Near(c) /\ c \in Clients
      /\ Watched /\ reg \in [DOMAIN reg -> Callback]
  BY DEF ServerInv, Tables, Registered
<1>2. conn[c].authenticated /\ ~conn[c].queue
  BY <1>1 DEF ServerInv, Held, Owned, IsOpen
<1>3. conn[c] \in Record /\ conn[c].sendq \o a \in Seq(Units)
  BY <1>1 DEF Record
<1>4. /\ DOMAIN conn' = DOMAIN conn
      /\ conn'[c] = [conn[c] EXCEPT !.recvq = r, !.sendq = @ \o a]
      /\ \A d \in DOMAIN conn \ {c} : conn'[d] = conn[d]
  BY <1>1
<1>5. /\ conn'[c] \in Record
      /\ conn'[c].authenticated = conn[c].authenticated
      /\ conn'[c].queue = conn[c].queue
      /\ conn'[c].sendq = conn[c].sendq \o a
  BY <1>3, <1>4 DEF Record
<1>6. conn' \in [DOMAIN conn' -> Record]
  BY <1>1, <1>4, <1>5
<1>7. \A d \in DOMAIN conn : /\ conn'[d].authenticated = conn[d].authenticated
                             /\ conn'[d].queue = conn[d].queue
                             /\ conn'[d].sendq # <<>> =>
                                  conn[d].authenticated /\ ~conn[d].queue
  BY <1>2, <1>4, <1>5 DEF ServerInv, Owned
<1>8. CASE a = <<>>
  <2>1. conn'[c].sendq = conn[c].sendq
    BY <1>3, <1>5, <1>8 DEF Record
  <2>2. \A d \in DOMAIN conn : conn'[d].sendq = conn[d].sendq
    BY <1>4, <2>1
  <2>3. Watched'
    BY <1>1, <1>4, <1>7, <1>8, <2>2 DEF Watched
  <2> QED BY <1>1, <1>4, <1>6, <1>7, <1>8, <2>3, QueuesServer
<1>9. CASE a # <<>>
  <2>1. /\ DOMAIN reg' = DOMAIN reg /\ reg' \in [DOMAIN reg' -> Callback]
        /\ \A g \in DOMAIN reg : reg'[g].data = reg[g].data
        /\ reg'[f].mask = {"read", "write"}
        /\ \A g \in DOMAIN reg \ {f} : reg'[g] = reg[g]
    BY <1>9, SetMask
  <2>2. conn'[c].sendq # <<>>
    BY <1>3, <1>5, <1>9 DEF Record
  <2>3. \A g \in DOMAIN reg : fds[g] = Near(c) => g = f
    BY <1>1, Apart DEF ServerInv, Once
  <2>4. \A d \in DOMAIN conn : fds[f] # Control(d) /\ (fds[f] = Near(d) => d = c)
    BY <1>1, Apart
  <2>5. Watched'
    BY <1>1, <1>4, <1>7, <2>1, <2>2, <2>3, <2>4 DEF Watched
  <2> QED BY <1>4, <1>6, <1>7, <2>1, <2>5, QueuesServer
<1> QED BY <1>8, <1>9

(* doChannelWrite: left is not written yet.                                *)
LEMMA WrittenServer ==
  ASSUME ServerInv, NEW c \in DOMAIN conn, conn[c].authenticated, ~conn[c].queue,
         NEW left \in Seq(Units), left # <<>> => conn[c].sendq # <<>>,
         conn' = [conn EXCEPT ![c].sendq = left],
         reg' = IF left = <<>> THEN [reg EXCEPT ![FdOf(Near(c))].mask = {"read"}]
                ELSE reg,
         UNCHANGED fds
  PROVE  ServerInv'
<1> DEFINE f == FdOf(Near(c))
<1>1. f \in DOMAIN reg /\ \A g \in Fds : fds[g] = Near(c) <=> g = f
  BY NearNumber
<1> HIDE DEF f
<1>2. /\ DOMAIN conn \subseteq Clients /\ conn \in [DOMAIN conn -> Record]
      /\ DOMAIN reg \subseteq Fds /\ c \in Clients
      /\ Watched /\ reg \in [DOMAIN reg -> Callback]
  BY DEF ServerInv, Tables
<1>3. /\ DOMAIN conn' = DOMAIN conn
      /\ conn'[c] = [conn[c] EXCEPT !.sendq = left]
      /\ \A d \in DOMAIN conn \ {c} : conn'[d] = conn[d]
  BY <1>2
<1>4. /\ conn'[c] \in Record
      /\ conn'[c].authenticated = conn[c].authenticated
      /\ conn'[c].queue = conn[c].queue
      /\ conn'[c].sendq = left
  BY <1>2, <1>3 DEF Record
<1>5. conn' \in [DOMAIN conn' -> Record]
  BY <1>2, <1>3, <1>4
<1>6. \A d \in DOMAIN conn : /\ conn'[d].authenticated = conn[d].authenticated
                             /\ conn'[d].queue = conn[d].queue
                             /\ conn'[d].sendq # <<>> =>
                                  conn[d].authenticated /\ ~conn[d].queue
  BY <1>3, <1>4 DEF ServerInv, Owned
<1>7. \A d \in DOMAIN conn : fds[f] # Control(d) /\ (fds[f] = Near(d) => d = c)
  BY <1>1, <1>2, Apart
<1>8. CASE left = <<>>
  <2>1. /\ DOMAIN reg' = DOMAIN reg /\ reg' \in [DOMAIN reg' -> Callback]
        /\ \A g \in DOMAIN reg : reg'[g].data = reg[g].data
        /\ reg'[f].mask = {"read"}
        /\ \A g \in DOMAIN reg \ {f} : reg'[g] = reg[g]
    <3>1. reg' = [reg EXCEPT ![f].mask = {"read"}]
      BY <1>8 DEF f
    <3>2. {"read"} \in SUBSET {"read", "write"}
      OBVIOUS
    <3> QED BY <1>1, <3>1, <3>2, SetMask
  <2>2. SUFFICES Watched'
    BY <1>3, <1>5, <1>6, <2>1, QueuesServer
  <2>3. SUFFICES ASSUME NEW g \in DOMAIN reg, NEW d \in DOMAIN conn
                 PROVE  /\ fds[g] = Control(d) =>
                             (conn'[d].queue <=> "write" \in reg'[g].mask)
                        /\ fds[g] = Near(d) =>
                             (conn'[d].sendq # <<>> <=> "write" \in reg'[g].mask)
    BY <1>3, <2>1 DEF Watched
  <2>4. CASE g = f
    BY <1>4, <1>7, <1>8, <2>1, <2>4
  <2>5. CASE g # f /\ d = c
    <3>1. fds[g] # Near(c) /\ reg'[g] = reg[g]
      BY <1>1, <1>2, <2>1, <2>5
    <3>2. fds[g] = Control(c) => (conn[c].queue <=> "write" \in reg[g].mask)
      BY <1>2 DEF Watched
    <3> QED BY <1>4, <2>5, <3>1, <3>2
  <2>6. CASE g # f /\ d # c
    <3>1. conn'[d] = conn[d] /\ reg'[g] = reg[g]
      BY <1>3, <2>1, <2>6
    <3> QED BY <1>2, <3>1 DEF Watched
  <2> QED BY <2>4, <2>5, <2>6
<1>9. CASE left # <<>>
  <2>1. Watched'
    BY <1>1, <1>2, <1>3, <1>4, <1>6, <1>7, <1>9 DEF Watched
  <2> QED BY <1>2, <1>3, <1>5, <1>6, <1>9, <2>1, QueuesServer
<1> QED BY <1>8, <1>9

(* doControlWrite passes the far end and registers the near one.           *)
Passes(c) ==
  /\ conn' = [conn EXCEPT ![c].queue = FALSE]
  /\ fds' = [fds EXCEPT ![FdOf(Far(c))] = Free]
  /\ reg' = With([reg EXCEPT ![FdOf(Control(c))].mask = {"read"}],
                 FdOf(Near(c)), [mask |-> {"read"}, data |-> Near(c)])

LEMMA PassServer ==
  ASSUME ServerInv, NEW c \in DOMAIN conn, conn[c].queue, Passes(c)
  PROVE  /\ ServerInv'
         /\ \A f \in Fds : fds'[f] # Free => fds'[f] = fds[f]
         /\ DOMAIN conn' = DOMAIN conn
         /\ conn'[c].authenticated /\ ~conn'[c].queue
         /\ \A d \in DOMAIN conn \ {c} : conn'[d] = conn[d]
         /\ DOMAIN reg' = DOMAIN reg \cup {FdOf(Near(c))}
         /\ \A f \in DOMAIN reg : reg'[f].data = reg[f].data
         /\ fds[FdOf(Near(c))] = Near(c) /\ FdOf(Near(c)) \in Fds
<1> DEFINE own == FdOf(Control(c))
           near == FdOf(Near(c))
           far == FdOf(Far(c))
           masked == [reg EXCEPT ![own].mask = {"read"}]
           entry == [mask |-> {"read"}, data |-> Near(c)]
           known == [conn[c] EXCEPT !.queue = FALSE]
<1>1. /\ c \in Clients /\ conn[c] \in Record /\ conn[c].authenticated
      /\ DOMAIN conn \subseteq Clients /\ conn \in [DOMAIN conn -> Record]
      /\ DOMAIN reg \subseteq Fds /\ fds \in [Fds -> Ends]
      /\ reg \in [DOMAIN reg -> Callback]
  BY DEF ServerInv, Tables, Owned
<1>2. own \in DOMAIN reg /\ \A f \in Fds : fds[f] = Control(c) <=> f = own
  BY ControlNumber
<1>3. /\ near \in Fds /\ near \notin DOMAIN reg
      /\ \A f \in Fds : fds[f] = Near(c) <=> f = near
  BY <1>1, NearNumber
<1>4. far \in Fds /\ \A f \in Fds : fds[f] = Far(c) <=> f = far
  BY FarNumber
<1>5. near # far /\ far \notin DOMAIN reg /\ far # 0
  BY <1>1, <1>2, <1>3, <1>4, Apart DEF ServerInv, Registered, Once
<1>6. \A f \in Fds : fds'[f] = IF f = far THEN Free ELSE fds[f]
  BY <1>1, <1>4 DEF Passes
<1>7. /\ DOMAIN masked = DOMAIN reg /\ masked[own].mask = {"read"}
      /\ masked \in [DOMAIN reg -> Callback]
      /\ \A f \in DOMAIN reg : masked[f].data = reg[f].data
      /\ \A f \in DOMAIN reg \ {own} : masked[f] = reg[f]
  BY <1>1, <1>2 DEF Callback
<1>8. reg' = [f \in DOMAIN masked \cup {near} |-> IF f = near THEN entry ELSE masked[f]]
  BY DEF Passes, With
<1>9. known \in Record /\ ~known.queue /\ known.authenticated
      /\ known.sendq = conn[c].sendq
  BY <1>1 DEF Record
<1>10. /\ DOMAIN conn' = DOMAIN conn /\ conn'[c] = known
       /\ \A d \in DOMAIN conn \ {c} : conn'[d] = conn[d]
  BY <1>1 DEF Passes
<1> HIDE DEF own, near, far, masked, known
<1>11. /\ DOMAIN reg' = DOMAIN reg \cup {near} /\ reg'[near] = entry
       /\ \A f \in DOMAIN reg : reg'[f] = masked[f]
  BY <1>3, <1>7, <1>8
<1>12. conn[c].sendq = <<>>
  BY DEF ServerInv, Owned
<1>13. entry \in Callback
  BY <1>1, Apart DEF Callback
<1>14. Tables'
  <2>1. reg' \in [DOMAIN reg' -> Callback]
    BY <1>7, <1>8, <1>11, <1>13
  <2>2. conn' \in [DOMAIN conn' -> Record]
    BY <1>1, <1>9, <1>10 DEF Passes
  <2>3. fds' \in [Fds -> Ends]
    BY <1>1, <1>4, Apart DEF Passes
  <2> QED BY <1>1, <1>3, <1>10, <1>11, <2>1, <2>2, <2>3 DEF Tables
<1>15. Once'
  BY <1>4, <1>5, <1>6 DEF ServerInv, Once
<1>16. Registered'
  <2>1. \A f \in DOMAIN reg : fds'[f] = fds[f] /\ reg'[f].data = reg[f].data
    BY <1>1, <1>5, <1>6, <1>7, <1>11
  <2>2. fds'[near] = Near(c) /\ reg'[near].data = Near(c)
    BY <1>3, <1>5, <1>6, <1>11
  <2>3. Near(c) # Free /\ \A d \in Clients : Near(c) # Far(d)
    BY <1>1, Apart
  <2> QED BY <1>11, <2>1, <2>2, <2>3 DEF ServerInv, Registered
<1>17. Held'
  <2>1. SUFFICES ASSUME NEW f \in Fds, NEW d \in Clients
                 PROVE  /\ fds'[f] = Control(d) => d \in DOMAIN conn' /\ f \in DOMAIN reg'
                        /\ fds'[f] = Near(d) =>
                             d \in DOMAIN conn' /\ (f \in DOMAIN reg' <=> ~conn'[d].queue)
                        /\ fds'[f] = Far(d) => d \in DOMAIN conn' /\ conn'[d].queue
    BY DEF Held
  <2>2. CASE f = far
    BY <1>6, <2>2, Apart
  <2>5. CASE f = near
    <3>1. fds'[f] = Near(c) /\ f \in DOMAIN reg'
      BY <1>3, <1>5, <1>6, <1>11, <2>5
    <3>2. c \in DOMAIN conn' /\ ~conn'[c].queue
      BY <1>9, <1>10
    <3> QED BY <1>1, <3>1, <3>2, Apart
  <2>3. CASE f \notin {near, far} /\ d = c
    BY <1>2, <1>3, <1>4, <1>6, <1>10, <1>11, <2>3
  <2>4. CASE f \notin {near, far} /\ d # c
    <3>1. fds'[f] = fds[f] /\ (f \in DOMAIN reg' <=> f \in DOMAIN reg)
      BY <1>6, <1>11, <2>4
    <3>2. d \in DOMAIN conn => conn'[d] = conn[d]
      BY <1>10, <2>4
    <3> QED BY <1>10, <3>1, <3>2 DEF ServerInv, Held
  <2> QED BY <2>2, <2>3, <2>4, <2>5
<1>18. Owned'
  <2>1. \A d \in DOMAIN conn : /\ IsOpen(Control(d)) <=> IsOpen(Control(d))'
                               /\ IsOpen(Near(d)) <=> IsOpen(Near(d))'
                               /\ d # c => (IsOpen(Far(d)) <=> IsOpen(Far(d))')
    BY <1>1, <1>4, <1>6, Apart DEF IsOpen
  <2> QED BY <1>9, <1>10, <1>12, <2>1 DEF ServerInv, Owned
<1>19. Watched'
  <2>1. SUFFICES ASSUME NEW f \in DOMAIN reg', NEW d \in DOMAIN conn'
                 PROVE  /\ fds'[f] = Control(d) =>
                             (conn'[d].queue <=> "write" \in reg'[f].mask)
                        /\ fds'[f] = Near(d) =>
                             (conn'[d].sendq # <<>> <=> "write" \in reg'[f].mask)
    BY DEF Watched
  <2>2. /\ d \in Clients /\ f \in Fds
        /\ fds'[f] \in {Control(d), Near(d)} => fds'[f] = fds[f]
    BY <1>1, <1>3, <1>6, <1>10, <1>11, Apart
  <2>3. CASE f \in {own, near}
    <3>1. "write" \notin reg'[f].mask
      BY <1>2, <1>7, <1>11, <2>3
    <3>2. fds[f] \in {Control(c), Near(c)}
      BY <1>1, <1>2, <1>3, <2>3
    <3>3. fds'[f] \in {Control(d), Near(d)} => d = c
      BY <1>1, <2>2, <3>2, Apart
    <3> QED BY <1>9, <1>10, <1>12, <3>1, <3>3
  <2>4. CASE f \notin {own, near}
    <3>1. f \in DOMAIN reg /\ reg'[f] = reg[f]
      BY <1>7, <1>11, <2>4
    <3>2. fds[f] \notin {Control(c), Near(c)}
      BY <1>2, <1>3, <2>2, <2>4
    <3>3. fds'[f] \in {Control(d), Near(d)} => d \in DOMAIN conn /\ conn'[d] = conn[d]
      BY <1>10, <2>2, <3>2
    <3> QED BY <2>2, <3>1, <3>3 DEF ServerInv, Watched
  <2> QED BY <2>3, <2>4
<1>20. ServerInv'
  BY <1>14, <1>15, <1>16, <1>17, <1>18, <1>19 DEF ServerInv
<1> QED BY <1>1, <1>3, <1>6, <1>7, <1>9, <1>10, <1>11, <1>20 DEF near

-----------------------------------------------------------------------------
(* The loop over the sets that select returned.                            *)

LEMMA DespatchReady ==
  ASSUME IInv, NEW f, Despatching(f)
  PROVE  /\ f \in DOMAIN ready /\ f \in Fds /\ pc = "despatch"
         /\ DOMAIN ready' = DOMAIN ready \ {f} /\ 0 \notin DOMAIN ready'
         /\ \A g \in DOMAIN ready' : ready'[g] = ready[g]
         /\ DOMAIN ready' \subseteq Fds /\ ready' \in [DOMAIN ready' -> Callback]
<1>1. DOMAIN ready \subseteq Fds /\ ready \in [DOMAIN ready -> Callback]
  BY DEF IInv, TypeOK
<1>2. f = LeastIn(DOMAIN ready) /\ DOMAIN ready # {}
  BY DEF Despatching
<1>3. f \in DOMAIN ready /\ (0 \in DOMAIN ready => f = 0)
  BY <1>1, <1>2, LeastFd
<1> QED BY <1>1, <1>3 DEF Despatching

(* Nothing is opened or registered, and no client gets a channel.          *)
Shrinks ==
  /\ DOMAIN reg' \subseteq DOMAIN reg
  /\ \A f \in DOMAIN reg' : reg'[f].data = reg[f].data
  /\ DOMAIN conn' \subseteq DOMAIN conn
  /\ \A c \in DOMAIN conn' : /\ conn'[c].authenticated = conn[c].authenticated
                             /\ conn'[c].queue = conn[c].queue
  /\ \A f \in Fds : fds'[f] # Free => fds'[f] = fds[f]

LEMMA CloseShrinks ==
  ASSUME NEW c, ClientClose(c)
  PROVE  Shrinks
BY DEF Shrinks, ClientClose

LEMMA UnchangedShrinks ==
  ASSUME UNCHANGED serverVars
  PROVE  Shrinks
BY DEF Shrinks, serverVars

(* A callback is called, or its first half has been.                       *)
LEMMA DespatchDirected ==
  ASSUME IInv, NEW f, Despatching(f), Shrinks,
         \/ UNCHANGED <<pc, cur>>
         \/ f \in DOMAIN reg /\ pc' = "write" /\ cur'.data = reg[f].data
  PROVE  Directed'
<1>1. /\ f \in DOMAIN ready /\ f \in Fds /\ pc = "despatch"
      /\ DOMAIN ready' = DOMAIN ready \ {f} /\ 0 \notin DOMAIN ready'
      /\ \A g \in DOMAIN ready' : ready'[g] = ready[g]
      /\ DOMAIN ready' \subseteq Fds
  BY DespatchReady
<1>2. DOMAIN conn \subseteq Clients /\ DOMAIN reg \subseteq Fds
  BY DEF IInv, TypeOK
<1>3. \A c \in DOMAIN conn, g \in DOMAIN ready' :
        fds'[g] \in {Control(c), Near(c)} => fds'[g] = fds[g]
  BY <1>1, <1>2, Apart DEF Shrinks
<1>4. pc' # "select"
  BY <1>1
<1>5. \A g \in DOMAIN ready' \cap DOMAIN reg' : reg'[g].data = ready'[g].data
  BY <1>1 DEF IInv, Directed, Shrinks
<1>6. \A g \in DOMAIN ready', c \in DOMAIN conn' :
        fds'[g] = Control(c) /\ "write" \in ready'[g].mask => conn'[c].authenticated
  BY <1>1, <1>3 DEF IInv, Directed, Shrinks
<1>7. ASSUME NEW g \in DOMAIN ready', NEW c \in DOMAIN conn',
             conn'[c].queue, fds'[g] = Near(c)
      PROVE  /\ \A h \in DOMAIN ready' : fds'[h] # Control(c)
             /\ ~(pc' = "write" /\ cur'.data = Control(c))
  <2>1. c \in DOMAIN conn /\ conn[c].queue /\ fds[g] = Near(c) /\ g \in DOMAIN ready
    BY <1>1, <1>3, <1>7 DEF Shrinks
  <2>2. \A h \in DOMAIN ready : fds[h] # Control(c)
    BY <2>1 DEF IInv, Directed
  <2>3. \A h \in DOMAIN ready' : fds'[h] # Control(c)
    BY <1>1, <1>3, <2>1, <2>2
  <2>4. f \in DOMAIN reg => reg[f].data # Control(c)
    BY <1>1, <2>2 DEF IInv, ServerInv, Registered
  <2> QED BY <1>1, <2>3, <2>4
<1>8. ASSUME NEW c \in DOMAIN conn', pc' = "write", cur'.data = Near(c)
      PROVE  conn'[c].authenticated /\ ~conn'[c].queue
  <2>1. f \in DOMAIN reg /\ reg[f].data = Near(c)
    BY <1>1, <1>8
  <2>2. c \in DOMAIN conn /\ c \in Clients /\ fds[f] = Near(c)
    BY <1>2, <2>1 DEF IInv, ServerInv, Registered, Shrinks
  <2>3. conn[c].authenticated /\ ~conn[c].queue
    BY <1>1, <2>1, <2>2 DEF IInv, ServerInv, Held, Owned, IsOpen
  <2> QED BY <2>3 DEF Shrinks
<1> QED BY <1>1, <1>4, <1>5, <1>6, <1>7, <1>8 DEF Directed

(* The second half of a callback is over.                                  *)
LEMMA DoneDirected ==
  ASSUME IInv, pc = "write", Shrinks, CallbackDone, UNCHANGED ready
  PROVE  Directed'
<1>1. pc' = "despatch" /\ 0 \notin DOMAIN ready /\ DOMAIN ready \subseteq Fds
  BY DEF IInv, Directed, CallbackDone, TypeOK
<1>2. \A c \in DOMAIN conn, g \in DOMAIN ready :
        fds'[g] \in {Control(c), Near(c)} => fds'[g] = fds[g]
  BY <1>1, Apart DEF Shrinks, IInv, TypeOK
<1>3. \A g \in DOMAIN ready \cap DOMAIN reg' : reg'[g].data = ready[g].data
  BY DEF IInv, Directed, Shrinks
<1>4. \A g \in DOMAIN ready, c \in DOMAIN conn' :
        fds'[g] = Control(c) /\ "write" \in ready[g].mask => conn'[c].authenticated
  BY <1>2 DEF IInv, Directed, Shrinks
<1>5. \A g \in DOMAIN ready, c \in DOMAIN conn' :
        conn'[c].queue /\ fds'[g] = Near(c) =>
          \A h \in DOMAIN ready : fds'[h] # Control(c)
  BY <1>2 DEF IInv, Directed, Shrinks
<1> QED BY <1>1, <1>3, <1>4, <1>5 DEF Directed

LEMMA UnchangedDirected ==
  ASSUME IInv, UNCHANGED <<fds, reg, conn, pc, ready, cur>>
  PROVE  Directed'
BY DEF IInv, Directed

(* Connections wait as before, and nothing is accepted.                    *)
LEMMA UnchangedWaiting ==
  ASSUME IInv, DOMAIN conn' \subseteq DOMAIN conn, UNCHANGED <<backlog, peer>>
  PROVE  Waiting'
BY DEF IInv, Waiting

-----------------------------------------------------------------------------
(* The initial states, and then one action after the other.                *)

LEMMA InitIInv == Init => IInv
<1> SUFFICES ASSUME Init  PROVE IInv
  OBVIOUS
<1>1. /\ 0 \in Fds /\ fds = [f \in Fds |-> IF f = 0 THEN Listen ELSE Free]
      /\ \A f \in Fds : fds[f] = IF f = 0 THEN Listen ELSE Free
  BY SizesAssumption DEF Init, Fds
<1>2. DOMAIN reg = {0} /\ reg[0] = [mask |-> {"read"}, data |-> Listen]
  BY DEF Init
<1>3. DOMAIN conn = {} /\ DOMAIN ready = {} /\ DOMAIN backlog = {}
  BY DEF Init
<1>4. Tables
  <2>1. reg[0] \in Callback
    BY <1>2, Apart DEF Callback
  <2>2. reg \in [DOMAIN reg -> Callback]
    BY <1>2, <2>1 DEF Init
  <2>3. conn \in [DOMAIN conn -> Record]
    BY <1>3 DEF Init
  <2> QED BY <1>1, <1>2, <1>3, <2>2, <2>3, Apart DEF Tables
<1>5. Once
  BY <1>1, Apart DEF Once
<1>6. Registered
  <2>1. Listen # Free /\ \A c \in Clients : Listen # Far(c)
    BY Apart
  <2> QED BY <1>1, <1>2, <2>1 DEF Registered
<1>7. Held
  BY <1>1, Apart DEF Held
<1>8. Owned /\ Watched
  BY <1>3 DEF Owned, Watched
<1>9. TypeOK
  <2>1. ready \in [DOMAIN ready -> Callback]
    BY <1>3 DEF Init
  <2>2. cur \in Callback
    BY Apart DEF Init, NoCallback, Callback
  <2>3. sock \in [Clients -> [asking : BOOLEAN, passing : BOOLEAN,
                              in : Seq(Units), out : Seq(Units)]]
    BY DEF Init
  <2>4. peer \in [Clients ->
                    [state : {"new", "connected", "asked", "ready", "gone"},
                     control : BOOLEAN, channel : BOOLEAN,
                     sent : 0 .. 2 * MaxMessages, got : Seq(Units)]]
    BY SizesAssumption DEF Init
  <2>5. backlog \in Seq(Clients) /\ written \in 0 .. Chunk
    BY SizesAssumption DEF Init
  <2> QED BY <1>3, <1>4, <2>1, <2>2, <2>3, <2>4, <2>5
          DEF TypeOK, Tables, Record, Init
<1>10. Waiting
  BY <1>3 DEF Waiting
<1>11. Directed
  BY <1>3 DEF Directed, Init
<1> QED BY <1>4, <1>5, <1>6, <1>7, <1>8, <1>9, <1>10, <1>11 DEF IInv, ServerInv

LEMMA SelectIInv == ASSUME IInv, Select PROVE IInv'
<1>1. ServerInv'
  BY UnchangedServer DEF IInv, Select
<1>2. /\ DOMAIN ready' \subseteq DOMAIN reg
      /\ \A f \in DOMAIN ready' : /\ ready'[f].data = reg[f].data
                                  /\ ready'[f].mask \subseteq reg[f].mask
  BY DEF Select, Reported
<1>3. TypeOK'
  <2>1. DOMAIN reg \subseteq Fds /\ \A f \in DOMAIN reg : reg[f] \in Callback
    BY DEF IInv, TypeOK
  <2>2. ready' \in [DOMAIN ready' -> Callback]
    <3>1. ready' = Reported
      BY DEF Select
    <3>2. \A f \in DOMAIN ready' : ready'[f] \in Callback
      BY <1>2, <2>1, <3>1 DEF Reported, Callback
    <3>3. ready' = [f \in DOMAIN ready' |-> ready'[f]]
      BY <3>1 DEF Reported
    <3> QED BY <3>2, <3>3
  <2> QED BY <1>2, <2>1, <2>2 DEF IInv, TypeOK, Select, serverVars, endVars
<1>4. Waiting'
  BY UnchangedWaiting DEF Select, serverVars
<1>5. Directed'
  <2>1. UNCHANGED <<fds, reg, conn, cur>> /\ pc' = "despatch"
    BY DEF Select, serverVars
  <2>2. \A f \in DOMAIN reg, c \in DOMAIN conn :
          /\ fds[f] = Control(c) /\ "write" \in reg[f].mask => conn[c].authenticated
          /\ fds[f] = Near(c) => ~conn[c].queue
    BY DEF IInv, TypeOK, ServerInv, Watched, Owned, Held
  <2> QED BY <1>2, <2>1, <2>2 DEF Directed
<1> QED BY <1>1, <1>3, <1>4, <1>5 DEF IInv

LEMMA PollSignalsIInv == ASSUME IInv, PollSignals PROVE IInv'
<1>1. UNCHANGED <<fds, reg, conn, backlog, sock, peer, ready, cur, written>>
  BY DEF PollSignals, serverVars
<1>2. ServerInv'
  BY <1>1, UnchangedServer DEF IInv, serverVars
<1>3. TypeOK'
  BY <1>1 DEF IInv, TypeOK, PollSignals
<1>4. Waiting'
  BY <1>1, UnchangedWaiting
<1>5. Directed'
  BY <1>1 DEF Directed, PollSignals
<1> QED BY <1>2, <1>3, <1>4, <1>5 DEF IInv

LEMMA SkipIInv == ASSUME IInv, NEW f \in Fds, Skip(f) PROVE IInv'
<1>1. Despatching(f) /\ UNCHANGED <<serverVars, backlog, sock, peer, pc, cur, written, endVars>>
  BY DEF Skip
<1>2. ServerInv'
  BY <1>1, UnchangedServer DEF IInv
<1>3. TypeOK'
  BY <1>1, DespatchReady DEF IInv, TypeOK, serverVars, endVars
<1>4. Waiting'
  BY <1>1, UnchangedWaiting DEF serverVars
<1>5. Directed'
  BY <1>1, UnchangedShrinks, DespatchDirected
<1> QED BY <1>2, <1>3, <1>4, <1>5 DEF IInv

LEMMA SocketReadyIInv == ASSUME IInv, NEW f \in Fds, SocketReady(f) PROVE IInv'
<1>1. /\ Despatching(f) /\ f \in DOMAIN reg /\ reg[f].data = Listen
      /\ backlog # <<>> /\ UNCHANGED <<sock, peer, pc, cur, written, endVars>>
  BY DEF SocketReady, Calling
<1>2. /\ f \in DOMAIN ready /\ DOMAIN ready' = DOMAIN ready \ {f}
      /\ 0 \notin DOMAIN ready' /\ pc = "despatch"
      /\ \A g \in DOMAIN ready' : ready'[g] = ready[g]
      /\ DOMAIN ready' \subseteq Fds /\ ready' \in [DOMAIN ready' -> Callback]
  BY <1>1, DespatchReady
<1>3. CASE FreeFds = {}
  <2>1. UNCHANGED <<serverVars, backlog>>
    BY <1>3 DEF SocketReady
  <2>2. ServerInv'
    BY <2>1, UnchangedServer DEF IInv
  <2>3. TypeOK'
    BY <1>1, <1>2, <2>1 DEF IInv, TypeOK, serverVars, endVars
  <2>4. Waiting'
    BY <1>1, <2>1, UnchangedWaiting DEF serverVars
  <2>5. Directed'
    BY <1>1, <2>1, UnchangedShrinks, DespatchDirected
  <2> QED BY <2>2, <2>3, <2>4, <2>5 DEF IInv
<1>4. CASE FreeFds # {}
  <2> DEFINE c == Head(backlog)
             new == LeastIn(FreeFds)
  <2>1. Accepts(c, new) /\ backlog' = Tail(backlog)
    BY <1>4 DEF SocketReady, Accepts
  <2>2. new \in FreeFds
    BY <1>4, LeastFd DEF FreeFds
  <2>3. /\ backlog \in Seq(Clients) /\ c \in Clients /\ 1 \in DOMAIN backlog
        /\ c = backlog[1] /\ Tail(backlog) \in Seq(Clients)
        /\ DOMAIN Tail(backlog) = 1 .. Len(backlog) - 1 /\ DOMAIN backlog = 1 .. Len(backlog)
        /\ \A i \in 1 .. Len(backlog) - 1 : Tail(backlog)[i] = backlog[i + 1]
    BY <1>1 DEF IInv, TypeOK
  <2> HIDE DEF c, new
  <2>4. c \in Clients \ DOMAIN conn
    BY <2>3 DEF IInv, Waiting
  <2>5. ServerInv'
    BY <2>1, <2>2, <2>4, AcceptServer DEF IInv
  <2>6. TypeOK'
    BY <1>1, <1>2, <2>1, <2>3, <2>5 DEF IInv, TypeOK, endVars, ServerInv, Tables, Record
  <2>7. /\ DOMAIN conn' = DOMAIN conn \cup {c} /\ ~conn'[c].queue /\ ~conn'[c].authenticated
        /\ \A d \in DOMAIN conn : conn'[d] = conn[d]
        /\ DOMAIN reg' = DOMAIN reg \cup {new}
        /\ \A g \in DOMAIN reg : g # new => reg'[g] = reg[g]
        /\ \A g \in Fds : g # new => fds'[g] = fds[g]
    BY <2>1, <2>4 DEF Accepts, With, IInv, TypeOK
  <2>8. Waiting'
    BY <1>1, <2>1, <2>3, <2>7 DEF IInv, Waiting
  <2>9. Directed'
    <3>1. f = 0
      BY <1>1 DEF IInv, ServerInv, Once, Registered
    <3>2. new \notin DOMAIN ready'
      BY <1>2, <2>2, <3>1 DEF IInv, Directed, ServerInv, Registered, FreeFds
    <3>3. \A g \in DOMAIN ready' : fds'[g] = fds[g]
      BY <1>2, <2>7, <3>2
    <3>4. \A g \in DOMAIN ready' : fds[g] # Control(c) /\ fds[g] # Near(c)
      BY <1>2, <2>4 DEF IInv, ServerInv, Held
    <3>5. \A g \in DOMAIN ready' \cap DOMAIN reg' : reg'[g].data = ready'[g].data
      BY <1>2, <2>7, <3>2 DEF IInv, Directed
    <3>6. \A g \in DOMAIN ready', d \in DOMAIN conn' :
            fds'[g] = Control(d) /\ "write" \in ready'[g].mask => conn'[d].authenticated
      BY <1>2, <2>7, <3>3, <3>4 DEF IInv, Directed
    <3>7. \A g \in DOMAIN ready', d \in DOMAIN conn' :
            conn'[d].queue /\ fds'[g] = Near(d) =>
              \A h \in DOMAIN ready' : fds'[h] # Control(d)
      BY <1>2, <2>7, <3>3, <3>4 DEF IInv, Directed
    <3>8. pc' = "despatch"
      BY <1>1, <1>2
    <3> QED BY <1>2, <3>5, <3>6, <3>7, <3>8 DEF Directed
  <2> QED BY <2>5, <2>6, <2>8, <2>9 DEF IInv
<1> QED BY <1>3, <1>4

(* The second half is to come, or not.                                     *)
LEMMA HalfDoneTypes ==
  ASSUME IInv, NEW f \in DOMAIN reg, f \in DOMAIN ready, HalfDone(f)
  PROVE  /\ pc' \in {pc, "write"} /\ cur' \in Callback
         /\ \/ UNCHANGED <<pc, cur>> /\ "write" \notin ready[f].mask
            \/ /\ "write" \in ready[f].mask
               /\ pc' = "write" /\ cur'.data = reg[f].data
<1>1. ready[f] \in Callback /\ reg[f] \in Callback /\ cur \in Callback
  BY DEF IInv, TypeOK
<1> QED BY <1>1 DEF HalfDone, Mask, Callback

LEMMA ControlReadIInv ==
  ASSUME IInv, NEW f \in Fds, NEW c \in Clients, ControlRead(f, c)
  PROVE  IInv'
<1>1. /\ Despatching(f) /\ f \in DOMAIN reg /\ reg[f].data = Control(c)
      /\ HalfDone(f) /\ UNCHANGED <<backlog, peer, written, endVars>>
      /\ sock' = sock \/ sock' = [sock EXCEPT ![c].asking = FALSE]
  BY DEF ControlRead, Calling
<1>8. sock' \in [Clients -> Holds]
  <2>1. sock \in [Clients -> Holds]
    BY DEF IInv, TypeOK, Holds
  <2> QED BY <1>1, <2>1 DEF Holds
<1>2. /\ f \in DOMAIN ready /\ DOMAIN ready' = DOMAIN ready \ {f}
      /\ 0 \notin DOMAIN ready' /\ pc = "despatch"
      /\ \A g \in DOMAIN ready' : ready'[g] = ready[g]
      /\ DOMAIN ready' \subseteq Fds /\ ready' \in [DOMAIN ready' -> Callback]
  BY <1>1, DespatchReady
<1>3. /\ pc' \in {"despatch", "write"} /\ cur' \in Callback
      /\ \/ UNCHANGED <<pc, cur>> /\ "write" \notin ready[f].mask
         \/ "write" \in ready[f].mask /\ pc' = "write" /\ cur'.data = reg[f].data
  BY <1>1, <1>2, HalfDoneTypes
<1>4. SUFFICES ServerInv' /\ DOMAIN conn' \subseteq DOMAIN conn /\ Directed'
  <2>1. TypeOK'
    BY <1>1, <1>2, <1>3, <1>4, <1>8 DEF IInv, TypeOK, endVars, ServerInv, Tables, Record, Holds
  <2>2. Waiting'
    BY <1>1, <1>4, UnchangedWaiting
  <2> QED BY <1>4, <2>1, <2>2 DEF IInv
<1>5. CASE UNCHANGED serverVars
  <2>1. ServerInv' /\ DOMAIN conn' \subseteq DOMAIN conn
    BY <1>5, UnchangedServer DEF IInv, serverVars
  <2>2. Directed'
    BY <1>1, <1>3, <1>5, UnchangedShrinks, DespatchDirected
  <2> QED BY <2>1, <2>2
<1>6. CASE ClientClose(c)
  <2>1. ServerInv'
    BY <1>6, CloseServer DEF IInv
  <2>2. Shrinks
    BY <1>6, CloseShrinks
  <2>3. Directed'
    BY <1>1, <1>3, <2>2, DespatchDirected
  <2> QED BY <2>1, <2>2, <2>3 DEF Shrinks
<1>7. CASE ~conn[c].authenticated /\ ~(Cardinality(FreeFds) < 2) /\ NewChannel(c)
  <2>1. c \in DOMAIN conn /\ fds[f] = Control(c)
    BY <1>1 DEF IInv, ServerInv, Registered, Held
  <2>2. ServerInv'
    BY <1>7, <2>1, NewChannelServer DEF IInv
  <2>3. "write" \notin ready[f].mask
    BY <1>2, <1>7, <2>1 DEF IInv, Directed
  <2>4. UNCHANGED <<pc, cur>>
    BY <1>3, <2>3
  <2>5. /\ DOMAIN conn' = DOMAIN conn
        /\ \A d \in DOMAIN conn \ {c} : conn'[d] = conn[d]
        /\ conn'[c].authenticated
        /\ DOMAIN reg' = DOMAIN reg
        /\ \A g \in DOMAIN reg : reg'[g].data = reg[g].data
    <3>1. /\ conn \in [DOMAIN conn -> Record]
          /\ reg \in [DOMAIN reg -> Callback]
      BY DEF IInv, ServerInv, Tables
    <3> QED BY <1>7, <2>1, <3>1 DEF NewChannel, Record, Callback
  <2>6. \A g \in Fds, d \in Clients :
          /\ fds'[g] = Control(d) => fds[g] = Control(d)
          /\ fds'[g] = Near(d) /\ d # c => fds[g] = Near(d)
    <3>1. \A g \in Fds : fds'[g] = fds[g] \/ fds'[g] \in {Near(c), Far(c)}
      BY <1>7 DEF NewChannel, IInv, TypeOK
    <3> QED BY <3>1, Apart
  <2>7. Directed'
    <3>1. DOMAIN conn \subseteq Clients
      BY DEF IInv, TypeOK
    <3>2. \A g \in DOMAIN ready' \cap DOMAIN reg' : reg'[g].data = ready'[g].data
      BY <1>2, <2>5 DEF IInv, Directed
    <3>3. \A g \in DOMAIN ready', d \in DOMAIN conn' :
            fds'[g] = Control(d) /\ "write" \in ready'[g].mask => conn'[d].authenticated
      BY <1>2, <2>5, <2>6, <3>1 DEF IInv, Directed
    <3>4. ASSUME NEW g \in DOMAIN ready', NEW d \in DOMAIN conn',
                 conn'[d].queue, fds'[g] = Near(d)
          PROVE  \A h \in DOMAIN ready' : fds'[h] # Control(d)
      <4>1. CASE d = c
        <5>1. \A h \in Fds : fds[h] = Control(c) => h = f
          BY <2>1, Apart DEF IInv, ServerInv, Once
        <5> QED BY <1>2, <2>6, <4>1, <5>1
      <4>2. CASE d # c
        <5>1. /\ conn[d].queue /\ fds[g] = Near(d) /\ g \in DOMAIN ready
              /\ d \in DOMAIN conn /\ d \in Clients
          BY <1>2, <2>5, <2>6, <3>1, <3>4, <4>2
        <5>2. \A h \in DOMAIN ready : fds[h] # Control(d)
          BY <5>1 DEF IInv, Directed
        <5> QED BY <1>2, <2>6, <5>1, <5>2
      <4> QED BY <4>1, <4>2
    <3> QED BY <1>2, <2>4, <3>2, <3>3, <3>4 DEF Directed
  <2> QED BY <2>2, <2>5, <2>7
<1> QED BY <1>5, <1>6, <1>7 DEF ControlRead

LEMMA WriteOnlyIInv == ASSUME IInv, NEW f \in Fds, WriteOnly(f) PROVE IInv'
<1>1. /\ Despatching(f) /\ f \in DOMAIN reg /\ HalfDone(f)
      /\ UNCHANGED <<serverVars, backlog, sock, peer, written, endVars>>
  BY DEF WriteOnly, Calling
<1>2. /\ f \in DOMAIN ready /\ pc = "despatch"
      /\ DOMAIN ready' \subseteq Fds /\ ready' \in [DOMAIN ready' -> Callback]
  BY <1>1, DespatchReady
<1>3. /\ pc' \in {"despatch", "write"} /\ cur' \in Callback
      /\ \/ UNCHANGED <<pc, cur>>
         \/ pc' = "write" /\ cur'.data = reg[f].data
  BY <1>1, <1>2, HalfDoneTypes
<1>4. ServerInv'
  BY <1>1, UnchangedServer DEF IInv
<1>5. TypeOK'
  BY <1>1, <1>2, <1>3 DEF IInv, TypeOK, serverVars, endVars
<1>6. Waiting'
  BY <1>1, UnchangedWaiting DEF serverVars
<1>7. Directed'
  BY <1>1, <1>3, UnchangedShrinks, DespatchDirected
<1> QED BY <1>4, <1>5, <1>6, <1>7 DEF IInv

LEMMA UseAfterCloseIInv ==
  ASSUME IInv, NEW c \in Clients, UseAfterClose(c)
  PROVE  IInv'
<1>1. ServerInv'
  BY UnchangedServer DEF IInv, UseAfterClose
<1>2. TypeOK'
  BY DEF IInv, TypeOK, UseAfterClose, serverVars, loopVars
<1>3. Waiting'
  BY UnchangedWaiting DEF UseAfterClose, serverVars
<1>4. Directed'
  BY UnchangedDirected DEF UseAfterClose, serverVars, loopVars
<1> QED BY <1>1, <1>2, <1>3, <1>4 DEF IInv

LEMMA ControlWriteIInv ==
  ASSUME IInv, NEW c \in Clients, ControlWrite(c)
  PROVE  IInv'
<1>1. /\ pc = "write" /\ cur.data = Control(c) /\ c \in DOMAIN conn /\ CallbackDone
      /\ UNCHANGED <<backlog, peer, ready, written, crashed, undefined>>
      /\ sigpipe' = sigpipe \/ sigpipe' = TRUE
      /\ sock' = sock \/ sock' = [sock EXCEPT ![c].passing = TRUE]
  BY DEF ControlWrite, Writing
<1>6. sock' \in [Clients -> Holds]
  <2>1. sock \in [Clients -> Holds]
    BY DEF IInv, TypeOK, Holds
  <2> QED BY <1>1, <2>1 DEF Holds
<1>2. SUFFICES ServerInv' /\ DOMAIN conn' \subseteq DOMAIN conn /\ Directed'
  <2>1. pc' \in {"despatch"} /\ cur' \in Callback
    BY <1>1, Apart DEF CallbackDone, NoCallback, Callback
  <2>2. TypeOK'
    BY <1>1, <1>2, <1>6, <2>1 DEF IInv, TypeOK, ServerInv, Tables, Record, Holds
  <2>3. Waiting'
    BY <1>1, <1>2, UnchangedWaiting
  <2> QED BY <1>2, <2>2, <2>3 DEF IInv
<1>3. CASE /\ ~conn[c].queue /\ UNCHANGED <<fds, conn>>
           /\ reg' = [reg EXCEPT ![FdOf(Control(c))].mask = {"read"}]
  <2>1. ServerInv'
    BY <1>1, <1>3, IdleServer DEF IInv
  <2>2. Shrinks
    BY <1>3 DEF Shrinks, IInv, TypeOK, Callback
  <2> QED BY <1>1, <1>3, <2>1, <2>2, DoneDirected
<1>4. CASE ClientClose(c)
  <2>1. ServerInv'
    BY <1>4, CloseServer DEF IInv
  <2>2. Shrinks
    BY <1>4, CloseShrinks
  <2> QED BY <1>1, <2>1, <2>2, DoneDirected DEF Shrinks
<1>5. CASE conn[c].queue /\ Passes(c)
  <2> DEFINE near == FdOf(Near(c))
  <2>1. /\ ServerInv'
        /\ \A f \in Fds : fds'[f] # Free => fds'[f] = fds[f]
        /\ DOMAIN conn' = DOMAIN conn
        /\ conn'[c].authenticated /\ ~conn'[c].queue
        /\ \A d \in DOMAIN conn \ {c} : conn'[d] = conn[d]
        /\ DOMAIN reg' = DOMAIN reg \cup {near}
        /\ \A f \in DOMAIN reg : reg'[f].data = reg[f].data
        /\ fds[near] = Near(c) /\ near \in Fds
    BY <1>1, <1>5, PassServer DEF IInv
  <2> HIDE DEF near
  <2>2. near \notin DOMAIN ready
    BY <1>1, <1>5, <2>1 DEF IInv, Directed
  <2>3. DOMAIN ready \subseteq Fds /\ DOMAIN conn \subseteq Clients
    BY DEF IInv, TypeOK
  <2>4. \A g \in DOMAIN ready, d \in DOMAIN conn :
          fds'[g] \in {Control(d), Near(d)} => fds'[g] = fds[g]
    BY <2>1, <2>3, Apart
  <2>5. \A g \in DOMAIN ready \cap DOMAIN reg' : reg'[g].data = ready[g].data
    BY <2>1, <2>2 DEF IInv, Directed
  <2>6. \A g \in DOMAIN ready, d \in DOMAIN conn' :
          fds'[g] = Control(d) /\ "write" \in ready[g].mask => conn'[d].authenticated
    BY <2>1, <2>4 DEF IInv, Directed
  <2>7. \A g \in DOMAIN ready, d \in DOMAIN conn' :
          conn'[d].queue /\ fds'[g] = Near(d) =>
            \A h \in DOMAIN ready : fds'[h] # Control(d)
    BY <2>1, <2>4 DEF IInv, Directed
  <2>8. pc' = "despatch" /\ 0 \notin DOMAIN ready
    BY <1>1 DEF CallbackDone, IInv, Directed
  <2>9. Directed'
    BY <1>1, <2>5, <2>6, <2>7, <2>8 DEF Directed
  <2> QED BY <2>1, <2>9
<1> QED BY <1>3, <1>4, <1>5 DEF ControlWrite, Passes

(* The messages complete in a queue, their replies and what is left.       *)
LEMMA Splits ==
  ASSUME NEW q \in Seq(Units)
  PROVE  /\ Rest(q) \in Seq(Units)
         /\ RepliesTo(Complete(q)) \in Seq(Units)
         /\ RepliesTo(Complete(q)) = <<>> <=> Complete(q) = <<>>
<1>1. Len(q) \in Nat /\ Len(q) \div 2 \in Nat /\ 2 * (Len(q) \div 2) <= Len(q)
  OBVIOUS
<1> DEFINE n == Len(q) \div 2
           ms == Complete(q)
<1>2. ms \in Seq(1 .. MaxMessages) /\ Len(ms) = n
  <2>1. \A i \in 1 .. n : q[2 * i - 1].msg \in 1 .. MaxMessages
    <3>1. TAKE i \in 1 .. n
    <3>2. 2 * i - 1 \in 1 .. Len(q)
      BY <1>1
    <3>3. q[2 * i - 1] \in Units
      BY <3>2
    <3> QED BY <3>3 DEF Units
  <2> QED BY <1>1, <2>1 DEF Complete
<1> HIDE DEF n, ms
<1>3. RepliesTo(ms) \in Seq(Units) /\ Len(RepliesTo(ms)) = 2 * n
  <2>1. n \in Nat
    BY <1>1 DEF n
  <2>3. \A k \in 1 .. n : ms[k] \in 1 .. MaxMessages
    BY <1>2, ElementOfSeq
  <2>2. \A i \in 1 .. 2 * n :
          Unit(ms[(i + 1) \div 2], IF i % 2 = 1 THEN "length" ELSE "body") \in Units
    <3>1. TAKE i \in 1 .. 2 * n
    <3>2. (i + 1) \div 2 \in 1 .. n
      BY <2>1
    <3>3. ms[(i + 1) \div 2] \in 1 .. MaxMessages
      BY <2>3, <3>2
    <3> QED BY <3>3 DEF Unit, Units
  <2> QED BY <1>2, <2>1, <2>2 DEF RepliesTo
<1>4. Rest(q) \in Seq(Units)
  BY <1>1 DEF Rest
<1>5. RepliesTo(ms) = <<>> <=> ms = <<>>
  <2>1. n \in Nat
    BY <1>1 DEF n
  <2> QED BY <1>2, <1>3, <2>1
<1> QED BY <1>3, <1>4, <1>5 DEF ms

LEMMA LeastOfTwo ==
  ASSUME NEW m \in Nat, NEW n \in Nat
  PROVE  LeastIn({m, n}) \in Nat /\ LeastIn({m, n}) <= m /\ LeastIn({m, n}) <= n
<1>1. {m, n} \subseteq Nat /\ {m, n} # {}
  OBVIOUS
<1>2. LeastIn({m, n}) \in {m, n} /\ \A y \in {m, n} : LeastIn({m, n}) <= y
  BY <1>1, Least
<1> QED BY <1>2

LEMMA ChannelReadIInv ==
  ASSUME IInv, NEW f \in Fds, NEW c \in Clients, ChannelRead(f, c)
  PROVE  IInv'
<1> DEFINE k == LeastIn({Chunk, Len(sock[c].in)})
           q == conn[c].recvq \o SubSeq(sock[c].in, 1, k)
           ms == Complete(q)
<1>1. /\ Despatching(f) /\ f \in DOMAIN reg /\ reg[f].data = Near(c)
      /\ HalfDone(f) /\ UNCHANGED <<backlog, peer, written, sigpipe, crashed>>
  BY DEF ChannelRead, Calling
<1>2. /\ f \in DOMAIN ready /\ DOMAIN ready' = DOMAIN ready \ {f} /\ pc = "despatch"
      /\ DOMAIN ready' \subseteq Fds /\ ready' \in [DOMAIN ready' -> Callback]
  BY <1>1, DespatchReady
<1>3. /\ pc' \in {"despatch", "write"} /\ cur' \in Callback
      /\ UNCHANGED <<pc, cur>> \/ (pc' = "write" /\ cur'.data = reg[f].data)
  BY <1>1, <1>2, HalfDoneTypes
<1>4. c \in DOMAIN conn /\ conn[c] \in Record /\ sock[c] \in Holds
      /\ sock \in [Clients -> Holds] /\ conn \in [DOMAIN conn -> Record]
  BY <1>1 DEF IInv, TypeOK, ServerInv, Tables, Registered, Held, Holds
<1>5. SUFFICES /\ ServerInv' /\ Shrinks
               /\ sock' \in [Clients -> Holds] /\ undefined' \in BOOLEAN
  <2>1. TypeOK'
    BY <1>1, <1>2, <1>3, <1>5 DEF IInv, TypeOK, ServerInv, Tables, Record, Holds
  <2>2. Waiting'
    BY <1>1, <1>5, UnchangedWaiting DEF Shrinks
  <2>3. Directed'
    BY <1>1, <1>3, <1>5, DespatchDirected
  <2> QED BY <1>5, <2>1, <2>2, <2>3 DEF IInv
<1>6. CASE sock[c].in = <<>>
  <2>1. ClientClose(c) /\ UNCHANGED <<sock, undefined>>
    BY <1>6 DEF ChannelRead
  <2>2. ServerInv' /\ Shrinks
    BY <2>1, CloseServer, CloseShrinks DEF IInv
  <2> QED BY <1>4, <2>1, <2>2 DEF IInv, TypeOK
<1>7. CASE sock[c].in # <<>>
  <2> DEFINE in == sock[c].in
  <2>7. in \in Seq(Units) /\ conn[c].recvq \in Seq(Units)
    BY <1>4 DEF Holds, Record
  <2>1. k \in Nat /\ k <= Len(in)
    <3>1. Len(in) \in Nat /\ Chunk \in Nat
      BY <2>7, SizesAssumption
    <3> QED BY <3>1, LeastOfTwo
  <2>8. Len(in) \in Nat /\ \A i \in 1 .. Len(in) : in[i] \in Units
    BY <2>7, ElementOfSeq
  <2>2. sock' = [sock EXCEPT ![c].in = SubSeq(@, k + 1, Len(@))]
    BY <1>7 DEF ChannelRead
  <2>3. sock' \in [Clients -> Holds]
    <3>1. SubSeq(in, k + 1, Len(in)) \in Seq(Units)
      <4>1. \A i \in k + 1 .. Len(in) : in[i] \in Units
        BY <2>1, <2>8
      <4>2. k + 1 \in Int /\ Len(in) \in Int
        BY <2>1, <2>8
      <4> HIDE DEF k, in
      <4> QED BY <4>1, <4>2, SubSeqProperties
    <3>2. [sock[c] EXCEPT !.in = SubSeq(in, k + 1, Len(in))] \in Holds
      BY <1>4, <3>1 DEF Holds
    <3> QED BY <1>4, <2>2, <3>2
  <2>4. q \in Seq(Units)
    <3>1. SubSeq(in, 1, k) \in Seq(Units)
      <4>1. \A i \in 1 .. k : in[i] \in Units
        BY <2>1, <2>8
      <4>2. 1 \in Int /\ k \in Int
        BY <2>1
      <4> HIDE DEF k, in
      <4> QED BY <4>1, <4>2, SubSeqProperties
    <3> QED BY <2>7, <3>1, ConcatProperties
  <2>5. CASE \E i \in DOMAIN ms : IsQuit(c, ms[i])
    <3>1. ClientClose(c) /\ undefined' \in BOOLEAN
      BY <1>7, <2>5 DEF ChannelRead
    <3> QED BY <2>3, <3>1, CloseServer, CloseShrinks DEF IInv
  <2>6. CASE ~\E i \in DOMAIN ms : IsQuit(c, ms[i])
    <3>1. /\ conn' = [conn EXCEPT ![c].recvq = Rest(q), ![c].sendq = @ \o RepliesTo(ms)]
          /\ reg' = IF ms = <<>> THEN reg
                    ELSE [reg EXCEPT ![f].mask = WatchedForWriting(c)]
          /\ UNCHANGED <<fds, undefined>>
      BY <1>7, <2>6 DEF ChannelRead
    <3>2. /\ Rest(q) \in Seq(Units) /\ RepliesTo(ms) \in Seq(Units)
          /\ RepliesTo(ms) = <<>> <=> ms = <<>>
      BY <2>4, Splits
    <3> DEFINE r == Rest(q)
               a == RepliesTo(ms)
    <3>3. /\ conn' = [conn EXCEPT ![c].recvq = r, ![c].sendq = @ \o a]
          /\ reg' = IF a = <<>> THEN reg
                    ELSE [reg EXCEPT ![f].mask = {"read", "write"}]
      BY <3>1, <3>2 DEF WatchedForWriting
    <3>4. r \in Seq(Units) /\ a \in Seq(Units)
      BY <3>2
    <3> HIDE DEF r, a, q, k, ms
    <3>5. ServerInv'
      BY <1>1, <1>4, <3>1, <3>3, <3>4, ReadServer DEF IInv
    <3>6. Shrinks
      <4>1. reg \in [DOMAIN reg -> Callback]
        BY DEF IInv, TypeOK
      <4> QED BY <1>4, <3>1, <3>3, <4>1 DEF Shrinks, Record, Callback
    <3> QED BY <2>3, <3>1, <3>5, <3>6 DEF IInv, TypeOK
  <2> QED BY <2>5, <2>6
<1> QED BY <1>6, <1>7

LEMMA ChannelPushIInv ==
  ASSUME IInv, NEW c \in Clients, ChannelPush(c)
  PROVE  IInv'
<1>1. /\ c \in DOMAIN conn /\ written < Amount(c) /\ written' = written + 1
      /\ sock' = [sock EXCEPT ![c].out = Append(@, conn[c].sendq[written + 1])]
      /\ UNCHANGED <<serverVars, backlog, peer, pc, ready, cur, endVars>>
  BY DEF ChannelPush
<1>2. /\ conn[c].sendq \in Seq(Units) /\ sock \in [Clients -> Holds]
      /\ written \in Nat /\ Chunk \in Nat
  BY <1>1, SizesAssumption DEF IInv, TypeOK, Holds
<1>3. Amount(c) \in Nat /\ Amount(c) <= Chunk /\ Amount(c) <= Len(conn[c].sendq)
  <2>1. Len(conn[c].sendq) \in Nat
    BY <1>2
  <2> QED BY <1>2, <2>1, LeastOfTwo DEF Amount
<1>4. written' \in 0 .. Chunk /\ written + 1 \in 1 .. Len(conn[c].sendq)
  BY <1>1, <1>2, <1>3
<1>5. sock' \in [Clients -> Holds]
  <2> DEFINE u == conn[c].sendq[written + 1]
  <2>1. u \in Units
    BY <1>2, <1>4, ElementOfSeq
  <2>2. sock[c].out \in Seq(Units) /\ sock[c] \in Holds
    BY <1>2 DEF Holds
  <2>3. Append(sock[c].out, u) \in Seq(Units)
    BY <2>1, <2>2, AppendProperties
  <2>4. [sock[c] EXCEPT !.out = Append(sock[c].out, u)] \in Holds
    BY <2>2, <2>3 DEF Holds
  <2> QED BY <1>1, <1>2, <2>4
<1>6. ServerInv'
  BY <1>1, UnchangedServer DEF IInv
<1>7. TypeOK'
  BY <1>1, <1>4, <1>5 DEF IInv, TypeOK, serverVars, endVars, Holds
<1>8. Waiting'
  BY <1>1, UnchangedWaiting DEF serverVars
<1>9. Directed'
  BY <1>1, UnchangedDirected DEF serverVars
<1> QED BY <1>6, <1>7, <1>8, <1>9 DEF IInv

LEMMA ChannelWrittenIInv ==
  ASSUME IInv, NEW c \in Clients, ChannelWritten(c)
  PROVE  IInv'
<1> DEFINE left == SubSeq(conn[c].sendq, written + 1, Len(conn[c].sendq))
<1>1. /\ pc = "write" /\ cur.data = Near(c) /\ c \in DOMAIN conn /\ CallbackDone
      /\ conn' = [conn EXCEPT ![c].sendq = left] /\ written' = 0
      /\ reg' = IF left = <<>> THEN [reg EXCEPT ![FdOf(Near(c))].mask = {"read"}]
                ELSE reg
      /\ UNCHANGED <<fds, backlog, sock, peer, ready, endVars>>
  BY DEF ChannelWritten, Writing
<1>2. /\ conn[c].sendq \in Seq(Units) /\ written \in Nat
      /\ conn[c].authenticated /\ ~conn[c].queue
      /\ conn \in [DOMAIN conn -> Record] /\ reg \in [DOMAIN reg -> Callback]
  BY <1>1 DEF IInv, TypeOK, Directed, Record
<1>3. left \in Seq(Units) /\ (left # <<>> => conn[c].sendq # <<>>)
  BY <1>2
<1> HIDE DEF left
<1>4. ServerInv'
  BY <1>1, <1>2, <1>3, WrittenServer DEF IInv
<1>5. Shrinks
  BY <1>1, <1>2 DEF Shrinks, Record, Callback
<1>6. Directed'
  BY <1>1, <1>5, DoneDirected
<1>7. TypeOK'
  <2>1. pc' = "despatch" /\ cur' \in Callback /\ 0 \in 0 .. Chunk
    BY <1>1, Apart, SizesAssumption DEF CallbackDone, NoCallback, Callback
  <2> QED BY <1>1, <1>4, <2>1 DEF IInv, TypeOK, ServerInv, Tables, Record, endVars
<1>8. Waiting'
  BY <1>1, <1>5, UnchangedWaiting DEF Shrinks
<1> QED BY <1>4, <1>6, <1>7, <1>8 DEF IInv

LEMMA ChannelBrokenIInv ==
  ASSUME IInv, NEW c \in Clients, ChannelBroken(c)
  PROVE  IInv'
<1>1. /\ pc = "write" /\ ClientClose(c) /\ sigpipe' = TRUE /\ CallbackDone
      /\ UNCHANGED <<backlog, sock, peer, ready, written, crashed, undefined>>
  BY DEF ChannelBroken, Writing
<1>2. ServerInv' /\ Shrinks
  BY <1>1, CloseServer, CloseShrinks DEF IInv
<1>3. TypeOK'
  <2>1. pc' = "despatch" /\ cur' \in Callback
    BY <1>1, Apart DEF CallbackDone, NoCallback, Callback
  <2> QED BY <1>1, <1>2, <2>1 DEF IInv, TypeOK, ServerInv, Tables, Record
<1>4. Waiting'
  BY <1>1, <1>2, UnchangedWaiting DEF Shrinks
<1>5. Directed'
  BY <1>1, <1>2, DoneDirected
<1> QED BY <1>2, <1>3, <1>4, <1>5 DEF IInv

(* The clients leave the tables and the loop as they are.                  *)
LEMMA ClientIInv ==
  ASSUME IInv, UNCHANGED <<serverVars, loopVars, endVars>>,
         backlog' \in Seq(Clients), sock' \in [Clients -> Holds],
         peer' \in [Clients -> Peer], Waiting'
  PROVE  IInv'
<1>1. ServerInv'
  BY UnchangedServer DEF IInv
<1>2. Directed'
  BY UnchangedDirected DEF serverVars, loopVars
<1>3. TypeOK'
  BY DEF IInv, TypeOK, serverVars, loopVars, endVars, Holds, Peer
<1> QED BY <1>1, <1>2, <1>3 DEF IInv

LEMMA ClientTypes ==
  ASSUME IInv
  PROVE  /\ backlog \in Seq(Clients)
         /\ sock \in [Clients -> Holds] /\ peer \in [Clients -> Peer]
BY DEF IInv, TypeOK, Holds, Peer

LEMMA ConnectIInv == ASSUME IInv, NEW c \in Clients, Connect(c) PROVE IInv'
<1>1. /\ peer[c].state = "new" /\ backlog' = Append(backlog, c)
      /\ peer' = [peer EXCEPT ![c].state = "connected", ![c].control = TRUE]
      /\ UNCHANGED <<serverVars, sock, loopVars, endVars>>
  BY DEF Connect
<1>2. backlog \in Seq(Clients) /\ sock \in [Clients -> Holds] /\ peer \in [Clients -> Peer]
  BY ClientTypes
<1>3. /\ backlog' \in Seq(Clients) /\ Len(backlog') = Len(backlog) + 1
      /\ \A i \in 1 .. Len(backlog) : backlog'[i] = backlog[i]
      /\ backlog'[Len(backlog) + 1] = c
  BY <1>1, <1>2, AppendProperties
<1>4. /\ DOMAIN backlog = 1 .. Len(backlog) /\ DOMAIN backlog' = 1 .. Len(backlog')
      /\ Len(backlog) \in Nat
  BY <1>2, <1>3
<1>5. /\ peer' \in [Clients -> Peer] /\ peer'[c].state = "connected"
      /\ \A d \in Clients \ {c} : peer'[d] = peer[d]
  BY <1>1, <1>2 DEF Peer
<1>6. Waiting'
  <2>1. \A i \in DOMAIN backlog : backlog[i] # c /\ backlog[i] \in Clients
    BY <1>1, <1>2, <1>4, ElementOfSeq DEF IInv, Waiting
  <2>2. \A d \in DOMAIN conn : d # c /\ d \in Clients
    BY <1>1 DEF IInv, Waiting, TypeOK
  <2>3. conn' = conn
    BY <1>1 DEF serverVars
  <2>4. \A i \in DOMAIN backlog' : i \in DOMAIN backlog \/ i = Len(backlog) + 1
    BY <1>3, <1>4
  <2>5. \A i, j \in DOMAIN backlog' : backlog'[i] = backlog'[j] => i = j
    BY <1>3, <1>4, <2>1, <2>4 DEF IInv, Waiting
  <2>6. \A i \in DOMAIN backlog' :
          backlog'[i] \notin DOMAIN conn' /\ peer'[backlog'[i]].state # "new"
    <3>1. TAKE i \in DOMAIN backlog'
    <3>2. CASE i \in DOMAIN backlog
      <4>1. backlog'[i] = backlog[i]
        BY <1>3, <1>4, <3>2
      <4> QED BY <1>5, <2>1, <2>3, <3>2, <4>1 DEF IInv, Waiting
    <3>3. CASE i = Len(backlog) + 1
      BY <1>3, <1>5, <2>2, <2>3, <3>3
    <3> QED BY <2>4, <3>2, <3>3
  <2>7. \A d \in DOMAIN conn' : peer'[d].state # "new"
    BY <1>5, <2>2, <2>3 DEF IInv, Waiting
  <2> QED BY <2>5, <2>6, <2>7 DEF Waiting
<1> QED BY <1>1, <1>2, <1>3, <1>5, <1>6, ClientIInv

(* No other step of a client makes it new, or touches what is waiting.     *)
LEMMA PeerWaiting ==
  ASSUME IInv, NEW c \in Clients, UNCHANGED <<serverVars, backlog>>,
         peer'[c].state # "new", \A d \in Clients \ {c} : peer'[d] = peer[d]
  PROVE  Waiting'
<1>1. UNCHANGED <<conn, backlog>> /\ DOMAIN conn \subseteq Clients
  BY DEF serverVars, IInv, TypeOK
<1>2. \A i \in DOMAIN backlog : backlog[i] \in Clients
  BY ClientTypes, ElementOfSeq
<1>3. \A d \in Clients : peer[d].state # "new" => peer'[d].state # "new"
  OBVIOUS
<1> QED BY <1>1, <1>2, <1>3 DEF IInv, Waiting

LEMMA AuthenticateIInv == ASSUME IInv, NEW c \in Clients, Authenticate(c) PROVE IInv'
<1>1. /\ peer' = [peer EXCEPT ![c].state = "asked"]
      /\ sock' = [sock EXCEPT ![c].asking = TRUE]
      /\ UNCHANGED <<serverVars, backlog, loopVars, endVars>>
  BY DEF Authenticate
<1>2. backlog \in Seq(Clients) /\ sock \in [Clients -> Holds] /\ peer \in [Clients -> Peer]
  BY ClientTypes
<1>3. sock' \in [Clients -> Holds]
  BY <1>1, <1>2 DEF Holds
<1>4. /\ peer' \in [Clients -> Peer] /\ peer'[c].state # "new"
      /\ \A d \in Clients \ {c} : peer'[d] = peer[d]
  BY <1>1, <1>2 DEF Peer
<1> QED BY <1>1, <1>2, <1>3, <1>4, PeerWaiting, ClientIInv

LEMMA ReceiveChannelIInv == ASSUME IInv, NEW c \in Clients, ReceiveChannel(c) PROVE IInv'
<1>1. /\ peer' = [peer EXCEPT ![c].state = "ready", ![c].channel = TRUE]
      /\ sock' = [sock EXCEPT ![c].passing = FALSE]
      /\ UNCHANGED <<serverVars, backlog, loopVars, endVars>>
  BY DEF ReceiveChannel
<1>2. backlog \in Seq(Clients) /\ sock \in [Clients -> Holds] /\ peer \in [Clients -> Peer]
  BY ClientTypes
<1>3. sock' \in [Clients -> Holds]
  BY <1>1, <1>2 DEF Holds
<1>4. /\ peer' \in [Clients -> Peer] /\ peer'[c].state # "new"
      /\ \A d \in Clients \ {c} : peer'[d] = peer[d]
  BY <1>1, <1>2 DEF Peer
<1> QED BY <1>1, <1>2, <1>3, <1>4, PeerWaiting, ClientIInv

LEMMA SendUnitIInv == ASSUME IInv, NEW c \in Clients, SendUnit(c) PROVE IInv'
<1> DEFINE m == peer[c].sent \div 2 + 1
           u == Whole(m)[(peer[c].sent % 2) + 1]
<1>1. backlog \in Seq(Clients) /\ sock \in [Clients -> Holds] /\ peer \in [Clients -> Peer]
  BY ClientTypes
<1>2. /\ peer[c].sent \in 0 .. 2 * MaxMessages /\ peer[c].sent < 2 * MaxMessages
      /\ MaxMessages \in Nat
  BY <1>1, SizesAssumption DEF SendUnit, Peer
<1>3. m \in 1 .. MaxMessages /\ (peer[c].sent % 2) + 1 \in {1, 2}
      /\ peer[c].sent + 1 \in 0 .. 2 * MaxMessages
  BY <1>2
<1>4. u \in Units
  BY <1>3 DEF Whole, Unit, Units
<1>5. /\ sock' = [sock EXCEPT ![c].in = Append(@, u)]
      /\ peer' = [peer EXCEPT ![c].sent = @ + 1] /\ peer[c].state = "ready"
      /\ UNCHANGED <<serverVars, backlog, loopVars, endVars>>
  BY DEF SendUnit
<1> HIDE DEF u, m
<1>6. sock' \in [Clients -> Holds]
  <2>1. sock[c] \in Holds /\ Append(sock[c].in, u) \in Seq(Units)
    BY <1>1, <1>4, AppendProperties DEF Holds
  <2>2. [sock[c] EXCEPT !.in = Append(sock[c].in, u)] \in Holds
    BY <2>1 DEF Holds
  <2> QED BY <1>1, <1>5, <2>2
<1>7. /\ peer' \in [Clients -> Peer] /\ peer'[c].state # "new"
      /\ \A d \in Clients \ {c} : peer'[d] = peer[d]
  BY <1>1, <1>3, <1>5 DEF Peer
<1> QED BY <1>1, <1>5, <1>6, <1>7, PeerWaiting, ClientIInv

LEMMA ReceiveUnitIInv == ASSUME IInv, NEW c \in Clients, ReceiveUnit(c) PROVE IInv'
<1>1. /\ peer[c].state = "ready" /\ sock[c].out # <<>>
      /\ peer' = [peer EXCEPT ![c].got = Append(@, Head(sock[c].out))]
      /\ sock' = [sock EXCEPT ![c].out = Tail(@)]
      /\ UNCHANGED <<serverVars, backlog, loopVars, endVars>>
  BY DEF ReceiveUnit
<1>2. backlog \in Seq(Clients) /\ sock \in [Clients -> Holds] /\ peer \in [Clients -> Peer]
  BY ClientTypes
<1>3. /\ sock[c] \in Holds /\ sock[c].out \in Seq(Units)
      /\ peer[c] \in Peer /\ peer[c].got \in Seq(Units)
  BY <1>2 DEF Holds, Peer
<1>4. Head(sock[c].out) \in Units /\ Tail(sock[c].out) \in Seq(Units)
  BY <1>1, <1>3, HeadTailProperties
<1>5. sock' \in [Clients -> Holds]
  <2>1. [sock[c] EXCEPT !.out = Tail(sock[c].out)] \in Holds
    BY <1>3, <1>4 DEF Holds
  <2> QED BY <1>1, <1>2, <2>1
<1>6. /\ peer' \in [Clients -> Peer] /\ peer'[c].state # "new"
      /\ \A d \in Clients \ {c} : peer'[d] = peer[d]
  <2>1. Append(peer[c].got, Head(sock[c].out)) \in Seq(Units)
    BY <1>3, <1>4, AppendProperties
  <2> DEFINE p == [peer[c] EXCEPT !.got = Append(peer[c].got, Head(sock[c].out))]
  <2>2. p \in Peer /\ p.state = "ready"
    BY <1>1, <1>3, <2>1 DEF Peer
  <2>3. peer' = [peer EXCEPT ![c] = p]
    BY <1>1
  <2> HIDE DEF p
  <2> QED BY <1>2, <2>2, <2>3
<1> QED BY <1>1, <1>2, <1>5, <1>6, PeerWaiting, ClientIInv

LEMMA CloseControlIInv == ASSUME IInv, NEW c \in Clients, CloseControl(c) PROVE IInv'
<1>1. /\ peer' = [peer EXCEPT ![c].control = FALSE, ![c].state = "gone"]
      /\ sock' = [sock EXCEPT ![c].passing = FALSE]
      /\ UNCHANGED <<serverVars, backlog, loopVars, endVars>>
  BY DEF CloseControl
<1>2. backlog \in Seq(Clients) /\ sock \in [Clients -> Holds] /\ peer \in [Clients -> Peer]
  BY ClientTypes
<1>3. sock' \in [Clients -> Holds]
  BY <1>1, <1>2 DEF Holds
<1>4. /\ peer' \in [Clients -> Peer] /\ peer'[c].state # "new"
      /\ \A d \in Clients \ {c} : peer'[d] = peer[d]
  BY <1>1, <1>2 DEF Peer
<1> QED BY <1>1, <1>2, <1>3, <1>4, PeerWaiting, ClientIInv

LEMMA CloseChannelIInv == ASSUME IInv, NEW c \in Clients, CloseChannel(c) PROVE IInv'
<1>1. /\ peer' = [peer EXCEPT ![c].channel = FALSE, ![c].state = "gone"]
      /\ sock' = [sock EXCEPT ![c].out = <<>>]
      /\ UNCHANGED <<serverVars, backlog, loopVars, endVars>>
  BY DEF CloseChannel
<1>2. backlog \in Seq(Clients) /\ sock \in [Clients -> Holds] /\ peer \in [Clients -> Peer]
  BY ClientTypes
<1>3. sock' \in [Clients -> Holds]
  <2>1. sock[c] \in Holds /\ <<>> \in Seq(Units)
    BY <1>2, EmptySeq
  <2>2. [sock[c] EXCEPT !.out = <<>>] \in Holds
    BY <2>1 DEF Holds
  <2> QED BY <1>1, <1>2, <2>2
<1>4. /\ peer' \in [Clients -> Peer] /\ peer'[c].state # "new"
      /\ \A d \in Clients \ {c} : peer'[d] = peer[d]
  BY <1>1, <1>2 DEF Peer
<1> QED BY <1>1, <1>2, <1>3, <1>4, PeerWaiting, ClientIInv

-----------------------------------------------------------------------------
LEMMA Stutter == ASSUME IInv, UNCHANGED vars PROVE IInv'
<1>1. UNCHANGED <<serverVars, loopVars, endVars, backlog, sock, peer>>
  BY DEF vars
<1>2. Waiting'
  BY <1>1, UnchangedWaiting DEF serverVars
<1> QED BY <1>1, <1>2, ClientTypes, ClientIInv

LEMMA NextIInv == ASSUME IInv, [Next]_vars PROVE IInv'
<1>1. CASE Select
  BY <1>1, SelectIInv
<1>2. CASE PollSignals
  BY <1>2, PollSignalsIInv
<1>3. CASE \E f \in Fds : Skip(f)
  BY <1>3, SkipIInv
<1>4. CASE \E f \in Fds : SocketReady(f)
  BY <1>4, SocketReadyIInv
<1>5. CASE \E f \in Fds : WriteOnly(f)
  BY <1>5, WriteOnlyIInv
<1>6. CASE \E f \in Fds, c \in Clients : ControlRead(f, c)
  BY <1>6, ControlReadIInv
<1>7. CASE \E f \in Fds, c \in Clients : ChannelRead(f, c)
  BY <1>7, ChannelReadIInv
<1>8. CASE \E c \in Clients : UseAfterClose(c)
  BY <1>8, UseAfterCloseIInv
<1>9. CASE \E c \in Clients : ControlWrite(c)
  BY <1>9, ControlWriteIInv
<1>10. CASE \E c \in Clients : ChannelPush(c)
  BY <1>10, ChannelPushIInv
<1>11. CASE \E c \in Clients : ChannelWritten(c)
  BY <1>11, ChannelWrittenIInv
<1>12. CASE \E c \in Clients : ChannelBroken(c)
  BY <1>12, ChannelBrokenIInv
<1>13. CASE \E c \in Clients : Connect(c)
  BY <1>13, ConnectIInv
<1>14. CASE \E c \in Clients : ClientStep(c)
  <2>1. PICK c \in Clients : ClientStep(c)
    BY <1>14
  <2> QED BY <2>1, AuthenticateIInv, ReceiveChannelIInv, SendUnitIInv,
             ReceiveUnitIInv DEF ClientStep
<1>15. CASE \E c \in Clients : CloseControl(c)
  BY <1>15, CloseControlIInv
<1>16. CASE \E c \in Clients : CloseChannel(c)
  BY <1>16, CloseChannelIInv
<1>17. CASE UNCHANGED vars
  BY <1>17, Stutter
<1> QED BY <1>1, <1>2, <1>3, <1>4, <1>5, <1>6, <1>7, <1>8, <1>9, <1>10, <1>11,
           <1>12, <1>13, <1>14, <1>15, <1>16, <1>17 DEF Next, ServerStep

LEMMA Invariant == Spec => []IInv
<1>1. Init => IInv
  BY InitIInv
<1>2. IInv /\ [Next]_vars => IInv'
  BY NextIInv
<1> QED BY <1>1, <1>2, PTL DEF Spec

-----------------------------------------------------------------------------
(* Every variable has its type, for any number of clients and messages and *)
(* any sizes: in particular a write moves no more than a chunk, and no     *)
(* number outside the table of descriptors is used (unix.c, control.c).    *)
THEOREM TypeCorrect == Spec => []TypeOK
<1>1. IInv => TypeOK
  BY DEF IInv
<1> QED BY <1>1, Invariant, PTL

(* What is registered is open and is what its callback expects, although   *)
(* descriptors are closed and their numbers given out again; a near end is *)
(* registered once its far end is passed on; and every open end belongs to *)
(* a client that the server knows (unix.c:124-182, 344-472).               *)
THEOREM Registrations == Spec => []DescriptorsAgree
<1>1. IInv => DescriptorsAgree
  BY DEF IInv, ServerInv, Registered, Held, DescriptorsAgree
<1> QED BY <1>1, Invariant, PTL

(* No callback is called with what select said about another connection    *)
(* that had the same number, however connections come and go while the     *)
(* loop goes through the sets (control.c:407-427).                         *)
THEOREM Despatch == Spec => []WellDirected
<1>1. IInv => WellDirected
  BY DEF IInv, Directed, WellDirected
<1> QED BY <1>1, Invariant, PTL

(* What is queued for a client is watched for writing, and nothing else is *)
(* (unix.c:184-255, 344-413).                                              *)
THEOREM QueuesWatched == Spec => []QueuedIsWatched
<1>1. ASSUME IInv  PROVE QueuedIsWatched
  <2>1. SUFFICES ASSUME NEW c \in DOMAIN conn
                 PROVE  /\ conn[c].queue <=> "write" \in reg[FdOf(Control(c))].mask
                        /\ IsOpen(Near(c)) /\ ~conn[c].queue =>
                             (conn[c].sendq # <<>> <=>
                                "write" \in reg[FdOf(Near(c))].mask)
                        /\ conn[c].sendq # <<>> => IsOpen(Near(c)) /\ ~conn[c].queue
    BY DEF QueuedIsWatched
  <2>2. ServerInv /\ DOMAIN reg \subseteq Fds
    BY <1>1 DEF IInv, TypeOK
  <2>3. conn[c].queue <=> "write" \in reg[FdOf(Control(c))].mask
    BY <2>2, ControlNumber DEF ServerInv, Watched
  <2>4. ASSUME IsOpen(Near(c)), ~conn[c].queue
        PROVE  conn[c].sendq # <<>> <=> "write" \in reg[FdOf(Near(c))].mask
    <3>1. conn[c].authenticated
      BY <2>2, <2>4 DEF ServerInv, Owned
    <3>2. FdOf(Near(c)) \in DOMAIN reg /\ fds[FdOf(Near(c))] = Near(c)
      BY <2>2, <2>4, <3>1, NearNumber
    <3> QED BY <2>2, <3>2 DEF ServerInv, Watched
  <2>5. conn[c].sendq # <<>> => IsOpen(Near(c)) /\ ~conn[c].queue
    BY <2>2 DEF ServerInv, Owned
  <2> QED BY <2>3, <2>4, <2>5
<1> QED BY <1>1, Invariant, PTL

-----------------------------------------------------------------------------
(* The replies are in order.                                               *)

(* Regroupings of sequences.                                               *)
LEMMA Regroup ==
  \A x, b, d \in Seq(Units) : (x \o b) \o d = x \o (b \o d)
<1> TAKE x, b, d \in Seq(Units)
<1> QED BY ConcatAssociative

LEMMA HeadFirst ==
  ASSUME NEW S, NEW s \in Seq(S), s # <<>>
  PROVE  Head(s) \in S /\ Tail(s) \in Seq(S) /\ s = <<Head(s)>> \o Tail(s)
<1>1. Len(s) \in Nat \ {0}
  BY EmptySeq
<1>2. 1 \in 1 .. Len(s) /\ Len(s) \in 1 .. Len(s)
  BY <1>1
<1>3. SubSeq(s, 1, Len(s)) = <<s[1]>> \o SubSeq(s, 2, Len(s))
  BY <1>2, SubSeqRecursiveFirst
<1> QED BY <1>3, SubSeqFull, TailIsSubSeq, HeadTailProperties

(* The first of b moves to the end of a.                                   *)
LEMMA Moves ==
  ASSUME NEW S, NEW a \in Seq(S), NEW b \in Seq(S), b # <<>>
  PROVE  Append(a, Head(b)) \o Tail(b) = a \o b
<1>1. Head(b) \in S /\ Tail(b) \in Seq(S) /\ b = <<Head(b)>> \o Tail(b)
  BY HeadFirst
<1>2. Append(a, Head(b)) = a \o <<Head(b)>> /\ <<Head(b)>> \in Seq(S)
  BY <1>1, AppendIsConcat
<1>3. (a \o <<Head(b)>>) \o Tail(b) = a \o (<<Head(b)>> \o Tail(b))
  BY <1>1, <1>2, ConcatAssociative
<1> QED BY <1>1, <1>2, <1>3

(* What follows the first n of a sequence.                                 *)
LEMMA After ==
  ASSUME NEW S, NEW s \in Seq(S), NEW n \in 0 .. Len(s)
  PROVE  /\ SubSeq(s, 1, n) \in Seq(S) /\ Len(SubSeq(s, 1, n)) = n
         /\ SubSeq(s, n + 1, Len(s)) \in Seq(S)
         /\ SubSeq(s, 1, n) \o SubSeq(s, n + 1, Len(s)) = s
<1>1. Len(s) \in Nat /\ n \in Int /\ n + 1 \in Int /\ 1 \in Int
  OBVIOUS
<1>2. \A i \in 1 .. Len(s) : s[i] \in S
  BY ElementOfSeq
<1>3. SubSeq(s, 1, n) \in Seq(S) /\ Len(SubSeq(s, 1, n)) = n
  <2>1. \A i \in 1 .. n : s[i] \in S
    BY <1>1, <1>2
  <2>2. /\ SubSeq(s, 1, n) \in Seq(S)
        /\ Len(SubSeq(s, 1, n)) = IF 1 <= n THEN n - 1 + 1 ELSE 0
    BY <1>1, <2>1, SubSeqProperties
  <2>3. (IF 1 <= n THEN n - 1 + 1 ELSE 0) = n
    BY <1>1
  <2> QED BY <2>2, <2>3
<1>4. SubSeq(s, n + 1, Len(s)) \in Seq(S)
  <2>1. \A i \in n + 1 .. Len(s) : s[i] \in S
    BY <1>1, <1>2
  <2> QED BY <1>1, <2>1, SubSeqProperties
<1>5. SubSeq(s, 1, n) \o SubSeq(s, n + 1, Len(s)) = SubSeq(s, 1, Len(s))
  <2>1. /\ 1 \in 1 .. Len(s) + 1 /\ n \in 1 - 1 .. Len(s)
        /\ Len(s) \in n .. Len(s)
    BY <1>1
  <2> QED BY <2>1, ConcatAdjacentSubSeq
<1> QED BY <1>3, <1>4, <1>5, SubSeqFull

(* Of what follows the first n, the first is the next.                     *)
LEMMA OneAfter ==
  ASSUME NEW S, NEW s \in Seq(S), NEW n \in Nat, n < Len(s)
  PROVE  /\ SubSeq(s, n + 1, Len(s)) # <<>>
         /\ Head(SubSeq(s, n + 1, Len(s))) = s[n + 1]
         /\ Tail(SubSeq(s, n + 1, Len(s))) = SubSeq(s, (n + 1) + 1, Len(s))
<1>1. n + 1 \in 1 .. Len(s) /\ Len(s) \in n + 1 .. Len(s)
  OBVIOUS
<1>2. SubSeq(s, n + 1, Len(s)) = <<s[n + 1]>> \o SubSeq(s, (n + 1) + 1, Len(s))
  BY <1>1, SubSeqRecursiveFirst
<1>3. s[n + 1] \in S
  BY <1>1, ElementOfSeq
<1>4. SubSeq(s, (n + 1) + 1, Len(s)) \in Seq(S)
  BY <1>1, After
<1>5. SubSeq(s, n + 1, Len(s)) # <<>>
  <2> DEFINE a == <<s[n + 1]>>
             b == SubSeq(s, (n + 1) + 1, Len(s))
  <2>1. a # <<>> /\ a \in Seq(S) /\ b \in Seq(S)
    BY <1>3, <1>4
  <2> HIDE DEF a, b
  <2>2. a \o b # <<>>
    BY <2>1, ConcatEqualIffEmpty
  <2> QED BY <1>2, <2>2 DEF a, b
<1> QED BY <1>1, <1>5, HeadTailOfSubSeq

-----------------------------------------------------------------------------
(* The units of the messages of a client, and of the replies to them: the  *)
(* n first.                                                                *)
StreamUnit(i) == Unit((i + 1) \div 2, IF i % 2 = 1 THEN "length" ELSE "body")
Stream(n) == [i \in 1 .. n |-> StreamUnit(i)]

(* What is still to be written for a client: a write in progress has moved *)
(* the first units already.                                                *)
Pending(c) ==
  IF Running /\ Writing(Near(c))
  THEN SubSeq(conn[c].sendq, written + 1, Len(conn[c].sendq))
  ELSE conn[c].sendq
Replies(c) == peer[c].got \o sock[c].out \o Pending(c)

Streamed(c) ==
  peer[c].state # "gone" =>
    /\ Replies(c) \o conn[c].recvq \o sock[c].in = Stream(peer[c].sent)
    /\ Len(Replies(c)) % 2 = 0

Streams == \A c \in DOMAIN conn : Streamed(c)

Waits(c) == \E i \in DOMAIN backlog : backlog[i] = c

(* Nothing is half written but by the callback in progress; and a client   *)
(* neither sends before it has its channel nor gets one before the server  *)
(* has accepted its connection.                                            *)
Untold ==
  /\ written # 0 => pc = "write" /\ \E c \in Clients : cur.data = Near(c)
  /\ \A c \in Clients :
       peer[c].state \in {"new", "connected", "asked"} =>
         peer[c].sent = 0 /\ peer[c].got = <<>> /\ sock[c].in = <<>>
  /\ \A c \in Clients :
       peer[c].state = "new" \/ Waits(c) =>
         peer[c].state # "ready" /\ ~sock[c].passing /\ sock[c].out = <<>>

SInv == IInv /\ Streams /\ Untold

-----------------------------------------------------------------------------
LEMMA Types ==
  ASSUME IInv, NEW c \in DOMAIN conn
  PROVE  /\ c \in Clients
         /\ peer[c].got \in Seq(Units) /\ peer[c].sent \in Nat
         /\ sock[c].in \in Seq(Units) /\ sock[c].out \in Seq(Units)
         /\ conn[c].recvq \in Seq(Units) /\ conn[c].sendq \in Seq(Units)
         /\ Pending(c) \in Seq(Units) /\ Replies(c) \in Seq(Units)
<1>1. /\ c \in Clients /\ peer[c] \in Peer /\ sock[c] \in Holds /\ conn[c] \in Record
      /\ written \in Nat /\ MaxMessages \in Nat
  BY SizesAssumption DEF IInv, TypeOK, Peer, Holds, Record
<1>2. /\ peer[c].got \in Seq(Units) /\ peer[c].sent \in Nat
      /\ sock[c].in \in Seq(Units) /\ sock[c].out \in Seq(Units)
      /\ conn[c].recvq \in Seq(Units) /\ conn[c].sendq \in Seq(Units)
  BY <1>1 DEF Peer, Holds, Record
<1>3. SubSeq(conn[c].sendq, written + 1, Len(conn[c].sendq)) \in Seq(Units)
  BY <1>1, <1>2
<1>4. Pending(c) \in Seq(Units)
  BY <1>2, <1>3 DEF Pending
<1> QED BY <1>1, <1>2, <1>4 DEF Replies

(* Where nothing is half written, what is pending is what is queued.       *)
LEMMA AllPending ==
  ASSUME IInv, NEW c \in DOMAIN conn, written = 0 \/ cur.data # Near(c) \/ pc # "write"
  PROVE  Pending(c) = conn[c].sendq
<1>1. conn[c].sendq \in Seq(Units)
  BY Types
<1>2. SubSeq(conn[c].sendq, 1, Len(conn[c].sendq)) = conn[c].sendq
  BY <1>1, SubSeqFull
<1>3. CASE written = 0
  <2>1. SubSeq(conn[c].sendq, written + 1, Len(conn[c].sendq)) = conn[c].sendq
    BY <1>2, <1>3
  <2> QED BY <2>1 DEF Pending
<1>4. CASE cur.data # Near(c) \/ pc # "write"
  BY <1>4 DEF Pending, Writing
<1> QED BY <1>3, <1>4

LEMMA AllPendingAfter ==
  ASSUME IInv', NEW c \in DOMAIN conn',
         written' = 0 \/ cur'.data # Near(c) \/ pc' # "write"
  PROVE  Pending(c)' = conn'[c].sendq
<1>1. conn'[c].sendq \in Seq(Units)
  BY DEF IInv, TypeOK
<1>2. SubSeq(conn'[c].sendq, 1, Len(conn'[c].sendq)) = conn'[c].sendq
  BY <1>1, SubSeqFull
<1>3. CASE written' = 0
  <2>1. SubSeq(conn'[c].sendq, written' + 1, Len(conn'[c].sendq)) = conn'[c].sendq
    BY <1>2, <1>3
  <2> QED BY <2>1 DEF Pending
<1>4. CASE cur'.data # Near(c) \/ pc' # "write"
  BY <1>4 DEF Pending, Writing
<1> QED BY <1>3, <1>4

(* A step that leaves a client's queues and what its sockets hold.         *)
LEMMA Kept ==
  ASSUME NEW c, Streamed(c), Pending(c)' = Pending(c),
         conn'[c].recvq = conn[c].recvq, sock'[c].in = sock[c].in,
         sock'[c].out = sock[c].out, peer'[c] = peer[c]
  PROVE  Streamed(c)'
BY DEF Streamed, Replies

(* A step between two callbacks that only closes.                          *)
LEMMA QuietStreams ==
  ASSUME IInv, IInv', Streams, written = 0, written' = 0, peer' = peer,
         DOMAIN conn' \subseteq DOMAIN conn,
         \A c \in DOMAIN conn' :
           /\ conn'[c].sendq = conn[c].sendq /\ conn'[c].recvq = conn[c].recvq
           /\ sock'[c].in = sock[c].in /\ sock'[c].out = sock[c].out
  PROVE  Streams'
<1>1. SUFFICES ASSUME NEW c \in DOMAIN conn'  PROVE Streamed(c)'
  BY DEF Streams
<1>2. Pending(c) = conn[c].sendq
  BY AllPending
<1>3. Pending(c)' = conn'[c].sendq
  BY AllPendingAfter
<1> QED BY <1>2, <1>3, Kept DEF Streams

(* What the parts of the invariant hold of a server step that leaves the   *)
(* clients' ends as they are and hands out nothing.                        *)
LEMMA UntoldKept ==
  ASSUME Untold, written' = 0, UNCHANGED peer,
         \A c \in Clients : Waits(c)' => Waits(c),
         \A c \in Clients :
           /\ sock[c].in = <<>> => sock'[c].in = <<>>
           /\ sock'[c].passing = sock[c].passing /\ sock'[c].out = sock[c].out
  PROVE  Untold'
BY DEF Untold

LEMMA InitSInv == Init => SInv
<1> SUFFICES ASSUME Init  PROVE SInv
  OBVIOUS
<1>1. DOMAIN conn = {} /\ DOMAIN backlog = {} /\ written = 0
  BY DEF Init
<1>2. \A c \in Clients :
        /\ peer[c].state = "new" /\ peer[c].sent = 0 /\ peer[c].got = <<>>
        /\ sock[c].in = <<>> /\ sock[c].out = <<>> /\ ~sock[c].passing
  BY DEF Init
<1>3. Streams
  BY <1>1 DEF Streams
<1>4. Untold
  BY <1>1, <1>2 DEF Untold
<1> QED BY <1>3, <1>4, InitIInv DEF SInv

LEMMA NothingWritten ==
  ASSUME Untold, pc # "write" \/ \E c \in Clients : cur.data = Control(c)
  PROVE  written = 0
BY Apart DEF Untold

(* Steps of the loop that leave the records and the sockets alone.         *)
LEMMA LoopSInv ==
  ASSUME SInv, IInv', written = 0, written' = 0,
         UNCHANGED <<conn, backlog, sock, peer>>
  PROVE  SInv'
<1>1. Streams'
  BY QuietStreams DEF SInv
<1>2. Untold'
  BY UntoldKept DEF SInv, Waits
<1> QED BY <1>1, <1>2 DEF SInv

LEMMA SelectSInv == ASSUME SInv, Select PROVE SInv'
<1>1. IInv' /\ written = 0
  BY SelectIInv, NothingWritten DEF SInv, Select
<1> QED BY <1>1, LoopSInv DEF Select, serverVars

LEMMA PollSignalsSInv == ASSUME SInv, PollSignals PROVE SInv'
<1>1. IInv' /\ written = 0
  BY PollSignalsIInv, NothingWritten DEF SInv, PollSignals
<1> QED BY <1>1, LoopSInv DEF PollSignals, serverVars

LEMMA SkipSInv == ASSUME SInv, NEW f \in Fds, Skip(f) PROVE SInv'
<1>1. IInv' /\ written = 0
  BY SkipIInv, NothingWritten DEF SInv, Skip, Despatching
<1> QED BY <1>1, LoopSInv DEF Skip, serverVars

LEMMA WriteOnlySInv == ASSUME SInv, NEW f \in Fds, WriteOnly(f) PROVE SInv'
<1>1. IInv' /\ written = 0
  BY WriteOnlyIInv, NothingWritten DEF SInv, WriteOnly, Calling, Despatching
<1> QED BY <1>1, LoopSInv DEF WriteOnly, serverVars

(* The next two do nothing to the connections that are known.              *)
LEMMA UseAfterCloseSInv ==
  ASSUME SInv, NEW c \in Clients, UseAfterClose(c)
  PROVE  SInv'
<1>1. IInv'
  BY UseAfterCloseIInv DEF SInv
<1>2. /\ pc = "write" /\ cur.data \in {Control(c), Near(c)} /\ c \notin DOMAIN conn
      /\ UNCHANGED <<conn, backlog, sock, peer, pc, cur, written>>
  BY DEF UseAfterClose, Writing, serverVars, loopVars
<1>3. Streams'
  <2>1. SUFFICES ASSUME NEW d \in DOMAIN conn'  PROVE Streamed(d)'
    BY DEF Streams
  <2>2. d \in DOMAIN conn /\ d \in Clients /\ d # c
    BY <1>2, Types DEF SInv
  <2>3. cur.data # Near(d) /\ cur'.data # Near(d)
    BY <1>2, <2>2, Apart
  <2>4. Pending(d) = conn[d].sendq /\ Pending(d)' = conn'[d].sendq
    BY <1>1, <2>2, <2>3, AllPending, AllPendingAfter DEF SInv
  <2> QED BY <1>2, <2>2, <2>4, Kept DEF SInv, Streams
<1>4. Untold'
  BY <1>2 DEF SInv, Untold, Waits
<1> QED BY <1>1, <1>3, <1>4 DEF SInv

(* clientClose leaves the others as they are.                              *)
LEMMA CloseQuiet ==
  ASSUME NEW c \in Clients, ClientClose(c)
  PROVE  /\ DOMAIN conn' = DOMAIN conn \ {c}
         /\ \A d \in DOMAIN conn' : conn'[d] = conn[d]
BY DEF ClientClose

LEMMA ChannelBrokenSInv ==
  ASSUME SInv, NEW c \in Clients, ChannelBroken(c)
  PROVE  SInv'
<1>1. IInv'
  BY ChannelBrokenIInv DEF SInv
<1>2. /\ written = 0 /\ written' = 0 /\ ClientClose(c)
      /\ UNCHANGED <<backlog, sock, peer>>
  BY DEF ChannelBroken
<1>3. Streams'
  BY <1>1, <1>2, CloseQuiet, QuietStreams DEF SInv
<1>4. Untold'
  BY <1>2, UntoldKept DEF SInv, Waits
<1> QED BY <1>1, <1>3, <1>4 DEF SInv

LEMMA ControlReadSInv ==
  ASSUME SInv, NEW f \in Fds, NEW c \in Clients, ControlRead(f, c)
  PROVE  SInv'
<1>1. IInv'
  BY ControlReadIInv DEF SInv
<1>2. /\ pc = "despatch" /\ written' = written /\ UNCHANGED <<backlog, peer>>
      /\ f \in DOMAIN reg /\ reg[f].data = Control(c)
  BY DEF ControlRead, Calling, Despatching
<1>3. written = 0
  BY <1>2, NothingWritten DEF SInv
<1>4. /\ c \in DOMAIN conn /\ conn[c] \in Record /\ conn \in [DOMAIN conn -> Record]
      /\ sock \in [Clients -> Holds]
  BY <1>2, ClientTypes
     DEF SInv, IInv, TypeOK, ServerInv, Tables, Registered, Held, Record
<1>5. \A d \in Clients : /\ sock'[d].in = sock[d].in /\ sock'[d].out = sock[d].out
                         /\ sock'[d].passing = sock[d].passing
  <2>1. UNCHANGED sock \/ sock' = [sock EXCEPT ![c].asking = FALSE]
    BY DEF ControlRead
  <2>2. CASE sock' = [sock EXCEPT ![c].asking = FALSE]
    BY <1>4, <2>2 DEF Holds
  <2> QED BY <2>1, <2>2
<1>6. /\ DOMAIN conn' \subseteq DOMAIN conn
      /\ \A d \in DOMAIN conn' : /\ conn'[d].sendq = conn[d].sendq
                                 /\ conn'[d].recvq = conn[d].recvq
  <2>1. UNCHANGED conn \/ ClientClose(c) \/ NewChannel(c)
    BY DEF ControlRead, serverVars
  <2>2. CASE NewChannel(c)
    <3>1. conn' = [conn EXCEPT ![c].authenticated = TRUE, ![c].queue = TRUE]
      BY <2>2 DEF NewChannel
    <3> QED BY <1>4, <3>1 DEF Record
  <2> QED BY <2>1, <2>2, CloseQuiet
<1>7. DOMAIN conn' \subseteq Clients
  BY <1>4, <1>6, Types DEF SInv
<1>8. Streams'
  BY <1>1, <1>2, <1>3, <1>5, <1>6, <1>7, QuietStreams DEF SInv
<1>9. Untold'
  BY <1>2, <1>3, <1>5, UntoldKept DEF SInv, Waits
<1> QED BY <1>1, <1>8, <1>9 DEF SInv

LEMMA ControlWriteSInv ==
  ASSUME SInv, NEW c \in Clients, ControlWrite(c)
  PROVE  SInv'
<1>1. IInv'
  BY ControlWriteIInv DEF SInv
<1>2. /\ pc = "write" /\ cur.data = Control(c) /\ c \in DOMAIN conn
      /\ UNCHANGED <<backlog, peer, written>>
  BY DEF ControlWrite, Writing
<1>3. written = 0
  BY <1>2, NothingWritten DEF SInv
<1>4. /\ conn[c] \in Record /\ conn \in [DOMAIN conn -> Record]
      /\ sock \in [Clients -> Holds] /\ DOMAIN conn \subseteq Clients
  BY <1>2, ClientTypes DEF SInv, IInv, TypeOK, Record
<1>5. UNCHANGED sock \/ sock' = [sock EXCEPT ![c].passing = TRUE]
  BY DEF ControlWrite
<1>6. \A d \in Clients : /\ sock'[d].in = sock[d].in /\ sock'[d].out = sock[d].out
                         /\ d # c => sock'[d].passing = sock[d].passing
  BY <1>4, <1>5 DEF Holds
<1>7. /\ DOMAIN conn' \subseteq DOMAIN conn
      /\ \A d \in DOMAIN conn' : /\ conn'[d].sendq = conn[d].sendq
                                 /\ conn'[d].recvq = conn[d].recvq
  <2>1. \/ UNCHANGED conn \/ ClientClose(c)
        \/ conn' = [conn EXCEPT ![c].queue = FALSE]
    BY DEF ControlWrite
  <2>2. CASE conn' = [conn EXCEPT ![c].queue = FALSE]
    BY <1>4, <2>2 DEF Record
  <2> QED BY <2>1, <2>2, CloseQuiet
<1>8. Streams'
  BY <1>1, <1>2, <1>3, <1>4, <1>6, <1>7, QuietStreams DEF SInv
<1>9. ~(peer[c].state = "new" \/ Waits(c))
  BY <1>2 DEF SInv, IInv, Waiting, Waits
<1>10. Untold'
  BY <1>2, <1>3, <1>6, <1>9 DEF SInv, Untold, Waits
<1> QED BY <1>1, <1>8, <1>10 DEF SInv

(* A connection accepted: its client has sent nothing yet, or has gone.    *)
LEMMA SocketReadySInv ==
  ASSUME SInv, NEW f \in Fds, SocketReady(f)
  PROVE  SInv'
<1>1. IInv'
  BY SocketReadyIInv DEF SInv
<1>2. pc = "despatch" /\ backlog # <<>> /\ UNCHANGED <<sock, peer, written, pc, cur>>
  BY DEF SocketReady, Calling, Despatching
<1>3. written = 0
  BY <1>2, NothingWritten DEF SInv
<1>4. CASE UNCHANGED <<conn, backlog>>
  BY <1>1, <1>2, <1>3, <1>4, LoopSInv
<1>5. CASE ~UNCHANGED <<conn, backlog>>
  <2>2. backlog \in Seq(Clients) /\ Len(backlog) \in Nat \ {0}
    <3>1. backlog \in Seq(Clients)
      BY ClientTypes DEF SInv
    <3> QED BY <1>2, <3>1, EmptySeq
  <2>0. 1 \in DOMAIN backlog /\ Head(backlog) = backlog[1] /\ backlog[1] \in Clients
    <3>1. 1 \in 1 .. Len(backlog) /\ DOMAIN backlog = 1 .. Len(backlog)
      BY <2>2, LenProperties
    <3> QED BY <2>2, <3>1, ElementOfSeq
  <2> PICK c \in Clients : c = Head(backlog)
    BY <2>0
  <2>1. /\ conn' = With(conn, c, [authenticated |-> FALSE, queue |-> FALSE,
                                  sendq |-> <<>>, recvq |-> <<>>])
        /\ backlog' = Tail(backlog)
    BY <1>5 DEF SocketReady, serverVars
  <2>3. 1 \in DOMAIN backlog /\ c = backlog[1]
    BY <2>0
  <2>4. Waits(c) /\ c \notin DOMAIN conn
    BY <2>3 DEF Waits, SInv, IInv, Waiting
  <2>5. \A d \in Clients : Waits(d)' => Waits(d)
    <3>1. TAKE d \in Clients
    <3>2. HAVE Waits(d)'
    <3>3. PICK i \in DOMAIN backlog' : backlog'[i] = d
      BY <3>2 DEF Waits
    <3>4. i + 1 \in DOMAIN backlog /\ backlog[i + 1] = d
      BY <2>1, <2>2, <3>3
    <3> QED BY <3>4 DEF Waits
  <2>6. Untold'
    BY <1>2, <1>3, <2>5, UntoldKept DEF SInv
  <2>7. /\ DOMAIN conn' = DOMAIN conn \cup {c}
        /\ conn'[c].sendq = <<>> /\ conn'[c].recvq = <<>>
        /\ \A d \in DOMAIN conn : conn'[d] = conn[d]
    BY <2>1, <2>4 DEF With
  <2>8. ASSUME NEW d \in DOMAIN conn  PROVE Streamed(d)'
    <3>1. d \in DOMAIN conn' /\ conn'[d] = conn[d] /\ written' = 0
      BY <1>2, <1>3, <2>7
    <3>2. Pending(d) = conn[d].sendq
      BY <1>3, AllPending DEF SInv
    <3>3. Pending(d)' = conn'[d].sendq
      BY <1>1, <3>1, AllPendingAfter
    <3> QED BY <1>2, <3>1, <3>2, <3>3, Kept DEF SInv, Streams
  <2>9. Streamed(c)'
    <3>1. SUFFICES ASSUME peer[c].state # "gone"
                   PROVE  /\ (Replies(c) \o conn[c].recvq \o sock[c].in)'
                               = Stream(peer[c].sent)'
                          /\ (Len(Replies(c)) % 2 = 0)'
      BY <1>2 DEF Streamed
    <3>2. peer[c] \in Peer
      BY <2>3, ClientTypes DEF SInv
    <3>3. peer[c].state \in {"new", "connected", "asked"}
      BY <2>3, <2>4, <3>1, <3>2 DEF SInv, Untold, Peer
    <3>4. /\ peer'[c].sent = 0 /\ peer'[c].got = <<>>
          /\ sock'[c].in = <<>> /\ sock'[c].out = <<>>
      BY <1>2, <2>3, <2>4, <3>3 DEF SInv, Untold
    <3>5. Pending(c)' = <<>>
      <4>1. c \in DOMAIN conn' /\ written' = 0
        BY <1>2, <1>3, <2>7
      <4> QED BY <1>1, <2>7, <4>1, AllPendingAfter
    <3>6. Replies(c)' = <<>>
      BY <3>4, <3>5 DEF Replies
    <3>7. Stream(0) = <<>>
      BY DEF Stream
    <3> QED BY <2>7, <3>4, <3>6, <3>7
  <2>10. Streams'
    BY <2>7, <2>8, <2>9 DEF Streams
  <2> QED BY <1>1, <2>6, <2>10 DEF SInv
<1> QED BY <1>4, <1>5

(* A unit is written: what is pending loses it and the socket takes it.    *)
LEMMA ChannelPushSInv ==
  ASSUME SInv, NEW c \in Clients, ChannelPush(c)
  PROVE  SInv'
<1>1. IInv'
  BY ChannelPushIInv DEF SInv
<1>2. /\ Running /\ pc = "write" /\ cur.data = Near(c) /\ c \in DOMAIN conn
      /\ written < Amount(c) /\ written' = written + 1
      /\ sock' = [sock EXCEPT ![c].out = Append(@, conn[c].sendq[written + 1])]
      /\ UNCHANGED <<conn, backlog, peer, pc, cur, crashed, undefined>>
  BY DEF ChannelPush, Writing, serverVars, endVars
<1>3. /\ conn[c].sendq \in Seq(Units) /\ sock \in [Clients -> Holds]
      /\ written \in Nat /\ DOMAIN conn \subseteq Clients
  BY <1>2, SizesAssumption DEF SInv, IInv, TypeOK, Holds
<1>4. written < Len(conn[c].sendq)
  <2>1. Len(conn[c].sendq) \in Nat /\ Chunk \in Nat
    BY <1>3, SizesAssumption
  <2>2. Amount(c) \in Nat /\ Amount(c) <= Len(conn[c].sendq)
    BY <2>1, LeastOfTwo DEF Amount
  <2> QED BY <1>2, <1>3, <2>1, <2>2
<1> DEFINE s == conn[c].sendq
           left == SubSeq(s, written + 1, Len(s))
<1>5. left # <<>> /\ Head(left) = s[written + 1] /\ left \in Seq(Units)
      /\ Tail(left) = SubSeq(s, (written + 1) + 1, Len(s))
  <2>1. left \in Seq(Units)
    BY <1>3
  <2> QED BY <1>3, <1>4, <2>1, OneAfter
<1>6. Pending(c) = left /\ Pending(c)' = Tail(left)
  BY <1>2, <1>5 DEF Pending, Writing, Running
<1>7. sock[c] \in Holds /\ sock[c].out \in Seq(Units)
  BY <1>3 DEF Holds
<1>8. /\ sock'[c].out = Append(sock[c].out, Head(left)) /\ sock'[c].in = sock[c].in
      /\ sock'[c].passing = sock[c].passing
      /\ \A d \in Clients \ {c} : sock'[d] = sock[d]
  BY <1>2, <1>3, <1>5, <1>7 DEF Holds
<1> HIDE DEF left, s
<1>9. Replies(c)' = Replies(c)
  <2>1. sock'[c].out \o Pending(c)' = sock[c].out \o Pending(c)
    BY <1>5, <1>6, <1>7, <1>8, Moves
  <2>2. sock'[c].out \in Seq(Units) /\ Pending(c)' \in Seq(Units)
        /\ peer[c].got \in Seq(Units) /\ Pending(c) \in Seq(Units)
    <3>1. sock'[c].out \in Seq(Units) /\ Tail(left) \in Seq(Units)
      BY <1>5, <1>7, <1>8, AppendProperties, HeadFirst
    <3> QED BY <1>2, <1>5, <1>6, <3>1, Types DEF SInv
  <2>3. (peer[c].got \o sock'[c].out) \o Pending(c)'
          = peer[c].got \o (sock'[c].out \o Pending(c)')
    BY <2>2, Regroup
  <2>4. (peer[c].got \o sock[c].out) \o Pending(c)
          = peer[c].got \o (sock[c].out \o Pending(c))
    BY <1>7, <2>2, Regroup
  <2> QED BY <1>2, <2>1, <2>3, <2>4 DEF Replies
<1>10. Streamed(c)'
  BY <1>2, <1>8, <1>9 DEF SInv, Streams, Streamed
<1>11. ASSUME NEW d \in DOMAIN conn \ {c}  PROVE Streamed(d)'
  <2>1. cur.data # Near(d) /\ d \in Clients
    BY <1>2, <1>3, Apart
  <2>2. Pending(d) = conn[d].sendq /\ Pending(d)' = conn'[d].sendq
    BY <1>1, <1>2, <2>1, AllPending, AllPendingAfter DEF SInv
  <2> QED BY <1>2, <1>8, <2>1, <2>2, Kept DEF SInv, Streams
<1>12. Streams'
  BY <1>2, <1>10, <1>11 DEF Streams
<1>13. ~(peer[c].state = "new" \/ Waits(c))
  BY <1>2 DEF SInv, IInv, Waiting, Waits
<1>14. Untold'
  BY <1>2, <1>8, <1>13 DEF SInv, Untold, Waits
<1> QED BY <1>1, <1>12, <1>14 DEF SInv

(* The write is over: what it has not moved stays queued.                  *)
LEMMA ChannelWrittenSInv ==
  ASSUME SInv, NEW c \in Clients, ChannelWritten(c)
  PROVE  SInv'
<1>1. IInv'
  BY ChannelWrittenIInv DEF SInv
<1>2. /\ Running /\ pc = "write" /\ cur.data = Near(c) /\ c \in DOMAIN conn
      /\ conn' = [conn EXCEPT ![c].sendq =
                    SubSeq(conn[c].sendq, written + 1, Len(conn[c].sendq))]
      /\ written' = 0 /\ UNCHANGED <<backlog, sock, peer>>
  BY DEF ChannelWritten, Writing
<1>3. conn \in [DOMAIN conn -> Record] /\ DOMAIN conn \subseteq Clients
  BY DEF SInv, IInv, TypeOK, Record
<1>4. Pending(c) = SubSeq(conn[c].sendq, written + 1, Len(conn[c].sendq))
  BY <1>2 DEF Pending, Writing
<1>5. DOMAIN conn' = DOMAIN conn
  BY <1>2, <1>3
<1>6. ASSUME NEW d \in DOMAIN conn  PROVE Streamed(d)'
  <2>1. conn'[d].recvq = conn[d].recvq /\ conn'[d].sendq = Pending(d)
    <3>1. CASE d = c
      BY <1>2, <1>3, <1>4, <3>1 DEF Record
    <3>2. CASE d # c
      <4>1. cur.data # Near(d)
        BY <1>2, <1>3, <3>2, Apart
      <4>2. Pending(d) = conn[d].sendq
        BY <4>1, AllPending DEF SInv
      <4> QED BY <1>2, <1>3, <3>2, <4>2
    <3> QED BY <3>1, <3>2
  <2>2. Pending(d)' = conn'[d].sendq
    BY <1>1, <1>2, <1>5, AllPendingAfter
  <2> QED BY <1>2, <2>1, <2>2, Kept DEF SInv, Streams
<1>7. Streams'
  BY <1>5, <1>6 DEF Streams
<1>8. Untold'
  BY <1>2, UntoldKept DEF SInv, Waits
<1> QED BY <1>1, <1>7, <1>8 DEF SInv

-----------------------------------------------------------------------------
(* Units of the stream from an even place on: those of their complete      *)
(* messages are the replies to them.                                       *)
LEMMA Answers ==
  ASSUME NEW q \in Seq(Units), NEW n \in Nat,
         \A i \in 1 .. Len(q) : q[i] = StreamUnit(2 * n + i)
  PROVE  /\ RepliesTo(Complete(q)) \o Rest(q) = q
         /\ Len(RepliesTo(Complete(q))) % 2 = 0
<1>1. PICK r \in Nat : r = Len(q) \div 2 /\ 2 * r <= Len(q)
  <2>1. Len(q) \in Nat
    OBVIOUS
  <2> QED BY <2>1
<1>2. Len(Complete(q)) = r /\ \A i \in 1 .. r : Complete(q)[i] = q[2 * i - 1].msg
  BY <1>1 DEF Complete
<1>3. \A i \in 1 .. r : Complete(q)[i] = n + i
  <2>1. TAKE i \in 1 .. r
  <2>2. 2 * i - 1 \in 1 .. Len(q)
    BY <1>1
  <2>3. (2 * n + (2 * i - 1) + 1) \div 2 = n + i
    OBVIOUS
  <2>4. q[2 * i - 1] = StreamUnit(2 * n + (2 * i - 1))
    BY <2>2
  <2>5. q[2 * i - 1].msg = n + i
    BY <2>3, <2>4 DEF StreamUnit, Unit
  <2> QED BY <1>2, <2>5
<1> DEFINE a == RepliesTo(Complete(q))
<1>4. a \in Seq(Units) /\ Len(a) = 2 * r
  <2>1. a \in Seq(Units)
    BY Splits
  <2> QED BY <1>2, <2>1 DEF RepliesTo
<1>5. \A j \in 1 .. 2 * r : a[j] = q[j]
  <2>1. TAKE j \in 1 .. 2 * r
  <2>2. a[j] = Unit(Complete(q)[(j + 1) \div 2], IF j % 2 = 1 THEN "length" ELSE "body")
    BY <1>2 DEF RepliesTo
  <2>3. (j + 1) \div 2 \in 1 .. r
    OBVIOUS
  <2>4. (2 * n + j + 1) \div 2 = n + (j + 1) \div 2 /\ (2 * n + j) % 2 = j % 2
    OBVIOUS
  <2>5. q[j] = StreamUnit(2 * n + j)
    BY <1>1
  <2> QED BY <1>3, <2>2, <2>3, <2>4, <2>5 DEF StreamUnit
<1> HIDE DEF a
<1>6. /\ SubSeq(q, 1, 2 * r) \in Seq(Units) /\ Len(SubSeq(q, 1, 2 * r)) = 2 * r
      /\ SubSeq(q, 1, 2 * r) \o SubSeq(q, 2 * r + 1, Len(q)) = q
  <2>1. 2 * r \in 0 .. Len(q)
    BY <1>1
  <2> QED BY <2>1, After
<1>7. a = SubSeq(q, 1, 2 * r)
  <2>1. \A j \in 1 .. 2 * r : SubSeq(q, 1, 2 * r)[j] = q[j]
    BY <1>1
  <2>2. \A j \in 1 .. Len(a) : a[j] = SubSeq(q, 1, 2 * r)[j]
    BY <1>4, <1>5, <2>1
  <2> QED BY <1>4, <1>6, <2>2, SeqEqual
<1>8. Rest(q) = SubSeq(q, 2 * r + 1, Len(q))
  BY <1>1 DEF Rest
<1>9. (2 * r) % 2 = 0
  OBVIOUS
<1> QED BY <1>4, <1>6, <1>7, <1>8, <1>9 DEF a

(* A part of the stream that follows an even number of units.              *)
LEMMA Places ==
  ASSUME NEW t \in Nat, NEW a \in Seq(Units), NEW q \in Seq(Units), NEW b \in Seq(Units),
         a \o (q \o b) = Stream(t), Len(a) % 2 = 0
  PROVE  \E n \in Nat : /\ Len(a) = 2 * n
                        /\ \A i \in 1 .. Len(q) : q[i] = StreamUnit(2 * n + i)
<1>1. PICK n \in Nat : Len(a) = 2 * n
  <2>1. Len(a) \in Nat
    OBVIOUS
  <2>2. Len(a) = 2 * (Len(a) \div 2) /\ Len(a) \div 2 \in Nat
    BY <2>1
  <2> QED BY <2>2
<1>2. /\ Len(Stream(t)) = t
      /\ \A i \in 1 .. t : Stream(t)[i] = StreamUnit(i)
  BY DEF Stream
<1>3. q \o b \in Seq(Units) /\ Len(q \o b) = Len(q) + Len(b)
      /\ \A i \in 1 .. Len(q) : (q \o b)[i] = q[i]
  <2>1. Len(q) \in Nat /\ Len(b) \in Nat
    OBVIOUS
  <2> QED BY <2>1, ConcatProperties
<1>4. t = Len(a) + Len(q \o b)
  BY <1>2, <1>3, ConcatProperties
<1>5. \A i \in 1 .. Len(q) : q[i] = StreamUnit(2 * n + i)
  <2>1. TAKE i \in 1 .. Len(q)
  <2>2. Len(q) \in Nat /\ Len(b) \in Nat /\ Len(a) \in Nat
    OBVIOUS
  <2>3. 2 * n + i \in 1 .. t /\ ~(2 * n + i <= Len(a)) /\ 2 * n + i - Len(a) = i
    BY <1>1, <1>3, <1>4, <2>2
  <2>4. (a \o (q \o b))[2 * n + i] = (q \o b)[2 * n + i - Len(a)]
    <3>1. 2 * n + i \in 1 .. Len(a) + Len(q \o b)
      BY <1>4, <2>3
    <3> QED BY <1>3, <2>3, <3>1, ConcatProperties
  <2>5. Stream(t)[2 * n + i] = StreamUnit(2 * n + i)
    BY <1>2, <2>3
  <2> QED BY <1>3, <2>3, <2>4, <2>5
<1> QED BY <1>1, <1>5

(* Reading s, and not yet u, into the queue y, behind the replies a.       *)
IsStream(w) == \E t \in Nat : w = Stream(t)
Even(n) == n % 2 = 0

LEMMA Reading ==
  \A a, y, s, u \in Seq(Units) :
    IsStream(a \o y \o (s \o u)) /\ Even(Len(a)) =>
      /\ RepliesTo(Complete(y \o s)) \in Seq(Units)
      /\ a \o RepliesTo(Complete(y \o s)) \o Rest(y \o s) \o u = a \o y \o (s \o u)
      /\ Even(Len(a \o RepliesTo(Complete(y \o s))))
<1> TAKE a, y, s, u \in Seq(Units)
<1> HAVE IsStream(a \o y \o (s \o u)) /\ Even(Len(a))
<1> PICK t \in Nat : a \o y \o (s \o u) = Stream(t)
  BY DEF IsStream
<1>1. Len(a) % 2 = 0
  BY DEF Even
<1> DEFINE q == y \o s
           more == RepliesTo(Complete(q))
<1>2. q \in Seq(Units) /\ s \o u \in Seq(Units)
  BY ConcatProperties
<1>3. a \o (q \o u) = Stream(t)
  <2>1. (a \o y) \o (s \o u) = a \o (y \o (s \o u))
    BY <1>2, Regroup
  <2>2. (y \o s) \o u = y \o (s \o u)
    BY Regroup
  <2> QED BY <2>1, <2>2
<1> HIDE DEF q
<1>4. PICK n \in Nat : /\ Len(a) = 2 * n
                       /\ \A i \in 1 .. Len(q) : q[i] = StreamUnit(2 * n + i)
  BY <1>1, <1>2, <1>3, Places
<1>5. more \o Rest(q) = q /\ Len(more) % 2 = 0
  BY <1>2, <1>4, Answers
<1>6. more \in Seq(Units) /\ Rest(q) \in Seq(Units)
  BY <1>2, Splits
<1> HIDE DEF more
<1>7. ((a \o more) \o Rest(q)) \o u = Stream(t)
  <2>1. (a \o more) \o Rest(q) = a \o (more \o Rest(q))
    BY <1>6, Regroup
  <2>2. (a \o q) \o u = a \o (q \o u)
    BY <1>2, Regroup
  <2> QED BY <1>3, <1>5, <2>1, <2>2
<1>8. Len(a \o more) % 2 = 0
  <2>1. Len(a \o more) = Len(a) + Len(more)
    BY <1>6, ConcatProperties
  <2>2. Len(more) \in Nat
    BY <1>6
  <2> QED BY <1>4, <1>5, <2>1, <2>2
<1> QED BY <1>6, <1>7, <1>8 DEF q, more, Even

LEMMA ChannelReadSInv ==
  ASSUME SInv, NEW f \in Fds, NEW c \in Clients, ChannelRead(f, c)
  PROVE  SInv'
<1>1. IInv'
  BY ChannelReadIInv DEF SInv
<1>2. /\ pc = "despatch" /\ written' = written /\ UNCHANGED <<backlog, peer>>
      /\ f \in DOMAIN reg /\ reg[f].data = Near(c)
  BY DEF ChannelRead, Calling, Despatching
<1>3. written = 0
  BY <1>2, NothingWritten DEF SInv
<1>4. /\ c \in DOMAIN conn /\ conn[c] \in Record /\ conn \in [DOMAIN conn -> Record]
      /\ sock \in [Clients -> Holds] /\ DOMAIN conn \subseteq Clients
  BY <1>2, ClientTypes
     DEF SInv, IInv, TypeOK, ServerInv, Tables, Registered, Held, Record
<1>5. CASE sock[c].in = <<>>
  <2>1. ClientClose(c) /\ UNCHANGED sock
    BY <1>5 DEF ChannelRead
  <2>2. Streams'
    BY <1>1, <1>2, <1>3, <2>1, CloseQuiet, QuietStreams DEF SInv
  <2>3. Untold'
    BY <1>2, <1>3, <2>1, UntoldKept DEF SInv, Waits
  <2> QED BY <1>1, <2>2, <2>3 DEF SInv
<1>6. CASE sock[c].in # <<>>
  <2>1. PICK k \in 0 .. Len(sock[c].in) : k = LeastIn({Chunk, Len(sock[c].in)})
    <3>1. Len(sock[c].in) \in Nat /\ Chunk \in Nat
      BY <1>4, SizesAssumption DEF Holds
    <3> QED BY <3>1, LeastOfTwo
  <2> DEFINE x == sock[c].in
             rest == SubSeq(x, k + 1, Len(x))
             q == conn[c].recvq \o SubSeq(x, 1, k)
             more == RepliesTo(Complete(q))
  <2>2. sock' = [sock EXCEPT ![c].in = rest]
    BY <1>6, <2>1 DEF ChannelRead
  <2>3. /\ sock'[c].in = rest /\ sock'[c].out = sock[c].out
        /\ sock'[c].passing = sock[c].passing
        /\ \A d \in Clients \ {c} : sock'[d] = sock[d]
    <3> HIDE DEF rest
    <3> QED BY <1>4, <2>2 DEF Holds
  <2>4. Untold'
    <3>1. x = <<>> => rest = <<>>
      BY <1>6
    <3> HIDE DEF x, rest
    <3>2. peer[c].state \in {"new", "connected", "asked"} => sock[c].in = <<>>
      BY DEF SInv, Untold
    <3> QED BY <1>2, <1>3, <1>6, <2>3, <3>2 DEF SInv, Untold, Waits
  <2>5. CASE \E i \in DOMAIN Complete(q) : IsQuit(c, Complete(q)[i])
    <3>1. ClientClose(c)
      BY <1>6, <2>1, <2>5 DEF ChannelRead
    <3>2. DOMAIN conn' \subseteq Clients \ {c} /\ DOMAIN conn' \subseteq DOMAIN conn
          /\ \A d \in DOMAIN conn' : conn'[d] = conn[d]
      BY <1>4, <3>1, CloseQuiet
    <3>3. Streams'
      <4>1. \A d \in DOMAIN conn' : sock'[d] = sock[d]
        BY <2>3, <3>2
      <4> QED BY <1>1, <1>2, <1>3, <3>2, <4>1, QuietStreams DEF SInv
    <3> QED BY <1>1, <2>4, <3>3 DEF SInv
  <2>6. CASE ~\E i \in DOMAIN Complete(q) : IsQuit(c, Complete(q)[i])
    <3>1. conn' = [conn EXCEPT ![c].recvq = Rest(q), ![c].sendq = @ \o more]
      BY <1>6, <2>1, <2>6 DEF ChannelRead
    <3>2. /\ DOMAIN conn' = DOMAIN conn
          /\ conn'[c].recvq = Rest(q) /\ conn'[c].sendq = conn[c].sendq \o more
          /\ \A d \in DOMAIN conn \ {c} : conn'[d] = conn[d]
      <4> HIDE DEF q, more, Even
      <4> QED BY <1>4, <3>1 DEF Record
    <3>3. ASSUME NEW d \in DOMAIN conn  PROVE Pending(d) = conn[d].sendq
      BY <1>3, AllPending DEF SInv
    <3>4. ASSUME NEW d \in DOMAIN conn  PROVE Pending(d)' = conn'[d].sendq
      <4>1. d \in DOMAIN conn' /\ written' = 0
        BY <1>2, <1>3, <3>2
      <4> QED BY <1>1, <4>1, AllPendingAfter
    <3>5. ASSUME NEW d \in DOMAIN conn \ {c}  PROVE Streamed(d)'
      <4>1. d \in Clients \ {c} /\ conn'[d] = conn[d] /\ sock'[d] = sock[d]
        BY <1>4, <2>3, <3>2
      <4>2. Pending(d)' = Pending(d)
        BY <3>3, <3>4, <4>1
      <4> QED BY <1>2, <4>1, <4>2, Kept DEF SInv, Streams
    <3>6. Streamed(c)'
      <4>1. SUFFICES ASSUME peer[c].state # "gone"
                     PROVE  /\ (Replies(c) \o conn[c].recvq \o sock[c].in)'
                                 = Stream(peer[c].sent)'
                            /\ (Len(Replies(c)) % 2 = 0)'
        BY <1>2 DEF Streamed
      <4>2. /\ peer[c].got \in Seq(Units) /\ peer[c].sent \in Nat
            /\ x \in Seq(Units) /\ sock[c].out \in Seq(Units)
            /\ conn[c].recvq \in Seq(Units) /\ conn[c].sendq \in Seq(Units)
            /\ Replies(c) \in Seq(Units)
        BY <1>4, Types DEF SInv
      <4>3. /\ Replies(c) \o conn[c].recvq \o x = Stream(peer[c].sent)
            /\ Len(Replies(c)) % 2 = 0
        BY <1>4, <4>1 DEF SInv, Streams, Streamed
      <4>4. /\ more \in Seq(Units)
            /\ (Replies(c) \o more) \o Rest(q) \o rest = Stream(peer[c].sent)
            /\ Len(Replies(c) \o more) % 2 = 0
        <5>1. /\ SubSeq(x, 1, k) \in Seq(Units) /\ rest \in Seq(Units)
              /\ SubSeq(x, 1, k) \o rest = x
          BY <4>2, After
        <5>2. PICK s \in Seq(Units), u \in Seq(Units), y \in Seq(Units), t \in Nat,
                   a \in Seq(Units) :
                /\ s = SubSeq(x, 1, k) /\ u = rest /\ y = conn[c].recvq
                /\ t = peer[c].sent /\ a = Replies(c)
          BY <4>2, <5>1
        <5>3. /\ a \o y \o (s \o u) = Stream(t) /\ q = y \o s
              /\ IsStream(a \o y \o (s \o u)) /\ Even(Len(a))
          BY <4>3, <5>1, <5>2 DEF IsStream, Even
        <5> HIDE DEF q, rest, x
        <5>4. /\ RepliesTo(Complete(y \o s)) \in Seq(Units)
              /\ a \o RepliesTo(Complete(y \o s)) \o Rest(y \o s) \o u
                   = a \o y \o (s \o u)
              /\ Even(Len(a \o RepliesTo(Complete(y \o s))))
          BY <5>3, Reading
        <5> QED BY <5>2, <5>3, <5>4 DEF Even
      <4> HIDE DEF x, rest, q, more
      <4>5. Replies(c)' = Replies(c) \o more
        <5>1. Replies(c) = (peer[c].got \o sock[c].out) \o conn[c].sendq
          BY <1>4, <3>3 DEF Replies
        <5>2. Replies(c)' = (peer[c].got \o sock[c].out) \o (conn[c].sendq \o more)
          BY <1>2, <1>4, <2>3, <3>2, <3>4 DEF Replies
        <5>3. peer[c].got \o sock[c].out \in Seq(Units)
          BY <4>2, ConcatProperties
        <5>4. PICK g \in Seq(Units), s \in Seq(Units), m \in Seq(Units) :
                g = peer[c].got \o sock[c].out /\ s = conn[c].sendq /\ m = more
          BY <4>2, <4>4, <5>3
        <5>5. (g \o s) \o m = g \o (s \o m)
          BY Regroup
        <5> QED BY <5>1, <5>2, <5>4, <5>5
      <4> QED BY <1>2, <2>3, <3>2, <4>4, <4>5
    <3>7. Streams'
      BY <3>2, <3>5, <3>6 DEF Streams
    <3> QED BY <1>1, <2>4, <3>7 DEF SInv
  <2> QED BY <2>5, <2>6
<1> QED BY <1>5, <1>6

-----------------------------------------------------------------------------
(* The clients' steps: the records and the loop stay as they are.          *)
LEMMA ClientPending ==
  ASSUME UNCHANGED <<serverVars, loopVars, endVars>>, NEW c
  PROVE  Pending(c)' = Pending(c)
BY DEF serverVars, loopVars, endVars, Pending, Running, Writing

LEMMA ClientStreams ==
  ASSUME SInv, UNCHANGED <<serverVars, loopVars, endVars>>, NEW c \in Clients,
         \A d \in Clients \ {c} : peer'[d] = peer[d] /\ sock'[d] = sock[d],
         c \in DOMAIN conn => Streamed(c)'
  PROVE  Streams'
<1>1. SUFFICES ASSUME NEW d \in DOMAIN conn  PROVE Streamed(d)'
  BY DEF Streams, serverVars
<1>2. d \in Clients /\ Streamed(d)
  BY Types DEF SInv, Streams
<1>3. CASE d # c
  BY <1>2, <1>3, ClientPending, Kept DEF serverVars
<1> QED BY <1>3

(* What a client that goes leaves behind is nobody's any more.             *)
LEMMA GoneSInv ==
  ASSUME SInv, IInv', UNCHANGED <<serverVars, backlog, loopVars, endVars>>,
         NEW c \in Clients, peer'[c].state = "gone",
         \A d \in Clients \ {c} : peer'[d] = peer[d] /\ sock'[d] = sock[d],
         Waits(c) => ~sock'[c].passing /\ sock'[c].out = <<>>
  PROVE  SInv'
<1>1. Streams'
  BY ClientStreams DEF Streamed
<1>2. written' # 0 => pc' = "write" /\ \E d \in Clients : cur'.data = Near(d)
  BY DEF SInv, Untold, loopVars
<1>3. Untold'
  BY <1>2 DEF SInv, Untold, Waits
<1> QED BY <1>1, <1>3 DEF SInv

LEMMA CloseControlSInv ==
  ASSUME SInv, NEW c \in Clients, CloseControl(c)
  PROVE  SInv'
<1>1. IInv'
  BY CloseControlIInv DEF SInv
<1>2. /\ peer' = [peer EXCEPT ![c].control = FALSE, ![c].state = "gone"]
      /\ sock' = [sock EXCEPT ![c].passing = FALSE]
      /\ UNCHANGED <<serverVars, backlog, loopVars, endVars>> /\ peer[c].control
  BY DEF CloseControl
<1>3. sock \in [Clients -> Holds] /\ peer \in [Clients -> Peer]
  BY ClientTypes DEF SInv
<1>4. /\ peer'[c].state = "gone" /\ ~sock'[c].passing
      /\ sock'[c].out = sock[c].out
      /\ \A d \in Clients \ {c} : peer'[d] = peer[d] /\ sock'[d] = sock[d]
  BY <1>2, <1>3 DEF Peer, Holds
<1>5. Waits(c) => ~sock'[c].passing /\ sock'[c].out = <<>>
  BY <1>4 DEF SInv, Untold
<1> QED BY <1>1, <1>2, <1>4, <1>5, GoneSInv

LEMMA CloseChannelSInv ==
  ASSUME SInv, NEW c \in Clients, CloseChannel(c)
  PROVE  SInv'
<1>1. IInv'
  BY CloseChannelIInv DEF SInv
<1>2. /\ peer' = [peer EXCEPT ![c].channel = FALSE, ![c].state = "gone"]
      /\ sock' = [sock EXCEPT ![c].out = <<>>]
      /\ UNCHANGED <<serverVars, backlog, loopVars, endVars>>
  BY DEF CloseChannel
<1>3. sock \in [Clients -> Holds] /\ peer \in [Clients -> Peer]
  BY ClientTypes DEF SInv
<1>4. /\ peer'[c].state = "gone" /\ sock'[c].passing = sock[c].passing
      /\ sock'[c].out = <<>>
      /\ \A d \in Clients \ {c} : peer'[d] = peer[d] /\ sock'[d] = sock[d]
  BY <1>2, <1>3 DEF Peer, Holds
<1>5. Waits(c) => ~sock'[c].passing /\ sock'[c].out = <<>>
  BY <1>4 DEF SInv, Untold
<1> QED BY <1>1, <1>2, <1>4, <1>5, GoneSInv

LEMMA ConnectSInv ==
  ASSUME SInv, NEW c \in Clients, Connect(c)
  PROVE  SInv'
<1>1. IInv'
  BY ConnectIInv DEF SInv
<1>2. /\ peer' = [peer EXCEPT ![c].state = "connected", ![c].control = TRUE]
      /\ backlog' = Append(backlog, c) /\ peer[c].state = "new"
      /\ UNCHANGED <<serverVars, sock, loopVars, endVars>>
  BY DEF Connect
<1>3. backlog \in Seq(Clients) /\ peer \in [Clients -> Peer]
  BY ClientTypes DEF SInv
<1>4. /\ peer'[c].state = "connected" /\ peer'[c].sent = peer[c].sent
      /\ peer'[c].got = peer[c].got
      /\ \A d \in Clients \ {c} : peer'[d] = peer[d]
  BY <1>2, <1>3 DEF Peer
<1>5. \A d \in Clients \ {c} : Waits(d)' => Waits(d)
  <2>1. SUFFICES ASSUME NEW d \in Clients \ {c}, NEW i \in DOMAIN backlog',
                        backlog'[i] = d
                 PROVE  Waits(d)
    BY DEF Waits
  <2>2. Len(backlog) \in Nat /\ DOMAIN backlog = 1 .. Len(backlog)
    BY <1>3
  <2>3. /\ DOMAIN backlog' = 1 .. Len(backlog) + 1
        /\ backlog'[Len(backlog) + 1] = c
        /\ \A j \in 1 .. Len(backlog) : backlog'[j] = backlog[j]
    BY <1>2, <1>3
  <2>4. i \in DOMAIN backlog /\ backlog[i] = d
    BY <2>1, <2>2, <2>3
  <2> QED BY <2>4 DEF Waits
<1>6. c \notin DOMAIN conn
  BY <1>2 DEF SInv, IInv, Waiting
<1>7. Streams'
  BY <1>2, <1>4, <1>6, ClientStreams
<1>8. written' # 0 => pc' = "write" /\ \E d \in Clients : cur'.data = Near(d)
  BY <1>2 DEF SInv, Untold, loopVars
<1>9. Untold'
  BY <1>2, <1>4, <1>5, <1>8 DEF SInv, Untold
<1> QED BY <1>1, <1>7, <1>9 DEF SInv

LEMMA AuthenticateSInv ==
  ASSUME SInv, NEW c \in Clients, Authenticate(c)
  PROVE  SInv'
<1>1. IInv'
  BY AuthenticateIInv DEF SInv
<1>2. /\ peer' = [peer EXCEPT ![c].state = "asked"] /\ peer[c].state = "connected"
      /\ sock' = [sock EXCEPT ![c].asking = TRUE]
      /\ UNCHANGED <<serverVars, backlog, loopVars, endVars>>
  BY DEF Authenticate
<1>3. sock \in [Clients -> Holds] /\ peer \in [Clients -> Peer]
  BY ClientTypes DEF SInv
<1>4. /\ peer'[c].state = "asked" /\ peer'[c].sent = peer[c].sent
      /\ peer'[c].got = peer[c].got
      /\ sock'[c].in = sock[c].in /\ sock'[c].out = sock[c].out
      /\ sock'[c].passing = sock[c].passing
      /\ \A d \in Clients \ {c} : peer'[d] = peer[d] /\ sock'[d] = sock[d]
  BY <1>2, <1>3 DEF Peer, Holds
<1>5. c \in DOMAIN conn => Streamed(c)'
  <2>1. ASSUME c \in DOMAIN conn
        PROVE  Streamed(c)'
    <3>1. Streamed(c)
      BY <2>1 DEF SInv, Streams
    <3>2. /\ conn' = conn /\ Pending(c)' = Pending(c) /\ Replies(c)' = Replies(c)
      BY <1>2, <1>4, ClientPending DEF serverVars, Replies
    <3> QED BY <1>2, <1>4, <3>1, <3>2 DEF Streamed
  <2> QED BY <2>1
<1>6. Streams'
  BY <1>2, <1>4, <1>5, ClientStreams
<1>7. written' # 0 => pc' = "write" /\ \E d \in Clients : cur'.data = Near(d)
  BY <1>2 DEF SInv, Untold, loopVars
<1>8. Untold'
  BY <1>2, <1>4, <1>7 DEF SInv, Untold, Waits
<1> QED BY <1>1, <1>6, <1>8 DEF SInv

(* The channel has come: the server has accepted the connection long ago.  *)
LEMMA ReceiveChannelSInv ==
  ASSUME SInv, NEW c \in Clients, ReceiveChannel(c)
  PROVE  SInv'
<1>1. IInv'
  BY ReceiveChannelIInv DEF SInv
<1>2. /\ peer' = [peer EXCEPT ![c].state = "ready", ![c].channel = TRUE]
      /\ sock' = [sock EXCEPT ![c].passing = FALSE]
      /\ peer[c].state = "asked" /\ sock[c].passing
      /\ UNCHANGED <<serverVars, backlog, loopVars, endVars>>
  BY DEF ReceiveChannel
<1>3. sock \in [Clients -> Holds] /\ peer \in [Clients -> Peer]
  BY ClientTypes DEF SInv
<1>4. /\ peer'[c].state = "ready" /\ peer'[c].sent = peer[c].sent
      /\ peer'[c].got = peer[c].got
      /\ sock'[c].in = sock[c].in /\ sock'[c].out = sock[c].out
      /\ \A d \in Clients \ {c} : peer'[d] = peer[d] /\ sock'[d] = sock[d]
  BY <1>2, <1>3 DEF Peer, Holds
<1>5. c \in DOMAIN conn => Streamed(c)'
  <2>1. ASSUME c \in DOMAIN conn
        PROVE  Streamed(c)'
    <3>1. Streamed(c)
      BY <2>1 DEF SInv, Streams
    <3>2. /\ conn' = conn /\ Pending(c)' = Pending(c) /\ Replies(c)' = Replies(c)
      BY <1>2, <1>4, ClientPending DEF serverVars, Replies
    <3> QED BY <1>2, <1>4, <3>1, <3>2 DEF Streamed
  <2> QED BY <2>1
<1>6. Streams'
  BY <1>2, <1>4, <1>5, ClientStreams
<1>7. ~Waits(c)
  BY <1>2 DEF SInv, Untold
<1>8. written' # 0 => pc' = "write" /\ \E d \in Clients : cur'.data = Near(d)
  BY <1>2 DEF SInv, Untold, loopVars
<1>9. \A d \in Clients : Waits(d)' <=> Waits(d)
  BY <1>2 DEF Waits
<1>10. Untold'
  <2>1. \A d \in Clients :
          peer'[d].state \in {"new", "connected", "asked"} =>
            peer'[d].sent = 0 /\ peer'[d].got = <<>> /\ sock'[d].in = <<>>
    BY <1>4 DEF SInv, Untold
  <2>2. \A d \in Clients :
          peer'[d].state = "new" \/ Waits(d)' =>
            peer'[d].state # "ready" /\ ~sock'[d].passing /\ sock'[d].out = <<>>
    <3>1. TAKE d \in Clients
    <3>2. CASE d = c
      BY <1>4, <1>7, <1>9, <3>2
    <3>3. CASE d # c
      BY <1>4, <1>9, <3>3 DEF SInv, Untold
    <3> QED BY <3>2, <3>3
  <2> QED BY <1>8, <2>1, <2>2 DEF Untold
<1> QED BY <1>1, <1>6, <1>10 DEF SInv

(* The unit a client sends is the next of its stream.                      *)
LEMMA NextUnit ==
  ASSUME NEW n \in Nat
  PROVE  /\ Whole(n \div 2 + 1)[(n % 2) + 1] = StreamUnit(n + 1)
         /\ Stream(n) \in Seq(UNION {{StreamUnit(i)} : i \in 1 .. n + 1})
         /\ Stream(n + 1) = Append(Stream(n), StreamUnit(n + 1))
<1>1. Whole(n \div 2 + 1)[(n % 2) + 1] = StreamUnit(n + 1)
  <2>1. PICK k \in Nat : n = 2 * k \/ n = 2 * k + 1
    <3>1. n = 2 * (n \div 2) \/ n = 2 * (n \div 2) + 1
      OBVIOUS
    <3> QED BY <3>1
  <2>2. CASE n = 2 * k
    <3>1. n \div 2 = k /\ n % 2 = 0 /\ (n + 1 + 1) \div 2 = k + 1 /\ (n + 1) % 2 = 1
      BY <2>2
    <3> QED BY <3>1 DEF Whole, StreamUnit, Unit
  <2>3. CASE n = 2 * k + 1
    <3>1. n \div 2 = k /\ n % 2 = 1 /\ (n + 1 + 1) \div 2 = k + 1 /\ (n + 1) % 2 = 0
      BY <2>3
    <3> QED BY <3>1 DEF Whole, StreamUnit, Unit
  <2> QED BY <2>1, <2>2, <2>3
<1>2. Stream(n) \in Seq(UNION {{StreamUnit(i)} : i \in 1 .. n + 1})
  BY DEF Stream
<1>3. Stream(n + 1) = Append(Stream(n), StreamUnit(n + 1))
  BY DEF Stream
<1> QED BY <1>1, <1>2, <1>3

LEMMA SendUnitSInv ==
  ASSUME SInv, NEW c \in Clients, SendUnit(c)
  PROVE  SInv'
<1>1. IInv'
  BY SendUnitIInv DEF SInv
<1>2. sock \in [Clients -> Holds] /\ peer \in [Clients -> Peer]
  BY ClientTypes DEF SInv
<1>3. PICK n \in Nat : n = peer[c].sent
  BY <1>2, SizesAssumption DEF Peer
<1>4. /\ peer' = [peer EXCEPT ![c].sent = n + 1] /\ peer[c].state = "ready"
      /\ sock' = [sock EXCEPT ![c].in = Append(sock[c].in, StreamUnit(n + 1))]
      /\ UNCHANGED <<serverVars, backlog, loopVars, endVars>>
  BY <1>3, NextUnit DEF SendUnit
<1>5. /\ peer'[c].state = "ready" /\ peer'[c].sent = n + 1
      /\ peer'[c].got = peer[c].got
      /\ sock'[c].in = Append(sock[c].in, StreamUnit(n + 1))
      /\ sock'[c].out = sock[c].out /\ sock'[c].passing = sock[c].passing
      /\ \A d \in Clients \ {c} : peer'[d] = peer[d] /\ sock'[d] = sock[d]
  BY <1>2, <1>4 DEF Peer, Holds
<1>6. ASSUME c \in DOMAIN conn
      PROVE  Streamed(c)'
  <2>1. /\ Replies(c) \in Seq(Units) /\ conn[c].recvq \in Seq(Units)
        /\ sock[c].in \in Seq(Units)
        /\ Replies(c) \o conn[c].recvq \o sock[c].in = Stream(n)
        /\ Len(Replies(c)) % 2 = 0
    BY <1>3, <1>4, <1>6, Types DEF SInv, Streams, Streamed
  <2>2. conn' = conn /\ Replies(c)' = Replies(c)
    BY <1>4, <1>5, ClientPending DEF serverVars, Replies
  <2>3. StreamUnit(n + 1) \in Units
    <3>1. sock' \in [Clients -> Holds]
      BY <1>1 DEF IInv, TypeOK, Holds
    <3>2. /\ sock'[c].in \in Seq(Units) /\ Len(sock'[c].in) = Len(sock[c].in) + 1
          /\ sock'[c].in[Len(sock[c].in) + 1] = StreamUnit(n + 1)
      BY <1>5, <2>1, <3>1 DEF Holds
    <3>3. Len(sock[c].in) \in Nat
      BY <2>1
    <3>4. sock'[c].in[Len(sock[c].in) + 1] \in Units
      BY <3>2, <3>3, ElementOfSeq
    <3> QED BY <3>2, <3>4
  <2>4. PICK a \in Seq(Units), b \in Seq(Units), u \in Units :
          a = Replies(c) \o conn[c].recvq /\ b = sock[c].in /\ u = StreamUnit(n + 1)
    <3>1. Replies(c) \o conn[c].recvq \in Seq(Units)
      BY <2>1, ConcatProperties
    <3> QED BY <2>1, <2>3, <3>1
  <2>5. a \o Append(b, u) = Append(a \o b, u)
    <3>1. Append(b, u) = b \o <<u>> /\ <<u>> \in Seq(Units) /\ a \o b \in Seq(Units)
      BY AppendIsConcat
    <3>2. Append(a \o b, u) = (a \o b) \o <<u>>
      BY <3>1, AppendIsConcat
    <3> QED BY <3>1, <3>2, Regroup
  <2>6. Append(a \o b, u) = Stream(n + 1)
    BY <2>1, <2>4, NextUnit
  <2> QED BY <1>5, <2>1, <2>2, <2>4, <2>5, <2>6 DEF Streamed
<1>7. Streams'
  BY <1>4, <1>5, <1>6, ClientStreams
<1>8. written' # 0 => pc' = "write" /\ \E d \in Clients : cur'.data = Near(d)
  BY <1>4 DEF SInv, Untold, loopVars
<1>9. \A d \in Clients : Waits(d)' <=> Waits(d)
  BY <1>4 DEF Waits
<1>10. \A d \in Clients :
         peer'[d].state \in {"new", "connected", "asked"} =>
           peer'[d].sent = 0 /\ peer'[d].got = <<>> /\ sock'[d].in = <<>>
  BY <1>5 DEF SInv, Untold
<1>11. \A d \in Clients :
         peer'[d].state = "new" \/ Waits(d)' =>
           peer'[d].state # "ready" /\ ~sock'[d].passing /\ sock'[d].out = <<>>
  BY <1>4, <1>5, <1>9 DEF SInv, Untold
<1>12. Untold'
  BY <1>8, <1>10, <1>11 DEF Untold
<1> QED BY <1>1, <1>7, <1>12 DEF SInv

LEMMA ReceiveUnitSInv ==
  ASSUME SInv, NEW c \in Clients, ReceiveUnit(c)
  PROVE  SInv'
<1>1. IInv'
  BY ReceiveUnitIInv DEF SInv
<1>2. sock \in [Clients -> Holds] /\ peer \in [Clients -> Peer]
  BY ClientTypes DEF SInv
<1>3. /\ peer' = [peer EXCEPT ![c].got = Append(@, Head(sock[c].out))]
      /\ sock' = [sock EXCEPT ![c].out = Tail(@)]
      /\ peer[c].state = "ready" /\ sock[c].out # <<>>
      /\ UNCHANGED <<serverVars, backlog, loopVars, endVars>>
  BY DEF ReceiveUnit
<1>4. /\ peer'[c].state = "ready" /\ peer'[c].sent = peer[c].sent
      /\ peer'[c].got = Append(peer[c].got, Head(sock[c].out))
      /\ sock'[c].in = sock[c].in /\ sock'[c].out = Tail(sock[c].out)
      /\ sock'[c].passing = sock[c].passing
      /\ \A d \in Clients \ {c} : peer'[d] = peer[d] /\ sock'[d] = sock[d]
  BY <1>2, <1>3 DEF Peer, Holds
<1>5. ASSUME c \in DOMAIN conn
      PROVE  Streamed(c)'
  <2>1. peer[c].got \in Seq(Units) /\ sock[c].out \in Seq(Units)
    BY <1>5, Types DEF SInv
  <2>2. peer'[c].got \o sock'[c].out = peer[c].got \o sock[c].out
    <3>1. PICK a \in Seq(Units), b \in Seq(Units) :
            a = peer[c].got /\ b = sock[c].out
      BY <2>1
    <3>2. Append(a, Head(b)) \o Tail(b) = a \o b
      BY <1>3, <3>1, Moves
    <3> QED BY <1>4, <3>1, <3>2
  <2>3. conn' = conn /\ Replies(c)' = Replies(c)
    BY <1>3, <2>2, ClientPending DEF serverVars, Replies
  <2> QED BY <1>3, <1>4, <1>5, <2>3 DEF SInv, Streams, Streamed
<1>6. Streams'
  BY <1>3, <1>4, <1>5, ClientStreams
<1>7. written' # 0 => pc' = "write" /\ \E d \in Clients : cur'.data = Near(d)
  BY <1>3 DEF SInv, Untold, loopVars
<1>8. \A d \in Clients : Waits(d)' <=> Waits(d)
  BY <1>3 DEF Waits
<1>9. \A d \in Clients :
        peer'[d].state \in {"new", "connected", "asked"} =>
          peer'[d].sent = 0 /\ peer'[d].got = <<>> /\ sock'[d].in = <<>>
  BY <1>4 DEF SInv, Untold
<1>10. ~(peer[c].state = "new" \/ Waits(c))
  BY <1>3 DEF SInv, Untold
<1>11. \A d \in Clients :
         peer'[d].state = "new" \/ Waits(d)' =>
           peer'[d].state # "ready" /\ ~sock'[d].passing /\ sock'[d].out = <<>>
  BY <1>4, <1>8, <1>10 DEF SInv, Untold
<1>12. Untold'
  BY <1>7, <1>9, <1>11 DEF Untold
<1> QED BY <1>1, <1>6, <1>12 DEF SInv

-----------------------------------------------------------------------------
LEMMA StutterSInv == ASSUME SInv, UNCHANGED vars PROVE SInv'
<1>1. IInv' /\ UNCHANGED <<serverVars, loopVars, endVars, backlog, sock, peer>>
  BY Stutter DEF SInv, vars
<1>2. Streams'
  <2>1. SUFFICES ASSUME NEW c \in DOMAIN conn  PROVE Streamed(c)'
    BY <1>1 DEF Streams, serverVars
  <2> QED BY <1>1, ClientPending, Kept DEF SInv, Streams, serverVars
<1>3. Untold'
  BY <1>1 DEF SInv, Untold, Waits, loopVars
<1> QED BY <1>1, <1>2, <1>3 DEF SInv

LEMMA NextSInv == ASSUME SInv, [Next]_vars PROVE SInv'
<1>1. CASE Select
  BY <1>1, SelectSInv
<1>2. CASE PollSignals
  BY <1>2, PollSignalsSInv
<1>3. CASE \E f \in Fds : Skip(f)
  BY <1>3, SkipSInv
<1>4. CASE \E f \in Fds : SocketReady(f)
  BY <1>4, SocketReadySInv
<1>5. CASE \E f \in Fds : WriteOnly(f)
  BY <1>5, WriteOnlySInv
<1>6. CASE \E f \in Fds, c \in Clients : ControlRead(f, c)
  BY <1>6, ControlReadSInv
<1>7. CASE \E f \in Fds, c \in Clients : ChannelRead(f, c)
  BY <1>7, ChannelReadSInv
<1>8. CASE \E c \in Clients : UseAfterClose(c)
  BY <1>8, UseAfterCloseSInv
<1>9. CASE \E c \in Clients : ControlWrite(c)
  BY <1>9, ControlWriteSInv
<1>10. CASE \E c \in Clients : ChannelPush(c)
  BY <1>10, ChannelPushSInv
<1>11. CASE \E c \in Clients : ChannelWritten(c)
  BY <1>11, ChannelWrittenSInv
<1>12. CASE \E c \in Clients : ChannelBroken(c)
  BY <1>12, ChannelBrokenSInv
<1>13. CASE \E c \in Clients : Connect(c)
  BY <1>13, ConnectSInv
<1>14. CASE \E c \in Clients : ClientStep(c)
  <2>1. PICK c \in Clients : ClientStep(c)
    BY <1>14
  <2> QED BY <2>1, AuthenticateSInv, ReceiveChannelSInv, SendUnitSInv,
             ReceiveUnitSInv DEF ClientStep
<1>15. CASE \E c \in Clients : CloseControl(c)
  BY <1>15, CloseControlSInv
<1>16. CASE \E c \in Clients : CloseChannel(c)
  BY <1>16, CloseChannelSInv
<1>17. CASE UNCHANGED vars
  BY <1>17, StutterSInv
<1> QED BY <1>1, <1>2, <1>3, <1>4, <1>5, <1>6, <1>7, <1>8, <1>9, <1>10, <1>11,
           <1>12, <1>13, <1>14, <1>15, <1>16, <1>17 DEF Next, ServerStep

LEMMA InvariantSInv == Spec => []SInv
<1>1. Init => SInv
  BY InitSInv
<1>2. SInv /\ [Next]_vars => SInv'
  BY NextSInv
<1> QED BY <1>1, <1>2, PTL DEF Spec

-----------------------------------------------------------------------------
(* The first of a stream, an even number of units, are the replies to the  *)
(* first messages.                                                         *)
LEMMA FirstReplies ==
  ASSUME NEW n \in Nat, NEW a \in Seq(Units), NEW b \in Seq(Units),
         a \o b = Stream(n), Len(a) % 2 = 0
  PROVE  a = RepliesTo([i \in 1 .. Len(a) \div 2 |-> i]) /\ Len(a) + Len(b) = n
<1>1. PICK r \in Nat : Len(a) = 2 * r /\ Len(a) \div 2 = r
  <2>1. Len(a) \in Nat
    OBVIOUS
  <2>2. Len(a) = 2 * (Len(a) \div 2) /\ Len(a) \div 2 \in Nat
    BY <2>1
  <2> QED BY <2>2
<1>2. Len(a) + Len(b) = n
  <2>1. Len(Stream(n)) = n
    BY DEF Stream
  <2> QED BY <2>1, ConcatProperties
<1>3. \A i \in 1 .. 2 * r : a[i] = StreamUnit(i)
  <2>1. TAKE i \in 1 .. 2 * r
  <2>2. Len(b) \in Nat
    OBVIOUS
  <2>3. i \in 1 .. n /\ i \in 1 .. Len(a) + Len(b) /\ i <= Len(a)
    BY <1>1, <1>2, <2>2
  <2>4. (a \o b)[i] = a[i]
    BY <2>3, ConcatProperties
  <2>5. Stream(n)[i] = StreamUnit(i)
    BY <2>3 DEF Stream
  <2> QED BY <2>4, <2>5
<1> DEFINE m == [i \in 1 .. r |-> i]
<1>4. m \in Seq(Nat) /\ Len(m) = r /\ \A i \in 1 .. r : m[i] = i
  OBVIOUS
<1> HIDE DEF m
<1>5. RepliesTo(m) = [i \in 1 .. 2 * r |-> StreamUnit(i)]
  <2>1. \A i \in 1 .. 2 * r : m[(i + 1) \div 2] = (i + 1) \div 2
    <3>1. TAKE i \in 1 .. 2 * r
    <3>2. (i + 1) \div 2 \in 1 .. r
      OBVIOUS
    <3> QED BY <1>4, <3>2
  <2> QED BY <1>4, <2>1 DEF RepliesTo, StreamUnit
<1>6. a = [i \in 1 .. 2 * r |-> a[i]]
  BY <1>1
<1>7. a = RepliesTo(m)
  BY <1>3, <1>5, <1>6
<1> QED BY <1>1, <1>2, <1>7 DEF m

(* A client gets the replies to its messages in order, each complete and   *)
(* once, and every unit it sent is either answered or still on its way,    *)
(* for any chunk, any capacity of the sockets and any number of clients    *)
(* that come and go (unix.c:184-342, client.c:180-245).                    *)
THEOREM Streaming == Spec => []RepliesInOrder
<1>1. ASSUME SInv  PROVE RepliesInOrder
  <2>1. SUFFICES ASSUME NEW c \in DOMAIN conn, peer[c].state = "ready"
                 PROVE  /\ Replies(c) = RepliesTo([i \in 1 .. Len(Replies(c)) \div 2 |-> i])
                        /\ Len(Replies(c)) + Len(conn[c].recvq) + Len(sock[c].in)
                             = peer[c].sent
    BY DEF RepliesInOrder, Replies, Pending
  <2>2. PICK n \in Nat, a \in Seq(Units), y \in Seq(Units), z \in Seq(Units) :
          n = peer[c].sent /\ a = Replies(c) /\ y = conn[c].recvq /\ z = sock[c].in
    BY <1>1, Types DEF SInv
  <2>3. a \o y \o z = Stream(n) /\ Len(a) % 2 = 0
    BY <1>1, <2>1, <2>2 DEF SInv, Streams, Streamed
  <2>4. a \o (y \o z) = Stream(n) /\ y \o z \in Seq(Units)
    BY <2>3, Regroup, ConcatProperties
  <2>5. a = RepliesTo([i \in 1 .. Len(a) \div 2 |-> i]) /\ Len(a) + Len(y \o z) = n
    BY <2>3, <2>4, FirstReplies
  <2>6. Len(y \o z) = Len(y) + Len(z)
    BY ConcatProperties
  <2>7. Len(a) + Len(y) + Len(z) = n
    <3>1. Len(a) \in Nat /\ Len(y) \in Nat /\ Len(z) \in Nat
      OBVIOUS
    <3> QED BY <2>5, <2>6, <3>1
  <2>8. Replies(c) = RepliesTo([i \in 1 .. Len(Replies(c)) \div 2 |-> i])
    BY <2>2, <2>5
  <2> QED BY <2>2, <2>7, <2>8
<1> QED BY <1>1, InvariantSInv, PTL
=============================================================================
