---------------------------- MODULE Descriptors ----------------------------
(***************************************************************************)
(* The descriptors a client registers with its connection,                 *)
(* libYc++/Y/c++/connection_io.cc: registerFD, unregisterFD and changeFD   *)
(* rebuild the two lists of poll; doPoll takes one of them while it polls, *)
(* and calls the functions of those that are ready, which may register     *)
(* and change descriptors themselves, as may another thread.               *)
(* The socket of the server is the last of a list.  Connection has the     *)
(* bytes that go through it.                                               *)
(***************************************************************************)
EXTENDS Naturals, Sequences, FiniteSets

CONSTANTS
  FDs,          \* descriptors of the application: numbers, as std::map sorts them
  Events,       \* what can be waited for: "read", "write", "except"
  Server, Nil,
  WhilePolling  \* of "register", "unregister", "change": what is called during doPoll

Masks == SUBSET Events

VARIABLES
  fds,        \* Connection::fds: the mask of each that is registered, else Nil
  list,       \* pollfd_list: pairs of a descriptor and events
  count,      \* pollfds
  working,    \* working_pollfd_list is not NULL
  updating,   \* the operation whose updateFDList is not over, or Nil
  polled,     \* ufds, the list that doPoll has taken: Nil or as list
  ready,      \* revents of its entries, Nil before poll returns
  at,         \* i of the loop of doPollIO
  inCall,     \* the function of a descriptor runs
  served,     \* history: the entries whose function was called
  broken      \* read beyond a list, or aborted

vars == <<fds, list, count, working, updating, polled, ready, at, inCall, served, broken>>
pollVars == <<polled, ready, at, inCall, served, broken>>

registered == {d \in FDs : fds[d] # Nil}
Below(d) == {e \in registered : e < d}
Ordered ==   \* the i-th has i - 1 below it
  [i \in 1 .. Cardinality(registered) |->
     CHOOSE d \in registered : Cardinality(Below(d)) = i - 1]
Entries == [i \in 1 .. Len(Ordered) |-> [fd |-> Ordered[i], events |-> fds[Ordered[i]]]]
           \o <<[fd |-> Server, events |-> {"read"}]>>

Init ==
  /\ fds = [d \in FDs |-> Nil] /\ list = Entries /\ count = 1 /\ working = TRUE
  /\ updating = Nil /\ polled = Nil /\ ready = Nil /\ at = 0
  /\ inCall = FALSE /\ served = {} /\ broken = FALSE

-----------------------------------------------------------------------------
(* The application calls between polls, and, as far as WhilePolling says,  *)
(* in a function or another thread while the connection polls.             *)
May(operation) == ~broken /\ updating = Nil /\ (polled = Nil \/ operation \in WhilePolling)

Put(operation, d, mask) ==
  /\ May(operation)
  /\ fds' = [fds EXCEPT ![d] = mask]
  /\ updating' = operation
  /\ UNCHANGED <<list, count, working, pollVars>>

registerFD(d, mask) == d \notin registered /\ Put("register", d, mask)
unregisterFD(d) == d \in registered /\ Put("unregister", d, Nil)
changeFD(d, mask) == d \in registered /\ Put("change", d, mask)

(* updateFDList: both lists are deleted and allocated again.               *)
(* Mutation: that of poll is filled from the handlers but the number stays.*)
StaleCount == count
Count == Len(Entries)
updateFDList ==
  /\ ~broken /\ updating # Nil /\ updating' = Nil
  /\ list' = Entries /\ count' = Count /\ working' = TRUE
  /\ UNCHANGED <<fds, pollVars>>

-----------------------------------------------------------------------------
(* doPoll takes the working list, as the one copied to; the function of a  *)
(* descriptor runs in the thread that polls.                               *)
Claim ==
  /\ ~broken /\ polled = Nil /\ working
  /\ updating \in WhilePolling \cup {Nil}
  /\ working' = FALSE /\ polled' = SubSeq(list, 1, count)
  /\ ready' = Nil /\ at' = 0 /\ served' = {}
  /\ UNCHANGED <<fds, list, count, updating, inCall, broken>>

(* poll: some of what was asked for.                                       *)
Poll ==
  /\ polled # Nil /\ ready = Nil
  /\ \E r \in [1 .. Len(polled) -> Masks] :
       (\A i \in 1 .. Len(polled) : r[i] \subseteq polled[i].events) /\ ready' = r
  /\ at' = 1
  /\ UNCHANGED <<fds, list, count, working, updating, polled, inCall, served, broken>>

(* The loop of doPollIO goes to the number of descriptors as it is now.    *)
Looping == polled # Nil /\ ready # Nil /\ ~inCall /\ ~broken

Visit ==
  /\ Looping /\ at <= count
  /\ IF at > Len(polled)
     THEN broken' = TRUE /\ UNCHANGED <<inCall, served, at>>
     ELSE IF polled[at].fd = Server \/ ready[at] = {}
     THEN at' = at + 1 /\ UNCHANGED <<inCall, served, broken>>
     ELSE /\ broken' = (fds[polled[at].fd] = Nil)
          /\ inCall' = ~broken' /\ served' = served \cup {at} /\ UNCHANGED at
  /\ UNCHANGED <<fds, list, count, working, updating, polled, ready>>

CallReturns ==
  /\ inCall /\ updating = Nil /\ inCall' = FALSE /\ at' = at + 1
  /\ UNCHANGED <<fds, list, count, working, updating, polled, ready, served, broken>>

(* The list is put back, or deleted if there is another by now.            *)
Release ==
  /\ Looping /\ at > count
  /\ polled' = Nil /\ ready' = Nil /\ at' = 0 /\ working' = TRUE
  /\ UNCHANGED <<fds, list, count, updating, inCall, served, broken>>

Next ==
  \/ \E d \in FDs : \/ unregisterFD(d)
                    \/ \E m \in Masks : registerFD(d, m) \/ changeFD(d, m)
  \/ updateFDList \/ Claim \/ Poll \/ Visit \/ CallReturns \/ Release

Spec == Init /\ [][Next]_vars

-----------------------------------------------------------------------------
TypeOK ==
  /\ updating \in {"register", "unregister", "change", Nil}
  /\ fds \in [FDs -> Masks \cup {Nil}] /\ count \in 1 .. Cardinality(FDs) + 1
  /\ {working, inCall, broken} \subseteq BOOLEAN
  /\ at \in 0 .. Cardinality(FDs) + 2
  /\ \A i \in 1 .. Len(list) : list[i].fd \in FDs \cup {Server}

(* Between operations, poll is given what is registered and the server,    *)
(* and the length of the list that it is given.                            *)
ListsAgree ==
  /\ updating = Nil => list = Entries /\ count = Len(list)
  /\ ~broken

(* A pass calls the function of everything that poll found ready.          *)
AllServed ==
  [][polled # Nil /\ polled' = Nil =>
       served = {i \in 1 .. Len(polled) : polled[i].fd # Server /\ ready[i] # {}}]_vars
=============================================================================
