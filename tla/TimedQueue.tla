----------------------------- MODULE TimedQueue -----------------------------
(***************************************************************************)
(* What the priority queue of Y/util/pqueue.c promises to the timers of    *)
(* Y/main/control.c: a set of events, from which the one with the least    *)
(* time is taken, and of several with that time the one that was inserted  *)
(* first.  Identities are given in increasing order (nextTimedEventID), so *)
(* that the order of insertion is the order of identities.                 *)
(***************************************************************************)
EXTENDS Naturals

CONSTANTS
  Times,    \* what events are compared by
  MaxId     \* bound on the number of events

VARIABLES
  queue,    \* the events held
  nextId,   \* nextTimedEventID
  taken     \* identity of the event taken last

None == 0
Events == [id : 1 .. MaxId, time : Times]

(* e is taken before f.                                                    *)
Before(e, f) == e.time < f.time \/ (e.time = f.time /\ e.id < f.id)
IsFirst(e, q) == e \in q /\ \A f \in q \ {e} : Before(e, f)

Init == queue = {} /\ nextId = 1 /\ taken = None

Insert(t) ==
  /\ nextId <= MaxId
  /\ queue' = queue \cup {[id |-> nextId, time |-> t]}
  /\ nextId' = nextId + 1
  /\ UNCHANGED taken

GetNext ==
  /\ \E e \in queue : /\ IsFirst(e, queue)
                      /\ queue' = queue \ {e}
                      /\ taken' = e.id
  /\ UNCHANGED nextId

(* Nothing happens when there is no such event.                            *)
Remove(id) ==
  /\ queue' = {e \in queue : e.id # id}
  /\ UNCHANGED <<nextId, taken>>

Next ==
  \/ \E t \in Times : Insert(t)
  \/ GetNext
  \/ \E id \in 1 .. MaxId : Remove(id)

Step == [Next]_<<queue, nextId, taken>>   \* one of these, or none
Spec == Init /\ [][Next]_<<queue, nextId, taken>>
=============================================================================
