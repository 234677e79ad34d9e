------------------------------- MODULE PQueue -------------------------------
(***************************************************************************)
(* The priority queue of Y/util/pqueue.c, a singly linked list with a      *)
(* pointer to its last node, as Y/main/control.c uses it: nodes are named  *)
(* by the identity of the event they hold, and pqueueRemove is called with *)
(* the test of controlCancelTimerDelay.                                    *)
(***************************************************************************)
EXTENDS Naturals

CONSTANTS
  Times,    \* what comparisonFunction compares
  MaxId     \* bound on the number of events

VARIABLES
  first, last,   \* nodes, or Nil
  next,          \* of each node that is allocated the one after it
  time,          \* of each event held its time
  nextId, taken

vars == <<first, last, next, time, nextId, taken>>

Nil == 0
Nodes == DOMAIN next

Init ==
  /\ first = Nil /\ last = Nil
  /\ next = <<>> /\ time = <<>>
  /\ nextId = 1 /\ taken = Nil

(* The nodes from n on.                                                    *)
From(n) ==
  LET reach[k \in Nodes \cup {Nil}] ==
        IF k = Nil THEN {} ELSE {k} \cup reach[next[k]]
  IN reach[n]

With(f, n, x) == [k \in DOMAIN f \cup {n} |-> IF k = n THEN x ELSE f[k]]
Without(f, n) == [k \in DOMAIN f \ {n} |-> f[k]]

-----------------------------------------------------------------------------
(* Mutation: the loop stops before an event of the same time.              *)
StopsEarly(t) ==
  LET stop[k \in Nodes] ==
        IF next[k] = Nil THEN k
        ELSE IF t <= time[next[k]] THEN k ELSE stop[next[k]]
  IN stop[first]

(* pqueueInsert: the loop stops at a node whose successor has a later time.*)
StopsAt(t) ==
  LET stop[k \in Nodes] ==
        IF next[k] = Nil THEN k
        ELSE IF t < time[next[k]] THEN k ELSE stop[next[k]]
  IN stop[first]

BelongsAtEnd(t) == t >= time[last]

LinkOnly(n) == first' = n /\ last' = n /\ next' = [k \in {n} |-> Nil]
LinkFirst(n) == first' = n /\ next' = With(next, n, first) /\ UNCHANGED last
LinkLast(n) ==
  /\ next' = With([next EXCEPT ![last] = n], n, Nil)
  /\ last' = n
  /\ UNCHANGED first
LinkAfter(k, n) ==
  /\ next' = With([next EXCEPT ![k] = n], n, next[k])
  /\ UNCHANGED <<first, last>>

Insert(t) ==
  /\ nextId <= MaxId
  /\ IF first = Nil THEN LinkOnly(nextId)
     ELSE IF BelongsAtEnd(t) THEN LinkLast(nextId)
     ELSE IF t < time[first] THEN LinkFirst(nextId)
     ELSE LinkAfter(StopsAt(t), nextId)
  /\ time' = With(time, nextId, t)
  /\ nextId' = nextId + 1
  /\ UNCHANGED taken

(* pqueueGetNext.                                                          *)
GetNext ==
  /\ first # Nil
  /\ first' = next[first]
  /\ last' = IF next[first] = Nil THEN Nil ELSE last
  /\ next' = Without(next, first)
  /\ time' = Without(time, first)
  /\ taken' = first
  /\ UNCHANGED nextId

(* pqueueRemove: the list is gone through with the previous node at hand.  *)
Previous(n) == IF n = first THEN Nil ELSE CHOOSE k \in Nodes : next[k] = n

(* Mutation: last is left pointing to the node that is released.           *)
LastStays(n) == last
LastAfterRemoval(n) == IF next[n] = Nil THEN Previous(n) ELSE last

Remove(id) ==
  /\ id \in From(first)
  /\ first' = IF id = first THEN next[id] ELSE first
  /\ next' = LET p == Previous(id) IN
               Without(IF p = Nil THEN next ELSE [next EXCEPT ![p] = next[id]], id)
  /\ last' = LastAfterRemoval(id)
  /\ time' = Without(time, id)
  /\ UNCHANGED <<nextId, taken>>

Next ==
  \/ \E t \in Times : Insert(t)
  \/ GetNext
  \/ \E id \in 1 .. MaxId : Remove(id)

Spec == Init /\ [][Next]_vars

-----------------------------------------------------------------------------
TypeOK ==
  /\ Nodes \subseteq 1 .. MaxId /\ DOMAIN time = Nodes
  /\ \A n \in Nodes : next[n] \in Nodes \cup {Nil} /\ time[n] \in Times
  /\ first \in Nodes \cup {Nil} /\ last \in Nodes \cup {Nil}
  /\ nextId \in 1 .. MaxId + 1 /\ taken \in 0 .. MaxId

(* Whatever is inserted and removed, at either end or between: the list    *)
(* holds every node that is allocated, ends at last, and is sorted, nodes  *)
(* of the same time in the order they came (pqueue.c:61-108, 143-169).     *)
ListShape ==
  /\ From(first) = Nodes
  /\ (first = Nil) = (last = Nil)
  /\ last # Nil => next[last] = Nil
  /\ \A n \in Nodes : next[n] # Nil =>
       time[n] < time[next[n]] \/ (time[n] = time[next[n]] /\ n < next[n])

(* The list implements the set of events from which the first is taken.    *)
Abstract == INSTANCE TimedQueue
  WITH queue <- {[id |-> n, time |-> time[n]] : n \in Nodes}
IsTimedQueue == Abstract!Spec
=============================================================================
