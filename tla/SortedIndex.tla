----------------------------- MODULE SortedIndex -----------------------------
(* What Y/util/index.c promises its users, and without the iterator the     *)
(* trees of Y/util/rbtree.c: a set of objects sorted by key, and an         *)
(* iterator that goes through it in either direction, past either end and   *)
(* back, for as long as the set is left alone.                              *)
EXTENDS Integers, FiniteSetsExt

CONSTANT Keys
VARIABLES members, at

vars == <<members, at>>

NoIterator == -1
End == 0

Above(k) == {m \in members : m > k}
Below(k) == {m \in members : m < k}
LeastOr(S) == IF S = {} THEN End ELSE Min(S)
GreatestOr(S) == IF S = {} THEN End ELSE Max(S)

Init == members = {} /\ at = NoIterator

Add(k) == k \notin members /\ members' = members \cup {k} /\ UNCHANGED at
Remove(k) == k \in members /\ members' = members \ {k} /\ UNCHANGED at
Destroy == members # {} /\ members' = {} /\ UNCHANGED at

Start == at' = LeastOr(members) /\ UNCHANGED members
Finish == at' = GreatestOr(members) /\ UNCHANGED members
Forward == at # NoIterator /\ at' = LeastOr(IF at = End THEN members ELSE Above(at)) /\ UNCHANGED members
Backward == at # NoIterator /\ at' = GreatestOr(IF at = End THEN members ELSE Below(at)) /\ UNCHANGED members
Close == at' = NoIterator /\ UNCHANGED members

Next ==
  \/ at = NoIterator /\ (Destroy \/ \E k \in Keys : Add(k) \/ Remove(k))
  \/ Start \/ Finish \/ Forward \/ Backward \/ Close

Step == [Next]_vars   \* one of these, or none
Spec == Init /\ [][Next]_vars
=============================================================================
