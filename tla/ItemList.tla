------------------------------ MODULE ItemList ------------------------------
(* What a list of Y/util/llist.c and the order of Y/util/zorder.c promise: *)
(* a sequence in which items are put at an end or next to another, taken   *)
(* out, and moved to an end or past a neighbour.                           *)
EXTENDS Naturals, Sequences, SequencesExt

CONSTANT Items
VARIABLE items

Places == 1 .. Len(items)
Swapped(i) == [items EXCEPT ![i] = items[i + 1], ![i + 1] = items[i]]

Init == items = <<>>
Insert == \E x \in Items, i \in 1 .. Len(items) + 1 : items' = InsertAt(items, i, x)
Delete == \E i \in Places : items' = RemoveAt(items, i)
ToFront == \E i \in Places : items' = <<items[i]>> \o RemoveAt(items, i)
ToBack == \E i \in Places : items' = Append(RemoveAt(items, i), items[i])
Swap == \E i \in Places : i < Len(items) /\ items' = Swapped(i)
Clear == items' = <<>>
Next == Insert \/ Delete \/ ToFront \/ ToBack \/ Swap \/ Clear

Step == [Next]_items   \* one of these, or none
Spec == Init /\ [][Next]_items
=============================================================================
