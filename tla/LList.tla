-------------------------------- MODULE LList --------------------------------
(***************************************************************************)
(* Y/util/llist.c: nodes linked both ways, each with an item.  A caller    *)
(* keeps nodes and inserts next to them or deletes them; while it goes     *)
(* through a list it has taken the next node before it looks at this one,  *)
(* which it may delete (llist_foreach, and the loops of ykbmap.c and       *)
(* rectangle.c).  llist_destroy is a loop around a destructor of the       *)
(* caller's, so that one round of it is a step.                            *)
(***************************************************************************)
EXTENDS Naturals, Sequences, FiniteSets, TLC

CONSTANTS Data, NodeIds, Nil,
          Destructors   \* what the destructor does to the list: adds, deletes

VARIABLES
  node,              \* of every node that is allocated: data, next, prev
  head, tail, length,
  walk,              \* the node of a foreach and the one it goes on with
  destroying,
  freed              \* a node is used after it was freed

vars == <<node, head, tail, length, walk, destroying, freed>>
Allocated == DOMAIN node
NoWalk == [at |-> Nil, next |-> Nil]

Init ==
  /\ node = <<>> /\ head = Nil /\ tail = Nil /\ length = 0
  /\ walk = NoWalk /\ destroying = FALSE /\ freed = FALSE

NewNode == CHOOSE n \in NodeIds : n \notin Allocated
HasRoom == NodeIds \ Allocated # {}
Linked(d, next, prev) == [data |-> d, next |-> next, prev |-> prev]
WithNext(f, n, m) == IF n \in DOMAIN f THEN [f EXCEPT ![n].next = m] ELSE f
WithPrev(f, n, m) == IF n \in DOMAIN f THEN [f EXCEPT ![n].prev = m] ELSE f
Dropped(f, n) == [m \in DOMAIN f \ {n} |-> f[m]]

AddHead(d) ==
  /\ HasRoom
  /\ node' = (NewNode :> Linked(d, head, Nil)) @@ WithPrev(node, head, NewNode)
  /\ tail' = IF tail = Nil THEN NewNode ELSE tail
  /\ head' = NewNode /\ length' = length + 1
  /\ UNCHANGED <<walk, destroying, freed>>

(* Mutation: an empty list gets a tail and no head.                        *)
HeadStays == head
HeadOfAppended == IF head = Nil THEN NewNode ELSE head
AddTail(d) ==
  /\ HasRoom
  /\ node' = (NewNode :> Linked(d, Nil, tail)) @@ WithNext(node, tail, NewNode)
  /\ head' = HeadOfAppended
  /\ tail' = NewNode /\ length' = length + 1
  /\ UNCHANGED <<walk, destroying, freed>>

InsertAfter(t, d) ==
  /\ HasRoom
  /\ LET next == node[t].next IN
       /\ node' = (NewNode :> Linked(d, next, t)) @@ WithPrev(WithNext(node, t, NewNode), next, NewNode)
       /\ tail' = IF next = Nil THEN NewNode ELSE tail
  /\ length' = length + 1
  /\ UNCHANGED <<head, walk, destroying, freed>>

InsertBefore(t, d) ==
  /\ HasRoom
  /\ LET prev == node[t].prev IN
       /\ node' = (NewNode :> Linked(d, t, prev)) @@ WithNext(WithPrev(node, t, NewNode), prev, NewNode)
       /\ head' = IF prev = Nil THEN NewNode ELSE head
  /\ length' = length + 1
  /\ UNCHANGED <<tail, walk, destroying, freed>>

(* llist_node_delete, and what llist_delete_data does to the node it finds.*)
(* A neighbour that was freed is written all the same.                     *)
NodeDelete(n) ==
  LET next == node[n].next
      prev == node[n].prev
  IN /\ node' = Dropped(WithPrev(WithNext(node, prev, next), next, prev), n)
     /\ head' = IF prev = Nil THEN next ELSE head
     /\ tail' = IF next = Nil THEN prev ELSE tail
     /\ length' = length - 1
     /\ freed' = (freed \/ prev \notin Allocated \cup {Nil})

(* The items from n on by a link; a cycle is cut after every node.         *)
Along(n, link(_)) ==
  LET way[i \in 0 .. Cardinality(NodeIds)] ==
        IF i = 0 THEN <<n>>
        ELSE LET before == way[i - 1]
                 last == before[Len(before)]
             IN IF last \notin Allocated THEN before ELSE Append(before, link(last))
  IN way[Cardinality(NodeIds)]
Next_(n) == node[n].next
Prev_(n) == node[n].prev
Forward == Along(head, Next_)
ItemsOf(way) == [i \in 1 .. Len(way) - 1 |-> node[way[i]].data]

(* llist_find_data, with which llist_delete_data looks.                    *)
FindData(d) ==
  LET places == {i \in 1 .. Len(Forward) - 1 : node[Forward[i]].data = d}
  IN IF places = {} THEN Nil ELSE Forward[CHOOSE i \in places : \A j \in places : i <= j]
DeleteData(d) ==
  /\ FindData(d) # Nil
  /\ NodeDelete(FindData(d))

(* llist_foreach.  The function is called with the item of walk.at; its    *)
(* node may be deleted, but not the next one, which is saved.              *)

Foreach ==
  /\ walk.at = Nil /\ head # Nil
  /\ walk' = [at |-> head, next |-> node[head].next]
  /\ UNCHANGED <<node, head, tail, length, destroying, freed>>

ForeachNext ==
  /\ walk.at # Nil
  /\ freed' = (freed \/ walk.next \notin Allocated \cup {Nil})
  /\ walk' = IF walk.next \in Allocated
             THEN [at |-> walk.next, next |-> node[walk.next].next]
             ELSE NoWalk
  /\ UNCHANGED <<node, head, tail, length, destroying>>

ForeachDelete ==
  /\ walk.at \in Allocated
  /\ NodeDelete(walk.at)
  /\ UNCHANGED <<walk, destroying>>

(* llist_destroy: the destructor is called for the first item, and then    *)
(* its node is freed, but for one that a destructor has put before it.     *)
BeginDestroy ==
  /\ head # Nil
  /\ destroying' = TRUE
  /\ UNCHANGED <<node, head, tail, length, walk, freed>>

DestroyHead(n, f) ==
  /\ freed' = (freed \/ f \/ n \notin Allocated)
  /\ head' = IF n \in Allocated THEN node[n].next ELSE Nil
  /\ node' = Dropped(node, n)

DestroyRound ==
  /\ destroying /\ head # Nil
  /\ \/ DestroyHead(head, FALSE) /\ UNCHANGED <<tail, length>>
     \/ "deletes" \in Destructors /\ head \in Allocated
        /\ LET prev == node[head].prev IN   \* deletes its own node, then it is freed again
             IF prev = Nil THEN NodeDelete(head)
             ELSE freed' = TRUE /\ UNCHANGED <<node, head, tail, length>>
  /\ UNCHANGED <<walk, destroying>>

MaxLength == 2 * Cardinality(NodeIds)   \* bounds the items a destructor adds
DestructorAdds(d) ==
  "adds" \in Destructors /\ destroying /\ head # Nil /\ length < MaxLength /\ AddTail(d)

DestroyEnd ==
  /\ destroying /\ head = Nil
  /\ destroying' = FALSE /\ tail' = Nil /\ length' = 0   \* a list made anew
  /\ UNCHANGED <<node, head, walk, freed>>

Next ==
  \/ ~destroying /\ walk = NoWalk
     /\ \/ \E d \in Data : AddHead(d) \/ AddTail(d)
        \/ \E d \in Data : DeleteData(d) /\ UNCHANGED <<walk, destroying>>
        \/ \E t \in Allocated, d \in Data : InsertAfter(t, d) \/ InsertBefore(t, d)
        \/ \E n \in Allocated : NodeDelete(n) /\ UNCHANGED <<walk, destroying>>
        \/ Foreach \/ BeginDestroy
  \/ ForeachNext \/ ForeachDelete
  \/ DestroyRound \/ DestroyEnd \/ \E d \in Data : DestructorAdds(d)

Spec == Init /\ [][Next]_vars

-----------------------------------------------------------------------------
TypeOK ==
  /\ Allocated \subseteq NodeIds /\ length \in 0 .. MaxLength
  /\ \A n \in Allocated : node[n].data \in Data
  /\ {head, tail, walk.at, walk.next} \subseteq NodeIds \cup {Nil}
  /\ destroying \in BOOLEAN /\ freed \in BOOLEAN

(* llist_check_sanity (llist.c:242-316), and no node is lost or freed      *)
(* while it is used.                                                       *)
Sane ==
  /\ ~freed
  /\ ~destroying =>
       LET backward == Along(tail, Prev_)
           n == Len(Forward) - 1
       IN /\ Forward[n + 1] = Nil /\ Len(backward) = n + 1 /\ backward[n + 1] = Nil
          /\ \A i \in 1 .. n : Forward[i] = backward[n + 1 - i]
          /\ length = n /\ n = Cardinality(Allocated)

List == INSTANCE ItemList WITH Items <- Data, items <- ItemsOf(Forward)
IsItemList == List!Spec
=============================================================================
