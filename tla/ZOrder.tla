------------------------------- MODULE ZOrder -------------------------------
(***************************************************************************)
(* Y/util/zorder.c: the order of the windows of a desktop, a list linked   *)
(* both ways with an index to find a node by its object.  An object is     *)
(* added once (desktopAddWindow), so that a node is named by its object;   *)
(* the index is what SortedIndex promises, the set of the nodes in it.     *)
(***************************************************************************)
EXTENDS Naturals, Sequences, FiniteSets, TLC

CONSTANTS Objects, Nil

VARIABLES
  index,           \* objects of the index
  top, bottom,     \* nodes, or Nil
  above, below,    \* of each node that is allocated
  cursor           \* node of the iterator in use, or Nil

vars == <<index, top, bottom, above, below, cursor>>
Nodes == DOMAIN above

Init ==
  /\ index = {} /\ top = Nil /\ bottom = Nil
  /\ above = <<>> /\ below = <<>> /\ cursor = Nil

Without(f, n) == [m \in DOMAIN f \ {n} |-> f[m]]

AddAtTop(o) ==
  /\ o \notin index
  /\ above' = (o :> Nil) @@ (IF top = Nil THEN above ELSE [above EXCEPT ![top] = o])
  /\ below' = (o :> top) @@ below
  /\ top' = o
  /\ bottom' = IF bottom = Nil THEN o ELSE bottom
  /\ index' = index \cup {o}
  /\ UNCHANGED cursor

(* The links of the neighbours of n, and the ends, once n is cut out.      *)
CutAbove(n) == IF below[n] = Nil THEN above ELSE [above EXCEPT ![below[n]] = above[n]]
CutBelow(n) == IF above[n] = Nil THEN below ELSE [below EXCEPT ![above[n]] = below[n]]
CutTop(n) == IF above[n] = Nil THEN below[n] ELSE top
CutBottom(n) == IF below[n] = Nil THEN above[n] ELSE bottom

Remove(o) ==
  /\ o \in index /\ cursor = Nil
  /\ above' = Without(CutAbove(o), o) /\ below' = Without(CutBelow(o), o)
  /\ top' = CutTop(o) /\ bottom' = CutBottom(o)
  /\ index' = index \ {o}
  /\ UNCHANGED cursor

MoveToTop(o) ==
  /\ o \in index /\ above[o] # Nil
  /\ above' = [CutAbove(o) EXCEPT ![o] = Nil, ![top] = o]
  /\ below' = [CutBelow(o) EXCEPT ![o] = top]
  /\ top' = o /\ bottom' = CutBottom(o)
  /\ UNCHANGED <<index, cursor>>

MoveToBottom(o) ==
  /\ o \in index /\ below[o] # Nil
  /\ above' = [CutAbove(o) EXCEPT ![o] = bottom]
  /\ below' = [CutBelow(o) EXCEPT ![o] = Nil, ![bottom] = o]
  /\ bottom' = o /\ top' = CutTop(o)
  /\ UNCHANGED <<index, cursor>>

(* zorderSwapAdjacentNodes, of a node and the one below it.                *)
(* Mutation: the node above is not linked to the new one below it.         *)
LinkedLoosely(m, n) == [below EXCEPT ![m] = below[n], ![n] = m]
LinkedBelow(m, n) ==
  LET swapped == [below EXCEPT ![m] = below[n], ![n] = m]
  IN IF above[m] = Nil THEN swapped ELSE [swapped EXCEPT ![above[m]] = n]
Swap(m, n) ==
  /\ top' = IF above[m] = Nil THEN n ELSE top
  /\ bottom' = IF below[n] = Nil THEN m ELSE bottom
  /\ below' = LinkedBelow(m, n)
  /\ above' = LET swapped == [above EXCEPT ![n] = above[m], ![m] = n]
              IN IF below[n] = Nil THEN swapped ELSE [swapped EXCEPT ![below[n]] = m]
  /\ UNCHANGED <<index, cursor>>

MoveUp(o) == o \in index /\ above[o] # Nil /\ Swap(above[o], o)
MoveDown(o) == o \in index /\ below[o] # Nil /\ Swap(o, below[o])

(* Iterators are nodes; the order may change under them, but no caller     *)
(* removes an object while it has one.                                     *)
GetTopIterator == top # Nil /\ cursor' = top /\ UNCHANGED <<index, top, bottom, above, below>>
GetBottomIterator == bottom # Nil /\ cursor' = bottom /\ UNCHANGED <<index, top, bottom, above, below>>
IteratorMove(link) ==
  /\ cursor # Nil /\ cursor' = link[cursor]
  /\ UNCHANGED <<index, top, bottom, above, below>>

Destroy ==
  /\ index # {} /\ cursor = Nil
  /\ index' = {} /\ top' = Nil /\ bottom' = Nil /\ above' = <<>> /\ below' = <<>>
  /\ UNCHANGED cursor

Next ==
  \/ \E o \in Objects :
       AddAtTop(o) \/ Remove(o) \/ MoveToTop(o) \/ MoveToBottom(o) \/ MoveUp(o) \/ MoveDown(o)
  \/ GetTopIterator \/ GetBottomIterator \/ IteratorMove(above) \/ IteratorMove(below)
  \/ Destroy

Spec == Init /\ [][Next]_vars

-----------------------------------------------------------------------------
TypeOK ==
  /\ index \subseteq Objects /\ Nodes \subseteq Objects /\ DOMAIN below = Nodes
  /\ {top, bottom, cursor} \subseteq Nodes \cup {Nil}
  /\ \A n \in Nodes : {above[n], below[n]} \subseteq Nodes \cup {Nil}

(* The objects from n on along a link; a cycle is cut after every node.    *)
Along(link, n) ==
  LET way[i \in 0 .. Cardinality(Objects)] ==
        IF i = 0 THEN <<n>>
        ELSE LET before == way[i - 1]
             IN IF Head(before) = Nil THEN before ELSE <<link[Head(before)]>> \o before
  IN way[Cardinality(Objects)]
FromTop == Along(below, top)
FromBottom == Along(above, bottom)

(* Down from the top and up from the bottom are the same way, and every    *)
(* object of the index lies on it.                                         *)
Reversed(s) == [i \in 1 .. Len(s) |-> s[Len(s) + 1 - i]]
Agrees ==
  /\ Nodes = index
  /\ Head(FromTop) = Nil /\ Head(FromBottom) = Nil
  /\ Tail(FromTop) = Reversed(Tail(FromBottom))
  /\ Len(Tail(FromTop)) = Cardinality(index)

Order == INSTANCE ItemList WITH Items <- Objects, items <- Reversed(Tail(FromTop))
IsItemList == Order!Spec
=============================================================================
