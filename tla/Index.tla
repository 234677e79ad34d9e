-------------------------------- MODULE Index --------------------------------
(***************************************************************************)
(* The sorted index of Y/util/index.c, in which the server keeps objects,  *)
(* clients, classes, descriptors, modules and viewports: a red-black tree  *)
(* without parents.  A search leaves the way it came on a stack, pa and da *)
(* in the code, and rebalancing goes back up that way.                     *)
(*                                                                         *)
(* The bottom of the stack is the pointer to the root, taken for a node    *)
(* whose link[0] it is; here that node is Top.  The side of a child is 0   *)
(* or 1, as in the code, and the mirror images are one action.  One        *)
(* iteration of a rebalancing loop is a step.                              *)
(***************************************************************************)
EXTENDS Integers, Sequences, FiniteSets

CONSTANT Keys      \* of objects, positive integers

VARIABLES
  tree,     \* link of every node, the set of red nodes, and the count
  path,     \* the stack of the operation in progress
  pc,       \* idle, or the loop in progress
  iter      \* the stack of the iterator in use, or none

vars == <<tree, path, pc, iter>>

Top == 0
Null == -1
Nodes == Keys \cup {Top}
Other(d) == 1 - d
Link(t, n, d) == t.link[n][d]
Root(t) == Link(t, Top, 0)
IsRed(t, n) == n # Null /\ n \in t.red
Linked(t, n, d, m) == [t EXCEPT !.link[n][d] = m]
Blackened(t, n) == [t EXCEPT !.red = @ \ {n}]
Reddened(t, n) == [t EXCEPT !.red = @ \cup {n}]
NoLinks == [d \in 0 .. 1 |-> Null]

(* A step of a way down: the node and the side by which the way goes on.   *)
Step(n, d) == [n |-> n, d |-> d]
NoIter == <<Step(Top, 0)>>   \* an iterator in use never holds Top
Up(i) == path[Len(path) - i]
Cut(i) == SubSeq(path, 1, Len(path) - i)

Below(t, n) ==
  LET reach[i \in 0 .. Cardinality(Keys)] ==
        IF i = 0 THEN {n} \ {Null}
        ELSE reach[i - 1] \cup ({Link(t, m, d) : m \in reach[i - 1], d \in 0 .. 1} \ {Null})
  IN reach[Cardinality(Keys)]
Members == Below(tree, Root(tree))

Init ==
  /\ tree = [link |-> [n \in Nodes |-> NoLinks], red |-> {}, count |-> 0]
  /\ path = <<>> /\ pc = "idle" /\ iter = NoIter

-----------------------------------------------------------------------------
(* The child of n on side d is lifted above n, below p on side e: the      *)
(* rotation, written out six times in the code.                            *)
Lift(t, p, e, n, d) ==
  LET y == Link(t, n, d)
  IN Linked(Linked(Linked(t, n, d, Link(t, y, Other(d))), y, Other(d), n), p, e, y)

(* The way down to k, k excluded, and where it ends.                       *)
Search(k) ==
  LET down[n \in Keys \cup {Null}] ==
        IF n \in {k, Null} THEN <<>>
        ELSE LET d == IF k > n THEN 1 ELSE 0
             IN <<Step(n, d)>> \o down[Link(tree, n, d)]
  IN <<Step(Top, 0)>> \o down[Root(tree)]
Found(way) == LET s == way[Len(way)] IN Link(tree, s.n, s.d)

(* indexFind.                                                              *)
Find(k) == Found(Search(k))

(* indexAdd: an object whose key is there already is not added, ...        *)
Add(k) ==
  /\ pc = "idle" /\ iter = NoIter
  /\ LET way == Search(k) IN
       IF Found(way) = k THEN UNCHANGED <<tree, path, pc>>
       ELSE LET s == way[Len(way)] IN
         /\ tree' = [Reddened(Linked([tree EXCEPT !.link[k] = NoLinks], s.n, s.d, k), k)
                       EXCEPT !.count = @ + 1]
         /\ path' = way /\ pc' = "add"
  /\ UNCHANGED iter

(* ... and while the new node and the one above it are both red, ...       *)
RedPair == Len(path) >= 3 /\ Up(0).n \in tree.red

(* Mutation: a node on the inner side is not lifted to the outer first.    *)
NotTurned(t, p, g, left) == t
Turned(t, p, g, left) == IF p.d = left THEN t ELSE Lift(t, g.n, left, p.n, p.d)

AddFix ==
  /\ pc = "add" /\ RedPair
  /\ LET p == Up(0)
         g == Up(1)
         left == g.d
         uncle == Link(tree, g.n, Other(left))
     IN IF IsRed(tree, uncle)
        THEN /\ tree' = Reddened(Blackened(Blackened(tree, uncle), p.n), g.n)
             /\ path' = Cut(2)
        ELSE LET t == Turned(tree, p, g, left)
                 y == Link(t, g.n, left)
             IN /\ tree' = Lift(Blackened(Reddened(t, g.n), y), Up(2).n, Up(2).d, g.n, left)
                /\ path' = <<>>
  /\ UNCHANGED <<pc, iter>>

(* ... the root becomes black.                                             *)
AddDone ==
  /\ pc = "add" /\ ~RedPair
  /\ tree' = Blackened(tree, Root(tree))
  /\ path' = <<>> /\ pc' = "idle"
  /\ UNCHANGED iter

-----------------------------------------------------------------------------
(* Mutation: the successor does not take the colour of the node.           *)
KeepsColours(t, a, b) == t

(* indexRemove: the node p that is found is replaced by its left child, by *)
(* its right child, or by the least node below that, with which it changes *)
(* colours; and the stack is the way to where a node is missing.           *)
SwapColours(t, a, b) ==
  [t EXCEPT !.red = {IF n = a THEN b ELSE IF n = b THEN a ELSE n : n \in @}]

LeftSpine(n) ==
  LET spine[m \in Keys] ==
        IF Link(tree, m, 0) = Null THEN <<m>> ELSE <<m>> \o spine[Link(tree, m, 0)]
  IN spine[n]

Spliced(way, p) ==
  LET s == way[Len(way)]
      r == Link(tree, p, 1)
      spine == LeftSpine(r)
      succ == spine[Len(spine)]
      parent == spine[Len(spine) - 1]
      above == [i \in 1 .. Len(spine) - 1 |-> Step(spine[i], 0)]
  IN IF r = Null
     THEN [t |-> Linked(tree, s.n, s.d, Link(tree, p, 0)), way |-> way]
     ELSE IF succ = r
     THEN [t |-> Linked(Linked(SwapColours(tree, r, p), r, 0, Link(tree, p, 0)), s.n, s.d, r),
           way |-> Append(way, Step(r, 1))]
     ELSE LET t1 == Linked(SwapColours(tree, succ, p), s.n, s.d, succ)
              t2 == Linked(Linked(t1, succ, 0, Link(tree, p, 0)), parent, 0, Link(tree, succ, 1))
          IN [t |-> Linked(t2, succ, 1, r), way |-> Append(way, Step(succ, 1)) \o above]

Released(t, n) ==
  [t EXCEPT !.link[n] = NoLinks, !.red = @ \ {n}, !.count = @ - 1]

Remove(k) ==
  /\ pc = "idle" /\ iter = NoIter
  /\ IF Find(k) # k THEN UNCHANGED <<tree, path, pc>>
     ELSE LET after == Spliced(Search(k), k) IN
       /\ tree' = Released(after.t, k)
       /\ IF k \in after.t.red THEN UNCHANGED <<path, pc>>
          ELSE path' = after.way /\ pc' = "remove"
  /\ UNCHANGED iter

(* A black node is missing below the top of the stack, until what is there *)
(* is red or the root.                                                     *)
Missing == Found(path)
Short == ~IsRed(tree, Missing) /\ Len(path) >= 2

(* A red sibling is lifted first, and the stack becomes one longer.        *)
WithBlackSibling ==
  LET p == Up(0)
      w == Link(tree, p.n, Other(p.d))
  IN IF IsRed(tree, w)
     THEN [t |-> Lift(Reddened(Blackened(tree, w), p.n), Up(1).n, Up(1).d, p.n, Other(p.d)),
           way |-> Cut(1) \o <<Step(w, p.d), p>>]
     ELSE [t |-> tree, way |-> path]

(* Mutation: the inner child of the sibling stays where it is.             *)
OuterStays(t, p, w) == t
OuterRed(t, p, w) ==
  IF IsRed(t, Link(t, w, Other(p.d))) THEN t
  ELSE Lift(Reddened(Blackened(t, Link(t, w, p.d)), w), p.n, Other(p.d), w, p.d)

RemoveFix ==
  /\ pc = "remove" /\ Short
  /\ LET t == WithBlackSibling.t
         way == WithBlackSibling.way
         p == way[Len(way)]
         q == way[Len(way) - 1]
         w == Link(t, p.n, Other(p.d))
     IN IF ~IsRed(t, Link(t, w, 0)) /\ ~IsRed(t, Link(t, w, 1))
        THEN /\ tree' = Reddened(t, w)
             /\ path' = SubSeq(way, 1, Len(way) - 1)
             /\ UNCHANGED pc
        ELSE LET t1 == OuterRed(t, p, w)
                 v == Link(t1, p.n, Other(p.d))
                 t2 == IF p.n \in t1.red THEN Reddened(t1, v) ELSE Blackened(t1, v)
                 t3 == Blackened(Blackened(t2, p.n), Link(t2, v, Other(p.d)))
             IN /\ tree' = Lift(t3, q.n, q.d, p.n, Other(p.d))
                /\ path' = <<>> /\ pc' = "idle"
  /\ UNCHANGED iter

RemoveDone ==
  /\ pc = "remove" /\ ~Short
  /\ tree' = Blackened(tree, Missing)
  /\ path' = <<>> /\ pc' = "idle"
  /\ UNCHANGED iter

(* indexDestroy takes the root away before it calls a destructor, which    *)
(* may call the functions of the index and finds it empty.                 *)
Destroy ==
  /\ pc = "idle" /\ iter = NoIter /\ Members # {}
  /\ tree' = [link |-> [n \in Nodes |-> NoLinks], red |-> {}, count |-> 0]
  /\ UNCHANGED <<path, pc, iter>>

-----------------------------------------------------------------------------
(* Iterators.  No caller in the tree changes an index while it has an      *)
(* iterator of it; d is the side that comes next.                          *)
Descend(n, d) ==
  LET down[m \in Keys \cup {Null}] ==
        IF m = Null THEN <<>> ELSE <<Step(m, d)>> \o down[Link(tree, m, d)]
  IN down[n]

GetIterator(d) ==
  /\ pc = "idle" /\ iter = NoIter
  /\ iter' = Descend(Root(tree), d)
  /\ UNCHANGED <<tree, path, pc>>

(* The way back: up as long as the node was reached by side d, and one     *)
(* more.                                                                   *)
(* Mutation: up one node only.                                             *)
UpOne(it, d) == SubSeq(it, 1, Len(it) - 1)
Ascend(it, d) ==
  LET up[i \in 1 .. Len(it)] ==
        IF it[i].d = d /\ i > 1 THEN up[i - 1] ELSE SubSeq(it, 1, i - 1)
  IN up[Len(it)]

IteratorMove(d) ==
  /\ pc = "idle" /\ iter # NoIter
  /\ IF iter = <<>> THEN iter' = Descend(Root(tree), Other(d))
     ELSE LET c == Link(tree, iter[Len(iter)].n, d) IN
       iter' = IF c = Null THEN Ascend(iter, d)
               ELSE iter \o <<Step(c, d)>> \o Descend(Link(tree, c, Other(d)), Other(d))
  /\ UNCHANGED <<tree, path, pc>>

IteratorDestroy ==
  /\ iter # NoIter
  /\ iter' = NoIter
  /\ UNCHANGED <<tree, path, pc>>

Next ==
  \/ \E k \in Keys : Add(k) \/ Remove(k)
  \/ AddFix \/ AddDone \/ RemoveFix \/ RemoveDone \/ Destroy
  \/ \E d \in 0 .. 1 : GetIterator(d) \/ IteratorMove(d)
  \/ IteratorDestroy

Spec == Init /\ [][Next]_vars
Fairness == WF_vars(AddFix \/ AddDone \/ RemoveFix \/ RemoveDone)

-----------------------------------------------------------------------------
TypeOK ==
  /\ DOMAIN tree.link = Nodes /\ tree.red \subseteq Keys
  /\ tree.count \in 0 .. Cardinality(Keys)
  /\ \A n \in Nodes : tree.link[n] \in [0 .. 1 -> Keys \cup {Null}]
  /\ \A i \in 1 .. Len(path) : path[i] \in [n : Nodes, d : 0 .. 1]
  /\ pc \in {"idle", "add", "remove"}
  /\ iter = NoIter \/ \A i \in 1 .. Len(iter) : iter[i] \in [n : Keys, d : 0 .. 1]

BlackHeights(n) ==
  LET heights[m \in Keys \cup {Null}] ==
        IF m = Null THEN {0}
        ELSE {h + (IF m \in tree.red THEN 0 ELSE 1) :
                h \in heights[Link(tree, m, 0)] \cup heights[Link(tree, m, 1)]}
  IN heights[n]

(* What indexVerifyConstraints checks (index.c:504-578), with the order    *)
(* and the count: no red node has a red child, every way down has as many  *)
(* black nodes, and so a search takes at most twice the least number of    *)
(* comparisons, however the tree came about.                               *)
Verified ==
  pc = "idle" =>
    /\ tree.count = Cardinality(Members)
    /\ \A n \in Members :
         /\ \A m \in Below(tree, Link(tree, n, 0)) : m < n
         /\ \A m \in Below(tree, Link(tree, n, 1)) : m > n
         /\ n \in tree.red => ~IsRed(tree, Link(tree, n, 0)) /\ ~IsRed(tree, Link(tree, n, 1))
    /\ Cardinality(BlackHeights(Root(tree))) = 1

(* No object is lost by a rotation or by the replacement of a removed one, *)
(* and an iterator visits each object once, in order, in both directions,  *)
(* also after it has run off an end (index_check.c:199-241).               *)
Abstract == INSTANCE SortedIndex WITH
  members <- Members,
  at <- IF iter = NoIter THEN -1 ELSE IF iter = <<>> THEN 0 ELSE iter[Len(iter)].n
IsSortedIndex == Abstract!Spec
=============================================================================
