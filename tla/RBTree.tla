------------------------------- MODULE RBTree -------------------------------
(***************************************************************************)
(* The red-black trees of Y/util/rbtree.c, which hold the tables of a      *)
(* keymap, the maps and options selected of it, and the channels of a      *)
(* client.  A node is named by the key of its object; keys are inserted    *)
(* once, as ykbmapAddKeymap makes sure.  Left and right are two values of  *)
(* a side, so that the two halves of the loops are one action, and an      *)
(* iteration of a loop is a step.                                          *)
(***************************************************************************)
EXTENDS Integers, FiniteSets

CONSTANTS
  Keys,
  AnyDeleted    \* FALSE: nodes of the case Detaches are not deleted

VARIABLES
  tree,     \* root, size, and of each node left, right, parent and colour
  x,        \* node the loop in progress is at
  gone,     \* the node being deleted
  pc,       \* idle, or the loop in progress
  crashed   \* a NULL pointer was followed, or an assertion failed

vars == <<tree, x, gone, pc, crashed>>

Nil == 0      \* &tree->nil
NULL == -1    \* its children
Nodes == Keys \cup {Nil}
Sides == {"left", "right"}
Other(s) == IF s = "left" THEN "right" ELSE "left"

(* The nodes below n, n included; in at most as many steps as nodes.       *)
Below(n) ==
  LET reach[i \in 0 .. Cardinality(Keys)] ==
        IF i = 0 THEN {n}
        ELSE reach[i - 1] \cup UNION {{tree.left[m], tree.right[m]} : m \in reach[i - 1] \ {Nil, NULL}}
  IN reach[Cardinality(Keys)] \ {Nil, NULL}

Members == Below(tree.root)
Least(S) == CHOOSE k \in S : \A j \in S : k <= j

Blank == [n \in Nodes |-> Nil]

Init ==
  /\ tree = [root |-> Nil, size |-> 0,
             left |-> [Blank EXCEPT ![Nil] = NULL],
             right |-> [Blank EXCEPT ![Nil] = NULL],
             parent |-> Blank, red |-> [n \in Nodes |-> FALSE]]
  /\ x = Nil /\ gone = Nil /\ pc = "idle" /\ crashed = FALSE

-----------------------------------------------------------------------------
(* Which child of p n is; and t with n instead of o under p.               *)
SideOf(t, n, p) == IF n = t.left[p] THEN "left" ELSE "right"
Replaced(t, p, o, n) ==
  IF p = Nil THEN [t EXCEPT !.root = n]
  ELSE [t EXCEPT ![SideOf(t, o, p)][p] = n]
WithParent(t, n, p) == [t EXCEPT !.parent[n] = p]
Coloured(t, n, r) == [t EXCEPT !.red[n] = r]

(* rbtree_subtree_left_rotate and its mirror image.                        *)
(* Mutation: the subtree that is moved keeps its parent.                   *)
RotatedLoosely(t, n, s) ==
  LET y == t[Other(s)][n]
      t1 == [t EXCEPT ![Other(s)][n] = t[s][y]]
      t2 == Replaced(WithParent(t1, y, t.parent[n]), t.parent[n], n, y)
  IN [WithParent(t2, n, y) EXCEPT ![s][y] = n]

Rotated(t, n, s) ==
  LET y == t[Other(s)][n]
      t1 == [t EXCEPT ![Other(s)][n] = t[s][y]]
      t2 == IF t[s][y] = Nil THEN t1 ELSE WithParent(t1, t[s][y], n)
      t3 == Replaced(WithParent(t2, y, t.parent[n]), t.parent[n], n, y)
  IN [WithParent(t3, n, y) EXCEPT ![s][y] = n]

-----------------------------------------------------------------------------
(* rbtree_insert: the classic insertion, ...                               *)
Place(k) ==
  LET descend[n \in Keys] ==
        LET s == IF k < n THEN "left" ELSE "right" IN
          IF tree[s][n] = Nil THEN n ELSE descend[tree[s][n]]
  IN IF tree.root = Nil THEN Nil ELSE descend[tree.root]

Insert(k) ==
  /\ pc = "idle" /\ ~crashed /\ k \notin Members
  /\ LET p == Place(k)
         t == [tree EXCEPT !.left[k] = Nil, !.right[k] = Nil, !.parent[k] = p,
                           !.red[k] = TRUE, !.size = @ + 1]
     IN tree' = IF p = Nil THEN [t EXCEPT !.root = k]
                ELSE [t EXCEPT ![IF k < p THEN "left" ELSE "right"][p] = k]
  /\ x' = k /\ pc' = "insert"
  /\ UNCHANGED <<gone, crashed>>

(* ... and the loop, while the node and its parent are both red.           *)
RedPair == x # tree.root /\ tree.red[tree.parent[x]]

(* Mutation: a node on the inner side is not rotated to the outer first.   *)
NotTurned(s) == [tree |-> tree, x |-> x]
Turned(s) ==
  LET p == tree.parent[x] IN
    IF x = tree[Other(s)][p] THEN [tree |-> Rotated(tree, p, s), x |-> p]
    ELSE [tree |-> tree, x |-> x]

InsertFix ==
  /\ pc = "insert" /\ RedPair
  /\ LET p == tree.parent[x]
         g == tree.parent[p]
         s == SideOf(tree, p, g)
         uncle == tree[Other(s)][g]
     IN IF tree.red[uncle]
        THEN /\ tree' = Coloured(Coloured(Coloured(tree, p, FALSE),
                                          uncle, FALSE), g, TRUE)
             /\ x' = g
        ELSE LET t == Turned(s).tree
                 n == Turned(s).x
                 q == t.parent[n]
             IN /\ tree' = Rotated(Coloured(Coloured(t, q, FALSE),
                                            t.parent[q], TRUE),
                                   t.parent[q], Other(s))
                /\ x' = n
  /\ UNCHANGED <<pc, gone, crashed>>

InsertDone ==
  /\ pc = "insert" /\ ~RedPair
  /\ tree' = Coloured(tree, tree.root, FALSE)
  /\ x' = Nil /\ pc' = "idle"
  /\ UNCHANGED <<gone, crashed>>

-----------------------------------------------------------------------------
(* rbtree_node_delete: y is spliced out, the node itself or its successor, *)
Spliced(n) ==
  IF tree.left[n] = Nil \/ tree.right[n] = Nil THEN n
  ELSE Least(Below(tree.right[n]))
ChildOf(y) == IF tree.left[y] # Nil THEN tree.left[y] ELSE tree.right[y]

(* and takes the place of the node if it is not the node.                  *)
PutInPlace(t, y, n) ==
  LET t1 == [t EXCEPT !.parent[y] = t.parent[n], !.left[y] = t.left[n],
                      !.right[y] = t.right[n], !.red[y] = t.red[n]]
      t2 == IF t1.left[y] = Nil THEN t1 ELSE WithParent(t1, t1.left[y], y)
      t3 == IF t2.right[y] = Nil THEN t2 ELSE WithParent(t2, t2.right[y], y)
  IN Replaced(t3, t3.parent[y], n, y)

(* The successor is the black right child of the node and has no child:    *)
(* nil, at which the loop begins, has the node for a parent, which is no   *)
(* longer in the tree.                                                     *)
Detaches(n) ==
  LET y == Spliced(n) IN
    y = tree.right[n] /\ y # n /\ tree.right[y] = Nil /\ ~tree.red[y]

(* yfree(node): nothing is left of it, nor of the parent of nil, which the *)
(* next deletion sets before it is read.                                   *)
Freed(t, n) ==
  [t EXCEPT !.left[n] = Nil, !.right[n] = Nil, !.parent[n] = Nil,
            !.red[n] = FALSE, !.parent[Nil] = Nil]

(* Mutation: the size is left as it is.                                    *)
SizeStays(n) == n
SizeAfter(n) == n - 1

Delete(n) ==
  /\ pc = "idle" /\ ~crashed /\ n \in Members
  /\ AnyDeleted \/ ~Detaches(n)
  /\ LET y == Spliced(n)
         c == ChildOf(y)
         t1 == Replaced(WithParent(tree, c, tree.parent[y]), tree.parent[y], y, c)
         t2 == IF y = n THEN t1 ELSE PutInPlace(t1, y, n)
         t3 == [t2 EXCEPT !.size = SizeAfter(@)]
     IN IF tree.red[y]
        THEN tree' = Freed(t3, n) /\ UNCHANGED <<x, pc, gone>>
        ELSE tree' = t3 /\ x' = c /\ pc' = "delete" /\ gone' = n
  /\ UNCHANGED crashed

(* The loop, while the node at hand is black and not the root.             *)
BlackMissing == x # tree.root /\ ~tree.red[x]

(* The sibling is red: it is rotated, and the sibling is another.          *)
Sibling(s) ==
  LET p == tree.parent[x]
      w == tree[Other(s)][p]
  IN IF w # NULL /\ tree.red[w]
     THEN LET t == Rotated(Coloured(Coloured(tree, w, FALSE), p, TRUE), p, s)
          IN [tree |-> t, w |-> t[Other(s)][p]]
     ELSE [tree |-> tree, w |-> w]

(* Its outer child is black: the inner one is rotated to the outside.      *)
(* Mutation: without the rotation.                                         *)
SiblingLeft(t, w, p, s) == [tree |-> t, w |-> w]
OuterRed(t, w, p, s) ==
  IF t.red[t[Other(s)][w]] THEN [tree |-> t, w |-> w]
  ELSE LET t1 == Rotated(Coloured(Coloured(t, t[s][w], FALSE), w, TRUE),
                         w, Other(s))
       IN [tree |-> t1, w |-> t1[Other(s)][p]]

DeleteFix ==
  /\ pc = "delete" /\ ~crashed /\ BlackMissing
  /\ LET p == tree.parent[x]
         s == SideOf(tree, x, p)
         t == Sibling(s).tree
         w == Sibling(s).w
     IN IF w \in {Nil, NULL}
        THEN crashed' = TRUE /\ UNCHANGED <<tree, x>>
        ELSE /\ IF ~t.red[t.left[w]] /\ ~t.red[t.right[w]]
                THEN tree' = Coloured(t, w, TRUE) /\ x' = p
                ELSE LET t1 == OuterRed(t, w, p, s).tree
                         v == OuterRed(t, w, p, s).w
                         t2 == Coloured(Coloured(Coloured(t1, v, t1.red[p]),
                                                 p, FALSE),
                                        t1[Other(s)][v], FALSE)
                     IN /\ tree' = Rotated(t2, p, s)
                        /\ x' = tree'.root
             /\ UNCHANGED crashed
  /\ UNCHANGED <<pc, gone>>

DeleteDone ==
  /\ pc = "delete" /\ ~BlackMissing
  /\ tree' = Freed(Coloured(tree, x, FALSE), gone)
  /\ x' = Nil /\ pc' = "idle" /\ gone' = Nil
  /\ UNCHANGED crashed

Next ==
  \/ \E k \in Keys : Insert(k) \/ Delete(k)
  \/ InsertFix \/ InsertDone \/ DeleteFix \/ DeleteDone

Spec == Init /\ [][Next]_vars
Fairness == WF_vars(InsertFix \/ InsertDone \/ DeleteFix \/ DeleteDone)

-----------------------------------------------------------------------------
TypeOK ==
  /\ tree \in [root : Nodes, size : 0 .. Cardinality(Keys),
               left : [Nodes -> Nodes \cup {NULL}],
               right : [Nodes -> Nodes \cup {NULL}],
               parent : [Nodes -> Nodes], red : [Nodes -> BOOLEAN]]
  /\ x \in Nodes /\ gone \in Nodes /\ pc \in {"idle", "insert", "delete"} /\ crashed \in BOOLEAN

(* Parents and children agree.                                             *)
Linked ==
  /\ tree.root # Nil => tree.parent[tree.root] = Nil
  /\ \A n \in Members, s \in Sides :
       LET c == tree[s][n] IN c # Nil => c \in Members /\ tree.parent[c] = n

(* Black nodes on the way down from n, if it is the same on every way.     *)
BlackHeights(n) ==
  LET heights[k \in Nodes] ==
        IF k = Nil THEN {0}
        ELSE {h + (IF tree.red[k] THEN 0 ELSE 1) :
                h \in heights[tree.left[k]] \cup heights[tree.right[k]]}
  IN heights[n]

(* What rbtree_check_sanity checks, after any sequence of insertions and   *)
(* deletions: a search tree whose links agree, of the right size, whose    *)
(* red nodes have black children and whose paths have as many black nodes, *)
(* so that no path is longer than twice another (rbtree.c:556-667).        *)
Sane ==
  /\ ~crashed
  /\ pc = "idle" =>
       /\ Linked
       /\ tree.size = Cardinality(Members)
       /\ \A n \in Members :
            /\ \A m \in Below(tree.left[n]) : m < n
            /\ \A m \in Below(tree.right[n]) : m > n
            /\ tree.red[n] => ~tree.red[tree.left[n]] /\ ~tree.red[tree.right[n]]
       /\ ~tree.red[Nil]
       /\ Cardinality(BlackHeights(tree.root)) = 1

(* The tree holds what was inserted and not deleted; rotations and the     *)
(* splicing of a successor lose no node (rbtree_check.c:114-147).  It is   *)
(* the set of a sorted index that nobody iterates through.                 *)
Set == INSTANCE SortedIndex WITH members <- Members, at <- -1
SetStep == [\E k \in Keys : Set!Add(k) \/ Set!Remove(k)]_Members
IsOrderedSet == Set!Init /\ [][SetStep]_Members

(* The loops end.                                                          *)
LoopsEnd == []<>(pc = "idle")
=============================================================================
