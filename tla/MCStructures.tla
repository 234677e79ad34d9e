---------------------------- MODULE MCStructures -----------------------------
(***************************************************************************)
(* The data structures of Y/util at work, one at a time: each is a module  *)
(* of its own with a contract of its own, on a small set of keys, objects  *)
(* or bytes.                                                               *)
(***************************************************************************)
EXTENDS Naturals, Sequences

CONSTANTS 
  absent, junk,
  AnyDeleted   \* whether nodes are deleted that RBTree says cannot be

VARIABLES
  which,   \* the component at work
  q_first, q_last, q_next, q_time, q_nextId, q_taken,
  r_tree, r_x, r_gone, r_pc, r_crashed,
  d_buf, d_mem, d_free, d_out,
  i_tree, i_path, i_pc, i_iter,
  z_index, z_top, z_bottom, z_above, z_below, z_cursor,
  l_node, l_head, l_tail, l_length, l_walk, l_destroying, l_freed,
  h_nodes, h_nnodes, h_owned, h_twice

q_vars == <<
  q_first, q_last, q_next, q_time, q_nextId, q_taken>>
r_vars == <<
  r_tree, r_x, r_gone, r_pc, r_crashed>>
d_vars == <<
  d_buf, d_mem, d_free, d_out>>
i_vars == <<
  i_tree, i_path, i_pc, i_iter>>
z_vars == <<
  z_index, z_top, z_bottom, z_above, z_below, z_cursor>>
l_vars == <<
  l_node, l_head, l_tail, l_length, l_walk, l_destroying, l_freed>>
h_vars == <<
  h_nodes, h_nnodes, h_owned, h_twice>>
vars == <<which, q_vars, r_vars, d_vars, i_vars, z_vars, l_vars, h_vars>>

Events == INSTANCE PQueue WITH
  Times <- 0 .. 2, MaxId <- 5, first <- q_first, last <- q_last, next <-
  q_next, time <- q_time, nextId <- q_nextId, taken <- q_taken

Tree == INSTANCE RBTree WITH
  Keys <- 1 .. 5, AnyDeleted <- AnyDeleted, tree <- r_tree, x <- r_x, gone
  <- r_gone, pc <- r_pc, crashed <- r_crashed

Bytes == INSTANCE DBuffer WITH
  Buffers <- {"b1", "b2"}, Elements <- 1 .. 8, Byte <- {0, 1}, Junk <- junk,
  Size <- 2, Threshold <- 1, MaxAdd <- 2, MaxLen <- 2, buf <- d_buf, mem <-
  d_mem, free <- d_free, out <- d_out

Sorted == INSTANCE Index WITH
  Keys <- 1 .. 5, tree <- i_tree, path <- i_path, pc <- i_pc, iter <- i_iter

Order == INSTANCE ZOrder WITH
  Objects <- {"o1", "o2", "o3"}, Nil <- absent, index <- z_index, top <- z_top,
  bottom <- z_bottom, above <- z_above, below <- z_below, cursor <- z_cursor

List == INSTANCE LList WITH
  Data <- {"a", "b"}, NodeIds <- 1 .. 3, Nil <- absent, Destructors <-
  {"adds"}, node <- l_node, head <- l_head, tail <- l_tail, length <-
  l_length, walk <- l_walk, destroying <- l_destroying, freed <- l_freed

Table == INSTANCE HashTable WITH
  Keys <- {1, 2, 6}, Pointers <- 1 .. 4, Primes <- <<1, 2, 5>>, nodes <-
  h_nodes, nnodes <- h_nnodes, owned <- h_owned, twice <- h_twice

Init ==
  /\ which \in {"pqueue", "rbtree", "dbuffer", "index", "zorder", "llist", "yhash"}
  /\ Events!Init
  /\ Tree!Init
  /\ Bytes!Init
  /\ Sorted!Init
  /\ Order!Init
  /\ List!Init
  /\ Table!Init

Next ==
  /\ UNCHANGED which
  /\ \/ which = "pqueue" /\ Events!Next /\ UNCHANGED <<r_vars, d_vars, i_vars, z_vars, l_vars, h_vars>>
     \/ which = "rbtree" /\ Tree!Next /\ UNCHANGED <<q_vars, d_vars, i_vars, z_vars, l_vars, h_vars>>
     \/ which = "dbuffer" /\ Bytes!Next /\ UNCHANGED <<q_vars, r_vars, i_vars, z_vars, l_vars, h_vars>>
     \/ which = "index" /\ Sorted!Next /\ UNCHANGED <<q_vars, r_vars, d_vars, z_vars, l_vars, h_vars>>
     \/ which = "zorder" /\ Order!Next /\ UNCHANGED <<q_vars, r_vars, d_vars, i_vars, l_vars, h_vars>>
     \/ which = "llist" /\ List!Next /\ UNCHANGED <<q_vars, r_vars, d_vars, i_vars, z_vars, h_vars>>
     \/ which = "yhash" /\ Table!Next /\ UNCHANGED <<q_vars, r_vars, d_vars, i_vars, z_vars, l_vars>>

Spec == Init /\ [][Next]_vars /\ Tree!Fairness /\ Sorted!Fairness

-----------------------------------------------------------------------------
(* Every variable has its type.                                            *)
TypeOK ==
  /\ Events!TypeOK /\ Tree!TypeOK /\ Bytes!TypeOK /\ Sorted!TypeOK
  /\ Order!TypeOK /\ List!TypeOK /\ Table!TypeOK

(* Both kinds of red-black tree (rbtree.c and index.c) are search trees,   *)
(* balanced, and count their nodes, between any two calls: what            *)
(* rbtree_check and index_verify look for.                                 *)
TreesBalanced == Tree!Sane /\ Sorted!Verified

(* The lists are linked in both directions as far as they have two, their  *)
(* first and last nodes are the ends of the chain, and what counts or      *)
(* indexes the nodes agrees with them (pqueue.c, zorder.c, llist.c,        *)
(* yhash.c); the lengths and offsets of buffers and of their elements add  *)
(* up, an element is in one place only, and a read gives the first bytes   *)
(* (dbuffer.c).                                                            *)
LinksAgree ==
  /\ Events!ListShape /\ Order!Agrees /\ List!Sane /\ Table!Consistent
  /\ Bytes!Accounting /\ Bytes!ElementsOnce /\ Bytes!ReadsAgree

(* Each structure implements its abstract specification: the set of timed  *)
(* events, the ordered set, the queues of bytes, the sorted index with its *)
(* iterator, the z-order, the list and the dictionary.  It begins as that  *)
(* does, and each of its steps is one of that, or none.                    *)
KeepContracts ==
  /\ Events!Abstract!Init /\ Tree!Set!Init /\ Bytes!Queue!Init
  /\ Sorted!Abstract!Init /\ Order!Order!Init /\ List!List!Init
  /\ Table!Dict = <<>>
  /\ [][/\ which = "pqueue" => Events!Abstract!Step
        /\ which = "rbtree" => Tree!SetStep
        /\ which = "dbuffer" => Bytes!Queue!Step
        /\ which = "index" => Sorted!Abstract!Step
        /\ which = "zorder" => Order!Order!Step
        /\ which = "llist" => List!List!Step
        /\ which = "yhash" => Table!DictStep]_vars

(* The loops that repair a tree after an insertion or a removal end.       *)
LoopsEnd == []<>(r_pc = "idle") /\ []<>(i_pc = "idle")
=============================================================================
