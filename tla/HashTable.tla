------------------------------ MODULE HashTable ------------------------------
(***************************************************************************)
(* Y/util/yhash.c and Y/util/yprimes.c: chains of nodes in a table that    *)
(* grows and shrinks between sizes from a list of primes.  Keys hash to    *)
(* themselves (y_int_hash).  Each key and value handed to the table is a   *)
(* pointer that it must pass to the destroy functions once, unless it is   *)
(* stolen; the pointers it still has to destroy are `owned'.               *)
(***************************************************************************)
EXTENDS Naturals, Sequences, FiniteSets, SequencesExt, TLC

CONSTANTS Keys, Pointers,
          Primes     \* the sizes, rising; the first is HASH_TABLE_MIN_SIZE

VARIABLES
  nodes,      \* chains, by slot
  nnodes,
  owned,      \* key pointers and value pointers to be destroyed
  twice       \* something was destroyed that was not owned

vars == <<nodes, nnodes, owned, twice>>
Size == Cardinality(DOMAIN nodes)
MinSize == Primes[1]
MaxSize == Primes[Len(Primes)]
KeyPtr(p) == <<"key", p>>
ValuePtr(p) == <<"value", p>>

Init ==
  /\ nodes = [i \in 0 .. MinSize - 1 |-> <<>>] /\ nnodes = 0
  /\ owned = {} /\ twice = FALSE

(* y_spaced_primes_closest.                                                *)
SpacedPrimesClosest(n) ==
  LET larger == {i \in 1 .. Len(Primes) : Primes[i] > n}
  IN IF larger = {} THEN MaxSize ELSE Primes[CHOOSE i \in larger : \A j \in larger : i <= j]

(* y_hash_table_resize: each node goes to the head of its new chain.       *)
(* Mutation: a node keeps its slot.                                        *)
OldSlot(k, oldslot, newsize) == oldslot % newsize
SlotFor(k, oldslot, newsize) == k % newsize
Rehashed(tab, newsize) ==
  LET oldsize == Cardinality(DOMAIN tab)
      into[i \in 0 .. oldsize] ==
        IF i = 0 THEN [j \in 0 .. newsize - 1 |-> <<>>]
        ELSE LET t == into[i - 1]
                 moved(j) == SelectSeq(tab[i - 1], LAMBDA e : SlotFor(e.k, i - 1, newsize) = j)
             IN [j \in 0 .. newsize - 1 |-> Reverse(moved(j)) \o t[j]]
  IN into[oldsize]

(* Y_HASH_TABLE_RESIZE.                                                    *)
Resized(tab, n) ==
  LET size == Cardinality(DOMAIN tab)
  IN IF \/ size >= 3 * n /\ size > MinSize
        \/ 3 * size <= n /\ size < MaxSize
     THEN Rehashed(tab, SpacedPrimesClosest(n))
     ELSE tab

(* y_hash_table_lookup_node.                                               *)
Slot(k) == k % Size
Places(k) == {i \in 1 .. Len(nodes[Slot(k)]) : nodes[Slot(k)][i].k = k}
Present(k) == Places(k) # {}
Place(k) == CHOOSE i \in Places(k) : \A j \in Places(k) : i <= j
Lookup(k) == nodes[Slot(k)][Place(k)]

FreshPointers == {p \in Pointers : KeyPtr(p) \notin owned /\ ValuePtr(p) \notin owned}
Destroys(ps) == twice' = (twice \/ ps \ owned # {})

AddNode(k, p) ==
  /\ ~Present(k)
  /\ nodes' = Resized([nodes EXCEPT ![Slot(k)] = Append(@, [k |-> k, key |-> p, value |-> p])],
                      nnodes + 1)
  /\ nnodes' = nnodes + 1
  /\ owned' = owned \cup {KeyPtr(p), ValuePtr(p)}
  /\ UNCHANGED twice

(* y_hash_table_insert keeps the key that is there and destroys the new    *)
(* one, ...                                                                *)
(* Mutation: it destroys the key that stays.                               *)
OldKey(k, p) == KeyPtr(Lookup(k).key)
PassedKey(k, p) == KeyPtr(p)
Insert(k, p) ==
  \/ AddNode(k, p)
  \/ /\ Present(k)
     /\ nodes' = [nodes EXCEPT ![Slot(k)][Place(k)].value = p]
     /\ LET gone == {PassedKey(k, p), ValuePtr(Lookup(k).value)} IN
          owned' = (owned \cup {KeyPtr(p), ValuePtr(p)}) \ gone
     /\ UNCHANGED <<nnodes, twice>>

(* ... y_hash_table_replace puts the new one in its place.                 *)
ReplaceEntry(k, p) ==
  \/ AddNode(k, p)
  \/ /\ Present(k)
     /\ nodes' = [nodes EXCEPT ![Slot(k)][Place(k)].value = p, ![Slot(k)][Place(k)].key = p]
     /\ LET gone == {KeyPtr(Lookup(k).key), ValuePtr(Lookup(k).value)} IN
          owned' = (owned \ gone) \cup {KeyPtr(p), ValuePtr(p)} /\ Destroys(gone)
     /\ UNCHANGED nnodes

(* Removed and stolen nodes differ in who destroys what was in them.       *)
PointersOf(es) == {KeyPtr(e.key) : e \in es} \cup {ValuePtr(e.value) : e \in es}

RemoveOrSteal(k, notify) ==
  /\ Present(k)
  /\ nodes' = Resized([nodes EXCEPT ![Slot(k)] = RemoveAt(@, Place(k))], nnodes - 1)
  /\ nnodes' = nnodes - 1
  /\ owned' = owned \ PointersOf({Lookup(k)})
  /\ IF notify THEN Destroys(PointersOf({Lookup(k)})) ELSE UNCHANGED twice

(* y_hash_table_foreach_remove_or_steal, with a function that chooses the  *)
(* entries of some keys.  Mutation: the count is not kept.                 *)
Uncounted(n) == nnodes
CountedOff(n) == nnodes - n
ForeachRemoveOrSteal(ks, notify) ==
  LET kept == [i \in DOMAIN nodes |-> SelectSeq(nodes[i], LAMBDA e : e.k \notin ks)]
      gone == {e \in UNION {ToSet(nodes[i]) : i \in DOMAIN nodes} : e.k \in ks}
  IN /\ nodes' = Resized(kept, CountedOff(Cardinality(gone)))
     /\ nnodes' = CountedOff(Cardinality(gone))
     /\ owned' = owned \ PointersOf(gone)
     /\ IF notify THEN Destroys(PointersOf(gone)) ELSE UNCHANGED twice

(* y_hash_table_destroy, and a table made anew.                            *)
Destroy ==
  /\ nnodes > 0
  /\ LET all == UNION {ToSet(nodes[i]) : i \in DOMAIN nodes}
     IN Destroys(PointersOf(all)) /\ owned' = owned \ PointersOf(all)
  /\ nodes' = [i \in 0 .. MinSize - 1 |-> <<>>] /\ nnodes' = 0

Next ==
  \/ \E k \in Keys, p \in FreshPointers : Insert(k, p) \/ ReplaceEntry(k, p)
  \/ \E k \in Keys, notify \in BOOLEAN : RemoveOrSteal(k, notify)
  \/ \E ks \in SUBSET Keys, notify \in BOOLEAN : ForeachRemoveOrSteal(ks, notify)
  \/ Destroy

Spec == Init /\ [][Next]_vars

-----------------------------------------------------------------------------
Entries == UNION {{<<i, j>> : j \in 1 .. Len(nodes[i])} : i \in DOMAIN nodes}
TypeOK ==
  /\ DOMAIN nodes = 0 .. Size - 1 /\ Size \in ToSet(Primes)
  /\ \A e \in Entries : nodes[e[1]][e[2]] \in [k : Keys, key : Pointers, value : Pointers]
  /\ twice \in BOOLEAN

(* Every entry can be found again, is counted, and is owned once.          *)
Consistent ==
  /\ ~twice
  /\ nnodes = Cardinality(Entries)
  /\ \A e \in Entries : LET x == nodes[e[1]][e[2]] IN Present(x.k) /\ Lookup(x.k) = x
  /\ owned = PointersOf({nodes[e[1]][e[2]] : e \in Entries})
  /\ Cardinality(owned) = 2 * nnodes

(* What the hash table of Y/util/yhash.h promises: to each key that is in  *)
(* it belong the key pointer and the value that were put there last.       *)
Dict == [k \in {k \in Keys : Present(k)} |->
           [key |-> Lookup(k).key, value |-> Lookup(k).value]]
Puts(k, p) == Dict' = (k :> [key |-> p, value |-> p]) @@ Dict
SetsValue(k, p) == Dict' = [Dict EXCEPT ![k].value = p]
TakesOut(ks) == Dict' = [k \in DOMAIN Dict \ ks |-> Dict[k]]
DictStep ==
  [\/ \E p \in Pointers : \/ \E k \in Keys : Puts(k, p)
                         \/ \E k \in DOMAIN Dict : SetsValue(k, p)
   \/ \E ks \in SUBSET DOMAIN Dict : TakesOut(ks)]_Dict
IsDictionary == Dict = <<>> /\ [][DictStep]_Dict
=============================================================================
