---------------------------- MODULE PQueueProofs ----------------------------
(***************************************************************************)
(* Proofs about PQueue, for any number of events and any times: that the   *)
(* list holds what is allocated, sorted, and ends where last points; and   *)
(* that it implements TimedQueue.                                          *)
(***************************************************************************)
EXTENDS PQueue, TLAPS, FiniteSetTheorems, WellFoundedInduction

(* Times are numbers here; what counts of them is their order.             *)
Numbers == Times \subseteq Nat /\ MaxId \in Nat

(* m comes before n in the list.                                           *)
Earlier(m, n) == time[m] < time[n] \/ (time[m] = time[n] /\ m < n)

TypeInv ==
  /\ nextId \in Nat \ {0} /\ nextId <= MaxId + 1 /\ taken \in 0 .. MaxId
  /\ next \in [Nodes -> Nodes \cup {Nil}] /\ time \in [Nodes -> Times]
  /\ Nodes \subseteq 1 .. nextId - 1
  /\ first \in Nodes \cup {Nil} /\ last \in Nodes \cup {Nil}

(* next is the successor in that order, first the least, last the greatest.*)
(* This says what ListShape says without following the list, and so one    *)
(* step at a time.                                                         *)
Chain ==
  /\ Nodes = {} => first = Nil /\ last = Nil
  /\ Nodes # {} => first # Nil /\ last # Nil
  /\ \A n \in Nodes : n # first => Earlier(first, n)
  /\ \A n \in Nodes : n # last => Earlier(n, last)
  /\ \A n \in Nodes : next[n] = Nil <=> n = last
  /\ \A n \in Nodes : next[n] # Nil =>
       /\ Earlier(n, next[n])
       /\ \A m \in Nodes : Earlier(n, m) => m = next[n] \/ Earlier(next[n], m)
  /\ \A n \in Nodes : n # first => \E k \in Nodes : next[k] = n

IInv == TypeInv /\ Chain

-----------------------------------------------------------------------------
(* The order is total, and a node without successors is last.              *)
LEMMA Order ==
  ASSUME Numbers, IInv
  PROVE  /\ \A n \in Nodes : ~Earlier(n, n) /\ n \in Nat /\ time[n] \in Nat /\ n # Nil
         /\ \A m, n \in Nodes : m = n \/ Earlier(m, n) \/ Earlier(n, m)
         /\ \A m, n \in Nodes : Earlier(m, n) => ~Earlier(n, m)
         /\ \A k, m, n \in Nodes : Earlier(k, m) /\ Earlier(m, n) => Earlier(k, n)
<1>1. ASSUME NEW n \in Nodes
      PROVE  n \in Nat /\ time[n] \in Nat /\ n # Nil
  <2>1. n \in 1 .. nextId - 1 /\ nextId \in Nat
    BY DEF IInv, TypeInv
  <2>2. time[n] \in Nat
    BY DEF IInv, TypeInv, Numbers
  <2>3. n \in Nat /\ n # 0
    BY <2>1
  <2> QED BY <2>2, <2>3 DEF Nil
<1> QED BY <1>1 DEF Earlier

(* The nodes after k, in the order.                                        *)
After(k) == {m \in Nodes : Earlier(k, m)}

(* A set of nodes has a last one: going on from it leaves the set.         *)
LEMMA LastOf ==
  ASSUME Numbers, IInv, NEW D \in SUBSET Nodes, D # {}
  PROVE  \E k \in D : next[k] \notin D
<1> DEFINE R == StrictSubsetOrdering(Nodes)
           F == FiniteSubsetsOf(Nodes)
           T == {After(k) : k \in D}
<1>1. IsWellFoundedOn(R, F)
  BY FS_StrictSubsetOrderingWellFounded
<1>2. T \subseteq F
  <2>1. IsFiniteSet(1 .. nextId - 1)
    BY FS_Interval DEF IInv, TypeInv
  <2>2. \A S \in SUBSET Nodes : IsFiniteSet(S)
    BY <2>1, FS_Subset DEF IInv, TypeInv
  <2> QED BY <2>2 DEF FiniteSubsetsOf, After
<1>3. PICK t \in T : \A u \in T : ~(<<u, t>> \in R)
  <2> HIDE DEF R, F
  <2> T # {}
    OBVIOUS
  <2> HIDE DEF T
  <2> QED BY <1>1, <1>2, WFMin
<1>4. PICK k \in D : t = After(k)
  OBVIOUS
<1>5. SUFFICES ASSUME next[k] \in D PROVE FALSE
  BY <1>4
<1>6. next[k] # Nil /\ next[k] \in Nodes /\ Earlier(k, next[k])
  BY <1>5, Order DEF IInv, Chain
<1>7. After(next[k]) \subseteq After(k) /\ next[k] \in After(k) /\ next[k] \notin After(next[k])
  BY <1>6, Order DEF After
<1>8. <<After(next[k]), After(k)>> \in R
  BY <1>7 DEF StrictSubsetOrdering, After
<1> QED BY <1>3, <1>4, <1>5, <1>8

-----------------------------------------------------------------------------
(* The list reaches every node.                                            *)
Reaches(f) ==
  f = [k \in Nodes \cup {Nil} |-> IF k = Nil THEN {} ELSE {k} \cup f[next[k]]]

Rest(k) == IF k = Nil THEN {} ELSE {k} \cup After(k)

LEMMA RestStep ==
  ASSUME Numbers, IInv, NEW k \in Nodes
  PROVE  /\ next[k] \in Nodes \cup {Nil} /\ k # Nil
         /\ Rest(k) = {k} \cup Rest(next[k])
<1>1. next[k] \in Nodes \cup {Nil} /\ k # Nil
  BY Order DEF IInv, TypeInv
<1>2. CASE next[k] = Nil
  <2>1. k = last
    BY <1>2 DEF IInv, Chain
  <2>2. After(k) = {}
    <3>1. ASSUME NEW m \in After(k) PROVE FALSE
      <4>1. m \in Nodes /\ Earlier(k, m)
        BY <3>1 DEF After
      <4>2. ~Earlier(m, k) /\ m # k
        BY <4>1, Order
      <4>3. Earlier(m, k)
        BY <2>1, <4>1, <4>2 DEF IInv, Chain
      <4> QED BY <4>2, <4>3
    <3> QED BY <3>1
  <2> QED BY <1>1, <1>2, <2>2 DEF Rest
<1>3. CASE next[k] # Nil
  <2>1. /\ next[k] \in Nodes /\ Earlier(k, next[k])
        /\ \A m \in Nodes : Earlier(k, m) => m = next[k] \/ Earlier(next[k], m)
    BY <1>1, <1>3 DEF IInv, Chain
  <2>2. After(k) = {next[k]} \cup After(next[k])
    BY <2>1, Order DEF After
  <2> QED BY <1>1, <1>3, <2>2 DEF Rest
<1> QED BY <1>2, <1>3

LEMMA Reached ==
  ASSUME Numbers, IInv, NEW f, Reaches(f)
  PROVE  \A k \in Nodes \cup {Nil} : f[k] = Rest(k)
<1>1. Nil \notin Nodes /\ f[Nil] = {} /\ Rest(Nil) = {}
  BY Order DEF Reaches, Rest
<1>2. \A k \in Nodes : f[k] = {k} \cup f[next[k]]
  BY <1>1 DEF Reaches
<1> DEFINE D == {k \in Nodes : f[k] # Rest(k)}
<1>3. SUFFICES ASSUME D # {} PROVE FALSE
  BY <1>1
<1>4. PICK k \in D : next[k] \notin D
  <2> D \in SUBSET Nodes
    OBVIOUS
  <2> HIDE DEF D
  <2> QED BY <1>3, LastOf
<1>5. next[k] \in Nodes \cup {Nil} /\ Rest(k) = {k} \cup Rest(next[k])
  BY RestStep
<1>6. f[next[k]] = Rest(next[k])
  BY <1>1, <1>4, <1>5
<1> QED BY <1>2, <1>5, <1>6

LEMMA ReachesAll ==
  ASSUME Numbers, IInv
  PROVE  From(first) = Nodes
<1> DEFINE f == [k \in Nodes \cup {Nil} |-> Rest(k)]
           g == CHOOSE h : Reaches(h)
<1>1. Reaches(f)
  <2>1. Nil \notin Nodes /\ Rest(Nil) = {}
    BY Order DEF Rest
  <2>2. \A k \in Nodes : next[k] \in Nodes \cup {Nil} /\ Rest(k) = {k} \cup Rest(next[k])
    BY RestStep
  <2>3. \A k \in Nodes \cup {Nil} :
          f[k] = IF k = Nil THEN {} ELSE {k} \cup f[next[k]]
    BY <2>1, <2>2
  <2> QED BY <2>3 DEF Reaches
<1>2. Reaches(g)
  <2> HIDE DEF f
  <2> QED BY <1>1
<1>3. From(first) = g[first]
  BY DEF From, Reaches
<1>4. first \in Nodes \cup {Nil}
  BY DEF IInv, TypeInv
<1>5. g[first] = Rest(first)
  <2> HIDE DEF g
  <2> QED BY <1>2, <1>4, Reached
<1>6. Rest(first) = Nodes
  <2>1. CASE first = Nil
    BY <2>1 DEF IInv, Chain, Rest
  <2>2. CASE first # Nil
    <3>1. \A n \in Nodes : n = first \/ n \in After(first)
      BY DEF IInv, Chain, After
    <3> QED BY <1>4, <2>2, <3>1 DEF Rest, After
  <2> QED BY <2>1, <2>2
<1> QED BY <1>3, <1>5, <1>6

-----------------------------------------------------------------------------
(* The loop of pqueueInsert stops between the times that it should.        *)
Stops(f, t) ==
  f = [k \in Nodes |->
         IF next[k] = Nil THEN k
         ELSE IF t < time[next[k]] THEN k ELSE f[next[k]]]

Between(k, t) ==
  k \in Nodes /\ time[k] <= t /\ next[k] # Nil /\ t < time[next[k]]

LEMMA Stopped ==
  ASSUME Numbers, IInv, NEW t \in Nat, first # Nil, time[first] <= t, t < time[last]
  PROVE  /\ \E k \in Nodes : Between(k, t)
         /\ \A f : Stops(f, t) => Between(f[first], t)
<1>1. first \in Nodes /\ last \in Nodes
  BY DEF IInv, TypeInv, Chain
<1>2. ASSUME NEW k \in Nodes, time[k] <= t
      PROVE  next[k] # Nil /\ next[k] \in Nodes /\ time[next[k]] \in Nat
  <2>1. k # last
    BY <1>1, <1>2, Order
  <2>2. next[k] # Nil /\ next[k] \in Nodes
    BY <2>1 DEF IInv, TypeInv, Chain
  <2> QED BY <2>2, Order
<1>3. \E k \in Nodes : Between(k, t)
  <2> DEFINE D == {k \in Nodes : time[k] <= t}
  <2>1. D \in SUBSET Nodes /\ D # {}
    BY <1>1
  <2>2. PICK k \in D : next[k] \notin D
    <3> HIDE DEF D
    <3> QED BY <2>1, LastOf
  <2>3. next[k] # Nil /\ next[k] \in Nodes /\ time[next[k]] \in Nat
    BY <1>2
  <2> QED BY <2>2, <2>3 DEF Between
<1>4. ASSUME NEW f, Stops(f, t) PROVE Between(f[first], t)
  <2> DEFINE D == {k \in Nodes : time[k] <= t /\ ~Between(f[k], t)}
  <2>1. SUFFICES ASSUME D # {} PROVE FALSE
    BY <1>1
  <2>2. PICK k \in D : next[k] \notin D
    <3> D \in SUBSET Nodes
      OBVIOUS
    <3> HIDE DEF D
    <3> QED BY <2>1, LastOf
  <2>3. next[k] # Nil /\ next[k] \in Nodes /\ time[next[k]] \in Nat
    BY <1>2
  <2>4. f[k] = IF t < time[next[k]] THEN k ELSE f[next[k]]
    BY <1>4, <2>3 DEF Stops
  <2>5. CASE t < time[next[k]]
    BY <2>3, <2>4, <2>5 DEF Between
  <2>6. CASE ~(t < time[next[k]])
    BY <2>2, <2>3, <2>4, <2>6
  <2> QED BY <2>5, <2>6
<1> QED BY <1>3, <1>4

LEMMA StopsBetween ==
  ASSUME Numbers, IInv, NEW t \in Nat, first # Nil, time[first] <= t, t < time[last]
  PROVE  Between(StopsAt(t), t)
<1> DEFINE g == CHOOSE h : Stops(h, t)
<1>1. PICK m \in Nodes : Between(m, t)
  BY Stopped
<1> DEFINE f == [k \in Nodes |-> IF time[k] <= t THEN m ELSE k]
<1>2. Stops(f, t)
  <2>1. ASSUME NEW k \in Nodes
        PROVE  f[k] = IF next[k] = Nil THEN k
                      ELSE IF t < time[next[k]] THEN k ELSE f[next[k]]
    <3>1. k \in Nat /\ time[k] \in Nat /\ m \in Nat /\ time[m] \in Nat
      BY Order
    <3>2. next[k] # Nil => next[k] \in Nodes /\ next[k] \in Nat /\ time[next[k]] \in Nat
      BY Order DEF IInv, TypeInv
    <3>3. next[m] \in Nodes /\ time[next[m]] \in Nat /\ t < time[next[m]] /\ time[m] <= t
          /\ next[m] # Nil
      BY <1>1, Order DEF IInv, TypeInv, Between
    <3>4. CASE time[k] <= t /\ k # m
      <4>1. ~Earlier(m, k)
        <5>1. Earlier(m, k) => k = next[m] \/ Earlier(next[m], k)
          BY <3>3 DEF IInv, Chain
        <5> QED BY <3>1, <3>3, <3>4, <5>1 DEF Earlier
      <4>2. Earlier(k, m)
        BY <3>4, <4>1, Order
      <4>3. next[k] # Nil /\ (m = next[k] \/ Earlier(next[k], m))
        <5>1. k # last
          BY <3>1, <3>4, Order
        <5> QED BY <4>2, <5>1 DEF IInv, Chain
      <4>4. ~(t < time[next[k]])
        BY <3>1, <3>2, <3>3, <4>3 DEF Earlier
      <4> QED BY <3>1, <3>2, <3>4, <4>3, <4>4
    <3>5. CASE k = m
      BY <3>1, <3>3, <3>5
    <3>6. CASE ~(time[k] <= t)
      <4>1. next[k] # Nil => Earlier(k, next[k])
        BY DEF IInv, Chain
      <4>2. next[k] # Nil => t < time[next[k]]
        BY <3>1, <3>2, <3>6, <4>1 DEF Earlier
      <4> QED BY <3>6, <4>2
    <3> QED BY <3>4, <3>5, <3>6
  <2> QED BY <2>1 DEF Stops
<1>3. Stops(g, t)
  <2> HIDE DEF f
  <2> QED BY <1>2
<1>4. StopsAt(t) = g[first]
  BY DEF StopsAt, Stops
<1>5. Between(g[first], t)
  <2> HIDE DEF g
  <2> QED BY <1>3, Stopped
<1> QED BY <1>4, <1>5


-----------------------------------------------------------------------------
(* The numbers of an insertion.                                            *)
LEMMA InsertNumbers ==
  ASSUME Numbers, IInv, NEW t \in Times, Insert(t)
  PROVE  /\ nextId \notin Nodes /\ nextId # Nil /\ nextId \in Nat
         /\ \A m \in Nodes : m < nextId
         /\ Nodes' = Nodes \cup {nextId}
         /\ time' = [m \in Nodes \cup {nextId} |-> IF m = nextId THEN t ELSE time[m]]
<1>1. nextId \notin Nodes /\ nextId # Nil /\ nextId \in Nat
  BY DEF IInv, TypeInv, Nil
<1>2. \A m \in Nodes : m < nextId
  BY <1>1 DEF IInv, TypeInv
<1>3. time' = [m \in Nodes \cup {nextId} |-> IF m = nextId THEN t ELSE time[m]]
  <2>1. time' = With(time, nextId, t) /\ DOMAIN time = Nodes
    BY DEF Insert, IInv, TypeInv
  <2> QED BY <2>1 DEF With
<1>4. Nodes' = Nodes \cup {nextId}
  <2>1. CASE first = Nil
    <3>1. Nodes = {} /\ next' = [m \in {nextId} |-> Nil]
      BY <2>1 DEF Insert, LinkOnly, IInv, Chain
    <3> QED BY <3>1 DEF Nodes
  <2>2. CASE first # Nil /\ BelongsAtEnd(t)
    <3>1. next' = With([next EXCEPT ![last] = nextId], nextId, Nil)
      BY <2>2 DEF Insert, LinkLast
    <3>2. DOMAIN [next EXCEPT ![last] = nextId] = Nodes
      BY DEF Nodes
    <3> QED BY <3>1, <3>2 DEF With, Nodes
  <2>3. CASE first # Nil /\ ~BelongsAtEnd(t) /\ t < time[first]
    <3>1. next' = With(next, nextId, first)
      BY <2>3 DEF Insert, LinkFirst
    <3> QED BY <3>1 DEF With, Nodes
  <2>4. CASE first # Nil /\ ~BelongsAtEnd(t) /\ ~(t < time[first])
    <3> DEFINE k == StopsAt(t)
    <3>1. next' = With([next EXCEPT ![k] = nextId], nextId, next[k])
      BY <2>4 DEF Insert, LinkAfter
    <3> HIDE DEF k
    <3>2. DOMAIN [next EXCEPT ![k] = nextId] = Nodes
      BY DEF Nodes
    <3> QED BY <3>1, <3>2 DEF With, Nodes
  <2> QED BY <2>1, <2>2, <2>3, <2>4
<1> QED BY <1>1, <1>2, <1>3, <1>4

(* What an insertion does to the links, in each of its four cases.         *)
Linked(k, n) ==
  next' = [m \in Nodes \cup {n} |->
             IF m = n THEN next[k] ELSE IF m = k THEN n ELSE next[m]]

LEMMA InsertLinks ==
  ASSUME Numbers, IInv, NEW t \in Times, Insert(t)
  PROVE  LET n == nextId IN
    \/ /\ Nodes = {} /\ first' = n /\ last' = n /\ next' = [m \in {n} |-> Nil]
    \/ /\ first # Nil /\ t >= time[last] /\ first' = first /\ last' = n
       /\ next' = [m \in Nodes \cup {n} |->
                     IF m = n THEN Nil ELSE IF m = last THEN n ELSE next[m]]
    \/ /\ first # Nil /\ t < time[first] /\ first' = n /\ last' = last
       /\ next' = [m \in Nodes \cup {n} |-> IF m = n THEN first ELSE next[m]]
    \/ /\ first # Nil /\ first' = first /\ last' = last
       /\ \E k \in Nodes : Between(k, t) /\ Linked(k, n)
<1>1. nextId \notin Nodes
  BY InsertNumbers
<1>2. CASE first = Nil
  <2>1. Nodes = {} /\ first' = nextId /\ last' = nextId /\ next' = [m \in {nextId} |-> Nil]
    BY <1>2 DEF Insert, LinkOnly, IInv, Chain
  <2> QED BY <2>1
<1>3. CASE first # Nil /\ BelongsAtEnd(t)
  <2>1. /\ next' = With([next EXCEPT ![last] = nextId], nextId, Nil)
        /\ t >= time[last] /\ first' = first /\ last' = nextId
    BY <1>3 DEF Insert, LinkLast, BelongsAtEnd
  <2> DEFINE f == [next EXCEPT ![last] = nextId]
  <2>2. f = [m \in Nodes |-> IF m = last THEN nextId ELSE next[m]]
    BY DEF IInv, TypeInv
  <2> HIDE DEF f
  <2>3. next' = [m \in Nodes \cup {nextId} |-> IF m = nextId THEN Nil ELSE f[m]]
    BY <2>1, <2>2 DEF With, f
  <2> QED BY <1>3, <2>1, <2>2, <2>3
<1>4. CASE first # Nil /\ ~BelongsAtEnd(t) /\ t < time[first]
  <2>1. /\ next' = With(next, nextId, first)
        /\ first' = nextId /\ last' = last
    BY <1>4 DEF Insert, LinkFirst
  <2> QED BY <1>4, <2>1 DEF With, Nodes
<1>5. CASE first # Nil /\ ~BelongsAtEnd(t) /\ ~(t < time[first])
  <2>1. /\ next' = With([next EXCEPT ![StopsAt(t)] = nextId], nextId, next[StopsAt(t)])
        /\ first' = first /\ last' = last
    BY <1>5 DEF Insert, LinkAfter
  <2>2. time[first] \in Nat /\ time[last] \in Nat /\ t \in Nat
    <3>1. first \in Nodes /\ last \in Nodes
      BY <1>5 DEF IInv, TypeInv, Chain
    <3> QED BY <3>1, Order DEF Numbers
  <2>3. Between(StopsAt(t), t)
    <3>1. t < time[last] /\ time[first] <= t
      BY <1>5, <2>2 DEF BelongsAtEnd
    <3> QED BY <1>5, <2>2, <3>1, StopsBetween
  <2>4. PICK k \in Nodes : k = StopsAt(t)
    BY <2>3 DEF Between
  <2> DEFINE f == [next EXCEPT ![k] = nextId]
  <2>5. f = [m \in Nodes |-> IF m = k THEN nextId ELSE next[m]]
    BY DEF IInv, TypeInv
  <2> HIDE DEF f
  <2>6. next' = [m \in Nodes \cup {nextId} |-> IF m = nextId THEN next[k] ELSE f[m]]
    BY <2>1, <2>4, <2>5 DEF With, f
  <2>7. Linked(k, nextId)
    BY <2>5, <2>6 DEF Linked
  <2> QED BY <1>5, <2>1, <2>3, <2>4, <2>7
<1> QED BY <1>2, <1>3, <1>4, <1>5

LEMMA InsertOrder ==
  ASSUME Numbers, IInv, NEW t \in Times, Insert(t), NEW n, n = nextId
  PROVE  /\ \A k, m \in Nodes : Earlier(k, m)' <=> Earlier(k, m)
         /\ \A m \in Nodes : /\ Earlier(m, n)' <=> time[m] <= t
                             /\ Earlier(n, m)' <=> t < time[m]
<1>1. /\ \A m \in Nodes : time'[m] = time[m] /\ m < n /\ m \in Nat
      /\ time'[n] = t /\ t \in Nat /\ n \in Nat
      /\ \A m \in Nodes : time[m] \in Nat
  BY InsertNumbers, Order DEF Numbers
<1>2. ASSUME NEW k \in Nodes, NEW m \in Nodes PROVE Earlier(k, m)' <=> Earlier(k, m)
  BY <1>1 DEF Earlier
<1>3. ASSUME NEW m \in Nodes
      PROVE  /\ Earlier(m, n)' <=> time[m] <= t
             /\ Earlier(n, m)' <=> t < time[m]
  BY <1>1 DEF Earlier
<1> QED BY <1>2, <1>3

LEMMA InsertTypes ==
  ASSUME Numbers, IInv, NEW t \in Times, Insert(t)
  PROVE  TypeInv'
<1>1. PICK n \in Nat : n = nextId
  BY InsertNumbers
<1>2. /\ n # Nil /\ n <= MaxId /\ n # 0 /\ nextId' = n + 1 /\ taken' = taken
      /\ taken \in 0 .. MaxId /\ MaxId \in Nat
  BY <1>1, InsertNumbers DEF Insert, IInv, TypeInv, Numbers
<1>3. Nodes' = Nodes \cup {n} /\ time' \in [Nodes' -> Times]
  BY <1>1, InsertNumbers DEF IInv, TypeInv
<1>4. Nodes' \subseteq 1 .. nextId' - 1
  <2>1. \A m \in Nodes : m \in 1 .. n - 1
    BY <1>1 DEF IInv, TypeInv
  <2>2. \A m \in Nodes \cup {n} : m \in 1 .. n
    BY <1>2, <2>1
  <2>3. n = nextId' - 1
    BY <1>2
  <2> QED BY <1>3, <2>2, <2>3
<1>5. /\ next' \in [Nodes' -> Nodes' \cup {Nil}]
      /\ first' \in Nodes' \cup {Nil} /\ last' \in Nodes' \cup {Nil}
  <2>1. /\ next \in [Nodes -> Nodes \cup {Nil}]
        /\ first \in Nodes \cup {Nil} /\ last \in Nodes \cup {Nil}
    BY DEF IInv, TypeInv
  <2>2. \A k \in Nodes : Linked(k, n) =>
          next' \in [Nodes \cup {n} -> Nodes \cup {n} \cup {Nil}]
    BY <2>1 DEF Linked
  <2> QED BY <1>1, <1>3, <2>1, <2>2, InsertLinks
<1> QED BY <1>2, <1>3, <1>4, <1>5 DEF TypeInv

LEMMA InsertChain ==
  ASSUME Numbers, IInv, NEW t \in Times, Insert(t)
  PROVE  Chain'
<1>1. PICK n \in Nat : n = nextId
  BY InsertNumbers
<1>2. n \notin Nodes /\ n # Nil /\ Nil \notin Nodes /\ Nodes' = Nodes \cup {n}
  BY <1>1, InsertNumbers, Order
<1>3. /\ \A k, m \in Nodes : Earlier(k, m)' <=> Earlier(k, m)
      /\ \A m \in Nodes : /\ Earlier(m, n)' <=> time[m] <= t
                          /\ Earlier(n, m)' <=> t < time[m]
  BY <1>1, InsertOrder
<1>4. t \in Nat /\ \A m \in Nodes : time[m] \in Nat
  BY Order DEF Numbers
<1>5. \A k, m \in Nodes : Earlier(k, m) => time[k] <= time[m]
  BY <1>4 DEF Earlier
<1> PICK a, z : a = first /\ z = last
  OBVIOUS
<1>6. CASE /\ Nodes = {} /\ first' = n /\ last' = n /\ next' = [m \in {n} |-> Nil]
  BY <1>2, <1>6 DEF Chain
<1>7. CASE /\ first # Nil /\ t >= time[last] /\ first' = first /\ last' = n
           /\ next' = [m \in Nodes \cup {n} |->
                         IF m = n THEN Nil ELSE IF m = last THEN n ELSE next[m]]
  <2>1. /\ a \in Nodes /\ z \in Nodes /\ first' = a /\ time[z] <= t
        /\ next' = [m \in Nodes \cup {n} |->
                      IF m = n THEN Nil ELSE IF m = z THEN n ELSE next[m]]
    BY <1>4, <1>7 DEF IInv, TypeInv, Chain
  <2>2. ASSUME NEW m \in Nodes
        PROVE  Earlier(m, n)' /\ ~Earlier(n, m)'
    <3>1. m = z \/ time[m] <= time[z]
      BY <1>5, <2>1 DEF IInv, Chain
    <3>2. time[m] <= t
      BY <1>4, <2>1, <3>1
    <3> QED BY <1>3, <1>4, <3>2
  <2>3. \A m \in Nodes' : /\ m # a => Earlier(a, m)'
                          /\ m # n => Earlier(m, n)'
    BY <1>2, <1>3, <2>1, <2>2 DEF IInv, Chain
  <2>4. \A m \in Nodes' : /\ next'[m] = Nil <=> m = n
                          /\ m # a => \E k \in Nodes' : next'[k] = m
    BY <1>2, <2>1 DEF IInv, Chain
  <2>5. ASSUME NEW k \in Nodes', NEW q, q = next'[k], q # Nil
        PROVE  /\ Earlier(k, q)'
               /\ \A m \in Nodes' : Earlier(k, m)' => m = q \/ Earlier(q, m)'
    <3>1. CASE k = z
      BY <1>2, <1>3, <2>1, <2>2, <2>5, <3>1, Order DEF IInv, Chain
    <3>2. CASE k # z
      <4>1. k \in Nodes /\ q = next[k] /\ q \in Nodes
        BY <1>2, <2>1, <2>5, <3>2 DEF IInv, TypeInv
      <4> QED BY <1>2, <1>3, <2>2, <2>5, <4>1 DEF IInv, Chain
    <3> QED BY <3>1, <3>2
  <2>6. n \in Nodes' /\ last' = n
    BY <1>2, <1>7
  <2> QED BY <1>2, <2>1, <2>3, <2>4, <2>5, <2>6 DEF Chain
<1>8. CASE /\ first # Nil /\ t < time[first] /\ first' = n /\ last' = last
           /\ next' = [m \in Nodes \cup {n} |-> IF m = n THEN first ELSE next[m]]
  <2>1. /\ a \in Nodes /\ z \in Nodes /\ last' = z /\ t < time[a]
        /\ next' = [m \in Nodes \cup {n} |-> IF m = n THEN a ELSE next[m]]
    BY <1>4, <1>8 DEF IInv, TypeInv, Chain
  <2>2. ASSUME NEW m \in Nodes
        PROVE  ~Earlier(m, n)' /\ Earlier(n, m)'
    <3>1. m = a \/ time[a] <= time[m]
      BY <1>5, <2>1 DEF IInv, Chain
    <3>2. t < time[m]
      BY <1>4, <2>1, <3>1
    <3> QED BY <1>3, <1>4, <3>2
  <2>3. \A m \in Nodes' : /\ m # n => Earlier(n, m)'
                          /\ m # z => Earlier(m, z)'
    BY <1>2, <1>3, <2>1, <2>2 DEF IInv, Chain
  <2>4. \A m \in Nodes' : /\ next'[m] = Nil <=> m = z
                          /\ m # n => \E k \in Nodes' : next'[k] = m
    BY <1>2, <2>1 DEF IInv, Chain
  <2>5. ASSUME NEW k \in Nodes', NEW q, q = next'[k], q # Nil
        PROVE  /\ Earlier(k, q)'
               /\ \A m \in Nodes' : Earlier(k, m)' => m = q \/ Earlier(q, m)'
    <3>1. CASE k = n
      <4>1. q = a /\ \A m \in Nodes : m = a \/ Earlier(a, m)
        BY <2>1, <2>5, <3>1, <1>2 DEF IInv, Chain
      <4>2. ~Earlier(n, n)'
        BY <1>3, <1>4, <2>2, <3>1, <1>1, <1>2, InsertNumbers DEF Earlier
      <4> QED BY <1>2, <1>3, <2>1, <2>2, <3>1, <4>1, <4>2
    <3>2. CASE k # n
      <4>1. k \in Nodes /\ q = next[k] /\ q \in Nodes
        BY <1>2, <2>1, <2>5, <3>2 DEF IInv, TypeInv
      <4> QED BY <1>2, <1>3, <2>2, <2>5, <4>1 DEF IInv, Chain
    <3> QED BY <3>1, <3>2
  <2>6. n \in Nodes' /\ first' = n /\ last' = z /\ n # Nil /\ z # Nil
    BY <1>2, <1>8, <2>1
  <2>7. \A k \in Nodes' : next'[k] # Nil =>
          /\ Earlier(k, next[k])'
          /\ \A m \in Nodes' : Earlier(k, m)' => m = next'[k] \/ Earlier(next[k], m)'
    BY <2>5
  <2> QED BY <2>3, <2>4, <2>6, <2>7 DEF Chain
<1>9. ASSUME first # Nil, first' = first, last' = last,
             NEW k \in Nodes, Between(k, t), Linked(k, n)
      PROVE  Chain'
  <2>1. PICK p : p = next[k]
    OBVIOUS
  <2>2. /\ p \in Nodes /\ p # Nil /\ time[k] <= t /\ t < time[p] /\ k # z
        /\ a \in Nodes /\ z \in Nodes /\ first' = a /\ last' = z
    BY <1>9, <2>1, Order DEF IInv, TypeInv, Chain, Between
  <2>3. next' = [m \in Nodes \cup {n} |->
                  IF m = n THEN p ELSE IF m = k THEN n ELSE next[m]]
    BY <1>9, <2>1 DEF Linked
  <2>4. Earlier(k, n)' /\ Earlier(n, p)' /\ ~Earlier(n, n)'
    <3>1. ~Earlier(n, n)'
      BY <1>1, <1>2, InsertNumbers, <1>4 DEF Earlier
    <3> QED BY <1>3, <2>2, <3>1
  <2>5. ASSUME NEW m \in Nodes
        PROVE  /\ Earlier(m, n)' <=> m = k \/ Earlier(m, k)
               /\ Earlier(n, m)' <=> m = p \/ Earlier(p, m)
    <3>1. Earlier(k, m) => m = p \/ Earlier(p, m)
      BY <2>1, <2>2 DEF IInv, Chain
    <3>2. m = k \/ Earlier(m, k) \/ m = p \/ Earlier(p, m)
      BY <3>1, Order
    <3>3. m = k \/ Earlier(m, k) => time[m] <= t
      BY <1>4, <1>5, <2>2
    <3>4. m = p \/ Earlier(p, m) => t < time[m]
      BY <1>4, <1>5, <2>2
    <3> QED BY <1>3, <1>4, <3>2, <3>3, <3>4
  <2>6. \A m \in Nodes' : /\ m # a => Earlier(a, m)'
                          /\ m # z => Earlier(m, z)'
    <3>1. Earlier(a, n)'
      BY <2>2, <2>5 DEF IInv, Chain
    <3>2. Earlier(n, z)'
      BY <2>2, <2>5 DEF IInv, Chain
    <3> QED BY <1>2, <1>3, <2>2, <3>1, <3>2 DEF IInv, Chain
  <2>7. \A m \in Nodes' : next'[m] = Nil <=> m = z
    BY <1>2, <2>2, <2>3 DEF IInv, Chain
  <2>8. ASSUME NEW m \in Nodes', m # a PROVE \E j \in Nodes' : next'[j] = m
    <3>1. CASE m = n
      BY <1>2, <2>3, <3>1
    <3>2. CASE m = p
      BY <1>2, <2>3, <3>2
    <3>3. CASE m # n /\ m # p
      <4>1. PICK j \in Nodes : next[j] = m
        BY <1>2, <2>2, <2>8, <3>3 DEF IInv, Chain
      <4> QED BY <1>2, <2>1, <2>3, <3>3, <4>1
    <3> QED BY <3>1, <3>2, <3>3
  <2>9. ASSUME NEW j \in Nodes', NEW q, q = next'[j], q # Nil
        PROVE  /\ Earlier(j, q)'
               /\ \A m \in Nodes' : Earlier(j, m)' => m = q \/ Earlier(q, m)'
    <3>1. CASE j = n
      <4>1. q = p
        BY <1>2, <2>3, <2>9, <3>1
      <4> QED BY <1>2, <1>3, <2>2, <2>4, <2>5, <3>1, <4>1
    <3>2. CASE j = k
      <4>1. q = n
        BY <1>2, <2>3, <2>9, <3>2
      <4>2. \A m \in Nodes : Earlier(k, m) => m = p \/ Earlier(p, m)
        BY <2>1, <2>2 DEF IInv, Chain
      <4> QED BY <1>2, <1>3, <2>2, <2>4, <2>5, <3>2, <4>1, <4>2
    <3>3. CASE j # n /\ j # k
      <4>1. j \in Nodes /\ q = next[j] /\ q \in Nodes
        BY <1>2, <2>3, <2>9, <3>3 DEF IInv, TypeInv
      <4>2. Earlier(j, q) /\ \A m \in Nodes : Earlier(j, m) => m = q \/ Earlier(q, m)
        BY <2>9, <4>1 DEF IInv, Chain
      <4>3. Earlier(j, k) => k = q \/ Earlier(q, k)
        BY <4>2
      <4>4. Earlier(j, n)' => Earlier(q, n)'
        BY <2>5, <3>3, <4>1, <4>3
      <4> QED BY <1>2, <1>3, <4>1, <4>2, <4>4
    <3> QED BY <3>1, <3>2, <3>3
  <2> QED BY <1>2, <2>2, <2>6, <2>7, <2>8, <2>9 DEF Chain
<1> QED BY <1>1, <1>6, <1>7, <1>8, <1>9, InsertLinks

-----------------------------------------------------------------------------
(* Both ways of taking node n out.                                         *)
Takes(n) ==
  /\ first' = IF n = first THEN next[n] ELSE first
  /\ next' = LET p == Previous(n) IN
               Without(IF p = Nil THEN next ELSE [next EXCEPT ![p] = next[n]], n)
  /\ last' = LastAfterRemoval(n)
  /\ time' = Without(time, n)

LEMMA GetNextTakes ==
  ASSUME Numbers, IInv, GetNext
  PROVE  first \in Nodes /\ Takes(first) /\ taken' = first /\ UNCHANGED nextId
BY DEF GetNext, IInv, TypeInv, Takes, Previous, LastAfterRemoval

LEMMA RemoveTakes ==
  ASSUME Numbers, IInv, NEW n, Remove(n)
  PROVE  n \in Nodes /\ Takes(n) /\ UNCHANGED <<nextId, taken>>
<1>1. n \in Nodes
  BY ReachesAll DEF Remove
<1> QED BY <1>1 DEF Remove, Takes

LEMMA TakeLinks ==
  ASSUME Numbers, IInv, NEW n \in Nodes, Takes(n)
  PROVE  /\ Nodes' = Nodes \ {n}
         /\ time' = [m \in Nodes \ {n} |-> time[m]]
         /\ \A k, m \in Nodes \ {n} : Earlier(k, m)' <=> Earlier(k, m)
         /\ \/ /\ n = first /\ first' = next[n]
               /\ next' = [m \in Nodes \ {n} |-> next[m]]
               /\ last' = IF next[n] = Nil THEN Nil ELSE last
            \/ /\ n # first /\ first' = first
               /\ \E p \in Nodes :
                    /\ next[p] = n
                    /\ next' = [m \in Nodes \ {n} |->
                                  IF m = p THEN next[n] ELSE next[m]]
                    /\ last' = IF next[n] = Nil THEN p ELSE last
<1>1. time' = [m \in Nodes \ {n} |-> time[m]]
  BY DEF Takes, Without, IInv, TypeInv
<1>2. \A k, m \in Nodes \ {n} : Earlier(k, m)' <=> Earlier(k, m)
  BY <1>1 DEF Earlier
<1>3. CASE n = first
  <2>1. Previous(n) = Nil
    BY <1>3 DEF Previous
  <2>2. next' = [m \in Nodes \ {n} |-> next[m]]
    BY <2>1 DEF Takes, Without, Nodes
  <2>3. first' = next[n] /\ last' = IF next[n] = Nil THEN Nil ELSE last
    BY <1>3, <2>1 DEF Takes, LastAfterRemoval
  <2> QED BY <1>1, <1>2, <1>3, <2>2, <2>3 DEF Nodes
<1>4. CASE n # first
  <2>1. \E k \in Nodes : next[k] = n
    BY <1>4 DEF IInv, Chain
  <2>2. PICK p \in Nodes : p = Previous(n) /\ next[p] = n
    BY <1>4, <2>1 DEF Previous
  <2>3. p # Nil
    BY Order
  <2> DEFINE f == [next EXCEPT ![p] = next[n]]
  <2>4. f = [m \in Nodes |-> IF m = p THEN next[n] ELSE next[m]]
    BY DEF IInv, TypeInv
  <2>5. next' = Without(f, n)
    BY <2>2, <2>3 DEF Takes
  <2> HIDE DEF f
  <2>6. next' = [m \in Nodes \ {n} |-> IF m = p THEN next[n] ELSE next[m]]
    BY <2>4, <2>5 DEF Without
  <2>7. first' = first /\ last' = IF next[n] = Nil THEN p ELSE last
    BY <1>4, <2>2 DEF Takes, LastAfterRemoval
  <2>8. Nodes' = Nodes \ {n}
    BY <2>6 DEF Nodes
  <2> QED BY <1>1, <1>2, <1>4, <2>2, <2>6, <2>7, <2>8
<1> QED BY <1>3, <1>4

LEMMA TakeTypes ==
  ASSUME Numbers, IInv, NEW n \in Nodes, Takes(n),
         UNCHANGED nextId, taken' \in {n, taken}
  PROVE  TypeInv'
<1>1. Nodes' = Nodes \ {n} /\ time' \in [Nodes' -> Times]
  BY TakeLinks DEF IInv, TypeInv
<1>2. /\ next \in [Nodes -> Nodes \cup {Nil}] /\ Nil \notin Nodes
      /\ first \in Nodes \cup {Nil} /\ last \in Nodes \cup {Nil}
      /\ \A m \in Nodes : next[m] # m /\ (next[m] = Nil <=> m = last)
  BY Order DEF IInv, TypeInv, Chain
<1>3. \A j, k \in Nodes : next[j] = n /\ next[k] = n => j = k
  <2>1. \A k \in Nodes : next[k] = n =>
          /\ Earlier(k, n) /\ \A m \in Nodes : Earlier(k, m) => m = n \/ Earlier(n, m)
    BY <1>2 DEF IInv, Chain
  <2> QED BY <2>1, Order
<1>4. \A k \in Nodes : next[k] # first
  BY <1>2, Order DEF IInv, Chain
<1>7. /\ nextId' \in Nat \ {0} /\ nextId' <= MaxId + 1 /\ taken' \in 0 .. MaxId
      /\ Nodes' \subseteq 1 .. nextId' - 1
  <2>1. /\ nextId \in Nat \ {0} /\ nextId <= MaxId + 1 /\ taken \in 0 .. MaxId
        /\ Nodes \subseteq 1 .. nextId - 1 /\ MaxId \in Nat
    BY DEF IInv, TypeInv, Numbers
  <2>2. n \in 0 .. MaxId
    BY <2>1
  <2> QED BY <1>1, <2>1, <2>2
<1>5. CASE /\ n = first /\ first' = next[n]
           /\ next' = [m \in Nodes \ {n} |-> next[m]]
           /\ last' = IF next[n] = Nil THEN Nil ELSE last
  <2>1. \A m \in Nodes \ {n} : next[m] \in (Nodes \ {n}) \cup {Nil}
    BY <1>2, <1>4, <1>5
  <2>2. first' \in (Nodes \ {n}) \cup {Nil} /\ last' \in (Nodes \ {n}) \cup {Nil}
    BY <1>2, <1>5
  <2>3. next' \in [Nodes' -> Nodes' \cup {Nil}]
    BY <1>1, <1>5, <2>1
  <2> QED BY <1>1, <1>7, <2>2, <2>3 DEF TypeInv
<1>6. ASSUME n # first, first' = first, NEW p \in Nodes, next[p] = n,
             next' = [m \in Nodes \ {n} |-> IF m = p THEN next[n] ELSE next[m]],
             last' = IF next[n] = Nil THEN p ELSE last
      PROVE  TypeInv'
  <2>1. \A m \in Nodes \ {n} :
          (IF m = p THEN next[n] ELSE next[m]) \in (Nodes \ {n}) \cup {Nil}
    BY <1>2, <1>3, <1>6
  <2>2. first' \in (Nodes \ {n}) \cup {Nil} /\ last' \in (Nodes \ {n}) \cup {Nil}
    BY <1>2, <1>6
  <2>3. next' \in [Nodes' -> Nodes' \cup {Nil}]
    BY <1>1, <1>6, <2>1
  <2> QED BY <1>1, <1>7, <2>2, <2>3 DEF TypeInv
<1> QED BY <1>5, <1>6, TakeLinks

LEMMA TakeChain ==
  ASSUME Numbers, IInv, NEW n \in Nodes, Takes(n)
  PROVE  Chain'
<1>1. /\ Nodes' = Nodes \ {n} /\ Nil \notin Nodes
      /\ \A k, m \in Nodes' : Earlier(k, m)' <=> Earlier(k, m)
  BY TakeLinks, Order
<1> PICK a, z, s : a = first /\ z = last /\ s = next[n]
  OBVIOUS
<1>2. /\ a \in Nodes /\ z \in Nodes /\ s \in Nodes \cup {Nil}
      /\ a # Nil /\ z # Nil /\ (s = Nil <=> n = z)
      /\ \A m \in Nodes : (m # a => Earlier(a, m)) /\ (m # z => Earlier(m, z))
      /\ s # Nil => /\ Earlier(n, s)
                    /\ \A m \in Nodes : Earlier(n, m) => m = s \/ Earlier(s, m)
  BY DEF IInv, TypeInv, Chain
<1>3. ASSUME NEW k \in Nodes, NEW q, q = next[k], q # Nil
      PROVE  /\ q \in Nodes /\ Earlier(k, q) /\ q # k
             /\ \A m \in Nodes : Earlier(k, m) => m = q \/ Earlier(q, m)
  BY <1>3, Order DEF IInv, TypeInv, Chain
<1>4. \A k \in Nodes : /\ next[k] = Nil <=> k = z
                       /\ k # a => \E j \in Nodes : next[j] = k
  BY DEF IInv, Chain
<1>5. \A k \in Nodes : next[k] # a
  BY <1>2, <1>3, Order
<1>6. CASE /\ n = first /\ first' = next[n]
           /\ next' = [m \in Nodes \ {n} |-> next[m]]
           /\ last' = IF next[n] = Nil THEN Nil ELSE last
  <2>1. /\ n = a /\ first' = s /\ last' = IF s = Nil THEN Nil ELSE z
        /\ next' = [m \in Nodes' |-> next[m]]
    BY <1>1, <1>6
  <2>2. CASE s = Nil
    <3>1. Nodes' = {}
      <4>1. \A m \in Nodes : m = n
        BY <1>2, <2>1, <2>2, Order
      <4> QED BY <1>1, <4>1
    <3>2. first' = Nil /\ last' = Nil
      BY <2>1, <2>2
    <3> QED BY <3>1, <3>2 DEF Chain
  <2>3. CASE s # Nil
    <3>1. s \in Nodes' /\ z \in Nodes' /\ first' = s /\ last' = z
      BY <1>1, <1>2, <1>3, <2>1, <2>3
    <3>2. \A m \in Nodes' : /\ m # s => Earlier(s, m)'
                            /\ m # z => Earlier(m, z)'
      BY <1>1, <1>2, <2>1, <2>3, <3>1
    <3>3. ASSUME NEW k \in Nodes', NEW q, q = next'[k], q # Nil
          PROVE  /\ Earlier(k, q)'
                 /\ \A m \in Nodes' : Earlier(k, m)' => m = q \/ Earlier(q, m)'
      <4>1. q = next[k] /\ k \in Nodes
        BY <1>1, <2>1, <3>3
      <4>2. /\ q \in Nodes /\ Earlier(k, q)
            /\ \A m \in Nodes : Earlier(k, m) => m = q \/ Earlier(q, m)
        BY <1>3, <3>3, <4>1
      <4>3. q \in Nodes'
        BY <1>1, <1>5, <2>1, <4>1, <4>2
      <4> QED BY <1>1, <4>2, <4>3
    <3>4. \A k \in Nodes' : next'[k] = Nil <=> k = z
      BY <1>1, <1>4, <2>1
    <3>5. ASSUME NEW k \in Nodes', k # s PROVE \E j \in Nodes' : next'[j] = k
      <4>1. PICK j \in Nodes : next[j] = k
        BY <1>1, <1>4, <2>1
      <4>2. j # n
        BY <3>5, <4>1
      <4> QED BY <1>1, <2>1, <4>1, <4>2
    <3>6. \A k \in Nodes' : next'[k] # Nil =>
            /\ Earlier(k, next[k])'
            /\ \A m \in Nodes' : Earlier(k, m)' => m = next'[k] \/ Earlier(next[k], m)'
      BY <3>3
    <3>7. first' # Nil /\ last' # Nil /\ Nodes' # {}
      BY <1>2, <2>3, <3>1
    <3> QED BY <3>1, <3>2, <3>4, <3>5, <3>6, <3>7 DEF Chain
  <2> QED BY <2>2, <2>3
<1>7. ASSUME n # first, first' = first, NEW p \in Nodes, next[p] = n,
             next' = [m \in Nodes \ {n} |-> IF m = p THEN next[n] ELSE next[m]],
             last' = IF next[n] = Nil THEN p ELSE last
      PROVE  Chain'
  <2>1. /\ n # a /\ first' = a /\ last' = IF s = Nil THEN p ELSE z
        /\ next' = [m \in Nodes' |-> IF m = p THEN s ELSE next[m]]
    BY <1>1, <1>7
  <2>2. /\ Earlier(p, n) /\ p # n /\ p \in Nodes'
        /\ \A m \in Nodes : Earlier(p, m) => m = n \/ Earlier(n, m)
    BY <1>1, <1>2, <1>3, <1>7, Order
  <2>3. \A j \in Nodes : next[j] = n => j = p
    BY <1>2, <1>3, <1>7, <2>2, Order
  <2>4. /\ a \in Nodes' /\ \A m \in Nodes' : m # a => Earlier(a, m)'
    BY <1>1, <1>2, <2>1
  <2> PICK y : y = last'
    OBVIOUS
  <2>5. y \in Nodes' /\ \A m \in Nodes' : m # y => Earlier(m, y)'
    <3>1. CASE s = Nil
      <4>1. y = p /\ n = z
        BY <1>2, <2>1, <3>1
      <4>2. ASSUME NEW m \in Nodes', m # p PROVE Earlier(m, p)
        <5>1. Earlier(m, n) /\ m \in Nodes
          BY <1>1, <1>2, <4>1
        <5>2. ~Earlier(p, m)
          BY <1>1, <2>2, <5>1, Order
        <5> QED BY <2>2, <4>2, <5>1, <5>2, Order
      <4> QED BY <1>1, <2>2, <4>1, <4>2
    <3>2. CASE s # Nil
      <4>1. y = z /\ n # z
        BY <1>2, <2>1, <3>2
      <4> QED BY <1>1, <1>2, <4>1
    <3> QED BY <3>1, <3>2
  <2>6. \A k \in Nodes' : next'[k] = Nil <=> k = y
    <3>1. CASE s = Nil
      BY <1>1, <1>2, <1>4, <2>1, <2>2, <3>1
    <3>2. CASE s # Nil
      <4>1. y = z /\ p # z
        BY <1>4, <1>7, <2>1, <2>2, <3>2, Order
      <4> QED BY <1>1, <1>4, <2>1, <3>2, <4>1
    <3> QED BY <3>1, <3>2
  <2>7. ASSUME NEW k \in Nodes', k # a PROVE \E j \in Nodes' : next'[j] = k
    <3>1. PICK j \in Nodes : next[j] = k
      BY <1>1, <1>4, <2>7
    <3>2. CASE j = n
      BY <1>1, <2>1, <2>2, <3>1, <3>2
    <3>3. CASE j # n
      <4>1. j # p
        BY <1>1, <1>7, <3>1
      <4> QED BY <1>1, <2>1, <3>1, <3>3, <4>1
    <3> QED BY <3>2, <3>3
  <2>8. ASSUME NEW k \in Nodes', NEW q, q = next'[k], q # Nil
        PROVE  /\ Earlier(k, q)'
               /\ \A m \in Nodes' : Earlier(k, m)' => m = q \/ Earlier(q, m)'
    <3>1. CASE k = p
      <4>1. q = s
        BY <2>1, <2>8, <3>1
      <4>2. s \in Nodes' /\ Earlier(p, s)
        BY <1>1, <1>2, <2>2, <2>8, <4>1, Order
      <4>3. \A m \in Nodes' : Earlier(p, m) => m = s \/ Earlier(s, m)
        BY <1>1, <1>2, <2>2, <2>8, <4>1
      <4> QED BY <1>1, <2>2, <3>1, <4>1, <4>2, <4>3
    <3>2. CASE k # p
      <4>1. q = next[k] /\ k \in Nodes
        BY <1>1, <2>1, <2>8, <3>2
      <4>2. /\ q \in Nodes /\ Earlier(k, q)
            /\ \A m \in Nodes : Earlier(k, m) => m = q \/ Earlier(q, m)
        BY <1>3, <2>8, <4>1
      <4>3. q \in Nodes'
        BY <1>1, <2>3, <3>2, <4>1, <4>2
      <4> QED BY <1>1, <4>2, <4>3
    <3> QED BY <3>1, <3>2
  <2>9. \A k \in Nodes' : next'[k] # Nil =>
          /\ Earlier(k, next[k])'
          /\ \A m \in Nodes' : Earlier(k, m)' => m = next'[k] \/ Earlier(next[k], m)'
    BY <2>8
  <2>10. first' # Nil /\ last' # Nil /\ Nodes' # {} /\ first' = a /\ last' = y
    BY <1>1, <1>2, <2>1, <2>4, <2>5
  <2> QED BY <2>4, <2>5, <2>6, <2>7, <2>9, <2>10 DEF Chain
<1> QED BY <1>6, <1>7, TakeLinks

-----------------------------------------------------------------------------
LEMMA InitIInv ==
  ASSUME Numbers, Init
  PROVE  IInv
<1>1. Nodes = {} /\ DOMAIN time = {} /\ next = <<>> /\ time = <<>>
  BY DEF Init, Nodes
<1>2. next \in [Nodes -> Nodes \cup {Nil}] /\ time \in [Nodes -> Times]
  BY <1>1
<1> QED BY <1>1, <1>2 DEF Init, Numbers, IInv, TypeInv, Chain, Nil

LEMMA StepIInv ==
  ASSUME Numbers, IInv, [Next]_vars
  PROVE  IInv'
<1>1. ASSUME NEW t \in Times, Insert(t) PROVE IInv'
  BY <1>1, InsertTypes, InsertChain DEF IInv
<1>2. CASE GetNext
  <2>1. PICK n : n = first
    OBVIOUS
  <2>2. n \in Nodes /\ Takes(n) /\ taken' = n /\ UNCHANGED nextId
    BY <1>2, <2>1, GetNextTakes
  <2> QED BY <2>2, TakeTypes, TakeChain DEF IInv
<1>3. ASSUME NEW n, Remove(n) PROVE IInv'
  <2>1. n \in Nodes /\ Takes(n) /\ UNCHANGED <<nextId, taken>>
    BY <1>3, RemoveTakes
  <2> QED BY <2>1, TakeTypes, TakeChain DEF IInv
<1>4. CASE UNCHANGED vars
  BY <1>4 DEF vars, IInv, TypeInv, Chain, Nodes, Earlier
<1> QED BY <1>1, <1>2, <1>3, <1>4 DEF Next

LEMMA Inductive ==
  ASSUME Numbers
  PROVE  Spec => []IInv
<1>1. Init => IInv
  BY InitIInv
<1>2. IInv /\ [Next]_vars => IInv'
  BY StepIInv
<1> QED BY <1>1, <1>2, PTL DEF Spec

(* Whatever is inserted and removed, at either end or between: the list    *)
(* holds what is allocated, ends at last and is sorted.  The invariant is  *)
(* ListShape, for any number of events.                                    *)
THEOREM Shape ==
  ASSUME Numbers
  PROVE  Spec => [](TypeOK /\ ListShape)
<1>1. ASSUME IInv PROVE TypeOK /\ ListShape
  <2>1. Nodes \subseteq 1 .. MaxId /\ nextId \in 1 .. MaxId + 1
    <3>1. /\ nextId \in Nat \ {0} /\ nextId <= MaxId + 1 /\ MaxId \in Nat
          /\ \A n \in Nodes : n \in 1 .. nextId - 1
      BY <1>1 DEF IInv, TypeInv, Numbers
    <3>2. \A n \in Nodes : n \in 1 .. MaxId
      BY <3>1
    <3> QED BY <3>1, <3>2
  <2>2. TypeOK
    BY <1>1, <2>1 DEF TypeOK, IInv, TypeInv
  <2>3. /\ From(first) = Nodes
        /\ first \in Nodes \cup {Nil} /\ last \in Nodes \cup {Nil}
    BY <1>1, ReachesAll DEF IInv, TypeInv
  <2>4. (first = Nil) = (last = Nil)
    BY <1>1, <2>3 DEF IInv, Chain
  <2>5. last # Nil => next[last] = Nil
    BY <1>1, <2>3 DEF IInv, Chain
  <2>6. \A n \in Nodes : next[n] # Nil =>
          time[n] < time[next[n]] \/ (time[n] = time[next[n]] /\ n < next[n])
    BY <1>1 DEF IInv, Chain, Earlier
  <2> QED BY <2>2, <2>3, <2>4, <2>5, <2>6 DEF ListShape
<1>2. Spec => []IInv
  BY Inductive
<1> QED BY <1>1, <1>2, PTL

-----------------------------------------------------------------------------
(* The events in the list, as TimedQueue has them.                         *)
Event(n) == [id |-> n, time |-> time[n]]
Queue == {Event(n) : n \in Nodes}

LEMMA InsertEvent ==
  ASSUME Numbers, IInv, NEW t \in Times, Insert(t)
  PROVE  Queue' = Queue \cup {[id |-> nextId, time |-> t]}
<1>1. PICK k : k = nextId
  OBVIOUS
<1>2. /\ k \notin Nodes /\ Nodes' = Nodes \cup {k} /\ time'[k] = t
      /\ \A m \in Nodes : time'[m] = time[m]
  BY <1>1, InsertNumbers
<1>3. Event(k)' = [id |-> k, time |-> t] /\ \A m \in Nodes : Event(m)' = Event(m)
  BY <1>2 DEF Event
<1>4. Queue' = {Event(m)' : m \in Nodes'}
  BY DEF Queue
<1> QED BY <1>1, <1>2, <1>3, <1>4 DEF Queue

LEMMA TakeEvent ==
  ASSUME Numbers, IInv, NEW n \in Nodes, Takes(n)
  PROVE  /\ Event(n) \in Queue
         /\ Queue' = Queue \ {Event(n)}
         /\ Queue' = {e \in Queue : e.id # n}
<1>1. Nodes' = Nodes \ {n} /\ \A m \in Nodes \ {n} : time'[m] = time[m]
  BY TakeLinks
<1>2. \A m \in Nodes \ {n} : Event(m)' = Event(m)
  BY <1>1 DEF Event
<1>3. Queue' = {Event(m) : m \in Nodes \ {n}}
  BY <1>1, <1>2 DEF Queue
<1>4. \A m \in Nodes : Event(m).id = m
  BY DEF Event
<1> QED BY <1>3, <1>4 DEF Queue

LEMMA FirstEvent ==
  ASSUME Numbers, IInv, first # Nil
  PROVE  /\ Abstract!IsFirst(Event(first), Queue)
         /\ Event(first).id = first
<1>1. first \in Nodes
  BY DEF IInv, TypeInv
<1>2. ASSUME NEW m \in Nodes, Event(m) # Event(first)
      PROVE  Abstract!Before(Event(first), Event(m))
  <2>1. Earlier(first, m)
    BY <1>2 DEF IInv, Chain
  <2> QED BY <2>1 DEF Earlier, Event, Abstract!Before
<1> QED BY <1>1, <1>2 DEF Queue, Event, Abstract!IsFirst

(* The list implements the set of events from which the first is taken:    *)
(* every step maps to the operation of the same name or to none.           *)
THEOREM Implements ==
  ASSUME Numbers
  PROVE  Spec => IsTimedQueue
<1>1. Init => Abstract!Init
  <2> SUFFICES ASSUME Init PROVE Abstract!Init
    OBVIOUS
  <2>1. Nodes = {} /\ nextId = 1 /\ taken = 0
    BY DEF Init, Nodes, Nil
  <2> QED BY <2>1 DEF Abstract!Init, Abstract!None
<1>2. ASSUME IInv, [Next]_vars
      PROVE  [Abstract!Next]_<<Queue, nextId, taken>>
  <2>1. ASSUME NEW t \in Times, Insert(t) PROVE Abstract!Insert(t)
    <3>1. Queue' = Queue \cup {[id |-> nextId, time |-> t]}
      BY <1>2, <2>1, InsertEvent
    <3> QED BY <2>1, <3>1 DEF Insert, Abstract!Insert, Queue, Event
  <2>2. ASSUME GetNext PROVE Abstract!GetNext
    <3>1. /\ first # Nil /\ first \in Nodes /\ Takes(first)
          /\ taken' = first /\ UNCHANGED nextId
      BY <1>2, <2>2, GetNextTakes DEF GetNext
    <3>2. PICK e : e = Event(first)
      OBVIOUS
    <3>3. Queue' = Queue \ {e} /\ e \in Queue
      BY <1>2, <3>1, <3>2, TakeEvent
    <3>4. Abstract!IsFirst(e, Queue) /\ e.id = first
      BY <1>2, <3>1, <3>2, FirstEvent
    <3> QED BY <3>1, <3>3, <3>4 DEF Abstract!GetNext, Queue, Event
  <2>3. ASSUME NEW n \in 1 .. MaxId, Remove(n) PROVE Abstract!Remove(n)
    <3>1. n \in Nodes /\ Takes(n) /\ UNCHANGED <<nextId, taken>>
      BY <1>2, <2>3, RemoveTakes
    <3>2. Queue' = {e \in Queue : e.id # n}
      BY <1>2, <3>1, TakeEvent
    <3> QED BY <3>1, <3>2 DEF Abstract!Remove, Queue, Event
  <2>4. CASE UNCHANGED vars
    BY <2>4 DEF vars, Queue, Event, Nodes
  <2> QED BY <1>2, <2>1, <2>2, <2>3, <2>4 DEF Next, Abstract!Next
<1>3. Spec => []IInv
  BY Inductive
<1>4. Abstract!Spec <=> Abstract!Init /\ [][Abstract!Next]_<<Queue, nextId, taken>>
  BY DEF Abstract!Spec, Queue, Event
<1> QED BY <1>1, <1>2, <1>3, <1>4, PTL DEF Spec, IsTimedQueue
=============================================================================
