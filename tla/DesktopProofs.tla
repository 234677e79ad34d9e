--------------------------- MODULE DesktopProofs ---------------------------
(***************************************************************************)
(* Proofs about MCDesktop and its parts, for all constants of which that   *)
(* module's hypotheses hold: Desktop, Buttons, Painting, WindowGeometry,   *)
(* GridLayout, RowLayout, Rendering and Screen one after the other, and in *)
(* the end the properties of them all that MCDesktop checks.               *)
(***************************************************************************)
EXTENDS MCDesktop, Integers, TLAPS, FiniteSetTheorems, SequenceTheorems

-----------------------------------------------------------------------------
(* The windows of a stack, each of which is in it once and can be found.   *)
Wins(s) == {s[i].win : i \in DOMAIN s}

Proper(s) ==
  /\ s \in Seq(Node)
  /\ \A i \in DOMAIN s : s[i].indexed
  /\ \A i, j \in DOMAIN s : s[i].win = s[j].win => i = j

LEMMA Places ==
  ASSUME NEW s, Proper(s), NEW w \in Wins(s)
  PROVE  /\ Indexed(s, w)
         /\ PlaceOf(s, w) \in DOMAIN s /\ s[PlaceOf(s, w)].win = w
         /\ s[PlaceOf(s, w)] \in Node
<1>1. \E i \in DOMAIN s : IsNode(s[i], w)
  BY DEF Proper, Wins, IsNode
<1>2. PlaceOf(s, w) \in DOMAIN s /\ IsNode(s[PlaceOf(s, w)], w)
  BY <1>1 DEF PlaceOf
<1> QED BY <1>1, <1>2 DEF Proper, Indexed, IsNode

LEMMA IndexedIsIn ==
  ASSUME NEW s, Proper(s), NEW w
  PROVE  Indexed(s, w) <=> w \in Wins(s)
BY DEF Proper, Indexed, IsNode, Wins

(* A sequence without its place i.                                         *)
LEMMA Cut ==
  ASSUME NEW S, NEW s \in Seq(S), NEW i \in 1 .. Len(s)
  PROVE  /\ RemoveAt(s, i) \in Seq(S)
         /\ Len(RemoveAt(s, i)) = Len(s) - 1
         /\ \A j \in 1 .. Len(s) - 1 :
              RemoveAt(s, i)[j] = IF j < i THEN s[j] ELSE s[j + 1]
<1> PICK n \in Nat : n = Len(s)
  OBVIOUS
<1> DEFINE a == SubSeq(s, 1, i - 1)
           b == SubSeq(s, i + 1, n)
<1>1. /\ a \in Seq(S) /\ Len(a) = i - 1 /\ \A j \in 1 .. i - 1 : a[j] = s[j]
  OBVIOUS
<1>2. /\ b \in Seq(S) /\ Len(b) = n - i /\ \A j \in 1 .. n - i : b[j] = s[i + j]
  OBVIOUS
<1>3. RemoveAt(s, i) = a \o b
  BY DEF RemoveAt
<1> HIDE DEF a, b
<1>4. a \o b \in Seq(S) /\ Len(a \o b) = n - 1
  BY <1>1, <1>2
<1>5. ASSUME NEW j \in 1 .. n - 1
      PROVE  (a \o b)[j] = IF j < i THEN s[j] ELSE s[j + 1]
  <2>1. CASE j < i
    BY <1>1, <1>2, <2>1
  <2>2. CASE ~(j < i)
    <3>1. (a \o b)[j] = b[j - (i - 1)]
      BY <1>1, <1>2, <2>2
    <3>2. j - (i - 1) \in 1 .. n - i /\ i + (j - (i - 1)) = j + 1
      BY <2>2
    <3> QED BY <1>2, <2>2, <3>1, <3>2
  <2> QED BY <2>1, <2>2
<1> QED BY <1>3, <1>4, <1>5

LEMMA RemovedIs ==
  ASSUME NEW s, Proper(s), NEW w
  PROVE  /\ Proper(Removed(s, w))
         /\ Wins(Removed(s, w)) = Wins(s) \ {w}
         /\ Top(s) # w /\ s # <<>> => Removed(s, w) # <<>> /\ Top(Removed(s, w)) = Top(s)
         /\ s = <<>> => Removed(s, w) = <<>>
<1>1. CASE w \notin Wins(s)
  <2>1. Removed(s, w) = s
    BY <1>1, IndexedIsIn DEF Removed
  <2> QED BY <1>1, <2>1
<1>2. CASE w \in Wins(s)
  <2> PICK k : k = PlaceOf(s, w)
    OBVIOUS
  <2> PICK n \in Nat : n = Len(s)
    BY DEF Proper
  <2> PICK r : r = Removed(s, w)
    OBVIOUS
  <2>1. /\ s \in Seq(Node) /\ DOMAIN s = 1 .. n /\ k \in 1 .. n /\ s[k].win = w
        /\ r = RemoveAt(s, k)
        /\ \A i \in 1 .. n : s[i].indexed
        /\ \A i, j \in 1 .. n : s[i].win = s[j].win => i = j
    BY <1>2, Places DEF Removed, Proper
  <2>2. /\ r \in Seq(Node) /\ Len(r) = n - 1
        /\ \A j \in 1 .. n - 1 : r[j] = IF j < k THEN s[j] ELSE s[j + 1]
    <3>1. k \in 1 .. Len(s) /\ s \in Seq(Node)
      BY <2>1
    <3>2. /\ RemoveAt(s, k) \in Seq(Node)
          /\ Len(RemoveAt(s, k)) = Len(s) - 1
          /\ \A j \in 1 .. Len(s) - 1 :
               RemoveAt(s, k)[j] = IF j < k THEN s[j] ELSE s[j + 1]
      BY <3>1, Cut
    <3> QED BY <2>1, <3>2
  <2>3. DOMAIN r = 1 .. n - 1
    BY <2>2
  <2>4. \A j \in 1 .. n - 1 :
          \E i \in 1 .. n : i # k /\ r[j] = s[i] /\ i = IF j < k THEN j ELSE j + 1
    BY <2>1, <2>2
  <2>5. \A i \in 1 .. n : i # k => \E j \in 1 .. n - 1 : r[j] = s[i]
    <3>1. ASSUME NEW i \in 1 .. n, i < k PROVE i \in 1 .. n - 1 /\ r[i] = s[i]
      BY <2>1, <2>2, <3>1
    <3>2. ASSUME NEW i \in 1 .. n, i > k PROVE i - 1 \in 1 .. n - 1 /\ r[i - 1] = s[i]
      BY <2>1, <2>2, <3>2
    <3> QED BY <2>1, <3>1, <3>2
  <2>6. Wins(r) = Wins(s) \ {w}
    <3>1. Wins(r) = {r[j].win : j \in 1 .. n - 1} /\ Wins(s) = {s[i].win : i \in 1 .. n}
      BY <2>1, <2>3 DEF Wins
    <3>2. ASSUME NEW v \in Wins(r) PROVE v \in Wins(s) /\ v # w
      <4>1. PICK j \in 1 .. n - 1 : v = r[j].win
        BY <3>1
      <4>2. PICK i \in 1 .. n : i # k /\ r[j] = s[i]
        BY <2>4
      <4> QED BY <2>1, <3>1, <4>1, <4>2
    <3>3. ASSUME NEW v \in Wins(s), v # w PROVE v \in Wins(r)
      <4>1. PICK i \in 1 .. n : v = s[i].win
        BY <3>1
      <4>2. PICK j \in 1 .. n - 1 : r[j] = s[i]
        BY <2>1, <2>5, <3>3, <4>1
      <4> QED BY <3>1, <4>1, <4>2
    <3> QED BY <3>2, <3>3
  <2>7. Proper(r)
    <3>1. ASSUME NEW i \in 1 .. n - 1, NEW j \in 1 .. n - 1, r[i].win = r[j].win
          PROVE  i = j
      <4>1. PICK a \in 1 .. n : r[i] = s[a] /\ a = IF i < k THEN i ELSE i + 1
        BY <2>4
      <4>2. PICK b \in 1 .. n : r[j] = s[b] /\ b = IF j < k THEN j ELSE j + 1
        BY <2>4
      <4>3. a = b
        BY <2>1, <3>1, <4>1, <4>2
      <4> QED BY <2>1, <4>1, <4>2, <4>3
    <3>2. \A i \in 1 .. n - 1 : r[i].indexed
      BY <2>1, <2>4
    <3> QED BY <2>2, <2>3, <3>1, <3>2 DEF Proper
  <2>8. ASSUME Top(s) # w, s # <<>> PROVE r # <<>> /\ Top(r) = Top(s)
    <3>1. k # 1 /\ n >= 1
      BY <2>1, <2>8 DEF Top
    <3>2. 1 \in 1 .. n - 1 /\ r[1] = s[1]
      BY <2>1, <2>2, <3>1
    <3>3. r # <<>>
      BY <2>3, <3>2
    <3> QED BY <2>8, <3>2, <3>3 DEF Top
  <2>9. s # <<>>
    BY <2>1
  <2> QED BY <2>6, <2>7, <2>8, <2>9
<1> QED BY <1>1, <1>2

(* A node for a window that is not in the stack, on top of it or below.    *)
LEMMA Together ==
  ASSUME NEW s, Proper(s), NEW e \in Node, e.indexed, e.win \notin Wins(s)
  PROVE  /\ Proper(<<e>> \o s) /\ Wins(<<e>> \o s) = Wins(s) \cup {e.win}
         /\ Top(<<e>> \o s) = e.win /\ <<e>> \o s # <<>>
         /\ Proper(s \o <<e>>) /\ Wins(s \o <<e>>) = Wins(s) \cup {e.win}
         /\ s \o <<e>> # <<>>
<1> PICK n \in Nat : n = Len(s)
  BY DEF Proper
<1>1. /\ s \in Seq(Node) /\ DOMAIN s = 1 .. n
      /\ \A i \in 1 .. n : s[i].indexed /\ s[i].win # e.win
      /\ \A i, j \in 1 .. n : s[i].win = s[j].win => i = j
  BY DEF Proper, Wins
<1>2. PICK r : r = <<e>> \o s
  OBVIOUS
<1>3. PICK q : q = s \o <<e>>
  OBVIOUS
<1>4. /\ r \in Seq(Node) /\ DOMAIN r = 1 .. n + 1 /\ r[1] = e
      /\ \A i \in 2 .. n + 1 : i - 1 \in 1 .. n /\ r[i] = s[i - 1]
      /\ \A i \in 1 .. n : i + 1 \in 2 .. n + 1 /\ r[i + 1] = s[i]
  BY <1>1, <1>2
<1>5. /\ q \in Seq(Node) /\ DOMAIN q = 1 .. n + 1 /\ q[n + 1] = e
      /\ \A i \in 1 .. n : q[i] = s[i]
  BY <1>1, <1>3
<1>6. Proper(r) /\ Wins(r) = Wins(s) \cup {e.win}
  <2>1. \A i \in 1 .. n + 1 : i = 1 \/ i \in 2 .. n + 1
    OBVIOUS
  <2>2. \A i \in 1 .. n + 1 : r[i].indexed
    BY <1>1, <1>4, <2>1
  <2>3. ASSUME NEW i \in 1 .. n + 1, NEW j \in 1 .. n + 1, r[i].win = r[j].win
        PROVE  i = j
    <3>1. CASE i = 1 \/ j = 1
      BY <1>1, <1>4, <2>1, <2>3, <3>1
    <3>2. CASE i # 1 /\ j # 1
      <4>1. i - 1 \in 1 .. n /\ j - 1 \in 1 .. n /\ s[i - 1].win = s[j - 1].win
        BY <1>4, <2>1, <2>3, <3>2
      <4>2. i - 1 = j - 1
        BY <1>1, <4>1
      <4> QED BY <4>2
    <3> QED BY <3>1, <3>2
  <2>4. Wins(r) = Wins(s) \cup {e.win}
    <3>1. 1 \in 1 .. n + 1 /\ \A i \in 2 .. n + 1 : i \in 1 .. n + 1
      OBVIOUS
    <3>2. Wins(r) = {r[i].win : i \in 1 .. n + 1} /\ Wins(s) = {s[i].win : i \in 1 .. n}
      BY <1>1, <1>4 DEF Wins
    <3>3. ASSUME NEW w \in Wins(r) PROVE w \in Wins(s) \/ w = e.win
      <4>1. PICK i \in 1 .. n + 1 : w = r[i].win
        BY <3>2
      <4> QED BY <1>4, <2>1, <3>2, <4>1
    <3>4. ASSUME NEW w \in Wins(s) PROVE w \in Wins(r)
      <4>1. PICK i \in 1 .. n : w = s[i].win
        BY <3>2
      <4> QED BY <1>4, <3>1, <3>2, <4>1
    <3>5. e.win \in Wins(r)
      BY <1>4, <3>1, <3>2
    <3> QED BY <3>3, <3>4, <3>5
  <2> QED BY <1>4, <2>2, <2>3, <2>4 DEF Proper
<1>7. Proper(q) /\ Wins(q) = Wins(s) \cup {e.win}
  <2>1. /\ \A i \in 1 .. n + 1 : i = n + 1 \/ i \in 1 .. n
        /\ n + 1 \in 1 .. n + 1 /\ \A i \in 1 .. n : i \in 1 .. n + 1
    OBVIOUS
  <2>2. \A i \in 1 .. n + 1 : q[i].indexed
    BY <1>1, <1>5, <2>1
  <2>3. \A i, j \in 1 .. n + 1 : q[i].win = q[j].win => i = j
    BY <1>1, <1>5, <2>1
  <2>4. ASSUME NEW w PROVE w \in Wins(q) <=> w \in Wins(s) \/ w = e.win
    BY <1>1, <1>5, <2>1 DEF Wins
  <2> QED BY <1>5, <2>2, <2>3, <2>4 DEF Proper
<1>8. Top(r) = e.win /\ r # <<>> /\ q # <<>>
  BY <1>4, <1>5 DEF Top
<1> QED BY <1>2, <1>3, <1>6, <1>7, <1>8

LEMMA MovedIs ==
  ASSUME NEW s, Proper(s), NEW w \in Wins(s)
  PROVE  /\ Proper(MovedToTop(s, w)) /\ Wins(MovedToTop(s, w)) = Wins(s)
         /\ Top(MovedToTop(s, w)) = w /\ MovedToTop(s, w) # <<>>
         /\ Proper(MovedToBottom(s, w)) /\ Wins(MovedToBottom(s, w)) = Wins(s)
         /\ MovedToBottom(s, w) # <<>>
<1>1. PICK e : e = s[PlaceOf(s, w)]
  OBVIOUS
<1>2. e \in Node /\ e.win = w /\ Found(s, w) = <<e>> /\ e.indexed
  BY <1>1, Places DEF Found, Proper
<1>3. Proper(Removed(s, w)) /\ Wins(Removed(s, w)) = Wins(s) \ {w}
  BY RemovedIs
<1> PICK r : r = Removed(s, w)
  OBVIOUS
<1>4. MovedToTop(s, w) = <<e>> \o r /\ MovedToBottom(s, w) = r \o <<e>>
  BY <1>2 DEF MovedToTop, MovedToBottom
<1>5. Wins(s) = Wins(r) \cup {w} /\ w \notin Wins(r) /\ Proper(r)
  BY <1>3
<1> QED BY <1>2, <1>4, <1>5, Together

LEMMA TopIsIn ==
  ASSUME NEW s, Proper(s)
  PROVE  /\ s = <<>> => Top(s) = Nil /\ Wins(s) = {}
         /\ s # <<>> => Top(s) \in Wins(s) /\ Last(s).win \in Wins(s)
         /\ Wins(s) \subseteq Windows
<1> PICK n \in Nat : n = Len(s)
  BY DEF Proper
<1>1. s \in Seq(Node) /\ DOMAIN s = 1 .. n
  BY DEF Proper
<1>2. s # <<>> => 1 \in 1 .. n /\ n \in 1 .. n
  BY <1>1
<1>3. Wins(s) \subseteq Windows
  <2>1. \A i \in 1 .. n : s[i] \in Node
    BY <1>1
  <2> QED BY <1>1, <2>1 DEF Wins, Node
<1> QED BY <1>1, <1>2, <1>3 DEF Top, Wins, Last

(* Raising a window of the stack brings it to the top.                     *)
LEMMA RaisedIs ==
  ASSUME NEW s, Proper(s), NEW w \in Wins(s), Nil \notin Windows
  PROVE  /\ Proper(Raised(s, w)) /\ Wins(Raised(s, w)) = Wins(s)
         /\ Top(Raised(s, w)) = w
<1>1. Top(s) # Nil
  BY TopIsIn
<1>2. CASE Top(s) = w
  BY <1>2 DEF Raised
<1>3. CASE Top(s) # w
  BY <1>1, <1>3, MovedIs DEF Raised
<1> QED BY <1>2, <1>3

-----------------------------------------------------------------------------
(* What holds until something destroyed is used.                           *)
OnTop == Proper(stack) /\ current = Top(stack)

Typing ==
  current # Nil =>
    keyFocus = focus[current] \/ (keyFocus = Nil /\ focus[current] \notin alive)

Packed ==
  /\ \A w \in Windows \cap alive, c \in Widgets : child[w] = c => c \in alive
  /\ \A w \in Windows, c \in Widgets \cap alive :
       container[c] = w <=> (w \in alive /\ child[w] = c)
  /\ \A c \in Widgets : container[c] \in Windows \cup {Nil}

Shown ==
  /\ Wins(stack) \subseteq alive
  /\ under # Nil => under \in Wins(stack)

Dragged ==
  /\ \A w \in Windows \cap alive : dragging[w] <=> grabbed = w
  /\ grabbed \in alive => grabbed \in Wins(stack)

Good == OnTop /\ Typing /\ Packed /\ Shown /\ Dragged
IInv == TypeOK /\ (~crashed => Good)

(* A window of the stack s is selected.                                    *)
LEMMA SelectIs ==
  ASSUME TypeOK, Distinct, Typing, NEW s, Proper(s), NEW w \in Wins(s),
         NEW old, Select(old, w, s), w = old => current = w /\ Top(s) = w,
         UNCHANGED focus, Widgets \cap alive' = Widgets \cap alive
  PROVE  /\ Proper(stack') /\ Wins(stack') = Wins(s) /\ OnTop' /\ Typing'
         /\ current' \in Windows /\ keyFocus' \in Widgets \cup {Nil}
<1>1. w \in Windows /\ Nil \notin Windows
  BY TopIsIn DEF Distinct
<1>2. current' = w /\ focus' = focus /\ focus[w] \in Widgets \cup {Nil}
  BY <1>1 DEF Select, TypeOK
<1>3. Nil \notin Widgets /\ alive \subseteq Windows \cup Widgets
  BY DEF Distinct, TypeOK
<1>4. CASE w = old
  <2>1. stack' = s /\ keyFocus' = keyFocus /\ current = w
    BY <1>4 DEF Select
  <2>2. keyFocus = focus[w] \/ (keyFocus = Nil /\ focus[w] \notin alive)
    BY <1>1, <2>1 DEF Typing
  <2>3. focus[w] \notin alive => focus[w] \notin alive' \/ focus[w] = Nil
    BY <1>2
  <2>4. keyFocus' = focus'[w] \/ (keyFocus' = Nil /\ focus'[w] \notin alive')
    BY <1>2, <2>1, <2>2, <2>3
  <2>5. Typing'
    BY <1>2, <2>4 DEF Typing
  <2>6. OnTop'
    BY <1>2, <1>4, <2>1 DEF OnTop
  <2> QED BY <1>1, <1>2, <2>1, <2>5, <2>6 DEF TypeOK
<1>5. CASE w # old
  <2>1. stack' = Raised(s, w) /\ keyFocus' = focus[w]
    BY <1>5 DEF Select
  <2>2. Proper(stack') /\ Wins(stack') = Wins(s) /\ Top(stack') = w
    BY <1>1, <2>1, RaisedIs
  <2>3. Typing' /\ OnTop'
    BY <1>2, <2>1, <2>2 DEF Typing, OnTop
  <2> QED BY <1>1, <1>2, <2>1, <2>2, <2>3
<1> QED BY <1>4, <1>5

LEMMA InitGood ==
  ASSUME Distinct, Init
  PROVE  IInv
<1>1. stack = <<>> /\ Wins(stack) = {} /\ Proper(stack) /\ Top(stack) = Nil
  BY DEF Init, Wins, Proper, Top
<1>2. TypeOK
  BY <1>1 DEF Init, TypeOK, Proper
<1>3. Good
  BY <1>1 DEF Init, Distinct, Good, OnTop, Typing, Packed, Shown, Dragged
<1> QED BY <1>2, <1>3 DEF IInv

-----------------------------------------------------------------------------
(* The messages of clients.                                                *)
LEMMA SetChildGood ==
  ASSUME Disciplined, Distinct, TypeOK, Good,
         NEW w \in Windows, NEW c \in Widgets, SetChild(w, c)
  PROVE  TypeOK' /\ Good'
<1>1. /\ child' = [child EXCEPT ![w] = c] /\ container' = [container EXCEPT ![c] = w]
      /\ child[w] = Nil /\ container[c] = Nil /\ {w, c} \subseteq alive
      /\ UNCHANGED <<alive, stack, current, focus, inChild, dragging, maximised,
                     keyFocus, grabbed, under, crashed>>
  BY DEF SetChild, Disciplined
<1>2. TypeOK'
  BY <1>1 DEF TypeOK
<1>3. Packed'
  <2>1. /\ child \in [Windows -> Widgets \cup {Nil}]
        /\ container \in [Windows \cup Widgets -> Windows \cup {Root, Nil}]
    BY DEF TypeOK
  <2>2. \A v \in Windows : child'[v] = IF v = w THEN c ELSE child[v]
    BY <1>1, <2>1
  <2>3. \A d \in Widgets : container'[d] = IF d = c THEN w ELSE container[d]
    BY <1>1, <2>1
  <2>4. \A v \in Windows, d \in Widgets \cap alive :
          container[d] = v <=> (v \in alive /\ child[v] = d)
    BY DEF Good, Packed
  <2>5. \A v \in Windows : v \in alive => child[v] # c
    BY <1>1, <2>4 DEF Distinct
  <2>6. ASSUME NEW v \in Windows, NEW d \in Widgets \cap alive
        PROVE  container'[d] = v <=> (v \in alive /\ child'[v] = d)
    <3>1. CASE d = c
      BY <1>1, <2>2, <2>3, <2>5, <3>1
    <3>2. CASE d # c
      <4>1. container[d] # w
        BY <1>1, <2>4 DEF Distinct
      <4> QED BY <2>2, <2>3, <2>4, <3>2, <4>1
    <3> QED BY <3>1, <3>2
  <2>7. \A v \in Windows \cap alive', d \in Widgets : child'[v] = d => d \in alive'
    BY <1>1, <2>2 DEF Good, Packed
  <2>8. \A d \in Widgets : container'[d] \in Windows \cup {Nil}
    BY <2>3 DEF Good, Packed
  <2> QED BY <1>1, <2>6, <2>7, <2>8 DEF Packed
<1> QED BY <1>1, <1>2, <1>3 DEF Good, OnTop, Typing, Shown, Dragged

LEMMA SetFocussedGood ==
  ASSUME Distinct, TypeOK, Good,
         NEW w \in Windows, NEW c \in Widgets, SetFocussed(w, c)
  PROVE  TypeOK' /\ (~crashed' => Good')
<1>1. /\ focus' = [focus EXCEPT ![w] = c] /\ crashed' \in BOOLEAN
      /\ keyFocus' = IF current = w THEN c ELSE keyFocus
      /\ UNCHANGED <<alive, stack, current, child, inChild, dragging, maximised,
                     container, grabbed, under>>
  BY DEF SetFocussed, Uses, IsSelected
<1>2. TypeOK'
  BY <1>1 DEF TypeOK
<1>3. Typing'
  <2>1. focus \in [Windows -> Widgets \cup {Nil}] /\ current \in Windows \cup {Nil}
    BY DEF TypeOK
  <2>2. CASE current = w
    BY <1>1, <2>1, <2>2 DEF Typing
  <2>3. CASE current # w
    BY <1>1, <2>1, <2>3 DEF Good, Typing
  <2> QED BY <2>2, <2>3
<1> QED BY <1>1, <1>2, <1>3 DEF Good, OnTop, Packed, Shown, Dragged

LEMMA ShowGood ==
  ASSUME Disciplined, Distinct, TypeOK, Good, NEW w \in Windows, Show(w)
  PROVE  TypeOK' /\ (~crashed' => Good')
<1>1. /\ ~Indexed(stack, w) /\ w \in alive /\ crashed' \in BOOLEAN
      /\ container' = [container EXCEPT ![w] = Root]
      /\ Select(current, w, AddedAtTop(stack, w))
      /\ UNCHANGED <<alive, child, focus, inChild, dragging, maximised, grabbed, under>>
  BY DEF Show, Disciplined, Uses, windowVars
<1>2. Proper(stack) /\ w \notin Wins(stack) /\ current = Top(stack)
  BY <1>1, IndexedIsIn DEF Good, OnTop
<1>3. w # current
  BY <1>2, TopIsIn DEF Distinct
<1> PICK s : s = AddedAtTop(stack, w)
  OBVIOUS
<1>4. Proper(s) /\ Wins(s) = Wins(stack) \cup {w}
  <2> DEFINE e == [win |-> w, indexed |-> TRUE]
  <2>1. e \in Node /\ e.indexed /\ e.win = w
    BY DEF Node
  <2>2. s = <<e>> \o stack
    BY <1>1 DEF AddedAtTop
  <2> QED BY <1>2, <2>1, <2>2, Together
<1>5. /\ Proper(stack') /\ Wins(stack') = Wins(s) /\ OnTop' /\ Typing'
      /\ current' \in Windows /\ keyFocus' \in Widgets \cup {Nil}
  BY <1>1, <1>3, <1>4, SelectIs DEF Good
<1>6. TypeOK'
  BY <1>1, <1>5 DEF TypeOK, Proper
<1>7. Packed'
  <2>1. \A c \in Widgets : container'[c] = container[c]
    BY <1>1 DEF TypeOK, Distinct
  <2> QED BY <1>1, <2>1 DEF Good, Packed
<1>8. Shown' /\ Dragged'
  BY <1>1, <1>4, <1>5 DEF Good, Shown, Dragged
<1> QED BY <1>5, <1>6, <1>7, <1>8 DEF Good

LEMMA DestroyWindowGood ==
  ASSUME Distinct, TypeOK, Good, NEW w \in Windows, DestroyWindow(w)
  PROVE  TypeOK' /\ (~crashed' => Good')
<1> PICK s : s = Removed(stack, w)
  OBVIOUS
<1> PICK old : old = IF current = w THEN Nil ELSE current
  OBVIOUS
<1>1. /\ w \in alive /\ alive' = alive \ {w} /\ crashed' \in BOOLEAN
      /\ IF s = <<>> THEN stack' = s /\ current' = old /\ UNCHANGED keyFocus
                     ELSE Select(old, Top(s), s)
      /\ under' = (IF under = w THEN Nil ELSE under)
      /\ container' = WithoutContainer(w)
      /\ UNCHANGED <<child, focus, inChild, dragging, maximised, grabbed>>
  <2>1. crashed' \in BOOLEAN
    BY DEF DestroyWindow
  <2> QED BY <2>1 DEF DestroyWindow, windowVars
<1>2. Proper(stack) /\ current = Top(stack) /\ Nil \notin Windows /\ Typing
  BY DEF Good, OnTop, Distinct
<1>3. /\ Proper(s) /\ Wins(s) = Wins(stack) \ {w}
      /\ current # w /\ current # Nil => s # <<>> /\ Top(s) = current
  <2>1. Top(stack) # Nil => stack # <<>>
    BY <1>2, TopIsIn
  <2> QED BY <1>2, <2>1, RemovedIs
<1>4. Widgets \cap alive' = Widgets \cap alive
  BY <1>1 DEF Distinct
<1>5. /\ Proper(stack') /\ Wins(stack') = Wins(s) /\ OnTop' /\ Typing'
      /\ current' \in Windows \cup {Nil} /\ keyFocus' \in Widgets \cup {Nil}
  <2>1. CASE s = <<>>
    <3>1. stack' = s /\ current' = old /\ old = Nil /\ keyFocus' = keyFocus
      BY <1>1, <1>3, <2>1
    <3>2. Top(s) = Nil
      BY <1>3, <2>1, TopIsIn
    <3> QED BY <1>3, <3>1, <3>2 DEF OnTop, Typing, TypeOK
  <2>2. CASE s # <<>>
    <3> PICK v : v = Top(s)
      OBVIOUS
    <3>1. v \in Wins(s) /\ v # Nil
      BY <1>2, <1>3, <2>2, TopIsIn
    <3>2. v = old => current = v /\ Top(s) = v
      BY <3>1
    <3>3. Select(old, v, s)
      BY <1>1, <2>2
    <3> QED BY <1>1, <1>2, <1>3, <1>4, <3>1, <3>2, <3>3, SelectIs
  <2> QED BY <2>1, <2>2
<1>6. /\ container' \in [Windows \cup Widgets -> Windows \cup {Root, Nil}]
      /\ \A c \in Widgets :
           container'[c] = IF c = child[w] THEN Nil ELSE container[c]
  <2>1. /\ child[w] \in Widgets \cup {Nil} /\ Nil \notin Widgets
        /\ container \in [Windows \cup Widgets -> Windows \cup {Root, Nil}]
    BY DEF TypeOK, Distinct
  <2> QED BY <1>1, <2>1 DEF WithoutContainer
<1>7. TypeOK'
  BY <1>1, <1>5, <1>6 DEF TypeOK, Proper
<1>8. Packed'
  <2>1. \A v \in Windows, c \in Widgets \cap alive :
          container[c] = v <=> (v \in alive /\ child[v] = c)
    BY DEF Good, Packed
  <2>2. ASSUME NEW v \in Windows, NEW c \in Widgets \cap alive
        PROVE  container'[c] = v <=> (v \in alive' /\ child'[v] = c)
    <3>1. CASE c = child[w]
      <4>1. container[c] = w /\ container'[c] = Nil
        BY <1>1, <1>6, <2>1, <3>1
      <4> QED BY <1>1, <1>2, <2>1, <4>1
    <3>2. CASE c # child[w]
      BY <1>1, <1>6, <2>1, <3>2
    <3> QED BY <3>1, <3>2
  <2>3. \A v \in Windows \cap alive', c \in Widgets : child'[v] = c => c \in alive'
    BY <1>1 DEF Good, Packed, Distinct
  <2>4. \A c \in Widgets : container'[c] \in Windows \cup {Nil}
    BY <1>6 DEF Good, Packed
  <2> QED BY <1>4, <2>2, <2>3, <2>4 DEF Packed
<1>9. Shown' /\ Dragged'
  BY <1>1, <1>3, <1>5 DEF Good, Shown, Dragged
<1> QED BY <1>5, <1>7, <1>8, <1>9 DEF Good

LEMMA DestroyWidgetGood ==
  ASSUME Distinct, TypeOK, Good, NEW c \in Widgets, DestroyWidget(c)
  PROVE  TypeOK' /\ (~crashed' => Good')
<1> PICK w, packed : w = container[c] /\ packed = (w # Nil /\ child[w] = c)
  OBVIOUS
<1>1. /\ c \in alive /\ alive' = alive \ {c} /\ crashed' \in BOOLEAN
      /\ keyFocus' = IF keyFocus = c THEN Nil ELSE keyFocus
      /\ child' = IF packed THEN [child EXCEPT ![w] = Nil] ELSE child
      /\ container' = IF packed THEN [container EXCEPT ![c] = Nil] ELSE container
      /\ UNCHANGED <<stack, current, focus, inChild, dragging, maximised, grabbed, under>>
  <2>1. crashed' \in BOOLEAN
    BY DEF DestroyWidget, Uses
  <2> QED BY <2>1 DEF DestroyWidget
<1>2. /\ child \in [Windows -> Widgets \cup {Nil}]
      /\ container \in [Windows \cup Widgets -> Windows \cup {Root, Nil}]
      /\ w \in Windows \cup {Nil} /\ Nil \notin Windows \cup Widgets /\ c \notin Windows
  BY DEF TypeOK, Distinct, Good, Packed
<1>3. /\ child' \in [Windows -> Widgets \cup {Nil}]
      /\ \A v \in Windows :
           child'[v] = IF packed /\ v = w THEN Nil ELSE child[v]
      /\ container' \in [Windows \cup Widgets -> Windows \cup {Root, Nil}]
      /\ \A d \in Widgets :
           container'[d] = IF packed /\ d = c THEN Nil ELSE container[d]
  BY <1>1, <1>2
<1>4. TypeOK'
  <2>1. alive' \subseteq Windows \cup Widgets /\ keyFocus' \in Widgets \cup {Nil}
    BY <1>1 DEF TypeOK
  <2> QED BY <1>1, <1>3, <2>1 DEF TypeOK
<1>5. Packed'
  <2>1. \A v \in Windows, d \in Widgets \cap alive :
          container[d] = v <=> (v \in alive /\ child[v] = d)
    BY DEF Good, Packed
  <2>2. \A v \in Windows \cap alive : child[v] = c => v = w /\ packed
    <3>1. ASSUME NEW v \in Windows \cap alive, child[v] = c
          PROVE  v = w /\ w # Nil /\ child[w] = c
      <4>1. container[c] = v
        BY <1>1, <2>1, <3>1
      <4> QED BY <1>2, <3>1, <4>1
    <3> QED BY <3>1
  <2>3. ASSUME NEW v \in Windows \cap alive', NEW d \in Widgets, child'[v] = d
        PROVE  d \in alive'
    <3>1. v \in alive /\ child[v] = d /\ d # c
      BY <1>1, <1>2, <1>3, <2>2, <2>3
    <3> QED BY <1>1, <3>1 DEF Good, Packed
  <2>4. ASSUME NEW v \in Windows, NEW d \in Widgets \cap alive'
        PROVE  container'[d] = v <=> (v \in alive' /\ child'[v] = d)
    <3>1. d # c /\ d \in alive /\ d # Nil /\ container'[d] = container[d]
      BY <1>1, <1>2, <1>3
    <3>2. v \in alive' <=> v \in alive
      BY <1>1, <1>2
    <3>3. child'[v] = d <=> child[v] = d
      BY <1>3, <3>1
    <3> QED BY <2>1, <3>1, <3>2, <3>3
  <2>5. \A d \in Widgets : container'[d] \in Windows \cup {Nil}
    BY <1>3 DEF Good, Packed
  <2> QED BY <2>3, <2>4, <2>5 DEF Packed
<1>6. Typing'
  BY <1>1, <1>2 DEF Good, Typing
<1>7. Shown' /\ Dragged'
  <2>1. Wins(stack) \subseteq Windows
    BY TopIsIn DEF Good, OnTop
  <2> QED BY <1>1, <1>2, <2>1 DEF Good, Shown, Dragged
<1>8. OnTop'
  BY <1>1 DEF Good, OnTop
<1> QED BY <1>4, <1>5, <1>6, <1>7, <1>8 DEF Good

-----------------------------------------------------------------------------
(* Keys.                                                                   *)
LEMMA CycleGood ==
  ASSUME Distinct, TypeOK, Good, NEW s, Proper(s), Wins(s) = Wins(stack),
         s # <<>>, Cycle(s), Top(s) = current => Top(s) # Nil
  PROVE  TypeOK' /\ (~crashed' => Good')
<1> PICK w : w = Top(s)
  OBVIOUS
<1>1. /\ Select(current, w, s) /\ crashed' \in BOOLEAN /\ w \in Wins(s)
      /\ UNCHANGED <<alive, child, focus, inChild, dragging, maximised,
                     container, grabbed, under>>
  BY TopIsIn DEF Cycle, Uses, windowVars
<1>2. /\ Proper(stack') /\ Wins(stack') = Wins(s) /\ OnTop' /\ Typing'
      /\ current' \in Windows /\ keyFocus' \in Widgets \cup {Nil}
  BY <1>1, SelectIs DEF Good
<1>3. TypeOK'
  BY <1>1, <1>2 DEF TypeOK, Proper
<1>4. Packed' /\ Shown' /\ Dragged'
  BY <1>1, <1>2 DEF Good, Packed, Shown, Dragged
<1> QED BY <1>2, <1>3, <1>4 DEF Good

LEMMA KeysGood ==
  ASSUME Distinct, TypeOK, Good, CycleForward \/ CycleBackward \/ Key
  PROVE  TypeOK' /\ (~crashed' => Good')
<1>1. Proper(stack) /\ current = Top(stack) /\ Nil \notin Windows
  BY DEF Good, OnTop, Distinct
<1>2. stack # <<>> => Top(stack) \in Wins(stack) /\ Last(stack).win \in Wins(stack)
  BY <1>1, TopIsIn
<1>3. CASE CycleForward
  <2> PICK s : s = MovedToBottom(stack, Top(stack))
    OBVIOUS
  <2>1. Cycle(s) /\ Proper(s) /\ Wins(s) = Wins(stack) /\ s # <<>>
    BY <1>1, <1>2, <1>3, MovedIs DEF CycleForward
  <2>2. Top(s) # Nil
    BY <1>1, <2>1, TopIsIn
  <2> QED BY <2>1, <2>2, CycleGood
<1>4. CASE CycleBackward
  <2> PICK s : s = MovedToTop(stack, Last(stack).win)
    OBVIOUS
  <2>1. Cycle(s) /\ Proper(s) /\ Wins(s) = Wins(stack) /\ s # <<>>
    BY <1>1, <1>2, <1>4, MovedIs DEF CycleBackward
  <2>2. Top(s) # Nil
    BY <1>1, <2>1, TopIsIn
  <2> QED BY <2>1, <2>2, CycleGood
<1>5. CASE Key
  <2>1. /\ crashed' \in BOOLEAN
        /\ UNCHANGED <<alive, stack, current, child, focus, inChild, dragging,
                       maximised, container, keyFocus, grabbed, under>>
    BY <1>5 DEF Key, Uses, windowVars
  <2> QED BY <2>1 DEF TypeOK, Good, OnTop, Typing, Packed, Shown, Dragged
<1> QED BY <1>3, <1>4, <1>5

-----------------------------------------------------------------------------
(* The pointer.                                                            *)
LEMMA MotionGood ==
  ASSUME Distinct, TypeOK, Good,
         \/ \E i \in DOMAIN stack, enters, in \in BOOLEAN : MotionOver(i, enters, in)
         \/ MotionOverNone \/ Drag
  PROVE  TypeOK' /\ (~crashed' => Good')
<1>1. /\ crashed' \in BOOLEAN /\ under' \in Wins(stack) \cup {Nil, under}
      /\ inChild' \in [Windows -> BOOLEAN]
      /\ UNCHANGED <<alive, stack, current, child, focus, dragging, maximised,
                     container, keyFocus, grabbed>>
  <2>1. ASSUME NEW i \in DOMAIN stack, NEW enters \in BOOLEAN, NEW in \in BOOLEAN,
               MotionOver(i, enters, in)
        PROVE  /\ crashed' \in BOOLEAN /\ under' \in Wins(stack)
               /\ inChild' \in [Windows -> BOOLEAN]
               /\ UNCHANGED <<alive, stack, current, child, focus, dragging, maximised,
                              container, keyFocus, grabbed>>
    <3> PICK w, left : /\ w = stack[i].win
                       /\ left = IF under \in {Nil, w} THEN {} ELSE {under}
      OBVIOUS
    <3>1. /\ crashed' \in BOOLEAN /\ under' = w
          /\ UNCHANGED <<alive, stack, current, child, focus, dragging, maximised,
                         container, keyFocus, grabbed>>
      BY <2>1 DEF MotionOver, Uses
    <3>2. inChild' = [v \in Windows |->
                       IF v = w THEN Inside(w, enters /\ under # w, in)
                       ELSE inChild[v] /\ ~(v \in left /\ child[v] # Nil)]
      BY <2>1 DEF MotionOver
    <3>3. inChild \in [Windows -> BOOLEAN]
      BY DEF TypeOK
    <3>4. \A v \in Windows : Inside(v, enters /\ under # w, in) \in BOOLEAN
      BY <3>3 DEF Inside
    <3> QED BY <3>1, <3>2, <3>3, <3>4 DEF Wins
  <2>2. ASSUME MotionOverNone \/ Drag
        PROVE  /\ crashed' \in BOOLEAN /\ under' \in {Nil, under}
               /\ inChild' \in [Windows -> BOOLEAN]
               /\ UNCHANGED <<alive, stack, current, child, focus, dragging, maximised,
                              container, keyFocus, grabbed>>
    <3>1. inChild \in [Windows -> BOOLEAN]
      BY DEF TypeOK
    <3> QED BY <2>2, <3>1 DEF MotionOverNone, Drag, Uses, windowVars
  <2> QED BY <2>1, <2>2
<1>2. Wins(stack) \subseteq Windows
  BY TopIsIn DEF Good, OnTop
<1> QED BY <1>1, <1>2 DEF TypeOK, Good, OnTop, Typing, Packed, Shown, Dragged

(* What a button of the pointer does to window w, ...                      *)
Pressed(w, reshapes, releases) ==
  /\ crashed' \in BOOLEAN
  /\ UNCHANGED <<alive, child, focus, inChild, container, under>>
  /\ maximised' \in [Windows -> BOOLEAN]
  /\ IF releases THEN UNCHANGED <<stack, current, keyFocus>>
                 ELSE Select(current, w, stack)
  /\ dragging' = IF reshapes \/ releases
                 THEN [dragging EXCEPT ![w] = reshapes] ELSE dragging
  /\ grabbed' = IF reshapes THEN w ELSE IF releases THEN Nil ELSE grabbed

LEMMA ButtonCases ==
  ASSUME TypeOK, NEW w \in Windows, NEW asked, Button(w, asked), Nil \notin Windows
  PROVE  /\ w \notin alive => crashed'
         /\ \E reshapes, releases \in BOOLEAN : Pressed(w, reshapes, releases)
<1>1. maximised \in [Windows -> BOOLEAN]
  BY DEF TypeOK
<1>2. ASSUME NEW used,
             \/ ButtonOn(w, used, PlainPress) \/ ButtonOn(w, used, Reshape)
             \/ ButtonOn(w, used, Maximise) \/ ButtonOn(w, used, Release)
      PROVE  /\ crashed' \in BOOLEAN /\ (w \notin alive => crashed')
             /\ UNCHANGED <<alive, child, focus, inChild, container, under>>
             /\ PlainPress(w) \/ Reshape(w) \/ Maximise(w) \/ Release(w)
  BY <1>2 DEF ButtonOn, Uses, Usable
<1>3. /\ crashed' \in BOOLEAN /\ (w \notin alive => crashed')
      /\ UNCHANGED <<alive, child, focus, inChild, container, under>>
      /\ PlainPress(w) \/ Reshape(w) \/ Maximise(w) \/ Release(w)
  <2>1. \E used :
          \/ ButtonOn(w, used, PlainPress) \/ ButtonOn(w, used, Reshape)
          \/ ButtonOn(w, used, Maximise) \/ ButtonOn(w, used, Release)
    BY DEF Button
  <2> QED BY <1>2, <2>1
<1>4. CASE PlainPress(w)
  <2>1. Pressed(w, FALSE, FALSE)
    BY <1>1, <1>3, <1>4 DEF PlainPress, Pressed
  <2> QED BY <1>3, <2>1
<1>5. CASE Maximise(w)
  <2>1. maximised' \in [Windows -> BOOLEAN]
    BY <1>1, <1>5 DEF Maximise
  <2>2. Pressed(w, FALSE, FALSE)
    BY <1>3, <1>5, <2>1 DEF Maximise, Pressed
  <2> QED BY <1>3, <2>2
<1>6. CASE Reshape(w)
  <2>1. Pressed(w, TRUE, FALSE)
    BY <1>1, <1>3, <1>6 DEF Reshape, GrabsPointer, Pressed
  <2> QED BY <1>3, <2>1
<1>7. CASE Release(w)
  <2>1. Pressed(w, FALSE, TRUE)
    BY <1>1, <1>3, <1>7 DEF Release, Pressed
  <2> QED BY <1>3, <2>1
<1> QED BY <1>3, <1>4, <1>5, <1>6, <1>7

(* ... which keeps what holds when the window is shown.                    *)
LEMMA ButtonGood ==
  ASSUME Distinct, TypeOK, Good, NEW w \in Windows, NEW used,
         w \in Wins(stack), grabbed \in {Nil, w},
         NEW reshapes \in BOOLEAN, NEW releases \in BOOLEAN,
         Pressed(w, reshapes, releases)
  PROVE  TypeOK' /\ Good'
<1>0. /\ crashed' \in BOOLEAN
      /\ UNCHANGED <<alive, child, focus, inChild, container, under>>
      /\ maximised' \in [Windows -> BOOLEAN]
      /\ IF releases THEN UNCHANGED <<stack, current, keyFocus>>
                     ELSE Select(current, w, stack)
      /\ dragging' = IF reshapes \/ releases
                     THEN [dragging EXCEPT ![w] = reshapes] ELSE dragging
      /\ grabbed' = IF reshapes THEN w ELSE IF releases THEN Nil ELSE grabbed
  BY DEF Pressed
<1>1. /\ Proper(stack') /\ Wins(stack') = Wins(stack) /\ OnTop' /\ Typing'
      /\ current' \in Windows \cup {Nil} /\ keyFocus' \in Widgets \cup {Nil}
  <2>1. CASE releases
    BY <1>0, <2>1 DEF Good, OnTop, Typing, TypeOK
  <2>2. CASE ~releases
    <3>1. Proper(stack) /\ (w = current => Top(stack) = w)
      BY DEF Good, OnTop
    <3> QED BY <1>0, <2>2, <3>1, SelectIs DEF Good
  <2> QED BY <2>1, <2>2
<1>2. TypeOK'
  BY <1>0, <1>1 DEF TypeOK, Proper
<1>3. Dragged'
  <2>1. /\ dragging \in [Windows -> BOOLEAN] /\ w \in alive /\ Nil \notin Windows
        /\ Nil \notin alive
    BY DEF TypeOK, Good, Shown, Distinct
  <2>2. \A v \in Windows \cap alive : dragging[v] <=> grabbed = v
    BY DEF Good, Dragged
  <2>3. CASE reshapes
    <3>1. /\ grabbed' = w /\ dragging'[w] = TRUE
          /\ \A v \in Windows : v # w => dragging'[v] = dragging[v]
      BY <1>0, <2>1, <2>3
    <3>2. \A v \in Windows \cap alive : v # w => ~dragging[v]
      BY <2>1, <2>2
    <3> QED BY <1>0, <1>1, <2>1, <3>1, <3>2 DEF Dragged
  <2>4. CASE releases /\ ~reshapes
    <3>1. /\ grabbed' = Nil /\ dragging'[w] = FALSE
          /\ \A v \in Windows : v # w => dragging'[v] = dragging[v]
      BY <1>0, <2>1, <2>4
    <3>2. \A v \in Windows \cap alive : v # w => ~dragging[v]
      BY <2>1, <2>2
    <3> QED BY <1>0, <1>1, <2>1, <3>1, <3>2 DEF Dragged
  <2>5. CASE ~releases /\ ~reshapes
    BY <1>0, <1>1, <2>5 DEF Good, Dragged
  <2> QED BY <2>3, <2>4, <2>5
<1>4. Packed' /\ Shown'
  BY <1>0, <1>1 DEF Good, Packed, Shown
<1> QED BY <1>1, <1>2, <1>3, <1>4 DEF Good

(* A window that was destroyed is not in the stack, and nothing is moved.  *)
LEMMA ButtonGone ==
  ASSUME Distinct, TypeOK, Good, NEW w \in Windows, w \notin alive,
         NEW reshapes \in BOOLEAN, NEW releases \in BOOLEAN,
         Pressed(w, reshapes, releases)
  PROVE  TypeOK'
<1>1. Proper(stack) /\ w \notin Wins(stack)
  BY DEF Good, OnTop, Shown
<1>2. Raised(stack, w) = stack
  <2>1. ~Indexed(stack, w) /\ stack \in Seq(Node)
    BY <1>1, IndexedIsIn DEF Proper
  <2>2. MovedToTop(stack, w) = stack
    BY <2>1 DEF MovedToTop, Found, Removed
  <2> QED BY <2>2 DEF Raised
<1>3. /\ stack' = stack /\ current' \in Windows \cup {Nil}
      /\ keyFocus' \in Widgets \cup {Nil}
  BY <1>2 DEF Pressed, Select, TypeOK
<1>4. dragging' \in [Windows -> BOOLEAN] /\ grabbed' \in Windows \cup {Nil}
  BY DEF Pressed, TypeOK
<1> QED BY <1>3, <1>4 DEF Pressed, TypeOK

LEMMA ButtonsGood ==
  ASSUME Distinct, TypeOK, Good,
         \/ \E i \in DOMAIN stack : ButtonOver(i)
         \/ ButtonGrabbed
  PROVE  TypeOK' /\ (~crashed' => Good')
<1>1. Proper(stack) /\ Wins(stack) \subseteq Windows \cap alive
  BY TopIsIn DEF Good, OnTop, Shown
<1>2. Nil \notin Windows
  BY DEF Distinct
<1>3. PICK w \in Windows : /\ w \in alive => w \in Wins(stack)
                           /\ grabbed \in {Nil, w}
                           /\ \E asked : Button(w, asked)
  <2>1. ASSUME NEW i \in DOMAIN stack, ButtonOver(i)
        PROVE  /\ stack[i].win \in Wins(stack) /\ grabbed = Nil
               /\ Button(stack[i].win, Asked(i))
    BY <2>1 DEF Wins, ButtonOver
  <2>2. CASE ButtonGrabbed
    <3>1. grabbed \in Windows /\ Button(grabbed, {})
      BY <2>2 DEF ButtonGrabbed, TypeOK
    <3>2. grabbed \in alive => grabbed \in Wins(stack)
      BY DEF Good, Dragged
    <3> QED BY <3>1, <3>2
  <2> QED BY <1>1, <2>1, <2>2
<1>4. PICK reshapes \in BOOLEAN, releases \in BOOLEAN : Pressed(w, reshapes, releases)
  BY <1>2, <1>3, ButtonCases
<1>5. w \notin alive => crashed'
  BY <1>2, <1>3, ButtonCases
<1>6. CASE w \in alive
  BY <1>3, <1>4, <1>6, ButtonGood
<1>7. CASE w \notin alive
  BY <1>4, <1>5, <1>7, ButtonGone
<1> QED BY <1>6, <1>7

-----------------------------------------------------------------------------
LEMMA StepGood ==
  ASSUME Disciplined, Distinct, IInv, [Next]_vars
  PROVE  IInv'
<1>1. CASE UNCHANGED vars
  BY <1>1 DEF vars, IInv, TypeOK, Good, OnTop, Typing, Packed, Shown, Dragged
<1>2. ASSUME Next PROVE IInv'
  <2>1. ~crashed
    BY <1>2 DEF Next, Show, DestroyWindow, SetChild, SetFocussed, DestroyWidget,
       CycleForward, CycleBackward, Cycle, Key, MotionOver, MotionOverNone, Drag,
       ButtonOver, ButtonGrabbed, Button, ButtonOn, Running
  <2>2. TypeOK /\ Good
    BY <2>1 DEF IInv
  <2>3. TypeOK' /\ (~crashed' => Good')
    <3>1. ASSUME NEW w \in Windows, Show(w) \/ DestroyWindow(w)
          PROVE  TypeOK' /\ (~crashed' => Good')
      BY <2>2, <3>1, ShowGood, DestroyWindowGood
    <3>2. ASSUME NEW w \in Windows, NEW c \in Widgets, SetChild(w, c) \/ SetFocussed(w, c)
          PROVE  TypeOK' /\ (~crashed' => Good')
      BY <2>2, <3>2, SetChildGood, SetFocussedGood
    <3>3. ASSUME NEW c \in Widgets, DestroyWidget(c)
          PROVE  TypeOK' /\ (~crashed' => Good')
      BY <2>2, <3>3, DestroyWidgetGood
    <3>4. CASE CycleForward \/ CycleBackward \/ Key
      BY <2>2, <3>4, KeysGood
    <3>5. CASE (\E i \in DOMAIN stack : ButtonOver(i)) \/ ButtonGrabbed
      BY <2>2, <3>5, ButtonsGood
    <3>6. CASE \/ \E i \in DOMAIN stack, enters, in \in BOOLEAN : MotionOver(i, enters, in)
               \/ MotionOverNone \/ Drag
      BY <2>2, <3>6, MotionGood
    <3> QED BY <1>2, <3>1, <3>2, <3>3, <3>4, <3>5, <3>6 DEF Next
  <2> QED BY <2>3 DEF IInv
<1> QED BY <1>1, <1>2

LEMMA Inductive ==
  ASSUME Disciplined, Distinct
  PROVE  Spec => []IInv
<1>1. Init => IInv
  BY InitGood
<1>2. IInv /\ [Next]_vars => IInv'
  BY StepGood
<1> QED BY <1>1, <1>2, PTL DEF Spec

(* The variables keep their types (desktop.c, window.c, widget.c).         *)
THEOREM TypeCorrect ==
  ASSUME Disciplined, Distinct
  PROVE  Spec => []TypeOK
<1>1. IInv => TypeOK
  BY DEF IInv
<1> QED BY <1>1, Inductive, PTL

(* What a destroyed window or widget leaves behind is the focus of a       *)
(* window and the grab of the pointer, and those only.                     *)
LEMMA Dangling ==
  ASSUME IInv
  PROVE  References
<1>1. ASSUME ~crashed
      PROVE  /\ \A w \in Windows \cap alive, c \in Widgets : child[w] = c => c \in alive
             /\ \A w \in Windows, c \in Widgets \cap alive :
                  container[c] = w <=> (w \in alive /\ child[w] = c)
             /\ \A i \in DOMAIN stack : stack[i].win \in alive
             /\ under # Nil => Indexed(stack, under)
             /\ \A w \in Windows \cap alive : dragging[w] <=> grabbed = w
  <2>1. Proper(stack) /\ Packed /\ Shown /\ Dragged
    BY <1>1 DEF IInv, Good, OnTop
  <2>2. under # Nil => Indexed(stack, under)
    BY <2>1, IndexedIsIn DEF Shown
  <2>3. \A i \in DOMAIN stack : stack[i].win \in alive
    BY <2>1 DEF Shown, Wins
  <2> QED BY <2>1, <2>2, <2>3 DEF Packed, Dragged
<1> QED BY <1>1 DEF References

(* The window that is selected is the one at the top, the keyboard is with *)
(* its focus, unless that was destroyed (default.c:94-118,                 *)
(* window.c:233-253), and no pointer but the focus of a window and the     *)
(* grab names what was destroyed.                                          *)
THEOREM Focus ==
  ASSUME Disciplined, Distinct
  PROVE  Spec => []FocusFollows
<1>1. IInv => SelectedOnTop /\ KeyboardFollows
  BY DEF IInv, Good, OnTop, Typing, SelectedOnTop, KeyboardFollows
<1>2. IInv => FocusFollows
  BY <1>1, Dangling DEF FocusFollows
<1> QED BY <1>2, Inductive, PTL

-----------------------------------------------------------------------------
(* Buttons: what is pressed in a group is selected; that is inductive.     *)
ButtonInv == Presses!TypeOK /\ Presses!OnlySelected

LEMMA RadioSet ==
  ASSUME ButtonKinds, ButtonInv, NEW b \in Radio, NEW v \in {0, 1}, Presses!SetRadio(b, v),
         UNCHANGED <<b_group, b_members>>
  PROVE  /\ b_pressed' \in [Presses!Buttons -> {0, 1}] /\ b_state' \in [Presses!Buttons -> {0, 1}]
         /\ b_selected' \in [Groups -> Radio \cup {Nil}]
         /\ Presses!OnlySelected'
<1> PICK g : g = b_group[b]
  OBVIOUS
<1> PICK cleared : cleared = IF v = 1 /\ g # Nil THEN {b_selected[g]} \ {Nil} ELSE {}
  OBVIOUS
<1>1. /\ b_pressed' = [c \in Presses!Buttons |->
                     IF c \in cleared THEN 0 ELSE IF c = b THEN v ELSE b_pressed[c]]
      /\ b_state' = [c \in Presses!Buttons |->
                   IF c = b THEN v ELSE IF c \in cleared THEN 0 ELSE b_state[c]]
      /\ b_selected' = IF v = 1 /\ g # Nil THEN [b_selected EXCEPT ![g] = b] ELSE b_selected
      /\ b_group' = b_group /\ b_members' = b_members
  BY DEF Presses!SetRadio, Presses!Unset
<1>2. /\ b_pressed \in [Presses!Buttons -> {0, 1}] /\ b_state \in [Presses!Buttons -> {0, 1}]
      /\ b_group \in [Radio -> Groups \cup {Nil}] /\ b_members \in [Groups -> SUBSET Radio]
      /\ b_selected \in [Groups -> Radio \cup {Nil}] /\ g \in Groups \cup {Nil}
      /\ Nil \notin Groups /\ Radio \subseteq Presses!Buttons /\ Nil \notin Radio
  BY DEF ButtonInv, Presses!TypeOK, ButtonKinds, Presses!Buttons
<1>3. /\ \A h \in Groups :
           {c \in b_members[h] : b_pressed[c] = 1 \/ b_state[c] = 1} \subseteq {b_selected[h]}
      /\ \A h \in Groups : b_members[h] = {c \in Radio : b_group[c] = h}
      /\ \A h \in Groups : b_selected[h] # Nil => b_group[b_selected[h]] = h
  BY DEF ButtonInv, Presses!OnlySelected
<1>4. /\ b_pressed' \in [Presses!Buttons -> {0, 1}] /\ b_state' \in [Presses!Buttons -> {0, 1}]
      /\ b_selected' \in [Groups -> Radio \cup {Nil}]
  BY <1>1, <1>2
<1>5. ASSUME NEW h \in Groups, NEW c \in b_members[h], b_pressed'[c] = 1 \/ b_state'[c] = 1
      PROVE  c = b_selected'[h]
  <2>1. c \in Radio /\ b_group[c] = h /\ c \in Presses!Buttons
    BY <1>2, <1>3
  <2>2. CASE c = b
    <3>1. g = h /\ v = 1
      BY <1>1, <1>2, <1>5, <2>1, <2>2
    <3> QED BY <1>1, <1>2, <2>2, <3>1
  <2>3. CASE c # b
    <3>1. (b_pressed[c] = 1 \/ b_state[c] = 1) /\ c \notin cleared
      BY <1>1, <1>5, <2>1, <2>3
    <3>2. c = b_selected[h]
      BY <1>3, <3>1
    <3>3. ~(v = 1 /\ g = h)
      BY <1>2, <2>1, <3>1, <3>2
    <3> QED BY <1>1, <1>2, <3>2, <3>3
  <2> QED BY <2>2, <2>3
<1>6. ASSUME NEW h \in Groups, b_selected'[h] # Nil
      PROVE  b_group[b_selected'[h]] = h
  BY <1>1, <1>2, <1>3, <1>6
<1>7. /\ \A h \in Groups :
           {c \in b_members[h] : b_pressed'[c] = 1 \/ b_state'[c] = 1} \subseteq {b_selected'[h]}
      /\ \A h \in Groups : b_members[h] = {c \in Radio : b_group[c] = h}
      /\ \A h \in Groups : b_selected'[h] # Nil => b_group[b_selected'[h]] = h
  BY <1>3, <1>5, <1>6
<1> QED BY <1>1, <1>4, <1>7 DEF Presses!OnlySelected

(* A property that is set, of any button.                                  *)
LEMMA PressedSet ==
  ASSUME ButtonKinds, ButtonInv, NEW b \in Presses!Buttons, NEW v \in {0, 1},
         Presses!SetPressed(b, v), UNCHANGED <<b_group, b_members>>
  PROVE  /\ b_pressed' \in [Presses!Buttons -> {0, 1}] /\ b_state' \in [Presses!Buttons -> {0, 1}]
         /\ b_selected' \in [Groups -> Radio \cup {Nil}]
         /\ Presses!OnlySelected'
<1>1. CASE b \in Radio
  BY <1>1, RadioSet DEF Presses!SetPressed
<1>2. CASE b \notin Radio
  <2>1. /\ b_pressed' = [b_pressed EXCEPT ![b] = v] /\ b_state' = [b_state EXCEPT ![b] = v]
        /\ b_selected' = b_selected /\ b_group' = b_group /\ b_members' = b_members
    BY <1>2 DEF Presses!SetPressed
  <2>2. /\ b_pressed' \in [Presses!Buttons -> {0, 1}] /\ b_state' \in [Presses!Buttons -> {0, 1}]
        /\ b_selected' \in [Groups -> Radio \cup {Nil}]
    BY <2>1 DEF ButtonInv, Presses!TypeOK
  <2>3. \A c \in Radio : b_pressed'[c] = b_pressed[c] /\ b_state'[c] = b_state[c]
    BY <1>2, <2>1 DEF ButtonInv, Presses!TypeOK, Presses!Buttons
  <2>4. \A h \in Groups : b_members[h] \subseteq Radio
    BY DEF ButtonInv, Presses!TypeOK
  <2> QED BY <2>1, <2>2, <2>3, <2>4 DEF ButtonInv, Presses!OnlySelected
<1> QED BY <1>1, <1>2

LEMMA GroupSet ==
  ASSUME ButtonKinds, ButtonInv, NEW b \in Radio, NEW g \in Groups, Presses!SetRadioGroup(b, g)
  PROVE  ButtonInv'
<1> PICK left : left = Presses!RemovedFrom(b)
  OBVIOUS
<1> PICK joins \in BOOLEAN : joins = (left[g] = Nil /\ b_pressed[b] = 1)
  OBVIOUS
<1>1. /\ b_group' = [b_group EXCEPT ![b] = g]
      /\ b_members' = [h \in Groups |-> IF h = g THEN b_members[h] \cup {b} ELSE b_members[h] \ {b}]
      /\ b_selected' = IF joins THEN [left EXCEPT ![g] = b] ELSE left
      /\ left = [h \in Groups |-> IF h = b_group[b] /\ b_selected[h] = b THEN Nil
           ELSE b_selected[h]]
      /\ joins => b_pressed' = b_pressed /\ b_state' = b_state
      /\ ~joins => b_pressed' = [b_pressed EXCEPT ![b] = 0] /\ b_state' = [b_state EXCEPT ![b] = 0]
      /\ b_look' = b_look /\ b_grabbed' = b_grabbed /\ b_down' = b_down
  BY DEF Presses!SetRadioGroup, Presses!RemovedFrom
<1>2. /\ b_pressed \in [Presses!Buttons -> {0, 1}] /\ b_state \in [Presses!Buttons -> {0, 1}]
      /\ b_group \in [Radio -> Groups \cup {Nil}] /\ b_members \in [Groups -> SUBSET Radio]
      /\ b_selected \in [Groups -> Radio \cup {Nil}]
      /\ Nil \notin Groups /\ Radio \subseteq Presses!Buttons /\ Nil \notin Radio
  BY DEF ButtonInv, Presses!TypeOK, ButtonKinds, Presses!Buttons
<1>3. /\ \A h \in Groups :
           {c \in b_members[h] : b_pressed[c] = 1 \/ b_state[c] = 1} \subseteq {b_selected[h]}
      /\ \A h \in Groups : b_members[h] = {c \in Radio : b_group[c] = h}
      /\ \A h \in Groups : b_selected[h] # Nil => b_group[b_selected[h]] = h
  BY DEF ButtonInv, Presses!OnlySelected
<1>4. left \in [Groups -> Radio \cup {Nil}] /\ \A h \in Groups : left[h] # b
  BY <1>1, <1>2, <1>3
<1>5. /\ b_pressed' \in [Presses!Buttons -> {0, 1}] /\ b_state' \in [Presses!Buttons -> {0, 1}]
      /\ b_group' \in [Radio -> Groups \cup {Nil}] /\ b_members' \in [Groups -> SUBSET Radio]
      /\ b_selected' \in [Groups -> Radio \cup {Nil}]
  BY <1>1, <1>2, <1>4
<1>6. \A h \in Groups : b_members'[h] = {c \in Radio : b_group'[c] = h}
  BY <1>1, <1>2, <1>3
<1>7. ASSUME NEW h \in Groups, b_selected'[h] # Nil
      PROVE  b_group'[b_selected'[h]] = h
  <2>1. CASE joins /\ h = g
    BY <1>1, <1>2, <1>4, <2>1
  <2>2. CASE ~(joins /\ h = g)
    <3>1. b_selected'[h] = left[h] /\ left[h] # Nil
      BY <1>1, <1>4, <1>7, <2>2
    <3>2. left[h] = b_selected[h] /\ left[h] # b /\ left[h] \in Radio
      BY <1>1, <1>4, <3>1
    <3> QED BY <1>1, <1>2, <1>3, <3>1, <3>2
  <2> QED BY <2>1, <2>2
<1>8. ASSUME NEW h \in Groups, NEW c \in b_members'[h], b_pressed'[c] = 1 \/ b_state'[c] = 1
      PROVE  c = b_selected'[h]
  <2>1. c \in Radio /\ b_group'[c] = h /\ c \in Presses!Buttons
    BY <1>2, <1>5, <1>6
  <2>2. CASE c = b
    <3>1. joins /\ h = g
      BY <1>1, <1>2, <1>8, <2>1, <2>2
    <3> QED BY <1>1, <1>4, <2>2, <3>1
  <2>3. CASE c # b
    <3>1. (b_pressed[c] = 1 \/ b_state[c] = 1) /\ c \in b_members[h]
      BY <1>1, <1>2, <1>3, <1>8, <2>1, <2>3
    <3>2. c = b_selected[h] /\ left[h] = c
      BY <1>1, <1>3, <2>3, <3>1
    <3>3. ~(joins /\ h = g)
      BY <1>2, <2>1, <3>2
    <3> QED BY <1>1, <1>4, <3>2, <3>3
  <2> QED BY <2>2, <2>3
<1>9. Presses!OnlySelected'
  BY <1>6, <1>7, <1>8 DEF Presses!OnlySelected
<1> QED BY <1>1, <1>5, <1>9 DEF ButtonInv, Presses!TypeOK

LEMMA PressGood ==
  ASSUME ButtonKinds, ButtonInv, NEW b \in Presses!Buttons \cup {Nil}, Presses!Press(b)
  PROVE  ButtonInv'
<1> PICK t : t = Presses!Target(b)
  OBVIOUS
<1>1. t \in Presses!Buttons \cup {Nil}
  BY DEF Presses!Target, ButtonInv, Presses!TypeOK
<1>2. b_down' = TRUE /\ b_group' = b_group /\ b_members' = b_members
  BY DEF Presses!Press
<1>3. CASE ~Presses!Heeds(t)
  <2>1. UNCHANGED <<b_pressed, b_state, b_look, b_selected, b_grabbed>>
    BY <1>3 DEF Presses!Press
  <2> QED BY <1>2, <2>1 DEF ButtonInv, Presses!TypeOK, Presses!OnlySelected
<1>4. CASE Presses!Heeds(t)
  <2>1. t \in Presses!Buttons
    BY <1>1, <1>4 DEF Presses!Heeds
  <2>2. /\ b_look' = [b_look EXCEPT ![t] = "pressed"]
        /\ b_grabbed' = IF t \in Plain THEN t ELSE b_grabbed
        /\ CASE t \in Plain -> Presses!SetPressed(t, 1)
             [] t \in Toggle -> Presses!SetPressed(t, 1 - b_state[t])
             [] t \in Radio -> IF b_state[t] = 1 THEN UNCHANGED <<b_pressed, b_state, b_selected>>
                               ELSE Presses!SetPressed(t, 1)
    BY <1>4 DEF Presses!Press, Presses!Look
  <2>3. 1 - b_state[t] \in {0, 1}
    BY <2>1 DEF ButtonInv, Presses!TypeOK
  <2>4. \/ \E v \in {0, 1} : Presses!SetPressed(t, v)
        \/ UNCHANGED <<b_pressed, b_state, b_selected>>
    BY <2>1, <2>2, <2>3 DEF Presses!Buttons
  <2>5. /\ b_pressed' \in [Presses!Buttons -> {0, 1}] /\ b_state' \in [Presses!Buttons -> {0, 1}]
        /\ b_selected' \in [Groups -> Radio \cup {Nil}]
        /\ Presses!OnlySelected'
    <3>1. CASE UNCHANGED <<b_pressed, b_state, b_selected>>
      BY <1>2, <3>1 DEF ButtonInv, Presses!TypeOK, Presses!OnlySelected
    <3>2. ASSUME NEW v \in {0, 1}, Presses!SetPressed(t, v)
          PROVE  /\ b_pressed' \in [Presses!Buttons -> {0, 1}]
                 /\ b_state' \in [Presses!Buttons -> {0, 1}]
                 /\ b_selected' \in [Groups -> Radio \cup {Nil}]
                 /\ Presses!OnlySelected'
      BY <1>2, <2>1, <3>2, PressedSet
    <3> QED BY <2>4, <3>1, <3>2
  <2>6. b_look' \in [Presses!Buttons -> Presses!Looks] /\ b_grabbed' \in Presses!Buttons \cup {Nil}
    BY <2>1, <2>2 DEF ButtonInv, Presses!TypeOK, Presses!Looks
  <2>7. b_group' \in [Radio -> Groups \cup {Nil}] /\ b_members' \in [Groups -> SUBSET Radio]
    BY <1>2 DEF ButtonInv, Presses!TypeOK
  <2> QED BY <1>2, <2>5, <2>6, <2>7 DEF ButtonInv, Presses!TypeOK
<1> QED BY <1>3, <1>4

LEMMA ReleaseGood ==
  ASSUME ButtonKinds, ButtonInv, NEW b \in Presses!Buttons \cup {Nil}, NEW over \in BOOLEAN,
         Presses!Release(b, over)
  PROVE  ButtonInv'
<1> PICK t : t = Presses!Target(b)
  OBVIOUS
<1>1. t \in Presses!Buttons \cup {Nil}
  BY DEF Presses!Target, ButtonInv, Presses!TypeOK
<1>2. b_down' = FALSE /\ b_group' = b_group /\ b_members' = b_members
  BY DEF Presses!Release
<1>3. CASE ~Presses!Heeds(t)
  <2>1. UNCHANGED <<b_pressed, b_state, b_look, b_selected, b_grabbed>>
    BY <1>3 DEF Presses!Release
  <2> QED BY <1>2, <2>1 DEF ButtonInv, Presses!TypeOK, Presses!OnlySelected
<1>4. CASE Presses!Heeds(t)
  <2>1. t \in Presses!Buttons
    BY <1>1, <1>4 DEF Presses!Heeds
  <2>2. /\ b_look' = [b_look EXCEPT ![t] = IF over THEN "hover" ELSE "normal"]
        /\ b_grabbed' = IF t \in Plain THEN Nil ELSE b_grabbed
        /\ IF t \in Plain THEN Presses!SetPressed(t, 0)
             ELSE UNCHANGED <<b_pressed, b_state, b_selected>>
    BY <1>4 DEF Presses!Release, Presses!Look, Presses!Released
  <2>3. /\ b_pressed' \in [Presses!Buttons -> {0, 1}] /\ b_state' \in [Presses!Buttons -> {0, 1}]
        /\ b_selected' \in [Groups -> Radio \cup {Nil}]
        /\ Presses!OnlySelected'
    <3>1. CASE t \in Plain
      BY <1>2, <2>1, <2>2, <3>1, PressedSet
    <3>2. CASE t \notin Plain
      BY <1>2, <2>2, <3>2 DEF ButtonInv, Presses!TypeOK, Presses!OnlySelected
    <3> QED BY <3>1, <3>2
  <2>4. b_look' \in [Presses!Buttons -> Presses!Looks] /\ b_grabbed' \in Presses!Buttons \cup {Nil}
    BY <2>1, <2>2 DEF ButtonInv, Presses!TypeOK, Presses!Looks
  <2>5. b_group' \in [Radio -> Groups \cup {Nil}] /\ b_members' \in [Groups -> SUBSET Radio]
    BY <1>2 DEF ButtonInv, Presses!TypeOK
  <2> QED BY <1>2, <2>3, <2>4, <2>5 DEF ButtonInv, Presses!TypeOK
<1> QED BY <1>3, <1>4

(* A step that sets no property of a radio button and moves none.          *)
LEMMA OthersGood ==
  ASSUME ButtonKinds, ButtonInv,
         \/ \E b \in Presses!Buttons, e \in BOOLEAN : Presses!Enable(b, e)
         \/ \E b \in Presses!Buttons \cup {Nil}, over \in BOOLEAN : Presses!Motion(b, over)
         \/ \E b \in Presses!Buttons : Presses!PointerEnter(b) \/ Presses!PointerLeave(b)
         \/ UNCHANGED Presses!vars
  PROVE  ButtonInv'
<1>1. ASSUME NEW b \in Presses!Buttons, NEW e \in BOOLEAN, Presses!Enable(b, e)
      PROVE  ButtonInv'
  BY <1>1 DEF Presses!Enable, ButtonInv, Presses!TypeOK, Presses!OnlySelected, Presses!Looks
<1>2. ASSUME NEW b \in Presses!Buttons, Presses!PointerEnter(b) \/ Presses!PointerLeave(b)
      PROVE  ButtonInv'
  BY <1>2 DEF Presses!PointerEnter, Presses!PointerLeave, Presses!Look, ButtonInv, Presses!TypeOK,
              Presses!OnlySelected, Presses!Looks
<1>3. ASSUME NEW b \in Presses!Buttons \cup {Nil}, NEW over \in BOOLEAN, Presses!Motion(b, over)
      PROVE  ButtonInv'
  <2> PICK t : t = Presses!Target(b)
    OBVIOUS
  <2>1. /\ t \in Plain /\ t \in Presses!Buttons
        /\ \/ b_look' = [b_look EXCEPT ![t] = "cancelling"] /\ b_state' = b_state
           \/ b_look' = b_look /\ b_state' = [b_state EXCEPT ![t] = 1]
        /\ UNCHANGED <<b_pressed, b_group, b_members, b_selected, b_grabbed, b_down>>
    BY <1>3 DEF Presses!Motion, Presses!Look, Presses!Buttons
  <2>2. \A c \in Radio : b_state'[c] = b_state[c]
    BY <2>1 DEF ButtonKinds, ButtonInv, Presses!TypeOK, Presses!Buttons
  <2>3. Presses!TypeOK'
    BY <2>1 DEF ButtonInv, Presses!TypeOK, Presses!Looks
  <2>4. \A h \in Groups : b_members[h] \subseteq Radio
    BY DEF ButtonInv, Presses!TypeOK
  <2>5. Presses!OnlySelected'
    BY <2>1, <2>2, <2>4 DEF ButtonInv, Presses!OnlySelected
  <2> QED BY <2>3, <2>5 DEF ButtonInv
<1>4. CASE UNCHANGED Presses!vars
  BY <1>4 DEF Presses!vars, ButtonInv, Presses!TypeOK, Presses!OnlySelected
<1> QED BY <1>1, <1>2, <1>3, <1>4

LEMMA ButtonStep ==
  ASSUME ButtonKinds, ButtonInv, [Presses!Next]_(Presses!vars)
  PROVE  ButtonInv'
<1>1. ASSUME NEW b \in Presses!Buttons, NEW v \in ClientSets, Presses!ClientSetsPressed(b, v)
      PROVE  ButtonInv'
  <2>1. /\ v \in {0, 1} /\ Presses!SetPressed(b, v)
        /\ UNCHANGED <<b_look, b_group, b_members, b_grabbed, b_down>>
    BY <1>1 DEF Presses!ClientSetsPressed, ButtonKinds
  <2>2. /\ b_pressed' \in [Presses!Buttons -> {0, 1}] /\ b_state' \in [Presses!Buttons -> {0, 1}]
        /\ b_selected' \in [Groups -> Radio \cup {Nil}]
        /\ Presses!OnlySelected'
    BY <2>1, PressedSet
  <2> QED BY <2>1, <2>2 DEF ButtonInv, Presses!TypeOK
<1> QED
  BY <1>1, GroupSet, PressGood, ReleaseGood, OthersGood DEF Presses!Next

(* However buttons are pressed, set by clients and moved between groups,   *)
(* what is pressed in a group is what the group has selected, one button   *)
(* at most (yradiogroup.c, yradiobutton.c).                                *)
THEOREM RadioGroups ==
  ASSUME ButtonKinds
  PROVE  Presses!Spec => [](Presses!TypeOK /\ Presses!OnlySelected)
<1>1. Presses!Init => ButtonInv
  <2>1. SUFFICES ASSUME Presses!Init  PROVE ButtonInv
    OBVIOUS
  <2>2. Presses!TypeOK
    BY <2>1 DEF Presses!Init, Presses!TypeOK, Presses!Looks
  <2>3. Presses!OnlySelected
    BY <2>1 DEF Presses!Init, Presses!OnlySelected, ButtonKinds
  <2> QED BY <2>2, <2>3 DEF ButtonInv
<1>2. ButtonInv /\ [Presses!Next]_(Presses!vars) => ButtonInv'
  BY ButtonStep
<1>3. ButtonInv => Presses!TypeOK /\ Presses!OnlySelected
  BY DEF ButtonInv
<1> QED BY <1>1, <1>2, <1>3, PTL DEF Presses!Spec

(* A button that has the pointer heeds it, so that the release that comes  *)
(* finds it.                                                               *)
HeldHeeds ==
  b_grabbed # Nil => b_grabbed \in Plain /\ b_look[b_grabbed] # "disabled" /\ b_down

LEMMA HeldStep ==
  ASSUME ButtonKinds, ~DisablesPressed, Presses!TypeOK, HeldHeeds, [Presses!Next]_(Presses!vars)
  PROVE  HeldHeeds'
<1>1. /\ b_look \in [Presses!Buttons -> Presses!Looks] /\ Nil \notin Presses!Buttons
      /\ Plain \subseteq Presses!Buttons
  BY DEF Presses!TypeOK, ButtonKinds, Presses!Buttons
<1>2. ASSUME NEW b, NEW v, Presses!ClientSetsPressed(b, v)  PROVE HeldHeeds'
  BY <1>2 DEF Presses!ClientSetsPressed, HeldHeeds
<1>3. ASSUME NEW b \in Presses!Buttons, NEW e \in BOOLEAN, Presses!Enable(b, e)  PROVE HeldHeeds'
  BY <1>1, <1>3 DEF Presses!Enable, HeldHeeds
<1>4. ASSUME NEW b, NEW g, Presses!SetRadioGroup(b, g)  PROVE HeldHeeds'
  BY <1>4 DEF Presses!SetRadioGroup, HeldHeeds
<1>5. ASSUME NEW b \in Presses!Buttons \cup {Nil}, Presses!Press(b)  PROVE HeldHeeds'
  BY <1>1, <1>5 DEF Presses!Press, Presses!Target, Presses!Heeds, Presses!Look, HeldHeeds
<1>6. ASSUME NEW b \in Presses!Buttons \cup {Nil}, NEW over \in BOOLEAN, Presses!Release(b, over)
      PROVE  HeldHeeds'
  BY <1>1, <1>6 DEF Presses!Release, Presses!Target, Presses!Heeds, Presses!Look, Presses!Released,
                    HeldHeeds
<1>7. ASSUME NEW b \in Presses!Buttons \cup {Nil}, NEW over \in BOOLEAN, Presses!Motion(b, over)
      PROVE  HeldHeeds'
  BY <1>1, <1>7 DEF Presses!Motion, Presses!Target, Presses!Look, HeldHeeds
<1>8. ASSUME NEW b \in Presses!Buttons, Presses!PointerEnter(b) \/ Presses!PointerLeave(b)
      PROVE  HeldHeeds'
  BY <1>8 DEF Presses!PointerEnter, Presses!PointerLeave, HeldHeeds
<1>9. CASE UNCHANGED Presses!vars
  BY <1>9 DEF Presses!vars, HeldHeeds
<1> QED BY <1>2, <1>3, <1>4, <1>5, <1>6, <1>7, <1>8, <1>9 DEF Presses!Next

(* The rest of the screen gets its clicks back: a button has the pointer   *)
(* only while the mouse is down (ybutton.c), as long as no client disables *)
(* the button meanwhile.                                                   *)
THEOREM PointerReleased ==
  ASSUME ButtonKinds, ~DisablesPressed
  PROVE  Presses!Spec => []Presses!HeldWhileDown
<1>1. Presses!Init => HeldHeeds
  BY DEF Presses!Init, HeldHeeds
<1>2. Presses!TypeOK /\ HeldHeeds /\ [Presses!Next]_(Presses!vars) => HeldHeeds'
  BY HeldStep
<1>3. HeldHeeds => Presses!HeldWhileDown
  BY DEF HeldHeeds, Presses!HeldWhileDown
<1>4. Presses!Spec => []Presses!TypeOK
  BY RadioGroups, PTL
<1> QED BY <1>1, <1>2, <1>3, <1>4, PTL DEF Presses!Spec

-----------------------------------------------------------------------------
(* Painting: whole blocks hold the width, and a width below the hint needs *)
(* one.                                                                    *)
LEMMA WholeBlocks ==
  ASSUME NEW n \in Nat, NEW h \in Nat \ {0}
  PROVE  /\ n <= (1 + n \div h) * h /\ (1 + n \div h) * h \in Nat
         /\ n < h => 1 + n \div h = 1
<1> PICK q \in Int : q = n \div h
  OBVIOUS
<1>1. h * q <= n /\ n < h * q + h
  OBVIOUS
<1>2. q >= 0 /\ (n < h => q = 0)
  OBVIOUS
<1>3. (1 + q) * h = h * q + h /\ h * q + h \in Int
  OBVIOUS
<1> QED BY <1>1, <1>2, <1>3

(* The memory of a buffer that is resized has whole blocks.                *)
SurfaceInv ==
  /\ {a_width, a_held, a_surface} \subseteq [Paints!Buffers -> Nat]
  /\ a_resizing \in [Paints!Buffers -> BOOLEAN] /\ a_dragging \in BOOLEAN
  /\ a_window \in BufferWidths /\ a_width["window"] = a_window
  /\ a_back \in {"one", "other"}
  /\ \A b \in Paints!Buffers :
       /\ a_resizing[b] <=> (b = "window" /\ a_dragging)
       /\ a_width[b] <= a_surface[b] /\ a_surface[b] <= a_held[b]
       /\ a_held[b] = IF a_resizing[b] THEN (1 + a_width[b] \div Hint) * Hint ELSE a_width[b]

LEMMA SetSizeGood ==
  ASSUME WidthsAreNumbers, SurfaceInv, NEW b \in Paints!Buffers, NEW w \in Nat, Paints!SetSize(b, w)
  PROVE  /\ {a_width', a_held', a_surface'} \subseteq [Paints!Buffers -> Nat]
         /\ a_resizing' = a_resizing
         /\ a_width' = [a_width EXCEPT ![b] = w]
         /\ \A c \in Paints!Buffers :
              /\ a_width'[c] <= a_surface'[c] /\ a_surface'[c] <= a_held'[c]
              /\ a_held'[c] = IF a_resizing[c] THEN (1 + a_width'[c] \div Hint) * Hint
                   ELSE a_width'[c]
<1> PICK m : m = (1 + w \div Hint) * Hint
  OBVIOUS
<1>1. m \in Nat /\ w <= m
  BY WholeBlocks DEF WidthsAreNumbers
<1>2. /\ a_width \in [Paints!Buffers -> Nat] /\ a_held \in [Paints!Buffers -> Nat]
      /\ a_surface \in [Paints!Buffers -> Nat] /\ a_resizing \in [Paints!Buffers -> BOOLEAN]
      /\ \A c \in Paints!Buffers :
           /\ a_width[c] <= a_surface[c] /\ a_surface[c] <= a_held[c]
           /\ a_held[c] = IF a_resizing[c] THEN (1 + a_width[c] \div Hint) * Hint ELSE a_width[c]
  BY DEF SurfaceInv
<1>3. CASE w = a_width[b]
  <2>1. a_width' = a_width /\ a_held' = a_held /\ a_surface' = a_surface /\ a_resizing' = a_resizing
    BY <1>2, <1>3 DEF Paints!SetSize
  <2> QED BY <1>2, <1>3, <2>1
<1>4. CASE w # a_width[b]
  <2> PICK n : n = IF a_resizing[b] THEN m ELSE w
    OBVIOUS
  <2>1. Paints!Memory(b, w) = n
    <3>1. CASE a_resizing[b] /\ Paints!Blocks(w) = Paints!Blocks(a_width[b])
      <4>1. Paints!Memory(b, w) = a_held[b]
        BY <3>1 DEF Paints!Memory
      <4>2. a_held[b] = (1 + a_width[b] \div Hint) * Hint
        BY <1>2, <3>1
      <4>3. 1 + a_width[b] \div Hint = 1 + w \div Hint
        BY <3>1 DEF Paints!Blocks
      <4> QED BY <3>1, <4>1, <4>2, <4>3
    <3>2. CASE ~(a_resizing[b] /\ Paints!Blocks(w) = Paints!Blocks(a_width[b]))
      BY <3>2 DEF Paints!Memory, Paints!Blocks
    <3> QED BY <3>1, <3>2
  <2>2. /\ a_held' = [a_held EXCEPT ![b] = n] /\ a_surface' = [a_surface EXCEPT ![b] = w]
        /\ a_width' = [a_width EXCEPT ![b] = w] /\ a_resizing' = a_resizing
    BY <1>4, <2>1 DEF Paints!SetSize
  <2>3. n \in Nat /\ w <= n
    BY <1>1
  <2>4. /\ a_held' \in [Paints!Buffers -> Nat] /\ a_surface' \in [Paints!Buffers -> Nat]
        /\ a_width' \in [Paints!Buffers -> Nat]
    BY <1>2, <2>2, <2>3
  <2>5. /\ a_held'[b] = n /\ a_surface'[b] = w /\ a_width'[b] = w
        /\ \A c \in Paints!Buffers \ {b} :
             a_held'[c] = a_held[c] /\ a_surface'[c] = a_surface[c] /\ a_width'[c] = a_width[c]
    BY <1>2, <2>2
  <2>6. ASSUME NEW c \in Paints!Buffers
        PROVE  /\ a_width'[c] <= a_surface'[c] /\ a_surface'[c] <= a_held'[c]
               /\ a_held'[c] = IF a_resizing[c] THEN (1 + a_width'[c] \div Hint) * Hint
                    ELSE a_width'[c]
    <3>1. CASE c = b
      BY <2>3, <2>5, <3>1
    <3>2. CASE c # b
      BY <1>2, <2>5, <3>2
    <3> QED BY <3>1, <3>2
  <2> QED BY <2>2, <2>4, <2>6
<1> QED BY <1>3, <1>4

LEMMA ReallocateGood ==
  ASSUME WidthsAreNumbers, SurfaceInv, NEW w \in Nat, NEW begin \in BOOLEAN,
         Paints!Reallocate("window", w, begin),
         a_width["window"] <= w,
         w = IF begin THEN (1 + a_width["window"] \div Hint) * Hint ELSE a_width["window"],
         a_dragging' \in BOOLEAN, a_dragging' <=> begin, UNCHANGED <<a_window, a_back>>
  PROVE  SurfaceInv'
<1>1. /\ a_held' = [a_held EXCEPT !["window"] = w]
      /\ a_surface' = [a_surface EXCEPT !["window"] = w]
      /\ a_resizing' = [a_resizing EXCEPT !["window"] = begin] /\ a_width' = a_width
  BY DEF Paints!Reallocate
<1>2. "window" \in Paints!Buffers
  BY DEF Paints!Buffers
<1>3. /\ {a_width', a_held', a_surface'} \subseteq [Paints!Buffers -> Nat]
      /\ a_resizing' \in [Paints!Buffers -> BOOLEAN]
  <2>1. {a_width', a_held', a_surface'} \subseteq [Paints!Buffers -> Nat]
    BY <1>1 DEF SurfaceInv
  <2>2. a_resizing' \in [Paints!Buffers -> BOOLEAN]
    BY <1>1, Zenon DEF SurfaceInv
  <2> QED BY <2>1, <2>2
<1>4. /\ a_held'["window"] = w /\ a_surface'["window"] = w /\ a_resizing'["window"] = begin
      /\ \A c \in Paints!Buffers \ {"window"} :
           a_held'[c] = a_held[c] /\ a_surface'[c] = a_surface[c] /\ a_resizing'[c] = a_resizing[c]
  BY <1>1, <1>2 DEF SurfaceInv
<1>5. ASSUME NEW b \in Paints!Buffers
      PROVE  /\ a_resizing'[b] <=> (b = "window" /\ a_dragging')
             /\ a_width[b] <= a_surface'[b] /\ a_surface'[b] <= a_held'[b]
             /\ a_held'[b] = IF a_resizing'[b] THEN (1 + a_width[b] \div Hint) * Hint
                  ELSE a_width[b]
  <2>1. CASE b = "window"
    BY <1>4, <2>1
  <2>2. CASE b # "window"
    BY <1>4, <2>2 DEF SurfaceInv
  <2> QED BY <2>1, <2>2
<1> QED BY <1>1, <1>3, <1>5 DEF SurfaceInv

(* One painter lives, and it draws on the back of the canvas; it can go    *)
(* back as often as its cairo context can.                                 *)
PainterInv ==
  /\ ~a_undefined /\ {a_front, a_back} = {"one", "other"} /\ a_painter \in Addresses
  /\ a_painters = [b \in Paints!Buffers |-> IF b = a_back THEN {a_painter} ELSE {}]
  /\ DOMAIN a_states = {a_painter} /\ DOMAIN a_saved = {a_painter}
  /\ a_states[a_painter] \in Nat \ {0} /\ a_saved[a_painter] = a_states[a_painter] - 1

LEMMA NewPainterGood ==
  ASSUME PainterInv, NEW b \in {"one", "other"}, Paints!NewPainter({a_painter}, b),
         ~a_undefined', a_back' = b, {a_front', a_back'} = {"one", "other"}
  PROVE  PainterInv'
<1>1. Paints!Live = {a_painter} /\ Paints!Live \ {a_painter} = {}
  BY DEF PainterInv, Paints!Live
<1>2. Paints!Destroyed({a_painter}).painters = [c \in Paints!Buffers |-> {}]
  BY DEF PainterInv, Paints!Destroyed
<1>3. Paints!Destroyed({a_painter}).live = {}
  BY <1>1 DEF Paints!Destroyed
<1>4. PICK p \in Addresses :
        /\ a_painter' = p
        /\ a_painters' = [Paints!Destroyed({a_painter}).painters EXCEPT ![b] = @ \cup {p}]
        /\ a_states' = [q \in Paints!Destroyed({a_painter}).live \cup {p} |->
                      IF q = p THEN 1 ELSE a_states[q]]
        /\ a_saved' = [q \in Paints!Destroyed({a_painter}).live \cup {p} |->
                      IF q = p THEN 0 ELSE a_saved[q]]
  BY DEF Paints!NewPainter
<1>5. a_painters' = [c \in Paints!Buffers |-> IF c = b THEN {p} ELSE {}]
  BY <1>2, <1>4
<1>6. /\ a_states' = [q \in {p} |-> IF q = p THEN 1 ELSE a_states[q]]
      /\ a_saved' = [q \in {p} |-> IF q = p THEN 0 ELSE a_saved[q]]
  BY <1>3, <1>4
<1>7. /\ DOMAIN a_states' = {p} /\ DOMAIN a_saved' = {p} /\ a_states'[p] = 1 /\ a_saved'[p] = 0
  BY <1>6
<1>8. a_painters' = [c \in Paints!Buffers |-> IF c = a_back' THEN {a_painter'} ELSE {}]
  BY <1>4, <1>5
<1>9. a_painter' \in Addresses /\ DOMAIN a_states' = {a_painter'} /\ DOMAIN a_saved' = {a_painter'}
  BY <1>4, <1>7
<1>10. a_states'[a_painter'] \in Nat \ {0} /\ a_saved'[a_painter'] = a_states'[a_painter'] - 1
  BY <1>4, <1>7
<1> QED BY <1>8, <1>9, <1>10 DEF PainterInv

(* A window has no painter that outlives a request.                        *)
LEMMA WindowPainters ==
  ASSUME PainterInv, Paints!DestroyPainters("window"), UNCHANGED <<a_front, a_back, a_painter>>
  PROVE  PainterInv'
<1>1. a_painters["window"] = {} /\ a_back \in {"one", "other"}
  BY DEF PainterInv, Paints!Buffers
<1>2. /\ a_painters' = Paints!Destroyed({}).painters
      /\ a_states' = Paints!Without(a_states, {}) /\ a_saved' = Paints!Without(a_saved, {})
      /\ a_undefined' = a_undefined
  BY <1>1 DEF Paints!DestroyPainters
<1>3. a_painters' = a_painters
  BY <1>2 DEF PainterInv, Paints!Destroyed
<1>4. /\ DOMAIN a_states' = {a_painter} /\ a_states'[a_painter] = a_states[a_painter]
      /\ DOMAIN a_saved' = {a_painter} /\ a_saved'[a_painter] = a_saved[a_painter]
  BY <1>2 DEF PainterInv, Paints!Without
<1> QED BY <1>2, <1>3, <1>4 DEF PainterInv

LEMMA PaintStep ==
  ASSUME WidthsAreNumbers, Sparing, SurfaceInv, PainterInv, [Paints!Next]_(Paints!vars)
  PROVE  SurfaceInv' /\ PainterInv'
<1> USE DEF Paints!bufferVars, Paints!canvasVars, Paints!painterVars
<1>1. CASE UNCHANGED Paints!vars
  BY <1>1 DEF Paints!vars, SurfaceInv, PainterInv
<1>2. CASE Paints!StartReshape
  <2>1. /\ ~a_dragging /\ a_dragging' = TRUE /\ a_window < Hint
        /\ Paints!Reallocate("window", Hint, TRUE)
        /\ UNCHANGED <<a_front, a_back, a_painter, a_window>>
    BY <1>2 DEF Paints!StartReshape, Sparing
  <2>2. a_width["window"] = a_window /\ a_window \in Nat /\ Hint \in Nat \ {0}
    BY DEF SurfaceInv, WidthsAreNumbers
  <2>3. 1 + a_window \div Hint = 1
    BY <2>1, <2>2, WholeBlocks
  <2>4. /\ a_width["window"] <= Hint
        /\ Hint = IF TRUE THEN (1 + a_width["window"] \div Hint) * Hint ELSE a_width["window"]
    BY <2>1, <2>2, <2>3
  <2>5. SurfaceInv'
    BY <2>1, <2>2, <2>4, ReallocateGood
  <2>6. PainterInv'
    BY <2>1, WindowPainters DEF Paints!Reallocate
  <2> QED BY <2>5, <2>6
<1>3. CASE Paints!StopReshape
  <2>1. /\ a_dragging' = FALSE
        /\ Paints!Reallocate("window", a_width["window"], FALSE)
        /\ UNCHANGED <<a_front, a_back, a_painter, a_window>>
    BY <1>3 DEF Paints!StopReshape
  <2>2. /\ a_width["window"] \in Nat /\ a_width["window"] <= a_width["window"]
        /\ a_width["window"] = IF FALSE THEN (1 + a_width["window"] \div Hint) * Hint
             ELSE a_width["window"]
    BY DEF SurfaceInv, WidthsAreNumbers
  <2>3. SurfaceInv'
    BY <2>1, <2>2, ReallocateGood
  <2>4. PainterInv'
    BY <2>1, WindowPainters DEF Paints!Reallocate
  <2> QED BY <2>3, <2>4
<1>4. ASSUME NEW w \in BufferWidths, Paints!windowResize(w)  PROVE SurfaceInv' /\ PainterInv'
  <2>1. /\ a_window' = w /\ Paints!SetSize("window", w)
        /\ IF w = a_window THEN UNCHANGED <<a_painters, a_states, a_saved, a_undefined>>
           ELSE Paints!DestroyPainters("window")
        /\ UNCHANGED <<a_front, a_back, a_painter, a_dragging>>
    BY <1>4 DEF Paints!windowResize
  <2>2. w \in Nat /\ "window" \in Paints!Buffers
    BY DEF WidthsAreNumbers, Paints!Buffers
  <2>3. /\ {a_width', a_held', a_surface'} \subseteq [Paints!Buffers -> Nat]
        /\ a_resizing' = a_resizing
        /\ a_width' = [a_width EXCEPT !["window"] = w]
        /\ \A c \in Paints!Buffers :
             /\ a_width'[c] <= a_surface'[c] /\ a_surface'[c] <= a_held'[c]
             /\ a_held'[c] = IF a_resizing[c] THEN (1 + a_width'[c] \div Hint) * Hint
                  ELSE a_width'[c]
    BY <2>1, <2>2, SetSizeGood
  <2>4. a_width'["window"] = w
    BY <2>2, <2>3 DEF SurfaceInv
  <2>5. SurfaceInv'
    BY <2>1, <2>3, <2>4 DEF SurfaceInv
  <2>6. PainterInv'
    BY <2>1, WindowPainters DEF PainterInv
  <2> QED BY <2>5, <2>6
<1>5. ASSUME NEW w, Paints!canvasResize(w)  PROVE SurfaceInv' /\ PainterInv'
  BY <1>5 DEF Paints!canvasResize, SurfaceInv, PainterInv
<1>6. CASE Paints!canvasReset
  <2>1. /\ a_canvas = a_width[a_back] /\ Paints!SetSize(a_back, a_canvas)
        /\ a_undefined' = (a_canvas # a_width[a_back] \/ Paints!Destroyed({a_painter}).bad)
        /\ Paints!NewPainter({a_painter}, a_back)
        /\ UNCHANGED <<a_front, a_back, a_canvas, a_window, a_dragging>>
    BY <1>6 DEF Paints!canvasReset, Sparing
  <2>2. a_back \in {"one", "other"} /\ a_back \in Paints!Buffers
    BY DEF SurfaceInv, Paints!Buffers
  <2>3. a_width' = a_width /\ a_held' = a_held /\ a_surface' = a_surface /\ a_resizing' = a_resizing
    BY <2>1, <2>2 DEF Paints!SetSize, SurfaceInv
  <2>4. ~a_undefined'
    BY <2>1 DEF Paints!Destroyed, Paints!Live, PainterInv
  <2>5. PainterInv'
    <3>1. {a_front', a_back'} = {"one", "other"}
      BY <2>1 DEF PainterInv
    <3> QED BY <2>1, <2>2, <2>4, <3>1, NewPainterGood
  <2>6. SurfaceInv'
    BY <2>1, <2>3 DEF SurfaceInv
  <2> QED BY <2>5, <2>6
<1>7. CASE Paints!canvasSwapBuffers
  <2>1. /\ a_front' = a_back /\ a_back' = a_front
        /\ a_undefined' = Paints!Destroyed({a_painter}).bad
        /\ Paints!NewPainter({a_painter}, a_front)
        /\ UNCHANGED <<a_width, a_held, a_surface, a_resizing, a_window, a_dragging>>
    BY <1>7 DEF Paints!canvasSwapBuffers, Paints!OldPainter
  <2>2. a_front \in {"one", "other"} /\ {a_front', a_back'} = {"one", "other"}
    BY <2>1 DEF PainterInv
  <2>3. ~a_undefined'
    BY <2>1 DEF Paints!Destroyed, Paints!Live, PainterInv
  <2>4. PainterInv'
    BY <2>1, <2>2, <2>3, NewPainterGood
  <2>5. SurfaceInv'
    BY <2>1, <2>2 DEF SurfaceInv
  <2> QED BY <2>4, <2>5
<1>8. CASE Paints!SaveState \/ Paints!RestoreState
  <2>1. /\ UNCHANGED <<a_width, a_held, a_surface, a_resizing, a_window, a_dragging>>
        /\ UNCHANGED <<a_front, a_back, a_painter, a_painters, a_undefined>>
    BY <1>8 DEF Paints!SaveState, Paints!RestoreState
  <2>2. Nil \notin Nat
    BY DEF WidthsAreNumbers
  <2>3. /\ DOMAIN a_states' = {a_painter} /\ DOMAIN a_saved' = {a_painter}
        /\ a_states'[a_painter] \in Nat \ {0} /\ a_saved'[a_painter] = a_states'[a_painter] - 1
    <3> PICK n \in Nat \ {0} : n = a_states[a_painter]
      BY DEF PainterInv
    <3>1. a_saved[a_painter] = n - 1 /\ DOMAIN a_states = {a_painter}
            /\ DOMAIN a_saved = {a_painter}
      BY DEF PainterInv
    <3>2. CASE Paints!SaveState
      BY <2>2, <3>1, <3>2 DEF Paints!SaveState
    <3>3. CASE Paints!RestoreState
      <4>1. n > 1 /\ n - 1 \notin {0, Nil}
        BY <2>2, <3>3 DEF Paints!RestoreState, Sparing
      <4>2. a_states' = [a_states EXCEPT ![a_painter] = n - 1]
              /\ a_saved' = [a_saved EXCEPT ![a_painter] = n - 1 - 1]
        BY <3>1, <3>3, <4>1 DEF Paints!RestoreState
      <4> QED BY <3>1, <4>1, <4>2
    <3> QED BY <1>8, <3>2, <3>3
  <2>4. PainterInv'
    BY <2>1, <2>3 DEF PainterInv
  <2>5. SurfaceInv'
    BY <2>1 DEF SurfaceInv
  <2> QED BY <2>4, <2>5
<1> QED BY <1>1, <1>2, <1>3, <1>4, <1>5, <1>6, <1>7, <1>8 DEF Paints!Next

LEMMA PaintInit ==
  ASSUME WidthsAreNumbers, Paints!Init
  PROVE  SurfaceInv /\ PainterInv
<1>1. /\ a_window \in BufferWidths /\ BufferWidths \subseteq Nat /\ Begun \in Nat
      /\ a_width = [b \in Paints!Buffers |-> IF b = "window" THEN a_window ELSE Begun]
      /\ a_held = a_width /\ a_surface = a_width /\ a_resizing = [b \in Paints!Buffers |-> FALSE]
      /\ a_front = "one" /\ a_back = "other" /\ a_dragging = FALSE /\ ~a_undefined
      /\ a_painter \in Addresses
      /\ a_painters = [b \in Paints!Buffers |-> IF b = "other" THEN {a_painter} ELSE {}]
      /\ a_states = [p \in {a_painter} |-> 1] /\ a_saved = [p \in {a_painter} |-> 0]
  BY DEF Paints!Init, WidthsAreNumbers
<1>2. a_width \in [Paints!Buffers -> Nat] /\ a_width["window"] = a_window
  BY <1>1 DEF Paints!Buffers
<1>3. a_resizing \in [Paints!Buffers -> BOOLEAN] /\ \A b \in Paints!Buffers : ~a_resizing[b]
  BY <1>1
<1>4. SurfaceInv
  <2>1. \A b \in Paints!Buffers :
          /\ a_resizing[b] <=> (b = "window" /\ a_dragging)
          /\ a_width[b] <= a_surface[b] /\ a_surface[b] <= a_held[b]
          /\ a_held[b] = IF a_resizing[b] THEN (1 + a_width[b] \div Hint) * Hint ELSE a_width[b]
    BY <1>1, <1>2, <1>3
  <2>2. {a_width, a_held, a_surface} \subseteq [Paints!Buffers -> Nat]
    BY <1>1, <1>2
  <2>3. a_dragging \in BOOLEAN /\ a_window \in BufferWidths /\ a_back \in {"one", "other"}
    BY <1>1
  <2> QED BY <1>2, <1>3, <2>1, <2>2, <2>3 DEF SurfaceInv
<1>5. /\ DOMAIN a_states = {a_painter} /\ DOMAIN a_saved = {a_painter}
      /\ a_states[a_painter] = 1 /\ a_saved[a_painter] = 0
  BY <1>1
<1>6. PainterInv
  BY <1>1, <1>5 DEF PainterInv
<1> QED BY <1>4, <1>6

LEMMA PaintInductive ==
  ASSUME WidthsAreNumbers, Sparing
  PROVE  Paints!Spec => [](SurfaceInv /\ PainterInv)
<1>1. Paints!Init => SurfaceInv /\ PainterInv
  BY PaintInit
<1>2. SurfaceInv /\ PainterInv /\ [Paints!Next]_(Paints!vars) => (SurfaceInv /\ PainterInv)'
  BY PaintStep
<1> QED BY <1>1, <1>2, PTL DEF Paints!Spec

(* While a window is dragged its surface is as wide as the window, or      *)
(* wider, and within the memory there is, whatever sizes it is given and   *)
(* however many blocks they need; afterwards the memory is what it needs   *)
(* (imagebuffer.c).                                                        *)
THEOREM SurfacesFit ==
  ASSUME WidthsAreNumbers, Sparing
  PROVE  Paints!Spec => []Paints!SurfaceFits
<1>1. SurfaceInv => Paints!SurfaceFits
  BY DEF SurfaceInv, Paints!SurfaceFits
<1> QED BY <1>1, PaintInductive, PTL

(* The painter of a canvas lives and draws on the buffer that is not shown *)
(* (canvas.c, buffer.c), and its states and those of its cairo context go  *)
(* together (painter.c).                                                   *)
THEOREM PainterKept ==
  ASSUME WidthsAreNumbers, Sparing
  PROVE  Paints!Spec => [](Paints!PaintersLive /\ Paints!StatesMatch)
<1>1. ASSUME PainterInv  PROVE Paints!PaintersLive /\ Paints!StatesMatch
  <2>1. /\ a_back \in Paints!Buffers /\ a_front \in Paints!Buffers /\ a_front # a_back
        /\ a_painters[a_back] = {a_painter}
        /\ \A b \in Paints!Buffers \ {a_back} : a_painters[b] = {}
    BY <1>1 DEF PainterInv, Paints!Buffers
  <2>2. UNION {a_painters[b] : b \in Paints!Buffers} = {a_painter}
    BY <2>1
  <2>3. Paints!Live = {a_painter}
    BY <1>1 DEF PainterInv, Paints!Live
  <2>4. Paints!PaintersLive
    BY <1>1, <2>1, <2>2, <2>3 DEF PainterInv, Paints!PaintersLive
  <2>5. Paints!StatesMatch
    BY <1>1, <2>3 DEF PainterInv, Paints!StatesMatch
  <2> QED BY <2>4, <2>5
<1> QED BY <1>1, PaintInductive, PTL

-----------------------------------------------------------------------------
(* WindowGeometry: the limits do not cross, and the size is between them.  *)
GeometryInv ==
  /\ g_desk \in Nat \ {0} /\ g_desk \in Sizes /\ g_pointer \in 0 .. g_desk - 1
  /\ g_pos \in Int /\ g_size \in Int /\ g_min \in Nat /\ g_max \in Nat \cup {-1} /\ g_drag \in Int
  /\ g_mode \in Geometry!Modes /\ g_maximised \in BOOLEAN
  /\ g_stored \in Int \X Int
  /\ g_min <= g_size /\ (g_max # -1 => g_size <= g_max)

LEMMA FittedIs ==
  ASSUME GeometryInv, NEW s \in Int
  PROVE  /\ Geometry!Fitted(s) \in Int
         /\ g_min <= Geometry!Fitted(s) /\ (g_max # -1 => Geometry!Fitted(s) <= g_max)
         /\ g_max = -1 /\ s >= g_min => Geometry!Fitted(s) = s
BY DEF GeometryInv, Geometry!Fitted, Geometry!AtMost, Geometry!AtLeast, Geometry!Positive,
       Geometry!Unset

(* What Placed leaves.                                                     *)
LEMMA PlacedGood ==
  ASSUME GeometryInv, NEW p \in Int, NEW s \in Int, Geometry!Placed(p, s)
  PROVE  /\ g_pos' = p /\ g_pos' \in Int /\ g_size' \in Int
         /\ g_min <= g_size' /\ (g_max # -1 => g_size' <= g_max)
         /\ g_max = -1 /\ s >= g_min => g_size' = s
BY FittedIs DEF Geometry!Placed

(* A step of the pointer: what it does to each edge.                       *)
LEMMA MotionIs ==
  ASSUME GeometryInv, NEW p \in 0 .. g_desk - 1, Geometry!Motion(p)
  PROVE  /\ g_pointer' = p /\ UNCHANGED <<g_desk, g_min, g_max, g_mode, g_maximised, g_stored>>
         /\ g_pos' \in Int /\ g_size' \in Int /\ g_drag' \in Int
         /\ g_min <= g_size' /\ (g_max # -1 => g_size' <= g_max)
         /\ g_mode = "move" => g_size' = g_size /\ p - g_pos' = g_drag'
         /\ g_mode = "low" /\ g_max = -1 =>
              g_pos' + g_size' = g_pos + g_size /\ (p - g_pos' = g_drag' \/ g_size' = g_min)
         /\ g_mode = "high" /\ g_max = -1 =>
              g_pos' = g_pos /\ (p - g_pos' = g_drag' \/ g_size' = g_min)
<1> PICK d \in Int : d = (p - g_pos) - g_drag
  BY DEF GeometryInv
<1>1. /\ g_pointer' = p /\ UNCHANGED <<g_desk, g_min, g_max, g_mode, g_maximised, g_stored>>
      /\ \/ g_mode = "none" /\ UNCHANGED <<g_pos, g_size, g_drag>>
         \/ g_mode = "move" /\ g_pos' = g_pos + d /\ UNCHANGED <<g_size, g_drag>>
         \/ /\ g_mode = "low" /\ UNCHANGED g_drag
            /\ Geometry!Placed(g_pos + Geometry!LowBy(d), g_size - Geometry!LowBy(d))
         \/ g_mode = "high" /\ Geometry!Placed(g_pos, g_size + Geometry!HighBy(d))
             /\ g_drag' = g_drag + Geometry!HighBy(d)
         \/ g_mode = "still" /\ Geometry!Placed(g_pos, g_size) /\ UNCHANGED g_drag
  BY DEF Geometry!Motion, Geometry!HandleMoves
<1>2. /\ p \in Int /\ g_pos \in Int /\ g_size \in Int /\ g_min \in Nat /\ g_drag \in Int
      /\ g_min <= g_size /\ (g_max # -1 => g_size <= g_max) /\ d = (p - g_pos) - g_drag
  BY DEF GeometryInv
<1>3. CASE g_mode = "none"
  BY <1>1, <1>2, <1>3
<1>4. CASE g_mode = "move"
  BY <1>1, <1>2, <1>4
<1>5. CASE g_mode = "low"
  <2> PICK l : l = IF g_size - d < g_min THEN g_size - g_min ELSE d
    OBVIOUS
  <2>1. Geometry!Placed(g_pos + l, g_size - l) /\ g_drag' = g_drag
    BY <1>1, <1>5 DEF Geometry!LowBy
  <2>2. /\ l \in Int /\ g_pos + l \in Int /\ g_size - l \in Int /\ g_size - l >= g_min
        /\ l = d \/ g_size - l = g_min
    BY <1>2
  <2>3. /\ g_pos' = g_pos + l /\ g_size' \in Int /\ g_min <= g_size'
        /\ (g_max # -1 => g_size' <= g_max)
        /\ g_max = -1 => g_size' = g_size - l
    BY <2>1, <2>2, PlacedGood
  <2>4. g_max = -1 => g_pos' + g_size' = g_pos + g_size /\ (p - g_pos' = g_drag' \/ g_size' = g_min)
    <3>1. CASE l = d
      <4>1. p - (g_pos + d) = g_drag /\ (g_pos + d) + (g_size - d) = g_pos + g_size
        BY <1>2
      <4> QED BY <2>1, <2>3, <3>1, <4>1
    <3>2. CASE g_size - l = g_min
      <4>1. (g_pos + l) + (g_size - l) = g_pos + g_size
        BY <1>2, <2>2
      <4> QED BY <2>3, <3>2, <4>1
    <3> QED BY <2>2, <3>1, <3>2
  <2>5. g_pos' \in Int /\ g_drag' \in Int
    BY <1>2, <2>1, <2>2, <2>3
  <2> QED BY <1>1, <1>5, <2>3, <2>4, <2>5
<1>6. CASE g_mode = "high"
  <2> PICK h : h = IF g_size + d < g_min THEN g_min - g_size ELSE d
    OBVIOUS
  <2>1. Geometry!Placed(g_pos, g_size + h) /\ g_drag' = g_drag + h
    BY <1>1, <1>6 DEF Geometry!HighBy
  <2>2. h \in Int /\ g_size + h \in Int /\ g_size + h >= g_min /\ (h = d \/ g_size + h = g_min)
    BY <1>2
  <2>3. /\ g_pos' = g_pos /\ g_size' \in Int /\ g_min <= g_size' /\ (g_max # -1 => g_size' <= g_max)
        /\ g_max = -1 => g_size' = g_size + h
    BY <1>2, <2>1, <2>2, PlacedGood
  <2>4. g_max = -1 => g_pos' = g_pos /\ (p - g_pos' = g_drag' \/ g_size' = g_min)
    BY <1>2, <2>1, <2>2, <2>3
  <2>5. g_pos' \in Int /\ g_drag' \in Int
    BY <1>2, <2>1, <2>2, <2>3
  <2> QED BY <1>1, <1>6, <2>3, <2>4, <2>5
<1>7. CASE g_mode = "still"
  <2>1. Geometry!Placed(g_pos, g_size) /\ g_drag' = g_drag
    BY <1>1, <1>7
  <2>2. g_pos' = g_pos /\ g_size' \in Int /\ g_min <= g_size' /\ (g_max # -1 => g_size' <= g_max)
    BY <1>2, <2>1, PlacedGood
  <2> QED BY <1>1, <1>2, <1>7, <2>1, <2>2
<1> QED BY <1>3, <1>4, <1>5, <1>6, <1>7 DEF GeometryInv, Geometry!Modes

LEMMA ResizeGood ==
  ASSUME SizesAreNumbers, GeometryInv, NEW d \in Sizes, Geometry!DesktopResize(d)
  PROVE  GeometryInv'
<1> PICK s \in Int : s = IF g_size > d THEN d ELSE g_size
  BY DEF SizesAreNumbers, GeometryInv
<1> PICK q : q = IF g_pos + s > d THEN d - s ELSE g_pos
  OBVIOUS
<1>0. q \in Int
  BY DEF SizesAreNumbers, GeometryInv
<1>1. /\ g_desk' = d
      /\ IF g_maximised THEN Geometry!Placed(g_pos, d)
         ELSE IF s = g_size THEN g_pos' = q /\ UNCHANGED g_size ELSE Geometry!Placed(q, s)
      /\ g_pointer' = IF g_pointer < d THEN g_pointer ELSE d - 1
      /\ UNCHANGED <<g_min, g_max, g_mode, g_drag, g_maximised, g_stored>>
  BY DEF Geometry!DesktopResize
<1>2. d \in Nat \ {0} /\ d \in Int
  BY DEF SizesAreNumbers
<1>3. /\ g_pos' \in Int /\ g_size' \in Int
      /\ g_min <= g_size' /\ (g_max # -1 => g_size' <= g_max)
  <2>1. CASE g_maximised
    <3>1. Geometry!Placed(g_pos, d) /\ g_pos \in Int
      BY <1>1, <2>1 DEF GeometryInv
    <3> QED BY <1>2, <3>1, PlacedGood
  <2>2. CASE ~g_maximised /\ s = g_size
    BY <1>1, <2>2 DEF GeometryInv
  <2>3. CASE ~g_maximised /\ s # g_size
    <3>1. Geometry!Placed(q, s)
      BY <1>1, <2>3
    <3> QED BY <1>0, <3>1, PlacedGood
  <2> QED BY <2>1, <2>2, <2>3
<1>4. g_pointer' \in 0 .. d - 1
  BY <1>1, <1>2 DEF GeometryInv
<1> QED BY <1>1, <1>2, <1>3, <1>4 DEF GeometryInv

LEMMA ReconfigureGood ==
  ASSUME SizesAreNumbers, GeometryInv, NEW lo \in Mins, NEW hi \in Maxs, NEW wish \in Mins,
         NEW fresh \in BOOLEAN, Geometry!Reconfigure(lo, hi, wish, fresh)
  PROVE  GeometryInv'
<1> PICK top : top = Geometry!Largest(lo, hi)
  OBVIOUS
<1> PICK wanted : wanted = IF fresh THEN wish ELSE g_size
  OBVIOUS
<1> PICK below : below = IF top # -1 /\ wanted > top THEN top ELSE wanted
  OBVIOUS
<1>1. /\ g_min' = lo /\ g_max' = top /\ g_size' = IF below < lo THEN lo ELSE below
      /\ UNCHANGED <<g_desk, g_pointer, g_pos, g_mode, g_drag, g_maximised, g_stored>>
  BY DEF Geometry!Reconfigure, Geometry!Unset
<1>2. lo \in Nat /\ hi \in Nat \cup {-1} /\ wish \in Nat /\ g_size \in Int
  BY DEF SizesAreNumbers, GeometryInv
<1>3. top \in Nat \cup {-1} /\ (top # -1 => lo <= top)
  BY <1>2 DEF Geometry!Largest, Geometry!Unset
<1>4. wanted \in Int
  BY <1>2
<1>5. below \in Int /\ (top # -1 => below <= top)
  BY <1>3, <1>4
<1>6. g_size' \in Int /\ lo <= g_size' /\ (top # -1 => g_size' <= top)
  BY <1>1, <1>2, <1>3, <1>5
<1> QED BY <1>1, <1>2, <1>3, <1>6 DEF GeometryInv

LEMMA GeometryStep ==
  ASSUME SizesAreNumbers, GeometryInv, [Geometry!Next]_(Geometry!vars)
  PROVE  GeometryInv'
<1>1. ASSUME NEW m \in Geometry!Modes, Geometry!StartReshape(m)  PROVE GeometryInv'
  <2>1. /\ g_mode' = m /\ g_drag' = g_pointer - g_pos
        /\ UNCHANGED <<g_desk, g_pointer, g_pos, g_size, g_min, g_max, g_maximised, g_stored>>
    BY <1>1 DEF Geometry!StartReshape
  <2>2. g_drag' \in Int
    BY <2>1 DEF GeometryInv
  <2> QED BY <2>1, <2>2 DEF GeometryInv
<1>2. CASE Geometry!StopReshape
  BY <1>2 DEF Geometry!StopReshape, GeometryInv, Geometry!Modes
<1>3. CASE Geometry!Maximise
  <2>1. /\ g_maximised' = TRUE /\ g_stored' = <<g_pos, g_size>>
        /\ Geometry!Placed(-Outset, g_desk - Inset)
        /\ UNCHANGED <<g_desk, g_pointer, g_min, g_max, g_mode, g_drag>>
    BY <1>3 DEF Geometry!Maximise
  <2>2. -Outset \in Int /\ g_desk - Inset \in Int
    BY DEF SizesAreNumbers, GeometryInv
  <2>3. g_pos' \in Int /\ g_size' \in Int /\ g_min <= g_size' /\ (g_max # -1 => g_size' <= g_max)
    BY <2>1, <2>2, PlacedGood
  <2>4. g_stored' \in Int \X Int
    BY <2>1 DEF GeometryInv
  <2> QED BY <2>1, <2>3, <2>4 DEF GeometryInv
<1>4. CASE Geometry!Restore
  <2>1. /\ g_maximised' = FALSE /\ g_stored' = <<0, 0>> /\ Geometry!Placed(g_stored[1], g_stored[2])
        /\ UNCHANGED <<g_desk, g_pointer, g_min, g_max, g_mode, g_drag>>
    BY <1>4 DEF Geometry!Restore, Geometry!Unused
  <2>2. g_stored[1] \in Int /\ g_stored[2] \in Int
    BY DEF GeometryInv
  <2>3. g_pos' \in Int /\ g_size' \in Int /\ g_min <= g_size' /\ (g_max # -1 => g_size' <= g_max)
    BY <2>1, <2>2, PlacedGood
  <2>4. g_stored' \in Int \X Int
    BY <2>1
  <2> QED BY <2>1, <2>3, <2>4 DEF GeometryInv
<1>5. ASSUME NEW p \in 0 .. g_desk - 1, Geometry!Motion(p)  PROVE GeometryInv'
  <2>1. /\ g_pointer' = p /\ UNCHANGED <<g_desk, g_min, g_max, g_mode, g_maximised, g_stored>>
        /\ g_pos' \in Int /\ g_size' \in Int /\ g_drag' \in Int
        /\ g_min <= g_size' /\ (g_max # -1 => g_size' <= g_max)
    BY <1>5, MotionIs
  <2> QED BY <2>1 DEF GeometryInv
<1>6. CASE UNCHANGED Geometry!vars
  BY <1>6 DEF Geometry!vars, GeometryInv
<1> QED BY <1>1, <1>2, <1>3, <1>4, <1>5, <1>6, ResizeGood, ReconfigureGood DEF Geometry!Next

LEMMA GeometryInit ==
  ASSUME SizesAreNumbers, Geometry!Init
  PROVE  GeometryInv
<1>1. Geometry!Least \in Mins
  BY DEF SizesAreNumbers, Geometry!Least
<1>2. /\ g_desk \in Sizes /\ g_pointer = 0 /\ g_pos = 0 /\ g_min = Geometry!Least /\ g_max = -1
      /\ g_size = g_min
      /\ g_mode = "none" /\ g_drag = 0 /\ g_maximised = FALSE /\ g_stored = <<0, 0>>
  BY DEF Geometry!Init, Geometry!Unset, Geometry!Unused
<1>3. g_desk \in Nat \ {0} /\ g_min \in Nat
  BY <1>1, <1>2 DEF SizesAreNumbers
<1>4. g_pointer \in 0 .. g_desk - 1
  BY <1>2, <1>3
<1>5. g_mode \in Geometry!Modes /\ g_maximised \in BOOLEAN
  BY <1>2 DEF Geometry!Modes
<1>6. g_stored \in Int \X Int /\ g_pos \in Int /\ g_drag \in Int /\ g_size \in Int
  BY <1>2, <1>3
<1>7. g_max \in Nat \cup {-1} /\ g_min <= g_size /\ (g_max # -1 => g_size <= g_max)
  BY <1>2, <1>3
<1> QED BY <1>2, <1>3, <1>4, <1>5, <1>6, <1>7 DEF GeometryInv

LEMMA GeometryInductive ==
  ASSUME SizesAreNumbers
  PROVE  Geometry!Spec => []GeometryInv
<1>1. Geometry!Init => GeometryInv
  BY GeometryInit
<1>2. GeometryInv /\ [Geometry!Next]_(Geometry!vars) => GeometryInv'
  BY GeometryStep
<1> QED BY <1>1, <1>2, PTL DEF Geometry!Spec

(* Whatever the pointer, the screen and the child did, in any order, the   *)
(* window has a size that its child can be shown in (window.c, widget.c).  *)
THEOREM WindowsFit ==
  ASSUME SizesAreNumbers
  PROVE  Geometry!Spec => [](Geometry!TypeOK /\ Geometry!Constrained)
<1>1. GeometryInv => Geometry!TypeOK /\ Geometry!Constrained
  BY DEF GeometryInv, Geometry!TypeOK, Geometry!Constrained, Geometry!Unset
<1> QED BY <1>1, GeometryInductive, PTL

(* While an edge of a window without a maximum is dragged the other one    *)
(* stays, and the pointer stays on the handle it took, or the window is as *)
(* small as it can be (window.c).                                          *)
THEOREM DragsFollow ==
  ASSUME SizesAreNumbers
  PROVE  Geometry!Spec => Geometry!OtherEdgeStays /\ Geometry!HandleUnderPointer
<1>1. ASSUME GeometryInv, [Geometry!Next]_(Geometry!vars), g_pointer' # g_pointer, g_desk' = g_desk
      PROVE  \E p \in 0 .. g_desk - 1 : Geometry!Motion(p)
  BY <1>1 DEF Geometry!Next, Geometry!StartReshape, Geometry!StopReshape, Geometry!Maximise,
              Geometry!Restore, Geometry!Reconfigure, Geometry!DesktopResize, Geometry!vars
<1>2. ASSUME GeometryInv, [Geometry!Next]_(Geometry!vars), g_pointer' # g_pointer, g_desk' = g_desk,
             g_max = Geometry!Unset
      PROVE  /\ g_mode = "low" => g_pos' + g_size' = g_pos + g_size
             /\ g_mode = "high" => g_pos' = g_pos
             /\ g_mode = "move" => g_size' = g_size
             /\ g_mode \in {"move", "low", "high"} =>
                  g_pointer' - g_pos' = g_drag' \/ (g_mode # "move" /\ g_size' = g_min')
  <2>1. PICK p \in 0 .. g_desk - 1 : Geometry!Motion(p)
    BY <1>1, <1>2
  <2>2. /\ g_pointer' = p /\ UNCHANGED <<g_desk, g_min, g_max, g_mode, g_maximised, g_stored>>
        /\ g_mode = "move" => g_size' = g_size /\ p - g_pos' = g_drag'
        /\ g_mode = "low" /\ g_max = -1 =>
             g_pos' + g_size' = g_pos + g_size /\ (p - g_pos' = g_drag' \/ g_size' = g_min)
        /\ g_mode = "high" /\ g_max = -1 =>
             g_pos' = g_pos /\ (p - g_pos' = g_drag' \/ g_size' = g_min)
    BY <1>2, <2>1, MotionIs
  <2> QED BY <1>2, <2>2 DEF Geometry!Unset
<1>3. GeometryInv /\ [Geometry!Next]_(Geometry!vars) =>
        /\ [g_pointer' # g_pointer /\ g_desk' = g_desk /\ g_max = Geometry!Unset =>
              /\ g_mode = "low" => g_pos' + g_size' = g_pos + g_size
              /\ g_mode = "high" => g_pos' = g_pos
              /\ g_mode = "move" => g_size' = g_size]_(Geometry!vars)
        /\ [g_pointer' # g_pointer /\ g_desk' = g_desk /\ g_mode \in {"move", "low", "high"}
            /\ g_max = Geometry!Unset =>
              \/ g_pointer' - g_pos' = g_drag'
              \/ g_mode # "move" /\ g_size' = g_min']_(Geometry!vars)
  BY <1>2
<1> QED BY <1>3, GeometryInductive, PTL
        DEF Geometry!Spec, Geometry!OtherEdgeStays, Geometry!HandleUnderPointer

-----------------------------------------------------------------------------
(* Division, of a number that is a multiple of k and something less.       *)
LEMMA Quotients ==
  ASSUME NEW q \in Nat, NEW k \in Nat, NEW e \in Nat, e < k
  PROVE  (q * k + e) \div k = q
<1> DEFINE p == (q * k + e) \div k
<1> HIDE DEF p
<1>1. p \in Int /\ k * p <= q * k + e /\ q * k + e < k * p + k
  BY DEF p
<1>2. ~(p < q)
  <2> SUFFICES ASSUME p + 1 <= q PROVE FALSE
    BY <1>1
  <2>1. k * (p + 1) <= k * q
    BY <1>1
  <2> QED BY <1>1, <2>1
<1>3. ~(q < p)
  <2> SUFFICES ASSUME q + 1 <= p PROVE FALSE
    BY <1>1
  <2>1. k * (q + 1) <= k * p
    BY <1>1
  <2> QED BY <1>1, <2>1
<1> QED BY <1>1, <1>2, <1>3 DEF p

(* A set of numbers has a least one.                                       *)
LEMMA LeastNumber ==
  ASSUME NEW S, S \subseteq Nat, S # {}
  PROVE  \E m \in S : \A y \in S : m <= y
<1> DEFINE R == StrictSubsetOrdering(Nat)
           F == FiniteSubsetsOf(Nat)
           T == {0 .. x : x \in S}
<1>1. IsWellFoundedOn(R, F)
  BY FS_StrictSubsetOrderingWellFounded
<1>2. T \subseteq F
  <2>1. SUFFICES ASSUME NEW x \in S  PROVE 0 .. x \in F
    OBVIOUS
  <2>2. 0 .. x \in SUBSET Nat
    OBVIOUS
  <2>3. IsFiniteSet(0 .. x)
    BY FS_Interval
  <2> QED BY <2>2, <2>3 DEF FiniteSubsetsOf
<1>3. T # {}
  OBVIOUS
<1>4. PICK t \in T : \A u \in T : ~(<<u, t>> \in R)
  <2> HIDE DEF R, F, T
  <2> QED BY <1>1, <1>2, <1>3, WFMin
<1>5. PICK x \in S : t = 0 .. x
  BY <1>4
<1>6. \A y \in S : x <= y
  <2>1. TAKE y \in S
  <2>2. SUFFICES ASSUME y < x  PROVE FALSE
    OBVIOUS
  <2>3. 0 .. y \subseteq 0 .. x /\ x \in 0 .. x /\ x \notin 0 .. y
    BY <2>2
  <2>4. <<0 .. y, t>> \in R
    BY <1>5, <2>3 DEF StrictSubsetOrdering
  <2> QED BY <1>4, <2>4
<1> QED BY <1>6

(* The shares of the columns add up, one after the other, to what there is *)
(* to share: gridlayoutFitChildren gives the last column all that is left. *)
LEMMA SharesAre ==
  ASSUME NEW wd \in Nat, NEW n \in Nat
  PROVE  \E f \in [0 .. n -> Nat] :
           /\ f[0] = 0 /\ (n > 0 => f[n] = wd)
           /\ \A i \in 1 .. n : f[i - 1] <= f[i]
           /\ Grid!Shares(wd, n) = [i \in 1 .. n |-> f[i] - f[i - 1]]
<1> DEFINE Following(f) == [i \in 0 .. n |->
              IF i = 0 THEN 0 ELSE f[i - 1] + (wd - f[i - 1]) \div (n - (i - 1))]
           taken == CHOOSE f : f = Following(f)
<1>1. Grid!Shares(wd, n) = [i \in 1 .. n |-> taken[i] - taken[i - 1]]
  BY DEF Grid!Shares, Grid!ShareOf
<1>2. \E g \in [0 .. n -> Nat] :
        /\ g = Following(g)
        /\ g[0] = 0 /\ (n > 0 => g[n] = wd)
        /\ \A i \in 1 .. n : g[i - 1] <= g[i]
  <2>1. CASE n = 0
    <3> DEFINE g == [i \in 0 .. 0 |-> 0]
    <3>1. g \in [0 .. n -> Nat] /\ g[0] = 0 /\ g = Following(g)
      BY <2>1
    <3>2. 1 .. n = {} /\ ~(n > 0)
      BY <2>1
    <3> HIDE DEF g
    <3> QED BY <3>1, <3>2
  <2>2. CASE n # 0
    <3>1. PICK q, r \in Nat : wd = n * q + r /\ r < n
      <4>1. /\ wd \div n \in Nat /\ wd - n * (wd \div n) \in Nat
            /\ wd - n * (wd \div n) < n
        BY <2>2
      <4> QED BY <4>1
    <3> DEFINE Extra(i) == IF i > n - r THEN i - (n - r) ELSE 0
               g == [i \in 0 .. n |-> q * i + Extra(i)]
    <3>2. g \in [0 .. n -> Nat]
      BY <3>1
    <3>3. g[0] = 0 /\ g[n] = wd
      BY <2>2, <3>1
    <3>4. ASSUME NEW i \in 1 .. n
          PROVE  /\ g[i] = g[i - 1] + (wd - g[i - 1]) \div (n - (i - 1))
                 /\ g[i - 1] <= g[i]
      <4> DEFINE k == n - (i - 1)
      <4>1. k \in Nat /\ k > 0 /\ i - 1 \in 0 .. n /\ q * (i - 1) + q = q * i
        BY <3>4
      <4>2. g[i] = q * i + Extra(i) /\ g[i - 1] = q * (i - 1) + Extra(i - 1)
        BY <4>1
      <4>3. n * q - q * (i - 1) = q * k
        BY <3>1, <3>4
      <4>4. wd - g[i - 1] = q * k + (r - Extra(i - 1))
        BY <4>2, <4>3, <3>1, <4>1
      <4>5. CASE i - 1 < n - r
        <5>1. Extra(i - 1) = 0 /\ Extra(i) = 0 /\ r < k
          BY <4>5, <3>1, <4>1
        <5>2. (wd - g[i - 1]) \div k = q
          BY <4>4, <5>1, <4>1, <3>1, Quotients
        <5> QED BY <5>1, <5>2, <4>2, <4>1, <3>1
      <4>6. CASE ~(i - 1 < n - r)
        <5>1. Extra(i) = Extra(i - 1) + 1 /\ r - Extra(i - 1) = k
          BY <4>6, <3>1, <4>1
        <5>2. wd - g[i - 1] = (q + 1) * k + 0
          BY <4>4, <5>1, <4>1, <3>1
        <5>3. (wd - g[i - 1]) \div k = q + 1
          BY <5>2, <4>1, <3>1, Quotients
        <5> QED BY <5>1, <5>3, <4>2, <4>1, <3>1
      <4> QED BY <4>5, <4>6
    <3>5. g = Following(g)
      <4>1. ASSUME NEW i \in 0 .. n
            PROVE  g[i] = IF i = 0 THEN 0
                          ELSE g[i - 1] + (wd - g[i - 1]) \div (n - (i - 1))
        <5>1. CASE i = 0
          BY <5>1, <3>3
        <5>2. CASE i # 0
          <6>1. i \in 1 .. n
            BY <5>2
          <6>2. g[i] = g[i - 1] + (wd - g[i - 1]) \div (n - (i - 1))
            BY <6>1, <3>4
          <6> HIDE DEF g
          <6> QED BY <5>2, <6>2
        <5> QED BY <5>1, <5>2
      <4>2. DOMAIN g = 0 .. n /\ g = [i \in 0 .. n |-> g[i]]
        OBVIOUS
      <4> HIDE DEF g
      <4> QED BY <4>1, <4>2
    <3> QED BY <3>2, <3>3, <3>4, <3>5
  <2> QED BY <2>1, <2>2
<1>3. taken = Following(taken)
  BY <1>2
<1>4. PICK g \in [0 .. n -> Nat] :
        /\ g = Following(g)
        /\ g[0] = 0 /\ (n > 0 => g[n] = wd)
        /\ \A i \in 1 .. n : g[i - 1] <= g[i]
  BY <1>2
<1> HIDE DEF taken
<1>5. \A i \in 0 .. n : taken[i] = g[i]
  <2> SUFFICES ASSUME NEW i \in 0 .. n, taken[i] # g[i] PROVE FALSE
    OBVIOUS
  <2> DEFINE Wrong == {j \in Nat : j \in 0 .. n /\ taken[j] # g[j]}
  <2>1. PICK m \in Wrong : \A j \in Wrong : m <= j
    <3>1. Wrong \subseteq Nat /\ i \in Wrong
      OBVIOUS
    <3> HIDE DEF Wrong
    <3> QED BY <3>1, LeastNumber
  <2>2. m # 0
    BY <1>3, <1>4
  <2>3. taken[m - 1] = g[m - 1]
    BY <2>1, <2>2
  <2>4. /\ taken[m] = taken[m - 1] + (wd - taken[m - 1]) \div (n - (m - 1))
        /\ g[m] = g[m - 1] + (wd - g[m - 1]) \div (n - (m - 1))
    <3>1. m \in 0 .. n
      BY <2>1
    <3>2. taken[m] = Following(taken)[m] /\ g[m] = Following(g)[m]
      BY <1>3, <1>4
    <3> QED BY <2>2, <3>1, <3>2
  <2>5. taken[m] # g[m]
    BY <2>1
  <2> HIDE DEF Wrong, Following
  <2> QED BY <2>3, <2>4, <2>5
<1>6. Grid!Shares(wd, n) = [i \in 1 .. n |-> g[i] - g[i - 1]]
  <2>1. \A i \in 1 .. n : taken[i] - taken[i - 1] = g[i] - g[i - 1]
    BY <1>5
  <2> QED BY <1>1, <2>1
<1> HIDE DEF Following
<1> QED BY <1>4, <1>6

(* The width of some columns is the difference of what their ends add up to. *)
LEMMA WidthIs ==
  ASSUME NEW n \in Nat, NEW f \in [0 .. n -> Nat], NEW ws \in [1 .. n -> Int],
         \A i \in 1 .. n : ws[i] = f[i] - f[i - 1],
         NEW col \in Nat, NEW span \in Nat, col + span <= n
  PROVE  Grid!ColWidth(ws, col, span) = f[col + span] - f[col]
<1> DEFINE Following(g) == [k \in 0 .. span |-> IF k = 0 THEN 0 ELSE g[k - 1] + ws[col + k]]
           sum == CHOOSE g : g = Following(g)
           total == [k \in 0 .. span |-> f[col + k] - f[col]]
<1>1. Grid!ColWidth(ws, col, span) = sum[span]
  BY DEF Grid!ColWidth
<1>2. total = Following(total)
  <2>1. ASSUME NEW k \in 0 .. span
        PROVE  total[k] = IF k = 0 THEN 0 ELSE total[k - 1] + ws[col + k]
    <3>1. CASE k = 0
      <4>1. f[col + k] = f[col] /\ f[col] \in Nat
        BY <3>1
      <4> QED BY <3>1, <4>1
    <3>2. CASE k # 0
      <4>1. k - 1 \in 0 .. span /\ col + k \in 1 .. n /\ col + (k - 1) = (col + k) - 1
        BY <3>2
      <4>2. ws[col + k] = f[col + k] - f[col + (k - 1)]
        BY <4>1
      <4>3. f[col + k] \in Nat /\ f[col + (k - 1)] \in Nat /\ f[col] \in Nat
        BY <4>1
      <4>4. total[k] = f[col + k] - f[col] /\ total[k - 1] = f[col + (k - 1)] - f[col]
        BY <4>1
      <4>5. total[k] = total[k - 1] + ws[col + k]
        <5> PICK a, b, c : a = f[col + k] /\ b = f[col + (k - 1)] /\ c = f[col]
          OBVIOUS
        <5> QED BY ONLY <4>2, <4>3, <4>4, a = f[col + k] /\ b = f[col + (k - 1)] /\ c = f[col]
      <4> HIDE DEF total
      <4> QED BY <3>2, <4>5
    <3> QED BY <3>1, <3>2
  <2>2. total = [k \in 0 .. span |-> total[k]]
    OBVIOUS
  <2> HIDE DEF total
  <2> QED BY <2>1, <2>2
<1>3. sum = Following(sum)
  BY <1>2
<1>4. total[span] = f[col + span] - f[col] /\ \A k \in 0 .. span : total[k] \in Int
  BY SMT
<1> HIDE DEF sum, total
<1>5. sum[span] = total[span]
  <2> SUFFICES ASSUME sum[span] # total[span] PROVE FALSE
    OBVIOUS
  <2> DEFINE Wrong == {j \in Nat : j \in 0 .. span /\ sum[j] # total[j]}
  <2>1. PICK m \in Wrong : \A j \in Wrong : m <= j
    <3>1. Wrong \subseteq Nat /\ span \in Wrong
      OBVIOUS
    <3> HIDE DEF Wrong
    <3> QED BY <3>1, LeastNumber
  <2>2. m # 0
    BY <1>2, <1>3, <2>1
  <2>3. sum[m - 1] = total[m - 1]
    BY <2>1, <2>2
  <2>4. sum[m] = sum[m - 1] + ws[col + m] /\ total[m] = total[m - 1] + ws[col + m]
    <3>1. m \in 0 .. span
      BY <2>1
    <3>2. sum[m] = Following(sum)[m] /\ total[m] = Following(total)[m]
      BY <1>2, <1>3
    <3> QED BY <2>2, <3>1, <3>2
  <2>5. sum[m] # total[m]
    BY <2>1
  <2> HIDE DEF Wrong, Following
  <2> QED BY <2>3, <2>4, <2>5
<1> QED BY <1>1, <1>4, <1>5

(* A set of bounded numbers has a greatest and a least one.                *)
LEMMA Extremes ==
  ASSUME NEW B \in Nat, NEW S, S \subseteq 0 .. B, S # {}
  PROVE  /\ Grid!Max(S) \in S /\ \A y \in S : y <= Grid!Max(S)
         /\ Grid!Min(S) \in S /\ \A y \in S : Grid!Min(S) <= y
<1>1. \E m \in S : \A y \in S : m <= y
  <2>1. S \subseteq Nat
    OBVIOUS
  <2> QED BY <2>1, LeastNumber
<1>2. \E m \in S : \A y \in S : m >= y
  <2> DEFINE T == {B - s : s \in S}
  <2>1. T \subseteq Nat /\ T # {}
    <3>1. \A s \in S : B - s \in Nat
      OBVIOUS
    <3> QED BY <3>1
  <2>2. PICK t \in T : \A u \in T : t <= u
    <3> HIDE DEF T
    <3> QED BY <2>1, LeastNumber
  <2>3. PICK s \in S : t = B - s
    BY <2>2
  <2>4. ASSUME NEW y \in S PROVE s >= y
    <3>1. B - y \in T
      OBVIOUS
    <3>2. B - s <= B - y
      BY <2>2, <2>3, <3>1
    <3>3. s \in Int /\ y \in Int
      OBVIOUS
    <3> QED BY <3>2, <3>3
  <2> QED BY <2>4
<1>3. Grid!Max(S) \in S /\ \A y \in S : Grid!Max(S) >= y
  BY <1>2 DEF Grid!Max
<1>4. Grid!Min(S) \in S /\ \A y \in S : Grid!Min(S) <= y
  BY <1>1 DEF Grid!Min
<1>5. \A y \in S : y \in Int
  OBVIOUS
<1> QED BY <1>3, <1>4, <1>5

-----------------------------------------------------------------------------
(* GridLayout: each item is in the columns there are.                      *)
WithinRange(its, n) == \A i \in DOMAIN its : its[i].col + its[i].span <= n

LEMMA NeededIs ==
  ASSUME GridNumbers, NEW its \in Seq(Grid!Item), NEW n \in 0 .. 2 * MaxCols
  PROVE  Grid!Needed(n, its) \in 0 .. 2 * MaxCols /\ WithinRange(its, Grid!Needed(n, its))
<1> DEFINE ends == {n} \cup {its[i].col + its[i].span : i \in DOMAIN its}
<1>1. \A i \in DOMAIN its : its[i] \in Grid!Item
  OBVIOUS
<1>2. \A i \in DOMAIN its : its[i].col + its[i].span \in 0 .. 2 * MaxCols
  BY <1>1 DEF Grid!Item, GridNumbers
<1>3. ends \subseteq 0 .. 2 * MaxCols /\ ends # {} /\ 2 * MaxCols \in Nat
  BY <1>2 DEF GridNumbers
<1> HIDE DEF ends
<1>4. Grid!Max(ends) \in ends /\ \A y \in ends : y <= Grid!Max(ends)
  BY <1>3, Extremes
<1>5. Grid!Needed(n, its) = Grid!Max(ends)
  BY DEF Grid!Needed, ends
<1>6. \A i \in DOMAIN its : its[i].col + its[i].span \in ends
  BY DEF ends
<1> QED BY <1>3, <1>4, <1>5, <1>6 DEF WithinRange

(* The columns fill the layout, and all that is placed has a size.         *)
LEMMA FitIs ==
  ASSUME GridNumbers, NEW its \in Seq(Grid!Item), NEW wd \in Nat, NEW n \in Nat,
         WithinRange(its, n), Grid!Fit(its, wd, n),
         t_x \in [Widgets -> Nat], t_w \in [Widgets -> Nat], t_least \in [Widgets -> Int]
  PROVE  /\ t_colWidths' \in Seq(Nat) /\ Len(t_colWidths') = n
         /\ n > 0 => Grid!ColWidth(t_colWidths', 0, n) = wd
         /\ t_x' \in [Widgets -> Nat] /\ t_w' \in [Widgets -> Nat]
<1>1. PICK f \in [0 .. n -> Nat] :
        /\ f[0] = 0 /\ (n > 0 => f[n] = wd)
        /\ \A i \in 1 .. n : f[i - 1] <= f[i]
        /\ Grid!Shares(wd, n) = [i \in 1 .. n |-> f[i] - f[i - 1]]
  BY SharesAre
<1>2. PICK ws : ws = [i \in 1 .. n |-> f[i] - f[i - 1]]
  OBVIOUS
<1>w. t_colWidths' = ws /\ ws = Grid!Shares(wd, n)
  BY <1>1, <1>2 DEF Grid!Fit
<1>3. ws \in [1 .. n -> Nat] /\ ws \in Seq(Nat) /\ Len(ws) = n
  <2>1. \A i \in 1 .. n : f[i] - f[i - 1] \in Nat
    BY <1>1
  <2>2. ws \in [1 .. n -> Nat]
    BY <1>2, <2>1
  <2> QED BY <2>2
<1>4. \A col, span \in Nat : col + span <= n =>
        Grid!ColWidth(ws, col, span) = f[col + span] - f[col]
  <2> SUFFICES ASSUME NEW col \in Nat, NEW span \in Nat, col + span <= n
               PROVE  Grid!ColWidth(ws, col, span) = f[col + span] - f[col]
    OBVIOUS
  <2>1. \A i \in 1 .. n : ws[i] = f[i] - f[i - 1]
    BY <1>2
  <2>2. ws \in [1 .. n -> Int]
    BY <1>3
  <2> QED BY <2>1, <2>2, WidthIs
<1>5. n > 0 => Grid!ColWidth(ws, 0, n) = wd
  BY <1>1, <1>4
<1>6. \A i, j \in 0 .. n : i <= j => f[i] <= f[j]
  <2> SUFFICES ASSUME NEW i \in 0 .. n, NEW l \in 0 .. n, i <= l, ~(f[i] <= f[l]) PROVE FALSE
    OBVIOUS
  <2> DEFINE Wrong == {k \in Nat : k \in i .. n /\ ~(f[i] <= f[k])}
  <2>1. PICK m \in Wrong : \A k \in Wrong : m <= k
    <3>1. Wrong \subseteq Nat /\ l \in Wrong
      OBVIOUS
    <3> HIDE DEF Wrong
    <3> QED BY <3>1, LeastNumber
  <2>2. m \in i .. n /\ m # i /\ m - 1 \in i .. n /\ f[i] <= f[m - 1]
    BY <2>1
  <2>3. f[m - 1] <= f[m] /\ f[m - 1] \in Nat /\ f[m] \in Nat /\ f[i] \in Nat
    BY <1>1, <2>2
  <2> QED BY <2>1, <2>2, <2>3
<1>7. \A col, span \in Nat : col + span <= n => Grid!ColWidth(ws, col, span) \in Nat
  <2> SUFFICES ASSUME NEW col \in Nat, NEW span \in Nat, col + span <= n
               PROVE  Grid!ColWidth(ws, col, span) \in Nat
    OBVIOUS
  <2>1. col \in 0 .. n /\ col + span \in 0 .. n /\ col <= col + span
    OBVIOUS
  <2>2. f[col] <= f[col + span] /\ f[col] \in Nat /\ f[col + span] \in Nat
    BY <1>6, <2>1
  <2>3. Grid!ColWidth(ws, col, span) = f[col + span] - f[col]
    BY <1>4
  <2> QED BY <2>2, <2>3
<1>8. ASSUME NEW v \in Widgets, Grid!PlacesOf(its, v) # {}
      PROVE  LET at == its[Grid!Max(Grid!PlacesOf(its, v))]
             IN at.col \in Nat /\ at.span \in Nat /\ at.col + at.span <= n
  <2> DEFINE m == Grid!Max(Grid!PlacesOf(its, v))
  <2>1. PICK k \in Nat : k = Len(its)
    OBVIOUS
  <2>2. DOMAIN its = 1 .. k
    BY <2>1
  <2>3. Grid!PlacesOf(its, v) \subseteq 0 .. k
    BY <2>2 DEF Grid!PlacesOf
  <2>4. m \in Grid!PlacesOf(its, v)
    BY <1>8, <2>3, Extremes
  <2>5. m \in DOMAIN its
    BY <2>4 DEF Grid!PlacesOf
  <2>6. its[m] \in Grid!Item
    BY <2>5
  <2> QED BY <2>5, <2>6 DEF Grid!Item, WithinRange, GridNumbers
<1>9. t_x' \in [Widgets -> Nat]
  <2> DEFINE at(v) == its[Grid!Max(Grid!PlacesOf(its, v))]
  <2>1. t_x' = [v \in Widgets |-> IF Grid!PlacesOf(its, v) = {} THEN t_x[v]
                                 ELSE Grid!ColWidth(ws, 0, at(v).col)]
    BY <1>w DEF Grid!Fit
  <2>2. ASSUME NEW v \in Widgets, Grid!PlacesOf(its, v) # {}
        PROVE  Grid!ColWidth(ws, 0, at(v).col) \in Nat
    <3>1. at(v).col \in Nat /\ 0 + at(v).col <= n
      BY <1>8, <2>2
    <3> QED BY <1>7, <3>1
  <2> HIDE DEF at
  <2> QED BY <2>1, <2>2
<1>10. t_w' \in [Widgets -> Nat]
  <2> DEFINE at(v) == its[Grid!Max(Grid!PlacesOf(its, v))]
             s(v) == Grid!ColWidth(ws, at(v).col, at(v).span)
  <2>1. t_w' = [v \in Widgets |-> IF Grid!PlacesOf(its, v) = {} THEN t_w[v]
                  ELSE IF s(v) = t_w[v] THEN s(v)
                  ELSE IF s(v) < t_least[v] THEN t_least[v] ELSE s(v)]
    BY <1>w DEF Grid!Fit
  <2>2. ASSUME NEW v \in Widgets, Grid!PlacesOf(its, v) # {}
        PROVE  s(v) \in Nat
    <3>1. at(v).col \in Nat /\ at(v).span \in Nat /\ at(v).col + at(v).span <= n
      BY <1>8, <2>2
    <3> QED BY <1>7, <3>1
  <2> HIDE DEF at, s
  <2>3. \A v \in Widgets : t_least[v] \in Int
    OBVIOUS
  <2> QED BY <2>1, <2>2, <2>3
<1> QED BY <1>w, <1>3, <1>5, <1>9, <1>10


(* What is placed in a layout, each widget once, and the widgets of it.    *)
Once(s) == \A i, j \in DOMAIN s : s[i].widget = s[j].widget => i = j
WidgetsOf(s) == {s[i].widget : i \in DOMAIN s}

(* A widget is taken out of a layout: the others are there, in its order.  *)
LEMMA TakenOut ==
  ASSUME NEW S, NEW s \in Seq(S), Once(s), NEW k \in DOMAIN s
  PROVE  /\ RemoveAt(s, k) \in Seq(S) /\ Once(RemoveAt(s, k))
         /\ WidgetsOf(RemoveAt(s, k)) = WidgetsOf(s) \ {s[k].widget}
         /\ \A n : WithinRange(s, n) => WithinRange(RemoveAt(s, k), n)
<1> PICK n \in Nat : n = Len(s)
  OBVIOUS
<1> PICK r : r = RemoveAt(s, k)
  OBVIOUS
<1>1. DOMAIN s = 1 .. n /\ k \in 1 .. n
  OBVIOUS
<1>2. r \in Seq(S) /\ Len(r) = n - 1 /\ \A j \in 1 .. n - 1 : r[j] = IF j < k THEN s[j]
        ELSE s[j + 1]
  BY <1>1, Cut
<1>3. DOMAIN r = 1 .. n - 1
  BY <1>2
<1>4. \A j \in 1 .. n - 1 : \E l \in 1 .. n :
        r[j] = s[l] /\ l # k /\ (j < k => l = j) /\ (~(j < k) => l = j + 1)
  BY <1>1, <1>2
<1>5. \A l \in 1 .. n : l # k => \E j \in 1 .. n - 1 : r[j] = s[l]
  <2> SUFFICES ASSUME NEW l \in 1 .. n, l # k PROVE \E j \in 1 .. n - 1 : r[j] = s[l]
    OBVIOUS
  <2>1. CASE l < k
    BY <1>1, <1>2, <2>1
  <2>2. CASE ~(l < k)
    <3>1. l - 1 \in 1 .. n - 1 /\ ~(l - 1 < k) /\ (l - 1) + 1 = l
      BY <1>1, <2>2
    <3> QED BY <1>2, <3>1
  <2> QED BY <2>1, <2>2
<1>6. Once(r)
  <2> SUFFICES ASSUME NEW i \in 1 .. n - 1, NEW j \in 1 .. n - 1, r[i].widget = r[j].widget
        PROVE i = j
    BY <1>3 DEF Once
  <2>1. PICK l \in 1 .. n : r[i] = s[l] /\ (i < k => l = i) /\ (~(i < k) => l = i + 1)
    BY <1>4
  <2>2. PICK m \in 1 .. n : r[j] = s[m] /\ (j < k => m = j) /\ (~(j < k) => m = j + 1)
    BY <1>4
  <2>3. l = m
    BY <1>1, <2>1, <2>2 DEF Once
  <2> QED BY <1>1, <2>1, <2>2, <2>3
<1>7. WidgetsOf(r) = WidgetsOf(s) \ {s[k].widget}
  <2>1. \A j \in 1 .. n - 1 : r[j].widget \in WidgetsOf(s) \ {s[k].widget}
    <3> SUFFICES ASSUME NEW j \in 1 .. n - 1 PROVE r[j].widget \in WidgetsOf(s) \ {s[k].widget}
      OBVIOUS
    <3>1. PICK l \in 1 .. n : r[j] = s[l] /\ l # k
      BY <1>4
    <3>2. s[l].widget # s[k].widget /\ s[l].widget \in WidgetsOf(s)
      BY <1>1, <3>1 DEF Once, WidgetsOf
    <3> QED BY <3>1, <3>2
  <2>2. \A l \in 1 .. n : l # k => s[l].widget \in WidgetsOf(r)
    BY <1>3, <1>5 DEF WidgetsOf
  <2>3. \A x \in WidgetsOf(s) : x # s[k].widget => x \in WidgetsOf(r)
    BY <1>1, <2>2 DEF WidgetsOf
  <2>4. \A x \in WidgetsOf(r) : x \in WidgetsOf(s) \ {s[k].widget}
    BY <1>3, <2>1 DEF WidgetsOf
  <2> QED BY <2>3, <2>4
<1>8. \A m : WithinRange(s, m) => WithinRange(r, m)
  BY <1>1, <1>3, <1>4 DEF WithinRange
<1> QED BY <1>1, <1>2, <1>6, <1>7, <1>8

(* A widget is put at the end of a layout.                                 *)
LEMMA PutLast ==
  ASSUME NEW S, NEW s \in Seq(S), Once(s), NEW c \in S, c.widget \notin WidgetsOf(s)
  PROVE  /\ Append(s, c) \in Seq(S) /\ Once(Append(s, c))
         /\ WidgetsOf(Append(s, c)) = WidgetsOf(s) \cup {c.widget}
<1> PICK n \in Nat : n = Len(s)
  OBVIOUS
<1> PICK r : r = Append(s, c)
  OBVIOUS
<1>1. /\ DOMAIN s = 1 .. n /\ DOMAIN r = 1 .. n + 1 /\ r \in Seq(S)
      /\ r[n + 1] = c /\ \A i \in 1 .. n : r[i] = s[i]
  OBVIOUS
<1>2. \A i \in 1 .. n + 1 : i \in 1 .. n \/ i = n + 1
  OBVIOUS
<1>3. \A i \in 1 .. n : s[i].widget # c.widget
  BY <1>1 DEF WidgetsOf
<1>4. Once(r)
  BY <1>1, <1>2, <1>3 DEF Once
<1>5. WidgetsOf(r) = WidgetsOf(s) \cup {c.widget}
  BY <1>1, <1>2 DEF WidgetsOf
<1> QED BY <1>1, <1>4, <1>5

(* What the layout knows of the pointer: only what it holds is entered, as *)
(* long as it lives, and nothing while the pointer is elsewhere.           *)
Holding == Once(t_items) /\ Grid!Held \subseteq t_alive /\ t_alive \subseteq Widgets
Pointing == (~t_told => t_pointerWidget = Nil) /\ Grid!EnteredOnce
GridTyped == t_least \in [Widgets -> Int] /\ t_told \in BOOLEAN /\ t_crashed \in BOOLEAN
GridInv == Grid!TypeOK /\ GridTyped /\ Grid!Tiled /\ Holding /\ Pointing

LEMMA HeldIs == Grid!Held = WidgetsOf(t_items)
BY DEF Grid!Held, WidgetsOf

LEMMA DroppedIs ==
  ASSUME GridInv, NEW v \in Widgets
  PROVE  /\ Grid!Dropped(v) \in Seq(Grid!Item) /\ Once(Grid!Dropped(v))
         /\ WidgetsOf(Grid!Dropped(v)) \subseteq Grid!Held \ {v}
         /\ \A n : WithinRange(t_items, n) => WithinRange(Grid!Dropped(v), n)
<1>1. t_items \in Seq(Grid!Item) /\ Once(t_items)
  BY DEF GridInv, Grid!TypeOK, Holding
<1>2. CASE v \notin Grid!Held
  <2>1. Grid!Dropped(v) = t_items
    BY <1>2 DEF Grid!Dropped
  <2> QED BY <1>1, <1>2, <2>1, HeldIs
<1>3. CASE v \in Grid!Held
  <2> PICK n \in Nat : n = Len(t_items)
    BY <1>1
  <2> PICK k : k = Grid!Min(Grid!PlacesOf(t_items, v))
    OBVIOUS
  <2>1. DOMAIN t_items = 1 .. n
    BY <1>1
  <2>2. Grid!PlacesOf(t_items, v) \subseteq 0 .. n /\ Grid!PlacesOf(t_items, v) # {}
    BY <1>3, <2>1 DEF Grid!PlacesOf, Grid!Held
  <2>3. k \in Grid!PlacesOf(t_items, v)
    BY <2>2, Extremes
  <2>4. k \in DOMAIN t_items /\ t_items[k].widget = v
    BY <2>3 DEF Grid!PlacesOf
  <2>5. Grid!Dropped(v) = RemoveAt(t_items, k)
    BY <1>3 DEF Grid!Dropped, Grid!RemoveAt, RemoveAt
  <2>6. /\ RemoveAt(t_items, k) \in Seq(Grid!Item) /\ Once(RemoveAt(t_items, k))
        /\ WidgetsOf(RemoveAt(t_items, k)) = WidgetsOf(t_items) \ {t_items[k].widget}
    BY <1>1, <2>4, TakenOut
  <2>7. \A m : WithinRange(t_items, m) => WithinRange(Grid!Dropped(v), m)
    BY <1>1, <2>4, <2>5, TakenOut
  <2> QED BY <2>4, <2>5, <2>6, <2>7, HeldIs
<1> QED BY <1>2, <1>3

(* The grid is laid out for what it then holds.                            *)
LEMMA LaidOut ==
  ASSUME GridNumbers, GridInv, NEW its \in Seq(Grid!Item), NEW n \in 0 .. 2 * MaxCols,
         NEW wd \in Widths \cup {0},
         WithinRange(its, n), Once(its), WidgetsOf(its) \subseteq t_alive,
         t_items' = its, t_cols' = n, t_width' = wd, Grid!Fit(its, wd, n),
         UNCHANGED <<t_least, t_alive, t_told, t_pointerWidget, t_entered, t_crashed>>
  PROVE  GridInv'
<1>1. wd \in Nat /\ n \in Nat
  BY DEF GridNumbers
<1>2. t_x \in [Widgets -> Nat] /\ t_w \in [Widgets -> Nat] /\ t_least \in [Widgets -> Int]
  BY DEF GridInv, Grid!TypeOK, GridTyped
<1>3. /\ t_colWidths' \in Seq(Nat) /\ Len(t_colWidths') = n
      /\ n > 0 => Grid!ColWidth(t_colWidths', 0, n) = wd
      /\ t_x' \in [Widgets -> Nat] /\ t_w' \in [Widgets -> Nat]
  BY <1>1, <1>2, FitIs
<1>4. Grid!TypeOK'
  BY <1>3 DEF GridInv, Grid!TypeOK
<1>5. Grid!Tiled'
  BY <1>3 DEF Grid!Tiled, WithinRange, Grid!ColWidth
<1>6. Holding'
  <2>1. Grid!Held' = WidgetsOf(its)
    BY DEF Grid!Held, WidgetsOf
  <2> QED BY <2>1 DEF Holding, GridInv
<1>7. Pointing' /\ GridTyped'
  BY DEF Pointing, GridTyped, GridInv, Grid!EnteredOnce
<1> QED BY <1>4, <1>5, <1>6, <1>7 DEF GridInv

LEMMA GridStep ==
  ASSUME GridNumbers, GridInv, [Grid!Next]_(Grid!vars)
  PROVE  GridInv'
<1>1. /\ t_items \in Seq(Grid!Item) /\ t_cols \in 0 .. 2 * MaxCols /\ t_width \in Widths \cup {0}
      /\ WithinRange(t_items, t_cols) /\ Once(t_items)
      /\ WidgetsOf(t_items) \subseteq t_alive /\ t_alive \subseteq Widgets
  BY HeldIs DEF GridInv, Grid!TypeOK, Grid!Tiled, WithinRange, Holding
<1>2. ASSUME NEW i \in Grid!Item, Grid!AddWidget(i) PROVE GridInv'
  <2> PICK its : its = Append(t_items, i)
    OBVIOUS
  <2> PICK n : n = IF i.col + i.span > t_cols THEN Grid!Needed(t_cols, its) ELSE t_cols
    OBVIOUS
  <2>1. /\ i.widget \in t_alive /\ i.widget \notin WidgetsOf(t_items)
        /\ t_items' = its /\ t_cols' = n /\ Grid!Fit(its, t_width, n) /\ t_width' = t_width
        /\ UNCHANGED <<t_least, t_alive, t_told, t_pointerWidget, t_entered, t_crashed>>
    BY <1>2, HeldIs DEF Grid!AddWidget, Grid!pointerVars
  <2>2. /\ its \in Seq(Grid!Item) /\ Once(its)
        /\ WidgetsOf(its) = WidgetsOf(t_items) \cup {i.widget}
    BY <1>1, <2>1, PutLast
  <2>3. n \in 0 .. 2 * MaxCols /\ WithinRange(its, n)
    <3>1. CASE i.col + i.span > t_cols
      BY <1>1, <2>2, <3>1, NeededIs
    <3>2. CASE ~(i.col + i.span > t_cols)
      <4>1. PICK k \in Nat : k = Len(t_items)
        BY <1>1
      <4>2. /\ DOMAIN its = 1 .. k + 1 /\ DOMAIN t_items = 1 .. k
            /\ its[k + 1] = i /\ \A j \in 1 .. k : its[j] = t_items[j]
        BY <1>1, <4>1
      <4>3. i.col + i.span <= t_cols
        BY <1>1, <3>2 DEF Grid!Item, GridNumbers
      <4>4. \A j \in 1 .. k + 1 : j \in 1 .. k \/ j = k + 1
        BY <4>1
      <4>5. WithinRange(its, t_cols)
        BY <1>1, <4>2, <4>3, <4>4 DEF WithinRange
      <4> QED BY <1>1, <3>2, <4>5
    <3> QED BY <3>1, <3>2
  <2> QED BY <1>1, <2>1, <2>2, <2>3, LaidOut
<1>3. ASSUME NEW v \in Widgets, Grid!RemoveWidget(v) PROVE GridInv'
  <2> PICK its : its = Grid!Dropped(v)
    OBVIOUS
  <2>1. /\ t_items' = its /\ t_cols' = Grid!Needed(0, its)
        /\ Grid!Fit(its, t_width, Grid!Needed(0, its)) /\ t_width' = t_width
        /\ UNCHANGED <<t_least, t_alive, t_told, t_pointerWidget, t_entered, t_crashed>>
    BY <1>3 DEF Grid!RemoveWidget, Grid!pointerVars
  <2>2. its \in Seq(Grid!Item) /\ Once(its) /\ WidgetsOf(its) \subseteq t_alive
    BY <1>1, DroppedIs, HeldIs
  <2>3. 0 \in 0 .. 2 * MaxCols
    BY DEF GridNumbers
  <2>4. Grid!Needed(0, its) \in 0 .. 2 * MaxCols /\ WithinRange(its, Grid!Needed(0, its))
    BY <2>2, <2>3, NeededIs
  <2> QED BY <1>1, <2>1, <2>2, <2>4, LaidOut
<1>4. ASSUME NEW v \in Widgets, Grid!Destroy(v) PROVE GridInv'
  <2>1. /\ t_items' = Grid!Dropped(v) /\ t_alive' = t_alive \ {v}
        /\ t_entered' = t_entered \ {v}
        /\ UNCHANGED <<t_cols, t_colWidths, t_width, t_minWidth, t_least, t_x, t_w, t_told,
                       t_pointerWidget, t_crashed>>
    BY <1>4 DEF Grid!Destroy
  <2>2. /\ Grid!Dropped(v) \in Seq(Grid!Item) /\ Once(Grid!Dropped(v))
        /\ WidgetsOf(Grid!Dropped(v)) \subseteq Grid!Held \ {v}
        /\ WithinRange(Grid!Dropped(v), t_cols)
    BY <1>1, DroppedIs
  <2>3. Grid!TypeOK'
    BY <2>1, <2>2 DEF GridInv, Grid!TypeOK
  <2>4. Grid!Tiled'
    BY <2>1, <2>2 DEF GridInv, Grid!Tiled, WithinRange, Grid!ColWidth
  <2>5. Holding'
    <3>1. Grid!Held' = WidgetsOf(Grid!Dropped(v))
      BY <2>1 DEF Grid!Held, WidgetsOf
    <3> QED BY <2>1, <2>2, <3>1 DEF GridInv, Holding
  <2>6. Pointing' /\ GridTyped'
    BY <2>1 DEF GridInv, Pointing, GridTyped, Grid!EnteredOnce
  <2> QED BY <2>3, <2>4, <2>5, <2>6 DEF GridInv
<1>5. ASSUME NEW n \in Widths, Grid!Resize(n) PROVE GridInv'
  <2>1. /\ t_items' = t_items /\ t_cols' = t_cols /\ t_width' = n /\ Grid!Fit(t_items, n, t_cols)
        /\ UNCHANGED <<t_least, t_alive, t_told, t_pointerWidget, t_entered, t_crashed>>
    BY <1>5 DEF Grid!Resize, Grid!pointerVars
  <2> QED BY <1>1, <2>1, LaidOut
<1>6. ASSUME NEW v \in Widgets, NEW m \in {Grid!Unset, 1}, Grid!Reconfigure(v, m) PROVE GridInv'
  <2>1. /\ t_least' = [t_least EXCEPT ![v] = m]
        /\ UNCHANGED <<t_items, t_cols, t_colWidths, t_width, t_x, t_w, t_alive, t_told,
                       t_pointerWidget, t_entered, t_crashed>>
    BY <1>6 DEF Grid!Reconfigure, Grid!pointerVars
  <2>2. t_least' \in [Widgets -> Int]
    BY <2>1 DEF GridInv, GridTyped, Grid!Unset
  <2>3. Grid!TypeOK' /\ Grid!Tiled'
    BY <2>1 DEF GridInv, Grid!TypeOK, Grid!Tiled, Grid!ColWidth
  <2>4. Holding' /\ Pointing' /\ GridTyped'
    BY <2>1, <2>2 DEF GridInv, Holding, Once, Grid!Held, Pointing, GridTyped, Grid!EnteredOnce
  <2> QED BY <2>3, <2>4 DEF GridInv
<1>7. ASSUME Pointing', t_told' \in BOOLEAN, t_crashed' \in BOOLEAN,
             t_pointerWidget' \in Widgets \cup {Nil}, t_entered' \subseteq Widgets,
             UNCHANGED <<t_items, t_cols, t_colWidths, t_width, t_minWidth, t_least, t_x, t_w,
               t_alive>>
      PROVE  GridInv'
  <2>1. Grid!TypeOK' /\ Grid!Tiled' /\ GridTyped'
    BY <1>7 DEF GridInv, GridTyped, Grid!TypeOK, Grid!Tiled, Grid!ColWidth
  <2>2. Holding'
    BY <1>7 DEF GridInv, Holding, Once, Grid!Held
  <2> QED BY <1>7, <2>1, <2>2 DEF GridInv
<1>8. ASSUME NEW v \in Grid!Over, Grid!PointerEnter(v) PROVE GridInv'
  <2>1. /\ ~t_told /\ t_told' = TRUE /\ ~t_crashed
        /\ t_pointerWidget' = IF v = Nil THEN t_pointerWidget ELSE v
        /\ t_entered' = t_entered \cup ({v} \ {Nil})
        /\ UNCHANGED <<t_items, t_cols, t_colWidths, t_width, t_minWidth, t_least, t_x, t_w,
             t_alive,
                       t_crashed>>
    BY <1>8 DEF Grid!PointerEnter, Grid!Running
  <2>2. v \in t_alive \/ v = Nil
    BY <1>1, <1>8, HeldIs DEF Grid!Over
  <2>3. /\ t_pointerWidget = Nil /\ t_entered = {t_pointerWidget} \cap t_alive /\ Nil \notin t_alive
        /\ t_pointerWidget \in Widgets \cup {Nil} /\ t_entered \subseteq Widgets
        /\ t_crashed \in BOOLEAN
    BY <1>1, <2>1 DEF GridInv, Pointing, Grid!EnteredOnce, GridNumbers, Grid!TypeOK, GridTyped
  <2>4. t_pointerWidget' = v /\ t_entered' = {v} \cap t_alive
    BY <2>1, <2>2, <2>3
  <2> QED BY <1>1, <1>7, <2>1, <2>2, <2>3, <2>4 DEF Pointing, Grid!EnteredOnce
<1>9. ASSUME NEW v \in Grid!Over, Grid!PointerMotion(v) PROVE GridInv'
  <2>1. /\ t_told' = t_told /\ t_told /\ ~t_crashed
        /\ t_crashed' = (t_pointerWidget \notin t_alive \cup {Nil})
        /\ t_pointerWidget' = v
        /\ t_entered' = (t_entered \ {t_pointerWidget}) \cup ({v} \ {Nil})
        /\ UNCHANGED <<t_items, t_cols, t_colWidths, t_width, t_minWidth, t_least, t_x, t_w,
             t_alive>>
    BY <1>9 DEF Grid!PointerMotion, Grid!Running, Grid!NowIn, Grid!Without
  <2>2. v \in t_alive \/ v = Nil
    BY <1>1, <1>9, HeldIs DEF Grid!Over
  <2>3. /\ t_entered = {t_pointerWidget} \cap t_alive /\ Nil \notin t_alive
        /\ t_entered \subseteq Widgets /\ t_told \in BOOLEAN
    BY <1>1, <2>1 DEF GridInv, Pointing, Grid!EnteredOnce, GridNumbers, Grid!TypeOK, GridTyped
  <2>4. t_entered' = {v} \cap t_alive /\ t_crashed' \in BOOLEAN
    BY <2>1, <2>2, <2>3
  <2> QED BY <1>1, <1>7, <2>1, <2>2, <2>3, <2>4 DEF Pointing, Grid!EnteredOnce
<1>10. ASSUME Grid!PointerLeave PROVE GridInv'
  <2>1. /\ t_told' = FALSE /\ ~t_crashed
        /\ t_crashed' = (t_pointerWidget \notin t_alive \cup {Nil})
        /\ t_pointerWidget' = Nil /\ t_entered' = t_entered \ {t_pointerWidget}
        /\ UNCHANGED <<t_items, t_cols, t_colWidths, t_width, t_minWidth, t_least, t_x, t_w,
             t_alive>>
    BY <1>10 DEF Grid!PointerLeave, Grid!Running, Grid!Without
  <2>2. /\ t_entered = {t_pointerWidget} \cap t_alive /\ Nil \notin t_alive
        /\ t_entered \subseteq Widgets
    BY <1>1, <2>1 DEF GridInv, Pointing, Grid!EnteredOnce, GridNumbers, Grid!TypeOK
  <2>3. t_entered' = {Nil} \cap t_alive /\ t_crashed' \in BOOLEAN
    BY <2>1, <2>2
  <2> QED BY <1>1, <1>7, <2>1, <2>2, <2>3 DEF Pointing, Grid!EnteredOnce
<1>11. CASE UNCHANGED Grid!vars
  <2>1. UNCHANGED <<t_items, t_cols, t_colWidths, t_width, t_minWidth, t_least, t_x, t_w, t_alive,
                    t_told, t_pointerWidget, t_entered, t_crashed>>
    BY <1>11 DEF Grid!vars
  <2>2. Pointing' /\ t_told' \in BOOLEAN /\ t_crashed' \in BOOLEAN
        /\ t_pointerWidget' \in Widgets \cup {Nil} /\ t_entered' \subseteq Widgets
    BY <2>1 DEF GridInv, Pointing, Grid!EnteredOnce, GridTyped, Grid!TypeOK
  <2> QED BY <1>7, <2>1, <2>2
<1> QED BY <1>2, <1>3, <1>4, <1>5, <1>6, <1>8, <1>9, <1>10, <1>11 DEF Grid!Next

LEMMA GridInit ==
  ASSUME GridNumbers, Grid!Init
  PROVE  GridInv
<1>1. /\ t_items = <<>> /\ t_cols = 0 /\ t_colWidths = <<>> /\ t_width = 0
      /\ t_least = [v \in Widgets |-> -1] /\ t_x = [v \in Widgets |-> 0]
      /\ t_w = [v \in Widgets |-> 0] /\ t_alive = Widgets
      /\ t_told = FALSE /\ t_pointerWidget = Nil /\ t_entered = {} /\ t_crashed = FALSE
  BY DEF Grid!Init, Grid!Unset
<1>2. /\ t_items \in Seq(Grid!Item) /\ DOMAIN t_items = {}
      /\ t_colWidths \in Seq(Nat) /\ Len(t_colWidths) = 0
  BY <1>1
<1>3. Grid!TypeOK
  BY <1>1, <1>2 DEF Grid!TypeOK, GridNumbers
<1>4. Grid!Tiled
  BY <1>1, <1>2 DEF Grid!Tiled
<1>5. Holding /\ GridTyped
  <2>1. Once(t_items) /\ Grid!Held = {}
    BY <1>2 DEF Once, Grid!Held
  <2>2. t_least \in [Widgets -> Int]
    BY <1>1
  <2> QED BY <1>1, <2>1, <2>2 DEF Holding, GridTyped
<1>6. Pointing
  BY <1>1 DEF Pointing, Grid!EnteredOnce, GridNumbers
<1> QED BY <1>3, <1>4, <1>5, <1>6 DEF GridInv

LEMMA GridInductive ==
  ASSUME GridNumbers
  PROVE  Grid!Spec => []GridInv
<1>1. Grid!Init => GridInv
  BY GridInit
<1>2. GridInv /\ [Grid!Next]_(Grid!vars) => GridInv'
  BY GridStep
<1> QED BY <1>1, <1>2, PTL DEF Grid!Spec

(* The columns of a grid make up its width to the last pixel and are       *)
(* enough for its items, whatever is added, removed, destroyed and resized *)
(* (gridlayoutFitChildren), for any number of columns and any widths.      *)
THEOREM GridTiled ==
  ASSUME GridNumbers
  PROVE  Grid!Spec => [](Grid!TypeOK /\ Grid!Tiled)
<1>1. GridInv => Grid!TypeOK /\ Grid!Tiled
  BY DEF GridInv
<1> QED BY <1>1, GridInductive, PTL

(* The widget that a grid told to be entered is the one that it will tell  *)
(* to be left (gridlayoutPointerMotion), also if it is removed meanwhile.  *)
THEOREM GridEntered ==
  ASSUME GridNumbers
  PROVE  Grid!Spec => []Grid!EnteredOnce
<1>1. GridInv => Grid!EnteredOnce
  BY DEF GridInv, Pointing
<1> QED BY <1>1, GridInductive, PTL

-----------------------------------------------------------------------------
(* Recursive functions on 0 .. n: f[0] is z, f[i] is g[<<i, f[i - 1]>>].   *)
Runs(f, V, z, g, n) ==
  f \in [0 .. n -> V] /\ f[0] = z /\ \A i \in 1 .. n : f[i] = g[<<i, f[i - 1]>>]
Unfolds(f, V, z, g, n) ==
  /\ f = [i \in 0 .. n |-> f[i]] /\ f[0] = z
  /\ \A i \in 1 .. n : f[i - 1] \in V => f[i] = g[<<i, f[i - 1]>>]

(* There is such a function.                                               *)
LEMMA Recursion ==
  ASSUME NEW V, NEW z \in V, NEW n \in Nat, NEW g \in [(1 .. n) \X V -> V]
  PROVE  \E f : Runs(f, V, z, g, n)
<1> DEFINE Exists(m) == \E f \in [0 .. m -> V] :
                          f[0] = z /\ \A i \in 1 .. m : f[i] = g[<<i, f[i - 1]>>]
           Wrong == {m \in Nat : m <= n /\ ~Exists(m)}
<1> SUFFICES ASSUME ~Exists(n) PROVE FALSE
  BY DEF Runs
<1>1. PICK m \in Wrong : \A j \in Wrong : m <= j
  <2>1. Wrong \subseteq Nat /\ n \in Wrong
    OBVIOUS
  <2> HIDE DEF Wrong
  <2> QED BY <2>1, LeastNumber
<1>2. Exists(0)
  <2> DEFINE f == [i \in 0 .. 0 |-> z]
  <2>1. f \in [0 .. 0 -> V] /\ f[0] = z /\ 1 .. 0 = {}
    OBVIOUS
  <2> HIDE DEF f
  <2> QED BY <2>1
<1>3. m \in Nat /\ m <= n /\ m # 0 /\ ~Exists(m)
  BY <1>1, <1>2
<1>4. Exists(m - 1)
  <2>1. m - 1 \in Nat /\ m - 1 <= n /\ ~(m <= m - 1)
    BY <1>3
  <2> HIDE DEF Exists
  <2> QED BY <1>1, <2>1
<1>5. PICK f \in [0 .. m - 1 -> V] :
        f[0] = z /\ \A i \in 1 .. m - 1 : f[i] = g[<<i, f[i - 1]>>]
  BY <1>4
<1> DEFINE h == [i \in 0 .. m |-> IF i = m THEN g[<<m, f[m - 1]>>] ELSE f[i]]
<1>6. g[<<m, f[m - 1]>>] \in V
  <2>1. f[m - 1] \in V /\ m \in 1 .. n
    BY <1>3, <1>5
  <2> QED BY <2>1
<1>7. h \in [0 .. m -> V]
  <2>1. \A i \in 0 .. m : i # m => f[i] \in V
    BY <1>3, <1>5
  <2> QED BY <1>6, <2>1
<1>8. h[0] = z
  BY <1>3, <1>5
<1>9. ASSUME NEW i \in 1 .. m PROVE h[i] = g[<<i, h[i - 1]>>]
  <2>1. i - 1 \in 0 .. m /\ i - 1 # m /\ h[i - 1] = f[i - 1]
    BY <1>3
  <2>2. CASE i = m
    BY <2>1, <2>2
  <2>3. CASE i # m
    <3>1. i \in 1 .. m - 1 /\ h[i] = f[i]
      BY <1>3, <2>3
    <3> QED BY <1>5, <2>1, <3>1
  <2> QED BY <2>2, <2>3
<1> HIDE DEF h
<1> QED BY <1>3, <1>7, <1>8, <1>9

(* What unfolds as such a function is one.                                 *)
LEMMA Unfolded ==
  ASSUME NEW V, NEW z \in V, NEW n \in Nat, NEW g \in [(1 .. n) \X V -> V], NEW f,
         Unfolds(f, V, z, g, n)
  PROVE  Runs(f, V, z, g, n)
<1>1. f[0] = z /\ \A i \in 1 .. n : f[i - 1] \in V => f[i] = g[<<i, f[i - 1]>>]
  BY DEF Unfolds
<1>2. ASSUME NEW i \in 0 .. n, f[i] \notin V PROVE FALSE
  <2> DEFINE Wrong == {m \in Nat : m <= n /\ f[m] \notin V}
  <2>1. PICK m \in Wrong : \A j \in Wrong : m <= j
    <3>1. Wrong \subseteq Nat /\ i \in Wrong
      BY <1>2
    <3> HIDE DEF Wrong
    <3> QED BY <3>1, LeastNumber
  <2>2. m \in 1 .. n /\ f[m] \notin V
    BY <1>1, <2>1
  <2>3. f[m - 1] \in V
    BY <2>1, <2>2
  <2>4. <<m, f[m - 1]>> \in (1 .. n) \X V
    BY <2>2, <2>3
  <2> QED BY <1>1, <2>2, <2>3, <2>4
<1>3. \A i \in 1 .. n : i - 1 \in 0 .. n
  OBVIOUS
<1>4. \A i \in 1 .. n : f[i] = g[<<i, f[i - 1]>>]
  BY <1>1, <1>2, <1>3
<1>5. f \in [0 .. n -> V]
  <2>1. f = [i \in 0 .. n |-> f[i]]
    BY Zenon DEF Unfolds
  <2> PICK h : h = [i \in 0 .. n |-> f[i]]
    OBVIOUS
  <2>2. h \in [0 .. n -> V]
    BY <1>2
  <2> QED BY <2>1, <2>2
<1> QED BY <1>1, <1>4, <1>5 DEF Runs

(* The sums of the first numbers of a sequence.                            *)
Adds(f, a, n) == f \in [0 .. n -> Int] /\ f[0] = 0 /\ \A i \in 1 .. n : f[i] = f[i - 1] + a[i]
Sums(f, a, n) == f = [i \in 0 .. n |-> IF i = 0 THEN 0 ELSE f[i - 1] + a[i]]

LEMMA SumsAre ==
  ASSUME NEW n \in Nat, NEW a \in [1 .. n -> Int]
  PROVE  /\ \E f : Sums(f, a, n)
         /\ \A f : Sums(f, a, n) => Adds(f, a, n)
<1> PICK g : g = [p \in (1 .. n) \X Int |-> p[2] + a[p[1]]]
  OBVIOUS
<1>1. g \in [(1 .. n) \X Int -> Int] /\ 0 \in Int
  OBVIOUS
<1>2. \A i \in 1 .. n : \A v \in Int : g[<<i, v>>] = v + a[i]
  OBVIOUS
<1>3. PICK f : Runs(f, Int, 0, g, n)
  BY <1>1, Recursion, Zenon
<1>4. f \in [0 .. n -> Int] /\ f[0] = 0 /\ \A i \in 1 .. n : f[i] = g[<<i, f[i - 1]>>]
  BY <1>3, Zenon DEF Runs
<1>5. ASSUME NEW i \in 0 .. n PROVE f[i] = IF i = 0 THEN 0 ELSE f[i - 1] + a[i]
  <2>1. CASE i = 0
    BY <1>4, <2>1
  <2>2. CASE i # 0
    <3>1. i \in 1 .. n /\ i - 1 \in 0 .. n
      BY <2>2
    <3>2. f[i - 1] \in Int
      BY ONLY <1>4, <3>1
    <3>3. f[i] = f[i - 1] + a[i]
      BY <1>2, <1>4, <3>1, <3>2
    <3> QED BY <2>2, <3>3
  <2> QED BY <2>1, <2>2
<1>6. Sums(f, a, n)
  <2>1. f = [i \in 0 .. n |-> f[i]]
    BY <1>4
  <2> QED BY ONLY <1>5, <2>1 DEF Sums
<1>7. ASSUME NEW h, Sums(h, a, n) PROVE Adds(h, a, n)
  <2>1. h = [i \in 0 .. n |-> IF i = 0 THEN 0 ELSE h[i - 1] + a[i]]
    BY <1>7 DEF Sums
  <2>2. h[0] = 0 /\ h = [i \in 0 .. n |-> h[i]]
    BY <2>1
  <2>3. \A i \in 1 .. n : h[i] = h[i - 1] + a[i]
    BY <2>1
  <2>4. \A i \in 1 .. n : h[i - 1] \in Int => h[i] = g[<<i, h[i - 1]>>]
    BY <1>2, <2>3
  <2>5. Unfolds(h, Int, 0, g, n)
    BY ONLY <2>2, <2>4 DEF Unfolds
  <2>6. Runs(h, Int, 0, g, n)
    BY <1>1, <2>5, Unfolded, Zenon
  <2> QED BY ONLY <2>3, <2>6 DEF Runs, Adds
<1> QED BY <1>6, <1>7

-----------------------------------------------------------------------------
(* RowLayout: what the widgets of the first cells have, added up.          *)
LEMMA TotalHas ==
  ASSUME NEW cs \in Seq(Row!Cell), NEW n \in Nat, n = Len(cs),
         NEW a \in [1 .. n -> Int], \A i \in 1 .. n : Row!Has(cs[i].widget) = a[i]
  PROVE  \E f : Adds(f, a, n) /\ f[n] = Row!Total(LAMBDA c : Row!Has(c.widget), cs)
<1> DEFINE Following(h) == [i \in 0 .. Len(cs) |->
                              IF i = 0 THEN 0 ELSE h[i - 1] + Row!Has(cs[i].widget)]
           sum == CHOOSE h : h = Following(h)
<1>1. Row!Total(LAMBDA c : Row!Has(c.widget), cs) = sum[n]
  BY Zenon DEF Row!Total
<1>2. ASSUME NEW f PROVE (f = Following(f)) = Sums(f, a, n)
  <2>1. ASSUME NEW i \in 0 .. n
        PROVE  (IF i = 0 THEN 0 ELSE f[i - 1] + Row!Has(cs[i].widget))
                 = IF i = 0 THEN 0 ELSE f[i - 1] + a[i]
    <3>1. i = 0 \/ i \in 1 .. n
      OBVIOUS
    <3> QED BY <3>1
  <2>2. Following(f) = [i \in 0 .. n |-> IF i = 0 THEN 0 ELSE f[i - 1] + a[i]]
    BY <2>1
  <2> HIDE DEF Following
  <2> QED BY <2>2 DEF Sums
<1>3. (\E f : Sums(f, a, n)) /\ \A f : Sums(f, a, n) => Adds(f, a, n)
  BY SumsAre, Zenon
<1>4. sum = Following(sum)
  BY <1>2, <1>3
<1> HIDE DEF sum, Following
<1>5. Adds(sum, a, n)
  BY <1>2, <1>3, <1>4, Zenon
<1> QED BY <1>1, <1>5, Zenon

LEMMA TotalWidths ==
  ASSUME NEW cs \in Seq(Row!Cell), NEW n \in Nat, n = Len(cs),
         NEW a \in [1 .. n -> Int], \A i \in 1 .. n : cs[i].w = a[i]
  PROVE  \E f : Adds(f, a, n) /\ f[n] = Row!Total(LAMBDA c : c.w, cs)
<1> DEFINE Following(h) == [i \in 0 .. Len(cs) |-> IF i = 0 THEN 0 ELSE h[i - 1] + cs[i].w]
           sum == CHOOSE h : h = Following(h)
<1>1. Row!Total(LAMBDA c : c.w, cs) = sum[n]
  BY Zenon DEF Row!Total
<1>2. ASSUME NEW f PROVE (f = Following(f)) = Sums(f, a, n)
  <2>1. ASSUME NEW i \in 0 .. n
        PROVE  (IF i = 0 THEN 0 ELSE f[i - 1] + cs[i].w) = IF i = 0 THEN 0 ELSE f[i - 1] + a[i]
    <3>1. i = 0 \/ i \in 1 .. n
      OBVIOUS
    <3> QED BY <3>1
  <2>2. Following(f) = [i \in 0 .. n |-> IF i = 0 THEN 0 ELSE f[i - 1] + a[i]]
    BY <2>1
  <2> HIDE DEF Following
  <2> QED BY <2>2 DEF Sums
<1>3. (\E f : Sums(f, a, n)) /\ \A f : Sums(f, a, n) => Adds(f, a, n)
  BY SumsAre, Zenon
<1>4. sum = Following(sum)
  BY <1>2, <1>3
<1> HIDE DEF sum, Following
<1>5. Adds(sum, a, n)
  BY <1>2, <1>3, <1>4, Zenon
<1> QED BY <1>1, <1>5, Zenon

(* C's division gives a number.                                            *)
LEMMA QuotientIs ==
  ASSUME NEW p \in Int, NEW q \in Nat, q > 0
  PROVE  Row!Quotient(p, q) \in Int
BY DEF Row!Quotient

LEMMA CardinalityIs == ASSUME NEW S PROVE Row!Cardinality(S) = Cardinality(S)
BY Zenon DEF Row!Cardinality, Cardinality

LEMMA CountsAre ==
  ASSUME NEW cs \in Seq(Row!Cell)
  PROVE  /\ Row!Stretching(cs) \subseteq Row!Shown(cs) /\ Row!Shown(cs) \subseteq DOMAIN cs
         /\ IsFiniteSet(Row!Stretching(cs))
         /\ Cardinality(Row!Stretching(cs)) \in Nat /\ Cardinality(Row!Shown(cs)) \in Nat
<1>1. Row!Stretching(cs) \subseteq Row!Shown(cs) /\ Row!Shown(cs) \subseteq DOMAIN cs
  BY DEF Row!Stretching, Row!Shown
<1>2. IsFiniteSet(DOMAIN cs)
  <2>1. DOMAIN cs = 1 .. Len(cs) /\ 1 \in Int /\ Len(cs) \in Int
    OBVIOUS
  <2> QED BY <2>1, FS_Interval
<1>3. IsFiniteSet(Row!Shown(cs)) /\ IsFiniteSet(Row!Stretching(cs))
  BY <1>1, <1>2, FS_Subset
<1> QED BY <1>1, <1>3, FS_CardinalityType

(* What is left after some cells: one more takes what it has, and its part *)
(* of the spare width if it grows.                                         *)
Left == [x : Int, n : Int, spare : Int]
Grows(cs, i) == Cardinality(Row!Stretching(cs)) = 0 \/ cs[i].stretch
Wide(cs, i, rest, part) ==
  Row!Has(cs[i].widget) + IF Grows(cs, i) THEN Row!PartOf(rest.n, rest.spare, part) ELSE 0
Passed(cs, i, rest, part) ==
  [x |-> rest.x + Wide(cs, i, rest, part),
   n |-> IF Grows(cs, i) THEN rest.n - 1 ELSE rest.n,
   spare |-> IF Grows(cs, i) THEN rest.spare - part ELSE rest.spare]
Lefts(f, cs, n, spare, part) ==
  /\ f \in [0 .. n -> Left]
  /\ f[0] = [x |-> 0, n |-> Cardinality(Row!Stretching(cs)), spare |-> spare]
  /\ \A i \in 1 .. n : f[i] = Passed(cs, i, f[i - 1], part)

PlacedBy(f, part, sum, cs, n, wd, a) ==
  /\ Adds(sum, a, n) /\ part \in Int
  /\ Lefts(f, cs, n, wd - sum[n], part)
  /\ Row!Arranged(cs, wd) =
       [i \in 1 .. n |-> [cs[i] EXCEPT !.x = f[i - 1].x, !.w = Wide(cs, i, f[i - 1], part)]]

LEMMA PassedIs ==
  ASSUME NEW cs, NEW i, NEW rest \in Left, NEW part \in Int, Row!Has(cs[i].widget) \in Int
  PROVE  Wide(cs, i, rest, part) \in Int /\ Passed(cs, i, rest, part) \in Left
<1>1. Row!PartOf(rest.n, rest.spare, part) \in Int
  BY DEF Row!PartOf, Left
<1>2. Wide(cs, i, rest, part) \in Int
  BY <1>1 DEF Wide
<1> QED BY <1>2 DEF Passed, Left

LEMMA ArrangedIs ==
  ASSUME NEW cs \in Seq(Row!Cell), NEW n \in Nat, n = Len(cs), NEW wd \in Int,
         NEW a \in [1 .. n -> Int], \A i \in 1 .. n : Row!Has(cs[i].widget) = a[i]
  PROVE  \E f, part, sum : PlacedBy(f, part, sum, cs, n, wd, a)
<1>1. PICK sum : Adds(sum, a, n) /\ sum[n] = Row!Total(LAMBDA c : Row!Has(c.widget), cs)
  BY TotalHas, Zenon
<1> DEFINE k == Row!Cardinality(Row!Stretching(cs))
           shown == Row!Cardinality(Row!Shown(cs))
           spare == wd - Row!Total(LAMBDA c : Row!Has(c.widget), cs)
           part == CASE k > 0 -> Row!Quotient(spare, k)
                     [] k = 0 /\ shown > 0 -> Row!Quotient(spare, shown)
                     [] OTHER -> 0
           grows(c) == k = 0 \/ c.stretch
           wide(c, rest) ==
             Row!Has(c.widget) + IF grows(c) THEN Row!PartOf(rest.n, rest.spare, part) ELSE 0
           Following(h) ==
             [i \in 0 .. Len(cs) |->
                IF i = 0 THEN [x |-> 0, n |-> k, spare |-> spare]
                ELSE LET c == cs[i]  rest == h[i - 1]
                     IN [x |-> rest.x + wide(c, rest),
                         n |-> IF grows(c) THEN rest.n - 1 ELSE rest.n,
                         spare |-> IF grows(c) THEN rest.spare - part ELSE rest.spare]]
           left == CHOOSE h : h = Following(h)
<1>2. Row!Arranged(cs, wd) =
        [i \in 1 .. Len(cs) |-> [cs[i] EXCEPT !.x = left[i - 1].x, !.w = wide(cs[i], left[i - 1])]]
  BY Zenon DEF Row!Arranged
<1>3. k \in Nat /\ shown \in Nat /\ k = Cardinality(Row!Stretching(cs))
  <2>1. k = Cardinality(Row!Stretching(cs)) /\ shown = Cardinality(Row!Shown(cs))
    BY CardinalityIs, Zenon
  <2> QED BY <2>1, CountsAre
<1>4. spare = wd - sum[n] /\ spare \in Int
  <2>1. sum[n] \in Int
    BY <1>1 DEF Adds
  <2> QED BY <1>1, <2>1
<1>5. part \in Int
  <2> HIDE DEF spare, k, shown
  <2>1. CASE k > 0
    BY <1>3, <1>4, <2>1, QuotientIs
  <2>2. CASE k = 0 /\ shown > 0
    BY <1>3, <1>4, <2>2, QuotientIs
  <2>3. CASE ~(k > 0) /\ ~(k = 0 /\ shown > 0)
    BY <2>3
  <2> QED BY <2>1, <2>2, <2>3
<1> PICK p : p = part
  OBVIOUS
<1> PICK start : start = [x |-> 0, n |-> k, spare |-> wd - sum[n]]
  OBVIOUS
<1> PICK g : g = [q \in (1 .. n) \X Left |-> Passed(cs, q[1], q[2], p)]
  OBVIOUS
<1>6. start \in Left
  BY <1>3, <1>4 DEF Left
<1>7. \A i \in 1 .. n : Row!Has(cs[i].widget) \in Int
  OBVIOUS
<1> HIDE DEF part, spare, shown, k
<1>8. g \in [(1 .. n) \X Left -> Left]
  <2>1. ASSUME NEW q \in (1 .. n) \X Left PROVE Passed(cs, q[1], q[2], p) \in Left
    <3>1. q[1] \in 1 .. n /\ q[2] \in Left
      BY <2>1
    <3> QED BY <1>5, <1>7, <3>1, PassedIs
  <2> QED BY <2>1
<1>9. \A i \in 1 .. n : \A v \in Left : g[<<i, v>>] = Passed(cs, i, v, p)
  BY ONLY g = [q \in (1 .. n) \X Left |-> Passed(cs, q[1], q[2], p)]
<1>10. ASSUME NEW i, NEW rest PROVE wide(cs[i], rest) = Wide(cs, i, rest, p)
  BY <1>3 DEF Wide, Grows
<1>11. ASSUME NEW h
       PROVE  Following(h) = [i \in 0 .. n |-> IF i = 0 THEN start
                                              ELSE Passed(cs, i, h[i - 1], p)]
  <2>1. ASSUME NEW i \in 0 .. n
        PROVE  Following(h)[i] = IF i = 0 THEN start ELSE Passed(cs, i, h[i - 1], p)
    <3>1. CASE i = 0
      BY <1>4, <3>1
    <3>2. CASE i # 0
      BY <1>3, <1>10, <3>2 DEF Passed, Grows
    <3> QED BY <3>1, <3>2
  <2>2. Following(h) = [i \in 0 .. n |-> Following(h)[i]]
    OBVIOUS
  <2> HIDE DEF Following
  <2> QED BY <2>1, <2>2
<1> HIDE DEF Following
<1>12. PICK f : Runs(f, Left, start, g, n)
  BY <1>6, <1>8, Recursion, Zenon
<1>13. f = Following(f)
  <2>1. f \in [0 .. n -> Left] /\ f[0] = start /\ \A i \in 1 .. n : f[i] = g[<<i, f[i - 1]>>]
    BY <1>12, Zenon DEF Runs
  <2>2. ASSUME NEW i \in 0 .. n PROVE f[i] = IF i = 0 THEN start ELSE Passed(cs, i, f[i - 1], p)
    <3>1. CASE i = 0
      BY <2>1, <3>1
    <3>2. CASE i # 0
      <4>1. i \in 1 .. n /\ i - 1 \in 0 .. n
        BY <3>2
      <4>2. f[i - 1] \in Left
        BY ONLY <2>1, <4>1
      <4> QED BY ONLY <1>9, <2>1, <4>1, <4>2, <3>2
    <3> QED BY <3>1, <3>2
  <2>3. f = [i \in 0 .. n |-> f[i]]
    BY ONLY <2>1
  <2> QED BY ONLY <1>11, <2>2, <2>3
<1>14. left = Following(left)
  BY <1>13
<1> HIDE DEF left
<1>15. left = [i \in 0 .. n |-> IF i = 0 THEN start ELSE Passed(cs, i, left[i - 1], p)]
  BY ONLY <1>11, <1>14
<1>16. Runs(left, Left, start, g, n)
  <2>1. left[0] = start /\ left = [i \in 0 .. n |-> left[i]]
    BY ONLY <1>15, n \in Nat
  <2>2. \A i \in 1 .. n : left[i] = Passed(cs, i, left[i - 1], p)
    BY ONLY <1>15, n \in Nat
  <2>3. \A i \in 1 .. n : left[i - 1] \in Left => left[i] = g[<<i, left[i - 1]>>]
    BY ONLY <1>9, <2>2
  <2>4. Unfolds(left, Left, start, g, n)
    BY ONLY <2>1, <2>3 DEF Unfolds
  <2> QED BY <1>6, <1>8, <2>4, Unfolded, Zenon
<1>17. Lefts(left, cs, n, wd - sum[n], p)
  <2>1. /\ left \in [0 .. n -> Left] /\ left[0] = start
        /\ \A i \in 1 .. n : left[i] = g[<<i, left[i - 1]>>]
    BY <1>16, Zenon DEF Runs
  <2>2. \A i \in 1 .. n : left[i - 1] \in Left
    BY ONLY <2>1, n \in Nat
  <2>3. \A i \in 1 .. n : left[i] = Passed(cs, i, left[i - 1], p)
    BY ONLY <1>9, <2>1, <2>2
  <2> QED BY <1>3, <2>1, <2>3 DEF Lefts
<1>18. Row!Arranged(cs, wd) =
         [i \in 1 .. n |-> [cs[i] EXCEPT !.x = left[i - 1].x, !.w = Wide(cs, i, left[i - 1], p)]]
  <2> DEFINE old(i) == [cs[i] EXCEPT !.x = left[i - 1].x, !.w = wide(cs[i], left[i - 1])]
             new(i) == [cs[i] EXCEPT !.x = left[i - 1].x, !.w = Wide(cs, i, left[i - 1], p)]
  <2>1. ASSUME NEW i \in 1 .. n PROVE old(i) = new(i)
    <3>1. wide(cs[i], left[i - 1]) = Wide(cs, i, left[i - 1], p)
      BY <1>10
    <3> HIDE DEF wide
    <3> QED BY ONLY <3>1
  <2>2. [i \in 1 .. n |-> old(i)] = [i \in 1 .. n |-> new(i)]
    <3> HIDE DEF old, new
    <3> QED BY ONLY <2>1
  <2>3. Row!Arranged(cs, wd) = [i \in 1 .. n |-> old(i)]
    <3> HIDE DEF wide
    <3> QED BY <1>2
  <2>4. Row!Arranged(cs, wd) = [i \in 1 .. n |-> new(i)]
    <3> HIDE DEF old, new
    <3> QED BY ONLY <2>2, <2>3
  <2> HIDE DEF old, wide
  <2> QED BY <2>4, Zenon
<1>19. p \in Int
  BY <1>5
<1>20. PlacedBy(left, p, sum, cs, n, wd, a)
  BY ONLY <1>1, <1>17, <1>18, <1>19 DEF PlacedBy
<1> QED BY <1>20, Zenon

(* Who is in the cells and what they have stays what it is; the widgets    *)
(* get sizes.                                                              *)
LEMMA ArrangeIs ==
  ASSUME r_w \in [Widgets -> Nat], r_least \in [Widgets -> Int],
         NEW cs \in Seq(Row!Cell), NEW wd \in Int, Row!Arrange(cs, wd), Once(cs)
  PROVE  /\ r_cells' \in Seq(Row!Cell) /\ Once(r_cells') /\ WidgetsOf(r_cells') = WidgetsOf(cs)
         /\ r_w' \in [Widgets -> Nat]
<1> PICK n \in Nat : n = Len(cs)
  OBVIOUS
<1> PICK a : a = [i \in 1 .. n |-> Row!Has(cs[i].widget)]
  OBVIOUS
<1>1. \A i \in 1 .. n : cs[i] \in Row!Cell
  OBVIOUS
<1>2. \A i \in 1 .. n : cs[i].widget \in Widgets
  BY <1>1 DEF Row!Cell
<1>3. \A i \in 1 .. n : Row!Has(cs[i].widget) \in Int
  BY <1>2 DEF Row!Has
<1>4. a \in [1 .. n -> Int] /\ \A i \in 1 .. n : Row!Has(cs[i].widget) = a[i]
  BY <1>3
<1>5. PICK f, part, sum : PlacedBy(f, part, sum, cs, n, wd, a)
  BY ONLY <1>4, n \in Nat, n = Len(cs), cs \in Seq(Row!Cell), wd \in Int, ArrangedIs, Zenon
<1>6. f \in [0 .. n -> Left] /\ part \in Int
  BY <1>5 DEF PlacedBy, Lefts
<1> PICK r : r = Row!Arranged(cs, wd)
  OBVIOUS
<1>7. r = [i \in 1 .. n |-> [cs[i] EXCEPT !.x = f[i - 1].x, !.w = Wide(cs, i, f[i - 1], part)]]
  BY <1>5 DEF PlacedBy
<1>8. ASSUME NEW i \in 1 .. n PROVE r[i] \in Row!Cell /\ r[i].widget = cs[i].widget
  <2>1. f[i - 1] \in Left
    <3>1. i - 1 \in 0 .. n
      OBVIOUS
    <3> QED BY ONLY <1>6, <3>1
  <2>2. f[i - 1].x \in Int
    BY <2>1 DEF Left
  <2>3. Wide(cs, i, f[i - 1], part) \in Int
    BY <1>3, <1>6, <2>1, PassedIs
  <2>4. cs[i] \in Row!Cell
    BY <1>1
  <2>5. r[i] = [cs[i] EXCEPT !.x = f[i - 1].x, !.w = Wide(cs, i, f[i - 1], part)]
    BY <1>7
  <2> QED BY ONLY <2>2, <2>3, <2>4, <2>5 DEF Row!Cell
<1>9. r \in Seq(Row!Cell) /\ DOMAIN r = 1 .. n
  <2>1. r \in [1 .. n -> Row!Cell]
    BY <1>7, <1>8
  <2> QED BY <2>1
<1>10. r_cells' = r
  BY Zenon DEF Row!Arrange
<1>11. Once(r) /\ WidgetsOf(r) = WidgetsOf(cs)
  <2>1. DOMAIN cs = 1 .. n
    OBVIOUS
  <2>2. DOMAIN r = 1 .. n /\ \A i \in 1 .. n : r[i].widget = cs[i].widget
    BY <1>8, <1>9
  <2>3. Once(r)
    BY ONLY <2>1, <2>2, Once(cs) DEF Once
  <2>4. WidgetsOf(r) = WidgetsOf(cs)
    BY ONLY <2>1, <2>2 DEF WidgetsOf
  <2> QED BY <2>3, <2>4
<1>12. ASSUME NEW v \in Widgets, Row!PlacesOf(cs, v) # {}
       PROVE  Row!Larger(Row!Larger(r[Row!Min(Row!PlacesOf(cs, v))].w, 0), r_least[v]) \in Nat
  <2> PICK m : m = Row!Min(Row!PlacesOf(cs, v))
    OBVIOUS
  <2>1. Row!PlacesOf(cs, v) \subseteq 0 .. n /\ Row!PlacesOf(cs, v) \subseteq 1 .. n
    BY DEF Row!PlacesOf
  <2>2. m = Grid!Min(Row!PlacesOf(cs, v))
    BY Zenon DEF Row!Min, Grid!Min
  <2>3. m \in 1 .. n
    BY <1>12, <2>1, <2>2, Extremes
  <2>4. r[m] \in Row!Cell
    BY <1>8, <2>3
  <2>5. r[m].w \in Int
    BY <2>4 DEF Row!Cell
  <2>6. r_least[v] \in Int
    OBVIOUS
  <2> QED BY <2>5, <2>6 DEF Row!Larger
<1>13. r_w' = [v \in Widgets |->
                IF Row!PlacesOf(cs, v) = {} \/ r[Row!Min(Row!PlacesOf(cs, v))].w = r_w[v]
                  THEN r_w[v]
                ELSE Row!Larger(Row!Larger(r[Row!Min(Row!PlacesOf(cs, v))].w, 0), r_least[v])]
  BY Zenon DEF Row!Arrange
<1>14. r_w' \in [Widgets -> Nat]
  BY <1>12, <1>13
<1> QED BY <1>9, <1>10, <1>11, <1>14

(* As of a grid.                                                           *)
RowHolding == Once(r_cells) /\ Row!Held \subseteq r_alive /\ r_alive \subseteq Widgets
RowPointing == (~r_told => r_pointerWidget = Nil) /\ Row!RowEnteredOnce
RowTyped == r_told \in BOOLEAN /\ r_crashed \in BOOLEAN
RowInv == Row!TypeOK /\ RowTyped /\ RowHolding /\ RowPointing

LEMMA RowHeldIs == Row!Held = WidgetsOf(r_cells)
BY DEF Row!Held, WidgetsOf

LEMMA RowDroppedIs ==
  ASSUME RowInv, NEW v \in Widgets
  PROVE  /\ Row!Dropped(v) \in Seq(Row!Cell) /\ Once(Row!Dropped(v))
         /\ WidgetsOf(Row!Dropped(v)) \subseteq Row!Held \ {v}
<1>1. r_cells \in Seq(Row!Cell) /\ Once(r_cells)
  BY DEF RowInv, Row!TypeOK, RowHolding
<1>2. CASE v \notin Row!Held
  <2>1. Row!Dropped(v) = r_cells
    BY <1>2 DEF Row!Dropped
  <2> QED BY <1>1, <1>2, <2>1, RowHeldIs
<1>3. CASE v \in Row!Held
  <2> PICK n \in Nat : n = Len(r_cells)
    BY <1>1
  <2> PICK k : k = Row!Min(Row!PlacesOf(r_cells, v))
    OBVIOUS
  <2>1. DOMAIN r_cells = 1 .. n
    BY <1>1
  <2>2. Row!PlacesOf(r_cells, v) \subseteq 0 .. n /\ Row!PlacesOf(r_cells, v) # {}
    BY <1>3, <2>1 DEF Row!PlacesOf, Row!Held
  <2>3. k = Grid!Min(Row!PlacesOf(r_cells, v))
    BY Zenon DEF Row!Min, Grid!Min
  <2>4. k \in Row!PlacesOf(r_cells, v)
    BY <2>2, <2>3, Extremes
  <2>5. k \in DOMAIN r_cells /\ r_cells[k].widget = v
    BY <2>4 DEF Row!PlacesOf
  <2>6. Row!Dropped(v) = RemoveAt(r_cells, k)
    BY <1>3 DEF Row!Dropped, Row!RemoveAt, RemoveAt
  <2>7. /\ RemoveAt(r_cells, k) \in Seq(Row!Cell) /\ Once(RemoveAt(r_cells, k))
        /\ WidgetsOf(RemoveAt(r_cells, k)) = WidgetsOf(r_cells) \ {r_cells[k].widget}
    BY <1>1, <2>5, TakenOut
  <2> QED BY <2>5, <2>6, <2>7, RowHeldIs
<1> QED BY <1>2, <1>3

LEMMA RowStep ==
  ASSUME RowNumbers, RowInv, [Row!Next]_(Row!vars)
  PROVE  RowInv'
<1>1. /\ r_cells \in Seq(Row!Cell) /\ r_width \in Widths \cup {0} /\ r_w \in [Widgets -> Nat]
      /\ r_least \in [Widgets -> RowMins] /\ r_least \in [Widgets -> Int]
      /\ Once(r_cells) /\ WidgetsOf(r_cells) \subseteq r_alive /\ r_alive \subseteq Widgets
  BY RowHeldIs DEF RowInv, Row!TypeOK, RowHolding, RowNumbers
<1>2. ASSUME NEW cs \in Seq(Row!Cell), NEW wd \in Widths \cup {0}, Once(cs),
             WidgetsOf(cs) \subseteq r_alive, Row!Arrange(cs, wd), r_width' = wd,
             UNCHANGED <<r_least, r_alive, r_told, r_pointerWidget, r_entered, r_crashed>>
      PROVE  RowInv'
  <2>1. wd \in Int
    BY DEF RowNumbers
  <2>2. /\ r_cells' \in Seq(Row!Cell) /\ Once(r_cells') /\ WidgetsOf(r_cells') = WidgetsOf(cs)
        /\ r_w' \in [Widgets -> Nat]
    BY <1>1, <1>2, <2>1, ArrangeIs
  <2>3. Row!TypeOK' /\ RowTyped' /\ RowPointing'
    BY <1>1, <1>2, <2>2 DEF RowInv, Row!TypeOK, RowTyped, RowPointing, Row!RowEnteredOnce
  <2>4. RowHolding'
    <3>1. Row!Held' = WidgetsOf(r_cells')
      BY DEF Row!Held, WidgetsOf
    <3> QED BY <1>1, <1>2, <2>2, <3>1 DEF RowHolding
  <2> QED BY <2>3, <2>4 DEF RowInv
<1>3. ASSUME NEW v \in Widgets, NEW s \in BOOLEAN, Row!AddWidget(v, s) PROVE RowInv'
  <2> PICK c : c = [widget |-> v, stretch |-> s, x |-> 0, w |-> 0]
    OBVIOUS
  <2> PICK cs : cs = Append(r_cells, c)
    OBVIOUS
  <2>1. /\ v \in r_alive /\ v \notin WidgetsOf(r_cells) /\ Row!Arrange(cs, r_width)
        /\ UNCHANGED <<r_width, r_least, r_alive, r_told, r_pointerWidget, r_entered, r_crashed>>
    BY <1>3, RowHeldIs, Zenon DEF Row!AddWidget, Row!pointerVars
  <2>2. c \in Row!Cell /\ c.widget = v
    BY DEF Row!Cell
  <2>3. cs \in Seq(Row!Cell) /\ Once(cs) /\ WidgetsOf(cs) = WidgetsOf(r_cells) \cup {v}
    BY <1>1, <2>1, <2>2, PutLast
  <2> QED BY <1>1, <1>2, <2>1, <2>3
<1>4. ASSUME NEW v \in Widgets, Row!RemoveWidget(v) PROVE RowInv'
  <2>1. /\ r_cells' = Row!Dropped(v)
        /\ UNCHANGED <<r_width, r_least, r_w, r_alive, r_told, r_pointerWidget, r_entered,
                       r_crashed>>
    BY <1>4 DEF Row!RemoveWidget, Row!pointerVars
  <2>2. /\ Row!Dropped(v) \in Seq(Row!Cell) /\ Once(Row!Dropped(v))
        /\ WidgetsOf(Row!Dropped(v)) \subseteq Row!Held
    BY RowDroppedIs
  <2>3. Row!TypeOK' /\ RowTyped' /\ RowPointing'
    BY <2>1, <2>2 DEF RowInv, Row!TypeOK, RowTyped, RowPointing, Row!RowEnteredOnce
  <2>4. RowHolding'
    <3>1. Row!Held' = WidgetsOf(Row!Dropped(v))
      BY <2>1 DEF Row!Held, WidgetsOf
    <3> QED BY <1>1, <2>1, <2>2, <3>1, RowHeldIs DEF RowHolding
  <2> QED BY <2>3, <2>4 DEF RowInv
<1>5. ASSUME NEW v \in Widgets, Row!Destroy(v) PROVE RowInv'
  <2>1. /\ r_cells' = Row!Dropped(v) /\ r_alive' = r_alive \ {v} /\ r_entered' = r_entered \ {v}
        /\ UNCHANGED <<r_width, r_least, r_w, r_told, r_pointerWidget, r_crashed>>
    BY <1>5 DEF Row!Destroy
  <2>2. /\ Row!Dropped(v) \in Seq(Row!Cell) /\ Once(Row!Dropped(v))
        /\ WidgetsOf(Row!Dropped(v)) \subseteq Row!Held \ {v}
    BY RowDroppedIs
  <2>3. Row!TypeOK' /\ RowTyped'
    BY <2>1, <2>2 DEF RowInv, Row!TypeOK, RowTyped
  <2>4. RowPointing'
    BY <2>1 DEF RowInv, RowPointing, Row!RowEnteredOnce
  <2>5. RowHolding'
    <3>1. Row!Held' = WidgetsOf(Row!Dropped(v))
      BY <2>1 DEF Row!Held, WidgetsOf
    <3> QED BY <1>1, <2>1, <2>2, <3>1, RowHeldIs DEF RowHolding
  <2> QED BY <2>3, <2>4, <2>5 DEF RowInv
<1>6. ASSUME NEW n \in Widths, Row!Resize(n) PROVE RowInv'
  <2>1. /\ Row!Arrange(r_cells, n) /\ r_width' = n
        /\ UNCHANGED <<r_least, r_alive, r_told, r_pointerWidget, r_entered, r_crashed>>
    BY <1>6, Zenon DEF Row!Resize, Row!pointerVars
  <2> QED BY <1>1, <1>2, <2>1
<1>7. ASSUME NEW v \in Widgets, NEW m \in RowMins, Row!Reconfigure(v, m) PROVE RowInv'
  <2>1. /\ r_least' = [r_least EXCEPT ![v] = m]
        /\ UNCHANGED <<r_cells, r_width, r_w, r_alive, r_told, r_pointerWidget, r_entered,
                       r_crashed>>
    BY <1>7 DEF Row!Reconfigure, Row!pointerVars
  <2>2. r_least' \in [Widgets -> RowMins]
    BY <1>1, <2>1
  <2>3. Row!TypeOK' /\ RowTyped' /\ RowPointing'
    BY <2>1, <2>2 DEF RowInv, Row!TypeOK, RowTyped, RowPointing, Row!RowEnteredOnce
  <2>4. RowHolding'
    BY <2>1 DEF RowInv, RowHolding, Once, Row!Held
  <2> QED BY <2>3, <2>4 DEF RowInv
<1>8. ASSUME RowPointing', r_told' \in BOOLEAN, r_crashed' \in BOOLEAN,
             r_pointerWidget' \in Widgets \cup {Nil}, r_entered' \subseteq Widgets,
             UNCHANGED <<r_cells, r_width, r_least, r_w, r_alive>>
      PROVE  RowInv'
  <2>1. Row!TypeOK' /\ RowTyped'
    BY <1>8 DEF RowInv, RowTyped, Row!TypeOK
  <2>2. RowHolding'
    BY <1>8 DEF RowInv, RowHolding, Once, Row!Held
  <2> QED BY <1>8, <2>1, <2>2 DEF RowInv
<1>9. ASSUME NEW v \in Row!Over, Row!PointerEnter(v) PROVE RowInv'
  <2>1. /\ ~r_told /\ r_told' = TRUE /\ ~r_crashed
        /\ r_pointerWidget' = IF v = Nil THEN r_pointerWidget ELSE v
        /\ r_entered' = r_entered \cup ({v} \ {Nil})
        /\ UNCHANGED <<r_cells, r_width, r_least, r_w, r_alive, r_crashed>>
    BY <1>9 DEF Row!PointerEnter, Row!Running
  <2>2. v \in r_alive \/ v = Nil
    BY <1>1, <1>9, RowHeldIs DEF Row!Over
  <2>3. /\ r_pointerWidget = Nil /\ r_entered = {r_pointerWidget} \cap r_alive
        /\ Nil \notin r_alive /\ r_entered \subseteq Widgets /\ r_crashed \in BOOLEAN
    BY <1>1, <2>1 DEF RowInv, RowPointing, Row!RowEnteredOnce, RowNumbers, Row!TypeOK, RowTyped
  <2>4. r_pointerWidget' = v /\ r_entered' = {v} \cap r_alive
    BY <2>1, <2>2, <2>3
  <2> QED BY <1>1, <1>8, <2>1, <2>2, <2>3, <2>4 DEF RowPointing, Row!RowEnteredOnce
<1>10. ASSUME NEW v \in Row!Over, Row!PointerMotion(v) PROVE RowInv'
  <2>1. /\ r_told' = r_told /\ r_told /\ ~r_crashed
        /\ r_crashed' = (r_pointerWidget \notin r_alive \cup {Nil})
        /\ r_pointerWidget' = v
        /\ r_entered' = (r_entered \ {r_pointerWidget}) \cup ({v} \ {Nil})
        /\ UNCHANGED <<r_cells, r_width, r_least, r_w, r_alive>>
    BY <1>10 DEF Row!PointerMotion, Row!Running, Row!LeftFor
  <2>2. v \in r_alive \/ v = Nil
    BY <1>1, <1>10, RowHeldIs DEF Row!Over
  <2>3. /\ r_entered = {r_pointerWidget} \cap r_alive /\ Nil \notin r_alive
        /\ r_entered \subseteq Widgets /\ r_told \in BOOLEAN
    BY <1>1, <2>1 DEF RowInv, RowPointing, Row!RowEnteredOnce, RowNumbers, Row!TypeOK, RowTyped
  <2>4. r_entered' = {v} \cap r_alive /\ r_crashed' \in BOOLEAN
    BY <2>1, <2>2, <2>3
  <2> QED BY <1>1, <1>8, <2>1, <2>2, <2>3, <2>4 DEF RowPointing, Row!RowEnteredOnce
<1>11. ASSUME Row!PointerLeave PROVE RowInv'
  <2>1. /\ r_told' = FALSE /\ ~r_crashed
        /\ r_crashed' = (r_pointerWidget \notin r_alive \cup {Nil})
        /\ r_pointerWidget' = Nil /\ r_entered' = r_entered \ {r_pointerWidget}
        /\ UNCHANGED <<r_cells, r_width, r_least, r_w, r_alive>>
    BY <1>11 DEF Row!PointerLeave, Row!Running
  <2>2. /\ r_entered = {r_pointerWidget} \cap r_alive /\ Nil \notin r_alive
        /\ r_entered \subseteq Widgets
    BY <1>1, <2>1 DEF RowInv, RowPointing, Row!RowEnteredOnce, RowNumbers, Row!TypeOK
  <2>3. r_entered' = {Nil} \cap r_alive /\ r_crashed' \in BOOLEAN
    BY <2>1, <2>2
  <2> QED BY <1>1, <1>8, <2>1, <2>2, <2>3 DEF RowPointing, Row!RowEnteredOnce
<1>12. CASE UNCHANGED Row!vars
  <2>1. UNCHANGED <<r_cells, r_width, r_least, r_w, r_alive, r_told, r_pointerWidget, r_entered,
                    r_crashed>>
    BY <1>12 DEF Row!vars
  <2>2. RowPointing' /\ r_told' \in BOOLEAN /\ r_crashed' \in BOOLEAN
        /\ r_pointerWidget' \in Widgets \cup {Nil} /\ r_entered' \subseteq Widgets
    BY <2>1 DEF RowInv, RowPointing, Row!RowEnteredOnce, RowTyped, Row!TypeOK
  <2> QED BY <1>8, <2>1, <2>2
<1> QED BY <1>3, <1>4, <1>5, <1>6, <1>7, <1>9, <1>10, <1>11, <1>12 DEF Row!Next

LEMMA RowInit ==
  ASSUME RowNumbers, Row!Init
  PROVE  RowInv
<1>1. /\ r_cells = <<>> /\ r_width = 0 /\ r_least = [v \in Widgets |-> -1]
      /\ r_w = [v \in Widgets |-> 0] /\ r_alive = Widgets /\ r_told = FALSE
      /\ r_pointerWidget = Nil /\ r_entered = {} /\ r_crashed = FALSE
  BY DEF Row!Init, Row!Unset
<1>2. r_cells \in Seq(Row!Cell) /\ DOMAIN r_cells = {}
  BY <1>1
<1>3. Row!TypeOK /\ RowTyped
  BY <1>1, <1>2 DEF Row!TypeOK, RowTyped, RowNumbers
<1>4. RowHolding
  BY <1>1, <1>2 DEF RowHolding, Once, Row!Held
<1>5. RowPointing
  BY <1>1 DEF RowPointing, Row!RowEnteredOnce, RowNumbers
<1> QED BY <1>3, <1>4, <1>5 DEF RowInv

(* The cells that stretch share all that is to spare: as long as one is to *)
(* come, what the cells have got beyond what they had is what is no longer *)
(* to spare, and after the last one it is all of it.                       *)
Shared(f, sum, spare, n) == f[n].x = sum[n] + spare
SizesAre(cs, a, n) == n = Len(cs) /\ \A i \in 1 .. n : Row!Has(cs[i].widget) = a[i]
Stretches(cs, a, n) ==
  (\E i \in 1 .. n : cs[i].stretch) /\ \A i \in 1 .. n : cs[i].stretch => a[i] > 0

LEMMA AllIsShared ==
  ASSUME NEW cs \in Seq(Row!Cell), NEW n \in Nat, NEW part \in Int,
         NEW spare \in Int, NEW f, Lefts(f, cs, n, spare, part),
         NEW a \in [1 .. n -> Int], SizesAre(cs, a, n), Stretches(cs, a, n),
         NEW sum, Adds(sum, a, n)
  PROVE  Shared(f, sum, spare, n)
<1>s. /\ n = Len(cs)
      /\ sum \in [0 .. n -> Int] /\ sum[0] = 0 /\ \A i \in 1 .. n : sum[i] = sum[i - 1] + a[i]
      /\ \A i \in 1 .. n : Row!Has(cs[i].widget) = a[i]
      /\ (\E i \in 1 .. n : cs[i].stretch) /\ \A i \in 1 .. n : cs[i].stretch => a[i] > 0
  BY DEF Adds, SizesAre, Stretches
<1>l. n = Len(cs)
  BY <1>s
<1> PICK S : S = Row!Stretching(cs)
  OBVIOUS
<1>1. S \subseteq 1 .. n /\ S # {} /\ \A i \in 1 .. n : i \in S <=> cs[i].stretch
  BY <1>s, <1>l DEF Row!Stretching, Row!Shown
<1>2. IsFiniteSet(S) /\ Cardinality(S) \in Nat /\ Cardinality(S) # 0
  BY <1>1, CountsAre, FS_EmptySet
<1>3. \A i \in 1 .. n : cs[i] \in Row!Cell
  BY <1>l
<1>4. \A i \in 1 .. n : cs[i].stretch \in BOOLEAN
  BY <1>3 DEF Row!Cell
<1>5. \A i \in 1 .. n : Grows(cs, i) <=> cs[i].stretch
  BY <1>2, <1>4 DEF Grows
<1>6. /\ f \in [0 .. n -> Left]
      /\ f[0] = [x |-> 0, n |-> Cardinality(S), spare |-> spare]
      /\ \A i \in 1 .. n : f[i] = Passed(cs, i, f[i - 1], part)
  BY DEF Lefts
<1> DEFINE ToCome(i) == {j \in S : j > i}
           PlacedRight(i) ==
                      /\ f[i].n = Cardinality(ToCome(i))
                      /\ ToCome(i) # {} => f[i].x = sum[i] + (spare - f[i].spare)
                      /\ ToCome(i) = {} => f[i].x = sum[i] + spare
<1>7. PlacedRight(0)
  <2>1. ToCome(0) = S
    BY <1>1
  <2>2. f[0].n = Cardinality(S) /\ f[0].x = 0 /\ f[0].spare = spare
    BY <1>6
  <2> HIDE DEF ToCome
  <2> QED BY <1>s, <1>1, <2>1, <2>2
<1>8. ASSUME NEW i \in 1 .. n, PlacedRight(i - 1) PROVE PlacedRight(i)
  <2> PICK r : r = f[i - 1]
    OBVIOUS
  <2>1. r \in Left /\ i - 1 \in 0 .. n /\ i \in 0 .. n
    <3>1. i - 1 \in 0 .. n /\ i \in 0 .. n
      OBVIOUS
    <3> QED BY ONLY <1>6, <3>1, r = f[i - 1]
  <2> PICK rx, rn, rs : rx = r.x /\ rn = r.n /\ rs = r.spare
    OBVIOUS
  <2> PICK s0, s1, has : s0 = sum[i - 1] /\ s1 = sum[i] /\ has = a[i]
    OBVIOUS
  <2> PICK x, k, left : x = f[i].x /\ k = f[i].n /\ left = f[i].spare
    OBVIOUS
  <2>2. rx \in Int /\ rn \in Int /\ rs \in Int
    BY <2>1 DEF Left
  <2>3. s1 = s0 + has /\ s0 \in Int /\ has \in Int
    BY <1>s, <2>1
  <2> PICK old, new : old = ToCome(i - 1) /\ new = ToCome(i)
    OBVIOUS
  <2>4. new = old \ {i} /\ (i \in old <=> cs[i].stretch) /\ old \subseteq S
    <3>1. \A j \in S : j \in Int
      BY <1>1
    <3> QED BY <1>1, <3>1
  <2>5. IsFiniteSet(old)
    BY <1>2, <2>4, FS_Subset
  <2>6. /\ x = rx + Wide(cs, i, r, part)
        /\ k = IF Grows(cs, i) THEN rn - 1 ELSE rn
        /\ left = IF Grows(cs, i) THEN rs - part ELSE rs
    <3>1. f[i] = Passed(cs, i, r, part)
      BY <1>6
    <3> QED BY ONLY <3>1, x = f[i].x /\ k = f[i].n /\ left = f[i].spare,
               rx = r.x /\ rn = r.n /\ rs = r.spare DEF Passed
  <2>7. /\ rn = Cardinality(old)
        /\ old # {} => rx = s0 + (spare - rs)
        /\ old = {} => rx = s0 + spare
    <3> HIDE DEF ToCome
    <3> QED BY <1>8
  <2>8. PlacedRight(i) <=>
          k = Cardinality(new) /\ (new # {} => x = s1 + (spare - left))
            /\ (new = {} => x = s1 + spare)
    <3> HIDE DEF ToCome
    <3> QED OBVIOUS
  <2> HIDE DEF PlacedRight, ToCome
  <2>9. CASE ~cs[i].stretch
    <3>1. ~Grows(cs, i) /\ new = old
      BY <1>5, <2>4, <2>9
    <3>2. Wide(cs, i, r, part) = has
      BY <1>s, <2>3, <3>1 DEF Wide
    <3>3. x = rx + has /\ k = rn /\ left = rs
      BY ONLY <2>6, <3>1, <3>2
    <3>4. spare \in Int
      OBVIOUS
    <3> QED BY ONLY <2>2, <2>3, <2>7, <2>8, <3>1, <3>3, <3>4
  <2>10. CASE cs[i].stretch
    <3>1. Grows(cs, i) /\ i \in old
      BY <1>5, <2>4, <2>10
    <3>2. Cardinality(new) = rn - 1 /\ IsFiniteSet(new)
      BY ONLY <2>4, <2>5, <2>7, <3>1, FS_RemoveElement
    <3>3. new = {} <=> rn = 1
      BY ONLY <2>2, <3>2, FS_EmptySet
    <3>4. Wide(cs, i, r, part) = has + Row!PartOf(rn, rs, part)
      BY <1>s, <3>1, Zenon DEF Wide
    <3>5. x = rx + (has + Row!PartOf(rn, rs, part)) /\ k = rn - 1 /\ left = rs - part
      BY ONLY <2>6, <3>1, <3>4
    <3>6. rx = s0 + (spare - rs)
      BY ONLY <2>7, <3>1
    <3>7. spare \in Int /\ part \in Int
      OBVIOUS
    <3>8. CASE rn = 1
      <4>1. x = rx + (has + rs)
        BY ONLY <3>5, <3>8 DEF Row!PartOf
      <4>2. x = s1 + spare
        BY ONLY <2>2, <2>3, <3>6, <3>7, <4>1
      <4> QED BY ONLY <2>8, <3>2, <3>3, <3>5, <3>8, <4>2
    <3>9. CASE rn # 1
      <4>1. x = rx + (has + part)
        BY ONLY <3>5, <3>9 DEF Row!PartOf
      <4>2. x = s1 + (spare - left)
        BY ONLY <2>2, <2>3, <3>5, <3>6, <3>7, <4>1
      <4>3. k = Cardinality(new) /\ new # {}
        BY ONLY <3>2, <3>3, <3>5, <3>9
      <4> QED BY ONLY <2>8, <4>2, <4>3
    <3> QED BY <3>8, <3>9
  <2> QED BY <2>9, <2>10
<1>9. PlacedRight(n)
  <2> SUFFICES ASSUME ~PlacedRight(n) PROVE FALSE
    OBVIOUS
  <2> DEFINE Wrong == {m \in Nat : m <= n /\ ~PlacedRight(m)}
  <2>1. PICK m \in Wrong : \A j \in Wrong : m <= j
    <3>1. Wrong \subseteq Nat /\ n \in Wrong
      OBVIOUS
    <3> HIDE DEF Wrong
    <3> QED BY <3>1, LeastNumber
  <2> HIDE DEF PlacedRight
  <2>2. m \in 1 .. n /\ ~PlacedRight(m)
    BY <1>7, <2>1
  <2>3. PlacedRight(m - 1)
    BY <2>1, <2>2
  <2> QED BY <1>8, <2>2, <2>3
<1>10. ToCome(n) = {}
  BY <1>1
<1> HIDE DEF ToCome
<1> QED BY <1>9, <1>10 DEF Shared

(* The cells are as wide together as the layout, side by side.             *)
LEMMA ArrangeFills ==
  ASSUME r_w \in [Widgets -> Nat], r_least \in [Widgets -> Int],
         NEW cs \in Seq(Row!Cell), NEW wd \in Int, Row!Arrange(cs, wd),
         \E i \in DOMAIN cs : cs[i].stretch,
         \A i \in DOMAIN cs : cs[i].stretch => Row!Has(cs[i].widget) > 0
  PROVE  /\ Row!Total(LAMBDA c : c.w, r_cells') = wd
         /\ \A i \in 2 .. Len(r_cells') : r_cells'[i].x = r_cells'[i - 1].x + r_cells'[i - 1].w
<1> PICK n \in Nat : n = Len(cs)
  OBVIOUS
<1> PICK a : a = [i \in 1 .. n |-> Row!Has(cs[i].widget)]
  OBVIOUS
<1>1. DOMAIN cs = 1 .. n /\ \A i \in 1 .. n : cs[i] \in Row!Cell
  OBVIOUS
<1>2. \A i \in 1 .. n : cs[i].widget \in Widgets
  BY <1>1 DEF Row!Cell
<1>3. \A i \in 1 .. n : Row!Has(cs[i].widget) \in Int
  BY <1>2 DEF Row!Has
<1>4. a \in [1 .. n -> Int] /\ \A i \in 1 .. n : Row!Has(cs[i].widget) = a[i]
  BY <1>3
<1>5. PICK f, part, sum : PlacedBy(f, part, sum, cs, n, wd, a)
  BY ONLY <1>4, n \in Nat, n = Len(cs), cs \in Seq(Row!Cell), wd \in Int, ArrangedIs, Zenon
<1>6. part \in Int /\ Lefts(f, cs, n, wd - sum[n], part) /\ Adds(sum, a, n)
  BY <1>5 DEF PlacedBy
<1>7. /\ f \in [0 .. n -> Left] /\ f[0].x = 0
      /\ \A i \in 1 .. n : f[i] = Passed(cs, i, f[i - 1], part)
  BY <1>6 DEF Lefts
<1>8. /\ sum \in [0 .. n -> Int] /\ sum[0] = 0 /\ \A i \in 1 .. n : sum[i] = sum[i - 1] + a[i]
      /\ sum[n] \in Int
  BY <1>6 DEF Adds
<1>9. f[n].x = wd
  <2> PICK spare \in Int : spare = wd - sum[n]
    BY <1>8
  <2>1. SizesAre(cs, a, n) /\ Stretches(cs, a, n)
    BY <1>1, <1>4 DEF SizesAre, Stretches
  <2>2. Lefts(f, cs, n, spare, part)
    BY <1>6
  <2>3. Shared(f, sum, spare, n)
    BY <1>4, <1>6, <2>1, <2>2, AllIsShared, Zenon
  <2> QED BY <1>8, <2>3 DEF Shared
<1> PICK r : r = Row!Arranged(cs, wd)
  OBVIOUS
<1> PICK b : b = [i \in 1 .. n |-> Wide(cs, i, f[i - 1], part)]
  OBVIOUS
<1>10. r = [i \in 1 .. n |-> [cs[i] EXCEPT !.x = f[i - 1].x, !.w = Wide(cs, i, f[i - 1], part)]]
  BY <1>5 DEF PlacedBy
<1>11. ASSUME NEW i \in 1 .. n
       PROVE  /\ r[i] \in Row!Cell /\ b[i] \in Int /\ f[i - 1].x \in Int
              /\ r[i].x = f[i - 1].x /\ r[i].w = b[i] /\ f[i].x = f[i - 1].x + b[i]
  <2>1. f[i - 1] \in Left
    <3>1. i - 1 \in 0 .. n
      OBVIOUS
    <3> QED BY ONLY <1>7, <3>1
  <2>2. f[i - 1].x \in Int
    BY <2>1 DEF Left
  <2>3. Wide(cs, i, f[i - 1], part) \in Int
    BY <1>3, <1>6, <2>1, PassedIs
  <2>4. cs[i] \in Row!Cell
    BY <1>1
  <2>5. r[i] = [cs[i] EXCEPT !.x = f[i - 1].x, !.w = Wide(cs, i, f[i - 1], part)]
    BY <1>10
  <2>6. b[i] = Wide(cs, i, f[i - 1], part)
    OBVIOUS
  <2>7. r[i] \in Row!Cell /\ r[i].x = f[i - 1].x /\ r[i].w = Wide(cs, i, f[i - 1], part)
    BY ONLY <2>2, <2>3, <2>4, <2>5 DEF Row!Cell
  <2>8. f[i].x = f[i - 1].x + Wide(cs, i, f[i - 1], part)
    <3>1. f[i] = Passed(cs, i, f[i - 1], part)
      BY <1>7
    <3> QED BY ONLY <3>1 DEF Passed
  <2> QED BY ONLY <2>2, <2>3, <2>6, <2>7, <2>8
<1>12. r \in Seq(Row!Cell) /\ Len(r) = n
  <2>1. r \in [1 .. n -> Row!Cell]
    BY <1>10, <1>11
  <2> QED BY <2>1
<1>13. r_cells' = r
  BY Zenon DEF Row!Arrange
<1>14. \A i \in 2 .. n : r[i].x = r[i - 1].x + r[i - 1].w
  <2> TAKE i \in 2 .. n
  <2> PICK j : j = i - 1
    OBVIOUS
  <2>1. j \in 1 .. n
    OBVIOUS
  <2>2. i \in 1 .. n
    OBVIOUS
  <2>3. r[i].x = f[j].x
    BY <1>11, <2>2
  <2>4. f[j].x = f[j - 1].x + b[j] /\ r[j].x = f[j - 1].x /\ r[j].w = b[j]
    BY <1>11, <2>1
  <2> QED BY ONLY <2>3, <2>4, j = i - 1
<1>15. Row!Total(LAMBDA c : c.w, r) = wd
  <2>1. b \in [1 .. n -> Int] /\ \A i \in 1 .. n : r[i].w = b[i]
    BY <1>11
  <2>2. PICK tot : Adds(tot, b, n) /\ tot[n] = Row!Total(LAMBDA c : c.w, r)
    BY <1>12, <2>1, TotalWidths, Zenon
  <2>3. /\ tot \in [0 .. n -> Int] /\ tot[0] = 0
        /\ \A i \in 1 .. n : tot[i] = tot[i - 1] + b[i]
    BY <2>2 DEF Adds
  <2>4. ASSUME NEW i \in 0 .. n, tot[i] # f[i].x PROVE FALSE
    <3> DEFINE Wrong == {m \in Nat : m <= n /\ tot[m] # f[m].x}
    <3>1. PICK m \in Wrong : \A j \in Wrong : m <= j
      <4>1. Wrong \subseteq Nat /\ i \in Wrong
        BY <2>4
      <4> HIDE DEF Wrong
      <4> QED BY <4>1, LeastNumber
    <3>2. m \in 1 .. n /\ tot[m] # f[m].x
      BY <1>7, <2>3, <3>1
    <3>3. tot[m - 1] = f[m - 1].x
      <4>1. m - 1 \in Nat /\ m - 1 <= n /\ ~(m <= m - 1)
        BY ONLY <3>2, n \in Nat
      <4>2. m - 1 \notin Wrong
        BY ONLY <3>1, <4>1
      <4> QED BY ONLY <4>1, <4>2
    <3>4. f[m].x = f[m - 1].x + b[m]
      BY <1>11, <3>2
    <3> QED BY <2>3, <3>2, <3>3, <3>4
  <2>5. tot[n] = f[n].x
    BY <2>4
  <2> QED BY ONLY <1>9, <2>2, <2>5
<1> QED BY <1>12, <1>13, <1>14, <1>15

LEMMA RowInductive ==
  ASSUME RowNumbers
  PROVE  Row!Spec => []RowInv
<1>1. Row!Init => RowInv
  BY RowInit
<1>2. RowInv /\ [Row!Next]_(Row!vars) => RowInv'
  BY RowStep
<1> QED BY <1>1, <1>2, PTL DEF Row!Spec

(* The step of RowTiled: only a resize changes the width of the layout.    *)
Stretched ==
  /\ \E i \in DOMAIN r_cells : r_cells[i].stretch
  /\ \A i \in DOMAIN r_cells : r_cells[i].stretch => Row!Has(r_cells[i].widget) > 0
Filled ==
  /\ Row!Total(LAMBDA c : c.w, r_cells') = r_width'
  /\ \A i \in 2 .. Len(r_cells') : r_cells'[i].x = r_cells'[i - 1].x + r_cells'[i - 1].w

LEMMA RowFills ==
  ASSUME RowNumbers, RowInv, [Row!Next]_(Row!vars), r_width' # r_width, Stretched
  PROVE  Filled
<1>1. \E n \in Widths : Row!Resize(n)
  <2>1. Row!Next
    BY DEF Row!vars
  <2>2. ASSUME NEW v \in Widgets, NEW s \in BOOLEAN, Row!AddWidget(v, s) PROVE FALSE
    BY <2>2, Zenon DEF Row!AddWidget
  <2>3. ASSUME NEW v \in Widgets, Row!RemoveWidget(v) \/ Row!Destroy(v) PROVE FALSE
    BY <2>3, Zenon DEF Row!RemoveWidget, Row!Destroy
  <2>4. ASSUME NEW v \in Widgets, NEW m \in RowMins, Row!Reconfigure(v, m) PROVE FALSE
    BY <2>4, Zenon DEF Row!Reconfigure
  <2>5. ASSUME NEW v \in Row!Over, Row!PointerEnter(v) \/ Row!PointerMotion(v) PROVE FALSE
    BY <2>5, Zenon DEF Row!PointerEnter, Row!PointerMotion
  <2>6. ASSUME Row!PointerLeave PROVE FALSE
    BY <2>6, Zenon DEF Row!PointerLeave
  <2> QED BY <2>1, <2>2, <2>3, <2>4, <2>5, <2>6, Zenon DEF Row!Next
<1>2. PICK n \in Widths : Row!Arrange(r_cells, n) /\ r_width' = n
  BY <1>1, Zenon DEF Row!Resize
<1>3. n \in Int /\ r_w \in [Widgets -> Nat] /\ r_least \in [Widgets -> Int]
      /\ r_cells \in Seq(Row!Cell)
  BY DEF RowNumbers, RowInv, Row!TypeOK
<1>4. /\ \E i \in DOMAIN r_cells : r_cells[i].stretch
      /\ \A i \in DOMAIN r_cells : r_cells[i].stretch => Row!Has(r_cells[i].widget) > 0
  BY Zenon DEF Stretched
<1>5. /\ Row!Total(LAMBDA c : c.w, r_cells') = n
      /\ \A i \in 2 .. Len(r_cells') : r_cells'[i].x = r_cells'[i - 1].x + r_cells'[i - 1].w
  BY <1>2, <1>3, <1>4, ArrangeFills, Zenon
<1> QED BY <1>2, <1>5, Zenon DEF Filled

(* When a row layout is resized and a cell stretches, the cells make up    *)
(* its width to the last pixel, side by side (yrowlayout_arrange_cells),   *)
(* for any number of cells, whatever they have and share.                  *)
THEOREM RowIsTiled ==
  ASSUME RowNumbers
  PROVE  Row!Spec => Row!RowTiled
<1>1. RowInv /\ [Row!Next]_(Row!vars) =>
        [r_width' # r_width /\ Stretched => Filled]_(Row!vars)
  BY RowFills
<1>2. Row!Spec => [][r_width' # r_width /\ Stretched => Filled]_(Row!vars)
  BY <1>1, RowInductive, PTL DEF Row!Spec
<1>3. [][r_width' # r_width /\ Stretched => Filled]_(Row!vars) => Row!RowTiled
  <2>1. [r_width' # r_width /\ Stretched => Filled]_(Row!vars) =>
        [r_width' # r_width
         /\ (\E i \in DOMAIN r_cells : r_cells[i].stretch)
         /\ (\A i \in DOMAIN r_cells : r_cells[i].stretch => Row!Has(r_cells[i].widget) > 0) =>
           /\ Row!Total(LAMBDA c : c.w, r_cells') = r_width'
           /\ \A i \in 2 .. Len(r_cells') :
                r_cells'[i].x = r_cells'[i - 1].x + r_cells'[i - 1].w]_(Row!vars)
    BY Zenon DEF Stretched, Filled
  <2> QED BY <2>1, PTL DEF Row!RowTiled
<1> QED BY <1>2, <1>3, PTL

(* The widget that a row was told to be entered is the one that it will    *)
(* tell to be left, as of a grid.                                          *)
THEOREM RowEntered ==
  ASSUME RowNumbers
  PROVE  Row!Spec => [](Row!TypeOK /\ Row!RowEnteredOnce)
<1>1. RowInv => Row!TypeOK /\ Row!RowEnteredOnce
  BY DEF RowInv, RowPointing
<1> QED BY <1>1, RowInductive, PTL

-----------------------------------------------------------------------------
(* Rendering.  The calls of a renderer; only one of an update fills.       *)
Owners == {"desktop", "background", "window", "child", "pointer"}
Drawn ==
  [op : {"enter"}, span : SpanSet, dx : Int] \cup [op : {"leave"}]
    \cup [op : {"buffer"}, of : Owners \X Int, span : SpanSet]
Calls == Drawn \cup [op : {"fill"}, of : Owners \X Int, span : SpanSet]

(* Calls that begin at depth x, end at y, and are never below 0.           *)
Levels(c, f) ==
  f \in [0 .. Len(c) -> Nat] /\ \A i \in 1 .. Len(c) : f[i] = f[i - 1] + Drawing!Change(c[i])
Level(c, x, y) == c \in Seq(Calls) /\ \E f : Levels(c, f) /\ f[0] = x /\ f[Len(c)] = y

LEMMA Glued ==
  ASSUME NEW a, NEW b, NEW x \in Nat, NEW y \in Nat, NEW z \in Nat, Level(a, x, y), Level(b, y, z)
  PROVE  Level(a \o b, x, z)
<1>1. a \in Seq(Calls) /\ b \in Seq(Calls)
  BY DEF Level
<1> PICK f : Levels(a, f) /\ f[0] = x /\ f[Len(a)] = y
  BY DEF Level
<1> PICK g : Levels(b, g) /\ g[0] = y /\ g[Len(b)] = z
  BY DEF Level
<1> PICK m \in Nat, n \in Nat : m = Len(a) /\ n = Len(b)
  BY <1>1
<1> PICK c : c = a \o b
  OBVIOUS
<1>2. c \in Seq(Calls) /\ Len(c) = m + n
  BY <1>1
<1>3. (\A i \in 1 .. m : c[i] = a[i]) /\ \A i \in m + 1 .. m + n : c[i] = b[i - m]
  BY <1>1
<1>4. f \in [0 .. m -> Nat] /\ \A i \in 1 .. m : f[i] = f[i - 1] + Drawing!Change(a[i])
  BY DEF Levels
<1>5. g \in [0 .. n -> Nat] /\ \A i \in 1 .. n : g[i] = g[i - 1] + Drawing!Change(b[i])
  BY DEF Levels
<1> PICK h : h = [i \in 0 .. m + n |-> IF i <= m THEN f[i] ELSE g[i - m]]
  OBVIOUS
<1>6. \A i \in 0 .. m + n : h[i] = IF i <= m THEN f[i] ELSE g[i - m]
  OBVIOUS
<1>7. h \in [0 .. m + n -> Nat] /\ h[0] = x /\ h[m + n] = z
  <2>1. \A i \in 0 .. m + n : h[i] \in Nat
    <3> TAKE i \in 0 .. m + n
    <3>1. CASE i <= m
      <4>1. i \in 0 .. m /\ h[i] = f[i]
        BY <1>6, <3>1
      <4> QED BY <1>4, <4>1
    <3>2. CASE ~(i <= m)
      <4>1. i - m \in 0 .. n
        BY <3>2
      <4> QED BY <1>5, <1>6, <3>2, <4>1
    <3> QED BY <3>1, <3>2
  <2>2. h[m + n] = z
    <3>1. CASE n = 0
      BY <1>6, <3>1
    <3>2. CASE n # 0
      BY <1>6, <3>2
    <3> QED BY <3>1, <3>2
  <2> QED BY <1>6, <2>1, <2>2
<1>8. \A i \in 1 .. m + n : h[i] = h[i - 1] + Drawing!Change(c[i])
  <2> TAKE i \in 1 .. m + n
  <2>1. CASE i <= m
    <3>1. i \in 1 .. m /\ i - 1 \in 0 .. m + n /\ i - 1 <= m /\ i \in 0 .. m + n
      BY <2>1
    <3>2. h[i] = f[i] /\ h[i - 1] = f[i - 1] /\ c[i] = a[i]
      BY <1>3, <1>6, <2>1, <3>1
    <3> QED BY <1>4, <3>1, <3>2
  <2>2. CASE ~(i <= m)
    <3>1. i - m \in 1 .. n /\ (i - m) - 1 = (i - 1) - m /\ i \in m + 1 .. m + n
      BY <2>2
    <3>2. h[i] = g[i - m] /\ c[i] = b[i - m]
      BY <1>3, <1>6, <2>2, <3>1
    <3>3. h[i - 1] = g[(i - 1) - m]
      <4>1. CASE i - 1 <= m
        <5>1. i - 1 = m /\ h[m] = f[m] /\ f[m] = y /\ g[0] = y
          BY <1>6, <2>2, <4>1
        <5> QED BY <5>1
      <4>2. CASE ~(i - 1 <= m)
        BY <1>6, <4>2
      <4> QED BY <4>1, <4>2
    <3> QED BY <1>5, <3>1, <3>2, <3>3
  <2> QED BY <2>1, <2>2
<1> QED BY <1>2, <1>7, <1>8 DEF Level, Levels

LEMMA OneLevel ==
  ASSUME NEW c \in Calls, NEW x \in Nat, NEW y \in Nat, y = x + Drawing!Change(c)
  PROVE  Level(<<c>>, x, y)
<1> PICK f : f = [i \in 0 .. 1 |-> IF i = 0 THEN x ELSE y]
  OBVIOUS
<1>1. f \in [0 .. 1 -> Nat] /\ f[0] = x /\ f[1] = y
  OBVIOUS
<1> PICK s : s = <<c>>
  OBVIOUS
<1>2. s \in Seq(Calls) /\ Len(s) = 1 /\ s[1] = c
  OBVIOUS
<1>3. \A i \in 1 .. 1 : f[i] = f[i - 1] + Drawing!Change(s[i])
  BY <1>1, <1>2
<1> QED BY <1>1, <1>2, <1>3 DEF Level, Levels

(* The windows, the pointer and where they are.                            *)
Scene ==
  /\ n_pointer \in SpanSet
  /\ \E a, b \in SpanSet, c \in [at : SpanSet, width : Nat] \cup {Nil} :
       n_windows = <<[at |-> a, child |-> Nil], [at |-> b, child |-> c]>>

LEMMA DrawnAre == Drawn \subseteq Calls
BY DEF Calls

LEMMA EnterIs ==
  ASSUME NEW s \in SpanSet, NEW dx \in Int, NEW x \in Nat
  PROVE  Drawing!Enter(s, dx) \in Drawn /\ Level(<<Drawing!Enter(s, dx)>>, x, x + 1)
<1> PICK c : c = Drawing!Enter(s, dx)
  OBVIOUS
<1>1. c \in Drawn /\ Drawing!Change(c) = 1
  BY DEF Drawing!Enter, Drawing!Change, Drawn
<1>2. x + 1 \in Nat /\ x + 1 = x + Drawing!Change(c) /\ c \in Calls
  BY <1>1, DrawnAre
<1> QED BY <1>1, <1>2, OneLevel

LEMMA LeaveIs ==
  ASSUME NEW x \in Nat
  PROVE  Drawing!Leave \in Drawn /\ Level(<<Drawing!Leave>>, x + 1, x)
<1> PICK c : c = Drawing!Leave
  OBVIOUS
<1>1. c \in Drawn /\ Drawing!Change(c) = -1
  BY DEF Drawing!Leave, Drawing!Change, Drawn
<1>2. x + 1 \in Nat /\ x = (x + 1) + Drawing!Change(c) /\ c \in Calls
  BY <1>1, DrawnAre
<1> QED BY <1>1, <1>2, OneLevel

LEMMA BufferIs ==
  ASSUME NEW of, of \in Owners, NEW n \in Int, NEW p \in Int, NEW w \in Nat, NEW x \in Nat
  PROVE  /\ Drawing!Buffer(of, n, p, w) \in Drawn
         /\ Level(<<Drawing!Buffer(of, n, p, w)>>, x, x)
<1> PICK c : c = Drawing!Buffer(of, n, p, w)
  OBVIOUS
<1>1. c \in Drawn /\ Drawing!Change(c) = 0
  BY DEF Drawing!Buffer, Drawing!Change, Drawing!Span, Drawn, SpanSet
<1>2. c \in Calls
  BY <1>1, DrawnAre
<1>3. x = x + Drawing!Change(c)
  BY ONLY <1>1, x \in Nat
<1> QED BY <1>1, <1>2, <1>3, OneLevel

LEMMA FillIs ==
  ASSUME NEW of, of \in Owners, NEW s \in SpanSet, NEW x \in Nat
  PROVE  Drawing!Filled(of, s) \in Calls /\ Level(<<Drawing!Filled(of, s)>>, x, x)
<1> PICK c : c = Drawing!Filled(of, s)
  OBVIOUS
<1>1. c \in Calls /\ Drawing!Change(c) = 0
  BY DEF Drawing!Filled, Drawing!Change, Calls
<1>2. x = x + Drawing!Change(c)
  BY <1>1
<1> QED BY <1>1, <1>2, OneLevel

LEMMA PairIs ==
  ASSUME NEW a \in Calls, NEW b \in Calls
  PROVE  <<a>> \o <<b>> = <<a, b>>
<1> PICK s, t, u : s = <<a>> /\ t = <<b>> /\ u = <<a, b>>
  OBVIOUS
<1>1. /\ s \in Seq(Calls) /\ t \in Seq(Calls) /\ u \in Seq(Calls)
      /\ Len(s) = 1 /\ Len(t) = 1 /\ Len(u) = 2
      /\ s[1] = a /\ t[1] = b /\ u[1] = a /\ u[2] = b
  OBVIOUS
<1>2. s \o t \in Seq(Calls) /\ Len(s \o t) = 2 /\ (s \o t)[1] = a /\ (s \o t)[2] = b
  BY <1>1
<1>3. \A i \in 1 .. 2 : (s \o t)[i] = u[i]
  BY <1>1, <1>2
<1> QED BY <1>1, <1>2, <1>3, SeqEqual

LEMMA LeftTriple ==
  ASSUME NEW a \in Calls, NEW b \in Calls, NEW c \in Calls
  PROVE  <<a, b>> \o <<c>> = <<a, b, c>>
<1> PICK s, t, u : s = <<a, b>> /\ t = <<c>> /\ u = <<a, b, c>>
  OBVIOUS
<1>1. /\ s \in Seq(Calls) /\ t \in Seq(Calls) /\ u \in Seq(Calls)
      /\ Len(s) = 2 /\ Len(t) = 1 /\ Len(u) = 3
      /\ s[1] = a /\ s[2] = b /\ t[1] = c /\ u[1] = a /\ u[2] = b /\ u[3] = c
  OBVIOUS
<1>2. /\ s \o t \in Seq(Calls) /\ Len(s \o t) = 3
      /\ (s \o t)[1] = a /\ (s \o t)[2] = b /\ (s \o t)[3] = c
  BY <1>1
<1>3. \A i \in 1 .. 3 : (s \o t)[i] = u[i]
  BY <1>1, <1>2
<1> QED BY <1>1, <1>2, <1>3, SeqEqual

LEMMA RightTriple ==
  ASSUME NEW a \in Calls, NEW b \in Calls, NEW c \in Calls
  PROVE  <<a>> \o <<b, c>> = <<a, b, c>>
<1> PICK s, t, u : s = <<a>> /\ t = <<b, c>> /\ u = <<a, b, c>>
  OBVIOUS
<1>1. /\ s \in Seq(Calls) /\ t \in Seq(Calls) /\ u \in Seq(Calls)
      /\ Len(s) = 1 /\ Len(t) = 2 /\ Len(u) = 3
      /\ s[1] = a /\ t[1] = b /\ t[2] = c /\ u[1] = a /\ u[2] = b /\ u[3] = c
  OBVIOUS
<1>2. /\ s \o t \in Seq(Calls) /\ Len(s \o t) = 3
      /\ (s \o t)[1] = a /\ (s \o t)[2] = b /\ (s \o t)[3] = c
  BY <1>1
<1>3. \A i \in 1 .. 3 : (s \o t)[i] = u[i]
  BY <1>1, <1>2
<1> QED BY <1>1, <1>2, <1>3, SeqEqual

LEMMA Pairs ==
  ASSUME NEW a \in Calls, NEW b \in Calls, NEW x \in Nat, NEW y \in Nat, NEW z \in Nat,
         Level(<<a>>, x, y), Level(<<b>>, y, z)
  PROVE  Level(<<a, b>>, x, z)
<1>1. Level(<<a>> \o <<b>>, x, z)
  BY Glued
<1> QED BY <1>1, PairIs

LEMMA WindowCalls ==
  ASSUME NEW i \in {1, 2}, NEW at \in SpanSet, NEW ch \in [at : SpanSet, width : Nat] \cup {Nil},
         n_windows[i] = [at |-> at, child |-> ch], NEW x \in Nat
  PROVE  /\ Drawing!WindowRender(i) \in Seq(Drawn)
         /\ Level(Drawing!WindowRender(i), x, x)
<1>1. x + 1 \in Nat /\ x + 1 + 1 \in Nat /\ i \in Int /\ 0 \in Int
  OBVIOUS
<1>2. at.x \in Int /\ at.w \in Nat
  BY DEF SpanSet
<1> PICK e, b, l : /\ e = Drawing!Enter(at, at.x) /\ b = Drawing!Buffer("window", i, 0, at.w)
                   /\ l = Drawing!Leave
  OBVIOUS
<1>3. /\ e \in Drawn /\ b \in Drawn /\ l \in Drawn
      /\ Level(<<e>>, x, x + 1) /\ Level(<<b>>, x + 1, x + 1) /\ Level(<<l>>, x + 1, x)
  <2>1. e \in Drawn /\ Level(<<e>>, x, x + 1)
    BY <1>2, EnterIs
  <2>2. b \in Drawn /\ Level(<<b>>, x + 1, x + 1)
    <3>1. "window" \in Owners /\ x + 1 \in Nat
      BY DEF Owners
    <3> QED BY <1>1, <1>2, <3>1, BufferIs
  <2>3. l \in Drawn /\ Level(<<l>>, x + 1, x)
    BY LeaveIs
  <2> QED BY <2>1, <2>2, <2>3
<1>4. e \in Calls /\ b \in Calls /\ l \in Calls
  BY <1>3, DrawnAre
<1>5. Level(<<e, b>>, x, x + 1)
  BY <1>1, <1>3, <1>4, Pairs
<1>6. CASE ch = Nil
  <2>1. Drawing!WindowRender(i) = <<e, b>> \o <<>> \o <<l>>
    BY <1>6 DEF Drawing!WindowRender
  <2>2. <<e, b>> \o <<>> = <<e, b>>
    OBVIOUS
  <2>3. Level(<<e, b>> \o <<l>>, x, x)
    BY <1>1, <1>3, <1>5, Glued
  <2>4. <<e, b>> \o <<l>> \in Seq(Drawn)
    BY <1>3
  <2> QED BY <2>1, <2>2, <2>3, <2>4
<1>7. CASE ch # Nil
  <2>1. ch.at \in SpanSet /\ ch.width \in Nat /\ ch.at.x \in Int
    BY <1>7 DEF SpanSet
  <2> PICK f, c : f = Drawing!Enter(ch.at, ch.at.x) /\ c = Drawing!Buffer("child", i, 0, ch.width)
    OBVIOUS
  <2>2. f \in Drawn /\ Level(<<f>>, x + 1, x + 1 + 1)
    BY <1>1, <2>1, EnterIs
  <2>a. c \in Drawn /\ Level(<<c>>, x + 1 + 1, x + 1 + 1)
    <3>1. "child" \in Owners
      BY DEF Owners
    <3> QED BY <1>1, <2>1, <3>1, BufferIs
  <2>3. Level(<<l>>, x + 1 + 1, x + 1) /\ f \in Calls /\ c \in Calls
    BY <1>1, <2>2, <2>a, LeaveIs, DrawnAre
  <2>4. Drawing!WindowRender(i) = <<e, b>> \o <<f, c, l>> \o <<l>>
    BY <1>7 DEF Drawing!WindowRender
  <2>5. Level(<<f, c>> \o <<l>>, x + 1, x + 1)
    <3>1. Level(<<f, c>>, x + 1, x + 1 + 1)
      BY <1>1, <2>2, <2>a, <2>3, Pairs
    <3> QED BY <1>1, <2>3, <3>1, Glued
  <2>6. <<f, c>> \o <<l>> = <<f, c, l>>
    BY <1>4, <2>3, LeftTriple
  <2>7. Level(<<e, b>> \o <<f, c, l>>, x, x + 1)
    BY <1>1, <1>5, <2>5, <2>6, Glued
  <2>8. Level((<<e, b>> \o <<f, c, l>>) \o <<l>>, x, x)
    BY <1>1, <1>3, <2>7, Glued
  <2>9. (<<e, b>> \o <<f, c, l>>) \o <<l>> \in Seq(Drawn)
    BY <1>3, <2>2, <2>a
  <2> QED BY <2>4, <2>8, <2>9
<1> QED BY <1>6, <1>7

LEMMA ScreenCalls ==
  ASSUME RenderNumbers, Scene
  PROVE  /\ Level(Drawing!ScreenRender, 0, 1)
         /\ Len(Drawing!ScreenRender) >= 2
         /\ Drawing!ScreenRender[1] = Drawing!Enter(Drawing!Span(0, Width), 0)
         /\ Drawing!ScreenRender[2] = Drawing!Filled("desktop", Drawing!Span(0, Width))
         /\ \A i \in 1 .. Len(Drawing!ScreenRender) : i # 2 => Drawing!ScreenRender[i] \in Drawn
<1> PICK s : s = Drawing!Span(0, Width)
  OBVIOUS
<1>1. s \in SpanSet /\ 0 \in Int /\ 1 \in Nat /\ 0 \in Nat /\ 0 + 1 = 1
  BY DEF RenderNumbers, Drawing!Span, SpanSet
<1>2. n_pointer \in SpanSet /\ n_pointer.x \in Int /\ n_pointer.w \in Nat
  BY DEF Scene, SpanSet
<1> PICK e, f, b, l, p, q :
      /\ e = Drawing!Enter(s, 0) /\ f = Drawing!Filled("desktop", s)
      /\ b = Drawing!Buffer("background", 0, 0, Background) /\ l = Drawing!Leave
      /\ p = Drawing!Enter(n_pointer, 0)
      /\ q = Drawing!Buffer("pointer", 0, n_pointer.x, n_pointer.w)
  OBVIOUS
<1>a. e \in Drawn /\ Level(<<e>>, 0, 1)
  <2>1. Level(<<e>>, 0, 0 + 1) /\ e \in Drawn
    BY <1>1, EnterIs
  <2> QED BY <1>1, <2>1
<1>b. l \in Drawn /\ Level(<<l>>, 1, 0)
  <2>1. Level(<<l>>, 0 + 1, 0) /\ l \in Drawn
    BY <1>1, LeaveIs
  <2> QED BY <1>1, <2>1
<1>c. f \in Calls /\ Level(<<f>>, 1, 1)
  <2>1. "desktop" \in Owners
    BY DEF Owners
  <2> QED BY <1>1, <2>1, FillIs
<1>d. b \in Drawn /\ Level(<<b>>, 1, 1)
  <2>1. "background" \in Owners /\ Background \in Nat
    BY DEF RenderNumbers, Owners
  <2> QED BY <1>1, <2>1, BufferIs
<1>e. p \in Drawn /\ Level(<<p>>, 0, 1)
  <2>1. Level(<<p>>, 0, 0 + 1) /\ p \in Drawn
    BY <1>1, <1>2, EnterIs
  <2> QED BY <1>1, <2>1
<1>g. q \in Drawn /\ Level(<<q>>, 1, 1)
  <2>1. "pointer" \in Owners
    BY DEF Owners
  <2> QED BY <1>1, <1>2, <2>1, BufferIs
<1>3. /\ e \in Drawn /\ b \in Drawn /\ l \in Drawn /\ p \in Drawn /\ q \in Drawn /\ f \in Calls
      /\ e \in Calls /\ b \in Calls /\ l \in Calls /\ p \in Calls /\ q \in Calls
  BY <1>a, <1>b, <1>c, <1>d, <1>e, <1>g, DrawnAre
<1>4. Level(<<e>>, 0, 1) /\ Level(<<f>>, 1, 1) /\ Level(<<b>>, 1, 1) /\ Level(<<l>>, 1, 0)
  BY <1>a, <1>b, <1>c, <1>d
<1>5. Level(<<p>>, 0, 1) /\ Level(<<q>>, 1, 1)
  BY <1>e, <1>g
<1> PICK u, v : u = Drawing!WindowRender(1) /\ v = Drawing!WindowRender(2)
  OBVIOUS
<1>6. /\ u \in Seq(Drawn) /\ v \in Seq(Drawn) /\ Level(u, 1, 1) /\ Level(v, 1, 1)
  <2> PICK a \in SpanSet, d \in SpanSet, c \in [at : SpanSet, width : Nat] \cup {Nil} :
        n_windows = <<[at |-> a, child |-> Nil], [at |-> d, child |-> c]>>
    BY DEF Scene
  <2>1. n_windows[1] = [at |-> a, child |-> Nil] /\ n_windows[2] = [at |-> d, child |-> c]
    OBVIOUS
  <2>2. Nil \in [at : SpanSet, width : Nat] \cup {Nil} /\ 1 \in {1, 2} /\ 2 \in {1, 2}
    OBVIOUS
  <2>3. u \in Seq(Drawn) /\ Level(u, 1, 1)
    BY <1>1, <2>1, <2>2, WindowCalls
  <2>4. v \in Seq(Drawn) /\ Level(v, 1, 1)
    BY <1>1, <2>1, <2>2, WindowCalls
  <2> QED BY <2>3, <2>4
<1> PICK desk : desk = <<f, b>> \o u \o v
  OBVIOUS
<1> PICK all : all = <<e>> \o desk \o <<l>> \o <<p, q>>
  OBVIOUS
<1>7. all = Drawing!ScreenRender
  BY DEF Drawing!ScreenRender, Drawing!DesktopRender, Drawing!PointerRender
<1>8. Level(desk, 1, 1)
  <2>1. Level(<<f, b>>, 1, 1)
    BY <1>1, <1>3, <1>4, Pairs
  <2>2. Level(<<f, b>> \o u, 1, 1)
    BY <1>1, <1>6, <2>1, Glued
  <2> QED BY <1>1, <1>6, <2>2, Glued
<1>9. Level(all, 0, 1)
  <2>1. Level(<<e>> \o desk, 0, 1)
    BY <1>1, <1>4, <1>8, Glued
  <2>2. Level((<<e>> \o desk) \o <<l>>, 0, 0)
    BY <1>1, <1>4, <2>1, Glued
  <2>3. Level(<<p, q>>, 0, 1)
    BY <1>1, <1>3, <1>5, Pairs
  <2> QED BY <1>1, <2>2, <2>3, Glued
<1>10. /\ desk \in Seq(Calls) /\ Len(desk) >= 2 /\ desk[1] = f
       /\ \A i \in 2 .. Len(desk) : desk[i] \in Drawn
  <2> PICK w : w = u \o v
    OBVIOUS
  <2>1. w \in Seq(Drawn)
    BY <1>6
  <2>2. <<f, b>> \o w \in Seq(Calls) /\ (<<f, b>> \o w)[1] = f /\ Len(<<f, b>> \o w) >= 2
    BY <1>3, <2>1 DEF Calls
  <2>3. \A i \in 2 .. Len(<<f, b>> \o w) : (<<f, b>> \o w)[i] \in Drawn
    BY <1>3, <2>1
  <2>4. desk = <<f, b>> \o w
    <3>1. u \in Seq(Calls) /\ v \in Seq(Calls) /\ <<f, b>> \in Seq(Calls)
      BY <1>3, <1>6 DEF Calls
    <3> QED BY <3>1
  <2> QED BY <2>2, <2>3, <2>4
<1>11. /\ Len(all) >= 2 /\ all[1] = e /\ all[2] = f
       /\ \A i \in 1 .. Len(all) : i # 2 => all[i] \in Drawn
  <2> PICK n \in Nat : n = Len(desk)
    BY <1>10
  <2> PICK h : h = <<e>> \o desk
    OBVIOUS
  <2>1. /\ h \in Seq(Calls) /\ Len(h) = n + 1 /\ h[1] = e
        /\ \A i \in 2 .. n + 1 : h[i] = desk[i - 1]
    <3>1. <<e>> \in Seq(Calls) /\ Len(<<e>>) = 1 /\ <<e>>[1] = e
      BY <1>3 DEF Calls
    <3> QED BY <1>10, <3>1
  <2> PICK t : t = <<l, p, q>>
    OBVIOUS
  <2>2. t \in Seq(Calls) /\ Len(t) = 3 /\ \A i \in 1 .. 3 : t[i] \in Drawn
    BY <1>3 DEF Calls
  <2>3. all = h \o t
    <3>1. all = (h \o <<l>>) \o <<p, q>> /\ <<l>> \in Seq(Calls) /\ <<p, q>> \in Seq(Calls)
      BY <1>3 DEF Calls
    <3>2. <<l>> \o <<p, q>> = t
      BY <1>3, RightTriple
    <3> QED BY <2>1, <3>1, <3>2
  <2>4. /\ Len(all) = n + 4 /\ \A i \in 1 .. n + 1 : all[i] = h[i]
        /\ \A i \in n + 2 .. n + 4 : all[i] = t[i - (n + 1)]
    BY <2>1, <2>2, <2>3
  <2>5. ASSUME NEW i \in 1 .. Len(all), i # 2 PROVE all[i] \in Drawn
    <3>1. CASE i = 1
      BY <1>3, <2>1, <2>4, <3>1
    <3>2. CASE i \in 3 .. n + 1
      <4>1. all[i] = desk[i - 1] /\ i - 1 \in 2 .. n
        BY <2>1, <2>4, <3>2
      <4> QED BY <1>10, <4>1
    <3>3. CASE i \in n + 2 .. n + 4
      <4>1. all[i] = t[i - (n + 1)] /\ i - (n + 1) \in 1 .. 3
        BY <2>4, <3>3
      <4> QED BY <2>2, <4>1
    <3> QED BY <1>10, <2>4, <2>5, <3>1, <3>2, <3>3
  <2>6. n >= 2 /\ all[1] = e /\ all[2] = f
    <3>1. 1 \in 1 .. n + 1 /\ 2 \in 1 .. n + 1 /\ n >= 2
      BY <1>10
    <3>2. h[2] = desk[1]
      BY <2>1, <3>1
    <3>3. all[1] = h[1] /\ all[2] = h[2]
      BY ONLY <2>4, <3>1
    <3>4. h[1] = e /\ desk[1] = f
      BY <1>10, <2>1
    <3> QED BY ONLY <3>1, <3>2, <3>3, <3>4
  <2>7. Len(all) >= 2
    BY ONLY <2>4, <2>6
  <2> QED BY ONLY <2>5, <2>6, <2>7
<1> QED BY <1>7, <1>9, <1>11

(* The depth within a rest of some calls, and what is left of it when the  *)
(* call that it begins with has left.                                      *)
RestOf(c, s, k) ==
  /\ k \in 0 .. Len(s) /\ c \in Seq(Calls) /\ Len(c) = Len(s) - k
  /\ \A j \in 1 .. Len(s) - k : c[j] = s[k + j]

LEMMA ChangeIs ==
  ASSUME NEW c \in Calls
  PROVE  /\ Drawing!Change(c) \in Int
         /\ c.op = "enter" => Drawing!Change(c) = 1
         /\ c.op = "leave" => Drawing!Change(c) = -1
         /\ c.op \in {"buffer", "fill"} => Drawing!Change(c) = 0
BY DEF Drawing!Change

LEMMA DepthsAre ==
  ASSUME NEW c \in Seq(Calls), NEW n \in Nat, n = Len(c), NEW a \in [1 .. n -> Int],
         \A i \in 1 .. n : a[i] = Drawing!Change(c[i])
  PROVE  Adds(Drawing!Depths(c), a, n)
<1> DEFINE Following(h) == [i \in 0 .. Len(c) |->
                              IF i = 0 THEN 0 ELSE h[i - 1] + Drawing!Change(c[i])]
           depth == CHOOSE h : h = Following(h)
<1>1. Drawing!Depths(c) = depth
  BY Zenon DEF Drawing!Depths
<1>2. ASSUME NEW f PROVE (f = Following(f)) = Sums(f, a, n)
  <2>1. ASSUME NEW i \in 0 .. n
        PROVE  (IF i = 0 THEN 0 ELSE f[i - 1] + Drawing!Change(c[i]))
                 = IF i = 0 THEN 0 ELSE f[i - 1] + a[i]
    <3>1. i = 0 \/ i \in 1 .. n
      OBVIOUS
    <3> QED BY <3>1
  <2>2. Following(f) = [i \in 0 .. n |-> IF i = 0 THEN 0 ELSE f[i - 1] + a[i]]
    BY <2>1
  <2> HIDE DEF Following
  <2> QED BY <2>2 DEF Sums
<1>3. (\E f : Sums(f, a, n)) /\ \A f : Sums(f, a, n) => Adds(f, a, n)
  BY SumsAre, Zenon
<1>4. depth = Following(depth)
  BY <1>2, <1>3
<1> HIDE DEF depth, Following
<1>5. Adds(depth, a, n)
  BY <1>2, <1>3, <1>4, Zenon
<1> QED BY <1>1, <1>5, Zenon

LEMMA DepthsOfRest ==
  ASSUME NEW s \in Seq(Calls), NEW f, Levels(s, f), NEW k \in Nat, NEW c, RestOf(c, s, k),
         NEW j \in 0 .. Len(s) - k
  PROVE  Drawing!Depths(c)[j] = f[k + j] - f[k]
<1> PICK m \in Nat, n \in Nat : m = Len(s) /\ n = Len(c)
  BY DEF RestOf
<1>1. k <= m /\ c \in Seq(Calls) /\ n = m - k /\ \A i \in 1 .. n : c[i] = s[k + i]
  BY DEF RestOf
<1>2. f \in [0 .. m -> Nat] /\ \A i \in 1 .. m : f[i] = f[i - 1] + Drawing!Change(s[i])
  BY DEF Levels
<1> PICK a : a = [i \in 1 .. n |-> Drawing!Change(c[i])]
  OBVIOUS
<1>3. a \in [1 .. n -> Int] /\ \A i \in 1 .. n : a[i] = Drawing!Change(c[i])
  <2>1. \A i \in 1 .. n : Drawing!Change(c[i]) \in Int
    BY <1>1, ChangeIs
  <2> QED BY <2>1
<1>4. Adds(Drawing!Depths(c), a, n)
  BY <1>1, <1>3, DepthsAre
<1> PICK d : d = Drawing!Depths(c)
  OBVIOUS
<1>5. d \in [0 .. n -> Int] /\ d[0] = 0 /\ \A i \in 1 .. n : d[i] = d[i - 1] + a[i]
  BY <1>4 DEF Adds
<1> SUFFICES ASSUME d[j] # f[k + j] - f[k] PROVE FALSE
  OBVIOUS
<1> DEFINE Wrong == {i \in Nat : i <= n /\ d[i] # f[k + i] - f[k]}
<1>6. PICK i \in Wrong : \A h \in Wrong : i <= h
  <2>1. Wrong \subseteq Nat /\ j \in Wrong
    BY <1>1
  <2> HIDE DEF Wrong
  <2> QED BY <2>1, LeastNumber
<1>7. i # 0
  <2> SUFFICES ASSUME i = 0 PROVE FALSE
    OBVIOUS
  <2>1. k + i = k /\ k \in 0 .. m
    BY <1>1
  <2>2. f[k] \in Int /\ d[i] = 0
    BY <1>2, <1>5, <2>1
  <2>3. d[i] = f[k + i] - f[k]
    BY <2>1, <2>2
  <2> QED BY <1>6, <2>3
<1>8. i \in 1 .. n /\ i - 1 \in 0 .. n /\ k + i \in 1 .. m /\ k + (i - 1) = (k + i) - 1
        /\ k + (i - 1) \in 0 .. m
  BY <1>1, <1>6, <1>7
<1>9. d[i - 1] = f[k + (i - 1)] - f[k]
  <2>1. i - 1 \in Nat /\ i - 1 <= n /\ ~(i <= i - 1)
    BY <1>8
  <2>2. i - 1 \notin Wrong
    BY <1>6, <2>1
  <2> QED BY <2>1, <2>2
<1>10. d[i] = d[i - 1] + Drawing!Change(c[i]) /\ c[i] = s[k + i]
  BY <1>1, <1>3, <1>5, <1>8
<1>11. f[k + i] = f[k + (i - 1)] + Drawing!Change(s[k + i])
  BY <1>2, <1>8
<1> PICK v, w, x, y, z : v = d[i] /\ w = d[i - 1] /\ x = f[k + i] /\ y = f[k + (i - 1)] /\ z = f[k]
  OBVIOUS
<1> PICK g : g = Drawing!Change(s[k + i])
  OBVIOUS
<1>12. g \in Int /\ y \in Int /\ z \in Int
  <2>1. s[k + i] \in Calls /\ k \in 0 .. m
    BY <1>1, <1>8
  <2>2. g \in Int
    BY <2>1, ChangeIs
  <2> QED BY <1>2, <1>8, <2>1, <2>2
<1>13. v = x - z
  BY <1>9, <1>10, <1>11, <1>12
<1> QED BY <1>6, <1>13

(* rectangleIntersect: what it cuts out is in both, if there is anything.  *)
LEMMA CutIn ==
  ASSUME NEW s \in SpanSet, NEW t \in SpanSet, Drawing!Intersect(s, t).meet
  PROVE  LET c == Drawing!Intersect(s, t).span
         IN /\ c \in SpanSet /\ t.x <= c.x /\ c.x + c.w <= t.x + t.w
            /\ s.x <= t.x /\ t.x + t.w <= s.x + s.w => c = t
<1>1. s.x \in Int /\ s.w \in Nat /\ t.x \in Int /\ t.w \in Nat
  BY DEF SpanSet
<1> PICK x \in Int : x = Drawing!Larger(s.x, t.x)
  BY <1>1 DEF Drawing!Larger
<1> PICK e \in Int : e = Drawing!Smaller(s.x + s.w, t.x + t.w)
  BY <1>1 DEF Drawing!Smaller
<1>2. x >= t.x /\ e <= t.x + t.w
  BY <1>1 DEF Drawing!Larger, Drawing!Smaller
<1>3. e >= x /\ Drawing!Intersect(s, t).span = Drawing!Span(x, IF e > x THEN e - x ELSE x - e)
  BY DEF Drawing!Intersect
<1> PICK c : c = Drawing!Intersect(s, t).span
  OBVIOUS
<1>4. c = [x |-> x, w |-> e - x]
  <2>1. (IF e > x THEN e - x ELSE x - e) = e - x
    BY <1>3
  <2> QED BY <1>3, <2>1 DEF Drawing!Span
<1>5. c \in SpanSet /\ t.x <= c.x /\ c.x + c.w <= t.x + t.w
  <2>1. e - x \in Nat /\ x + (e - x) = e
    BY <1>3
  <2> QED BY <1>2, <1>4, <2>1 DEF SpanSet
<1>6. ASSUME s.x <= t.x, t.x + t.w <= s.x + s.w PROVE c = t
  <2>1. x = t.x /\ e = t.x + t.w
    BY <1>1, <1>6 DEF Drawing!Larger, Drawing!Smaller
  <2>2. e - x = t.w
    BY <1>1, <2>1
  <2>3. t = [x |-> t.x, w |-> t.w]
    BY DEF SpanSet
  <2> QED BY <1>4, <2>1, <2>2, <2>3
<1> QED BY <1>5, <1>6

LEMMA Meets ==
  ASSUME NEW s \in SpanSet, NEW t \in SpanSet, s.x <= t.x, t.x + t.w <= s.x + s.w
  PROVE  Drawing!Intersect(s, t).meet
<1>1. s.x \in Int /\ s.w \in Nat /\ t.x \in Int /\ t.w \in Nat
  BY DEF SpanSet
<1>2. Drawing!Larger(s.x, t.x) = t.x /\ Drawing!Smaller(s.x + s.w, t.x + t.w) = t.x + t.w
  BY <1>1 DEF Drawing!Larger, Drawing!Smaller
<1>3. t.x + t.w >= t.x
  BY <1>1
<1> QED BY <1>2, <1>3 DEF Drawing!Intersect

(* Regions lie in what is updated, the calls that are left are a rest of   *)
(* those of an update, and as many regions are entered as they suppose; no *)
(* region is cut or moved before the desktop is filled.                    *)
Region == [clip : SpanSet, dx : Int]
Clipped(s) == n_visible.x <= s.x /\ s.x + s.w <= n_visible.x + n_visible.w
Whole == [clip |-> n_visible, dx |-> 0]
Walking(f, k) ==
  /\ Levels(Drawing!ScreenRender, f) /\ f[0] = 0
  /\ RestOf(n_todo, Drawing!ScreenRender, k)
  /\ k < Len(Drawing!ScreenRender) => Len(n_regions) = 1 + f[k]
  /\ k <= 1 => \A i \in DOMAIN n_regions : n_regions[i] = Whole
Updating ==
  /\ n_visible \in SpanSet /\ 0 <= n_visible.x /\ n_visible.x + n_visible.w <= Width
  /\ n_regions \in Seq(Region)
  /\ \A i \in DOMAIN n_regions : Clipped(n_regions[i].clip)
  /\ \E f : \E k \in Nat : Walking(f, k)
RenderInv ==
  /\ Scene /\ DOMAIN n_screen = 0 .. Width - 1
  /\ n_visible = Nil => n_regions = <<>> /\ n_todo = <<>>
  /\ n_visible # Nil => Updating

LEMMA UpdateStep ==
  ASSUME RenderNumbers, RenderInv, NEW x \in -1 .. Width, NEW w \in 1 .. Width,
         Drawing!Update(Drawing!Span(x, w))
  PROVE  RenderInv'
<1> PICK s, t : s = Drawing!Span(x, w) /\ t = Drawing!Span(0, Width)
  OBVIOUS
<1>1. s \in SpanSet /\ t \in SpanSet /\ t.x = 0 /\ t.w = Width
  BY DEF Drawing!Span, SpanSet, RenderNumbers
<1> PICK v : v = Drawing!Intersect(s, t).span
  OBVIOUS
<1>2. /\ n_visible = Nil /\ Drawing!Intersect(s, t).meet /\ n_visible' = v
      /\ n_regions' = <<[clip |-> v, dx |-> 0]>> /\ n_todo' = Drawing!ScreenRender
      /\ n_windows' = n_windows /\ n_pointer' = n_pointer /\ n_screen' = n_screen
  BY DEF Drawing!Update
<1>3. v \in SpanSet /\ 0 <= v.x /\ v.x + v.w <= Width
  <2>1. v \in SpanSet /\ t.x <= v.x /\ v.x + v.w <= t.x + t.w
    BY <1>1, <1>2, CutIn
  <2>2. Width \in Nat
    BY DEF RenderNumbers
  <2> QED BY <1>1, <2>1, <2>2
<1>4. Scene /\ Scene' /\ DOMAIN n_screen' = 0 .. Width - 1
  BY <1>2 DEF RenderInv, Scene
<1>5. Drawing!ScreenRender' = Drawing!ScreenRender
  BY <1>2 DEF Drawing!ScreenRender, Drawing!DesktopRender, Drawing!PointerRender,
          Drawing!WindowRender
<1> PICK c : c = Drawing!ScreenRender
  OBVIOUS
<1>6. PICK f : Levels(c, f) /\ f[0] = 0
  BY <1>4, ScreenCalls DEF Level
<1>7. c \in Seq(Calls)
  BY <1>4, ScreenCalls DEF Level
<1>8. RestOf(c, c, 0)
  <2>1. Len(c) \in Nat
    BY <1>7
  <2> QED BY <1>7, <2>1 DEF RestOf
<1> PICK r : r = <<[clip |-> v, dx |-> 0]>>
  OBVIOUS
<1>9. /\ r \in Seq(Region) /\ Len(r) = 1 /\ r[1] = [clip |-> v, dx |-> 0]
      /\ \A i \in DOMAIN r : r[i] = [clip |-> v, dx |-> 0]
  <2>1. [clip |-> v, dx |-> 0] \in Region
    BY <1>3 DEF Region
  <2> QED BY <2>1
<1>10. Walking(f, 0)'
  <2>1. Levels(c, f) /\ f[0] = 0 /\ RestOf(n_todo', c, 0) /\ Len(n_regions') = 1 + f[0]
    BY <1>2, <1>6, <1>8, <1>9
  <2>2. \A i \in DOMAIN n_regions' : n_regions'[i] = Whole'
    BY <1>2, <1>9 DEF Whole
  <2> QED BY <1>5, <2>1, <2>2 DEF Walking
<1>11. \A i \in DOMAIN n_regions' : Clipped(n_regions[i].clip)'
  <2>1. v.x <= v.x /\ v.x + v.w <= v.x + v.w
    BY <1>3 DEF SpanSet
  <2> QED BY <1>2, <1>9, <2>1 DEF Clipped
<1>12. Updating'
  BY <1>2, <1>3, <1>9, <1>10, <1>11 DEF Updating
<1>13. n_visible' # Nil
  BY <1>2, <1>3 DEF RenderNumbers, SpanSet
<1> QED BY <1>4, <1>12, <1>13 DEF RenderInv

LEMMA NextCall ==
  ASSUME RenderNumbers, Scene, NEW f, NEW k \in Nat, Walking(f, k), n_todo # <<>>,
         NEW c, c = Head(n_todo), n_regions \in Seq(Region)
  PROVE  /\ c \in Calls /\ (k # 1 => c \in Drawn)
         /\ k = 0 => c = Drawing!Enter(Drawing!Span(0, Width), 0)
         /\ k = 1 => c = Drawing!Filled("desktop", Drawing!Span(0, Width))
         /\ f[k] \in Nat /\ f[k + 1] \in Nat /\ f[k + 1] = f[k] + Drawing!Change(c)
         /\ n_regions # <<>> /\ Len(n_regions) = 1 + f[k]
         /\ RestOf(Tail(n_todo), Drawing!ScreenRender, k + 1)
<1> PICK s : s = Drawing!ScreenRender
  OBVIOUS
<1>1. /\ s \in Seq(Calls) /\ Len(s) >= 2
      /\ s[1] = Drawing!Enter(Drawing!Span(0, Width), 0)
      /\ s[2] = Drawing!Filled("desktop", Drawing!Span(0, Width))
      /\ \A i \in 1 .. Len(s) : i # 2 => s[i] \in Drawn
  BY ScreenCalls DEF Level
<1>2. Levels(s, f) /\ RestOf(n_todo, s, k) /\ (k < Len(s) => Len(n_regions) = 1 + f[k])
  BY DEF Walking
<1> PICK n \in Nat : n = Len(s)
  BY <1>1
<1>3. /\ k <= n /\ n_todo \in Seq(Calls) /\ Len(n_todo) = n - k
      /\ \A j \in 1 .. n - k : n_todo[j] = s[k + j]
  BY <1>2 DEF RestOf
<1>4. n - k >= 1
  BY <1>3
<1>5. c = s[k + 1] /\ k + 1 \in 1 .. n
  BY <1>3, <1>4
<1>6. f \in [0 .. n -> Nat] /\ \A i \in 1 .. n : f[i] = f[i - 1] + Drawing!Change(s[i])
  BY <1>2 DEF Levels
<1>7. f[k] \in Nat /\ f[k + 1] \in Nat /\ f[k + 1] = f[k] + Drawing!Change(c)
  <2>1. k \in 0 .. n /\ k + 1 \in 0 .. n /\ (k + 1) - 1 = k
    BY <1>5
  <2> QED BY <1>5, <1>6, <2>1
<1>8. n_regions # <<>> /\ Len(n_regions) = 1 + f[k]
  <2>1. Len(n_regions) = 1 + f[k]
    BY <1>2, <1>5
  <2> QED BY <1>7, <2>1
<1>9. RestOf(Tail(n_todo), s, k + 1)
  <2> PICK t : t = Tail(n_todo)
    OBVIOUS
  <2>1. t \in Seq(Calls) /\ Len(t) = (n - k) - 1 /\ \A j \in 1 .. (n - k) - 1 : t[j] = n_todo[j + 1]
    <3>a. n - k \in Nat
      BY <1>4
    <3> PICK q \in Nat : q = n - k
      BY <3>a
    <3> PICK o : o = n_todo
      OBVIOUS
    <3>1. o \in Seq(Calls) /\ Len(o) = q /\ o # <<>> /\ t = Tail(o)
      BY <1>3
    <3>2. t \in Seq(Calls) /\ Len(t) = q - 1 /\ \A j \in 1 .. q - 1 : t[j] = o[j + 1]
      BY ONLY <3>1
    <3> QED BY <3>2
  <2>2. ASSUME NEW j \in 1 .. n - (k + 1) PROVE t[j] = s[(k + 1) + j]
    <3>1. j \in 1 .. (n - k) - 1 /\ j + 1 \in 1 .. n - k /\ k + (j + 1) = (k + 1) + j
      BY <1>4
    <3> QED BY <1>3, <2>1, <3>1
  <2>3. (n - k) - 1 = n - (k + 1) /\ k + 1 \in 0 .. n
    BY <1>5
  <2> QED BY <2>1, <2>2, <2>3 DEF RestOf
<1>10. c \in Calls /\ (k # 1 => c \in Drawn)
  BY <1>1, <1>5
<1> QED BY <1>1, <1>5, <1>7, <1>8, <1>9, <1>10

(* Regions stay what they were when the others of a scene do.              *)
LEMMA SameScene ==
  ASSUME n_windows' = n_windows, n_pointer' = n_pointer
  PROVE  Drawing!ScreenRender' = Drawing!ScreenRender /\ (Scene => Scene')
BY DEF Drawing!ScreenRender, Drawing!DesktopRender, Drawing!PointerRender, Drawing!WindowRender,
   Scene

LEMMA RestStep ==
  ASSUME RenderNumbers, Scene, NEW f, NEW k \in Nat, Walking(f, k), n_todo # <<>>,
         n_regions \in Seq(Region)
  PROVE  /\ RestOf(Drawing!PastLeave(n_todo), Drawing!ScreenRender, Len(Drawing!ScreenRender))
            \/ \E e \in Nat \ {0} :
                 /\ RestOf(Drawing!PastLeave(n_todo), Drawing!ScreenRender, k + e)
                 /\ f[k + e] = f[k]
<1> PICK s : s = Drawing!ScreenRender
  OBVIOUS
<1>1. Levels(s, f) /\ RestOf(n_todo, s, k) /\ s \in Seq(Calls)
  BY ScreenCalls DEF Walking, Level
<1> PICK n \in Nat : n = Len(s)
  BY <1>1
<1> PICK c : c = n_todo
  OBVIOUS
<1>2. /\ k <= n /\ c \in Seq(Calls) /\ Len(c) = n - k
      /\ \A j \in 1 .. n - k : c[j] = s[k + j]
  BY <1>1 DEF RestOf
<1> PICK m \in Nat : m = n - k
  BY <1>2
<1> DEFINE ends == {i \in 1 .. Len(c) : Drawing!Depths(c)[i] = 0}
           end == IF ends = {} THEN Len(c) ELSE CHOOSE i \in ends : \A h \in ends : i <= h
<1>3. Drawing!PastLeave(c) = SubSeq(c, end + 1, Len(c))
  BY DEF Drawing!PastLeave
<1>4. end \in 0 .. m /\ (ends # {} => end \in ends)
  <2>1. CASE ends = {}
    BY <1>2, <2>1
  <2>2. CASE ends # {}
    <3>1. ends \subseteq 1 .. m
      BY <1>2
    <3>2. \E i \in ends : \A h \in ends : i <= h
      <4>1. ends \subseteq Nat
        BY <3>1
      <4> HIDE DEF ends
      <4> QED BY <2>2, <4>1, LeastNumber
    <3>3. end \in ends
      <4> HIDE DEF ends
      <4> QED BY <2>2, <3>2
    <3> HIDE DEF end, ends
    <3> QED BY <2>2, <3>1, <3>3
  <2> QED BY <2>1, <2>2
<1> PICK e : e = end
  OBVIOUS
<1>5. e \in 0 .. m /\ (ends # {} => e \in ends) /\ (ends = {} => e = m)
  BY <1>2, <1>4
<1>6. Drawing!PastLeave(c) = SubSeq(c, e + 1, m)
  BY <1>2, <1>3
<1> HIDE DEF end
<1> PICK t : t = SubSeq(c, e + 1, m)
  OBVIOUS
<1>7. t \in Seq(Calls) /\ Len(t) = m - e /\ \A j \in 1 .. m - e : t[j] = c[e + j]
  <2> HIDE DEF ends
  <2>1. CASE e = m
    BY <1>2, <2>1
  <2>2. CASE e < m
    BY <1>2, <1>5, <2>2
  <2> QED BY <1>5, <2>1, <2>2
<1>8. RestOf(t, s, k + e)
  <2> HIDE DEF ends
  <2>1. ASSUME NEW j \in 1 .. n - (k + e) PROVE t[j] = s[(k + e) + j]
    <3>1. j \in 1 .. m - e /\ e + j \in 1 .. n - k /\ k + (e + j) = (k + e) + j
      BY <1>5
    <3> QED BY <1>2, <1>7, <3>1
  <2>2. k + e \in 0 .. n /\ m - e = n - (k + e)
    BY <1>2, <1>5
  <2> QED BY <1>7, <2>1, <2>2 DEF RestOf
<1>9. CASE ends = {}
  <2>1. k + e = n
    BY <1>2, <1>5, <1>9
  <2> QED BY <1>6, <1>8, <2>1
<1>10. CASE ends # {}
  <2>1. e \in 1 .. m /\ Drawing!Depths(c)[e] = 0
    BY <1>2, <1>5, <1>10
  <2> HIDE DEF ends
  <2>2. Drawing!Depths(c)[e] = f[k + e] - f[k]
    <3>1. e \in 0 .. Len(s) - k
      BY <2>1
    <3> QED BY <1>1, <3>1, DepthsOfRest
  <2>3. f[k + e] \in Nat /\ f[k] \in Nat
    <3>1. f \in [0 .. n -> Nat] /\ k + e \in 0 .. n /\ k \in 0 .. n
      BY <1>1, <1>2, <2>1 DEF Levels
    <3> QED BY <3>1
  <2>4. f[k + e] = f[k] /\ e \in Nat \ {0}
    BY <2>1, <2>2, <2>3
  <2> QED BY <1>6, <1>8, <2>4
<1> QED BY <1>9, <1>10

(* What holds of a step of an update, when the regions and the rest of the *)
(* calls are right.                                                        *)
LEMMA GoesOn ==
  ASSUME RenderNumbers, RenderInv, n_visible # Nil, UNCHANGED <<n_windows, n_pointer, n_visible>>,
         DOMAIN n_screen' = DOMAIN n_screen, n_regions' \in Seq(Region),
         \A i \in DOMAIN n_regions' : Clipped(n_regions'[i].clip),
         NEW f, NEW k \in Nat, Levels(Drawing!ScreenRender, f), f[0] = 0,
         RestOf(n_todo', Drawing!ScreenRender, k),
         k < Len(Drawing!ScreenRender) => Len(n_regions') = 1 + f[k],
         k <= 1 => \A i \in DOMAIN n_regions' : n_regions'[i] = Whole
  PROVE  RenderInv'
<1>1. Drawing!ScreenRender' = Drawing!ScreenRender /\ Scene'
  BY SameScene DEF RenderInv
<1>2. Walking(f, k)'
  BY <1>1 DEF Walking, Whole
<1>3. \A i \in DOMAIN n_regions' : Clipped(n_regions[i].clip)'
  BY DEF Clipped
<1>4. Updating'
  BY <1>2, <1>3 DEF Updating, RenderInv
<1> QED BY <1>1, <1>4 DEF RenderInv

LEMMA HeadRegion ==
  ASSUME Updating, n_regions # <<>>
  PROVE  /\ Head(n_regions) \in Region /\ Clipped(Head(n_regions).clip)
         /\ Head(n_regions) = n_regions[1] /\ 1 \in DOMAIN n_regions
         /\ n_visible.x \in Int /\ n_visible.w \in Nat
<1> PICK r : r = n_regions
  OBVIOUS
<1>1. r \in Seq(Region) /\ r # <<>> /\ \A i \in DOMAIN r : Clipped(r[i].clip)
  BY DEF Updating
<1>2. Head(r) = r[1] /\ 1 \in DOMAIN r /\ r[1] \in Region
  BY ONLY <1>1
<1>3. n_visible.x \in Int /\ n_visible.w \in Nat
  BY DEF Updating, SpanSet
<1> QED BY <1>1, <1>2, <1>3

LEMMA EnterStep ==
  ASSUME RenderNumbers, RenderInv, Drawing!renderer_enter
  PROVE  RenderInv'
<1> PICK c, r : c = Head(n_todo) /\ r = n_regions
  OBVIOUS
<1>1. /\ n_todo # <<>> /\ c.op = "enter" /\ UNCHANGED <<n_windows, n_pointer, n_screen, n_visible>>
      /\ LET in == Drawing!Entered(c.span, c.dx)
         IN IF in.meet THEN n_regions' = <<in.region>> \o r /\ n_todo' = Tail(n_todo)
            ELSE n_regions' = r /\ n_todo' = Drawing!PastLeave(n_todo)
  BY DEF Drawing!renderer_enter, Drawing!Call
<1>2. n_visible # Nil /\ Updating /\ Scene
  BY <1>1 DEF RenderInv
<1> PICK s, n : s = Drawing!ScreenRender /\ n = Len(s)
  OBVIOUS
<1>3. PICK f : \E k \in Nat : Walking(f, k)
  BY <1>2 DEF Updating
<1>4. PICK k \in Nat : Walking(f, k)
  BY <1>3
<1>5. r \in Seq(Region) /\ \A i \in DOMAIN r : Clipped(r[i].clip)
  BY <1>2 DEF Updating
<1>6. Levels(s, f) /\ f[0] = 0 /\ (k <= 1 => \A i \in DOMAIN r : r[i] = Whole)
  BY <1>4 DEF Walking
<1>7. /\ c \in Calls /\ (k # 1 => c \in Drawn)
      /\ (k = 0 => c = Drawing!Enter(Drawing!Span(0, Width), 0))
      /\ (k = 1 => c = Drawing!Filled("desktop", Drawing!Span(0, Width)))
      /\ f[k] \in Nat /\ f[k + 1] \in Nat /\ f[k + 1] = f[k] + Drawing!Change(c)
      /\ r # <<>> /\ Len(r) = 1 + f[k]
      /\ RestOf(Tail(n_todo), s, k + 1)
  BY <1>1, <1>2, <1>4, <1>5, NextCall
<1>8. k # 1 /\ c.span \in SpanSet /\ c.dx \in Int /\ f[k + 1] = f[k] + 1
  <2>1. k # 1
    BY <1>1, <1>7 DEF Drawing!Filled
  <2>2. c.span \in SpanSet /\ c.dx \in Int
    BY <1>1, <1>7, <2>1 DEF Drawn
  <2> QED BY <1>1, <1>7, <2>1, <2>2, ChangeIs
<1> PICK out : out = Head(r)
  OBVIOUS
<1>9. /\ out \in Region /\ Clipped(out.clip) /\ out = r[1] /\ 1 \in DOMAIN r
      /\ n_visible.x \in Int /\ n_visible.w \in Nat
  BY <1>2, <1>7, HeadRegion
<1> PICK t : t = Drawing!Span(c.span.x + out.dx, c.span.w)
  OBVIOUS
<1>10. t \in SpanSet /\ out.clip \in SpanSet /\ out.dx \in Int
  BY <1>8, <1>9 DEF Drawing!Span, SpanSet, Region
<1> PICK cut : cut = Drawing!Intersect(t, out.clip)
  OBVIOUS
<1>11. Drawing!Entered(c.span, c.dx) =
         [meet |-> cut.meet, region |-> [clip |-> cut.span, dx |-> out.dx + c.dx]]
  BY DEF Drawing!Entered
<1>12. ASSUME k = 0 PROVE cut.meet /\ [clip |-> cut.span, dx |-> out.dx + c.dx] = Whole
  <2>1. out.clip = n_visible /\ out.dx = 0
    BY <1>6, <1>9, <1>12 DEF Whole
  <2>2. c.span = Drawing!Span(0, Width) /\ c.dx = 0 /\ Width \in Nat
    BY <1>7, <1>12 DEF Drawing!Enter, RenderNumbers
  <2>3. t.x = 0 /\ t.w = Width
    BY <2>1, <2>2 DEF Drawing!Span
  <2>4. t.x <= n_visible.x /\ n_visible.x + n_visible.w <= t.x + t.w
    BY <1>2, <1>9, <2>2, <2>3 DEF Updating
  <2>5. cut.meet
    BY <1>10, <2>1, <2>4, Meets
  <2>6. cut.span = n_visible
    BY <1>10, <2>1, <2>4, <2>5, CutIn
  <2> QED BY <2>1, <2>2, <2>5, <2>6 DEF Whole
<1>13. CASE cut.meet
  <2> PICK g : g = [clip |-> cut.span, dx |-> out.dx + c.dx]
    OBVIOUS
  <2>1. n_regions' = <<g>> \o r /\ n_todo' = Tail(n_todo)
    BY <1>1, <1>11, <1>13
  <2>2. cut.span \in SpanSet /\ Clipped(cut.span)
    <3>1. /\ cut.span \in SpanSet /\ out.clip.x <= cut.span.x
          /\ cut.span.x + cut.span.w <= out.clip.x + out.clip.w
      BY <1>10, <1>13, CutIn
    <3> QED BY <1>9, <1>10, <3>1 DEF Clipped, SpanSet
  <2>3. g \in Region /\ Clipped(g.clip)
    BY <1>8, <1>10, <2>2 DEF Region
  <2> PICK h : h = <<g>> \o r
    OBVIOUS
  <2>4. /\ h \in Seq(Region) /\ Len(h) = Len(r) + 1 /\ h[1] = g
        /\ \A i \in DOMAIN h : i = 1 \/ (i - 1 \in DOMAIN r /\ h[i] = r[i - 1])
    BY <1>5, <2>3
  <2>5. \A i \in DOMAIN h : Clipped(h[i].clip)
    BY <1>5, <2>3, <2>4
  <2>6. k + 1 <= 1 => \A i \in DOMAIN h : h[i] = Whole
    BY <1>6, <1>12, <2>4
  <2>7. k + 1 < n => Len(h) = 1 + f[k + 1]
    BY <1>7, <1>8, <2>4
  <2>8. k + 1 \in Nat /\ h = n_regions' /\ RestOf(n_todo', s, k + 1)
    BY <1>7, <2>1
  <2> PICK j \in Nat : j = k + 1
    OBVIOUS
  <2>9. /\ n_regions' \in Seq(Region) /\ \A i \in DOMAIN n_regions' : Clipped(n_regions'[i].clip)
        /\ (j <= 1 => \A i \in DOMAIN n_regions' : n_regions'[i] = Whole)
        /\ (j < n => Len(n_regions') = 1 + f[j]) /\ RestOf(n_todo', s, j)
    BY <2>4, <2>5, <2>6, <2>7, <2>8
  <2> QED BY <1>1, <1>2, <1>6, <2>9, GoesOn
<1>14. CASE ~cut.meet
  <2>1. n_regions' = r /\ n_todo' = Drawing!PastLeave(n_todo)
    BY <1>1, <1>11, <1>14
  <2>2. k # 0
    BY <1>12, <1>14
  <2>3. n \in Nat
    BY <1>2, ScreenCalls DEF Level
  <2>4. CASE RestOf(n_todo', s, n)
    <3>1. n >= 2
      BY <1>2, ScreenCalls
    <3> QED BY <1>1, <1>2, <1>5, <1>6, <2>1, <2>3, <2>4, <3>1, GoesOn
  <2>5. CASE \E e \in Nat \ {0} : RestOf(n_todo', s, k + e) /\ f[k + e] = f[k]
    <3> PICK e \in Nat \ {0} : RestOf(n_todo', s, k + e) /\ f[k + e] = f[k]
      BY <2>5
    <3> PICK j \in Nat : j = k + e
      OBVIOUS
    <3>1. j > 1 /\ Len(n_regions') = 1 + f[j]
      BY <1>7, <2>1, <2>2
    <3> QED BY <1>1, <1>2, <1>5, <1>6, <2>1, <3>1, GoesOn
  <2> QED BY <1>1, <1>2, <1>4, <1>5, <2>1, <2>4, <2>5, RestStep
<1> QED BY <1>13, <1>14

LEMMA LeaveStep ==
  ASSUME RenderNumbers, RenderInv, Drawing!renderer_leave
  PROVE  RenderInv'
<1> PICK c, r : c = Head(n_todo) /\ r = n_regions
  OBVIOUS
<1>1. /\ n_todo # <<>> /\ c.op = "leave" /\ UNCHANGED <<n_windows, n_pointer, n_screen, n_visible>>
      /\ n_regions' = (IF r = <<>> THEN <<>> ELSE Tail(r)) /\ n_todo' = Tail(n_todo)
  BY DEF Drawing!renderer_leave, Drawing!Call
<1>2. n_visible # Nil /\ Updating /\ Scene
  BY <1>1 DEF RenderInv
<1> PICK s, n : s = Drawing!ScreenRender /\ n = Len(s)
  OBVIOUS
<1>3. PICK f : \E k \in Nat : Walking(f, k)
  BY <1>2 DEF Updating
<1>4. PICK k \in Nat : Walking(f, k)
  BY <1>3
<1>5. r \in Seq(Region) /\ \A i \in DOMAIN r : Clipped(r[i].clip)
  BY <1>2 DEF Updating
<1>6. Levels(s, f) /\ f[0] = 0
  BY <1>4 DEF Walking
<1>7. /\ c \in Calls /\ (k = 0 => c = Drawing!Enter(Drawing!Span(0, Width), 0))
      /\ f[k] \in Nat /\ f[k + 1] \in Nat /\ f[k + 1] = f[k] + Drawing!Change(c)
      /\ r # <<>> /\ Len(r) = 1 + f[k]
      /\ RestOf(Tail(n_todo), s, k + 1)
  BY <1>1, <1>2, <1>4, <1>5, NextCall
<1>8. k # 0 /\ f[k + 1] = f[k] - 1
  <2>1. k # 0
    BY <1>1, <1>7 DEF Drawing!Enter
  <2>2. Drawing!Change(c) = -1
    BY <1>1, <1>7, ChangeIs
  <2> QED BY <1>7, <2>1, <2>2
<1> PICK t : t = Tail(r)
  OBVIOUS
<1>9. t \in Seq(Region) /\ Len(t) = Len(r) - 1 /\ \A i \in DOMAIN t : i + 1 \in DOMAIN r
        /\ t[i] = r[i + 1]
  BY ONLY <1>5, <1>7, t = Tail(r)
<1>10. \A i \in DOMAIN t : Clipped(t[i].clip)
  BY <1>5, <1>9
<1> PICK j \in Nat : j = k + 1
  OBVIOUS
<1>11. /\ n_regions' = t /\ ~(j <= 1) /\ Len(t) = 1 + f[j] /\ RestOf(n_todo', s, j)
  BY <1>1, <1>7, <1>8, <1>9
<1> QED BY <1>1, <1>2, <1>6, <1>9, <1>10, <1>11, GoesOn

(* What is drawn lies in what is updated.                                  *)
OnlyInside == \A p \in DOMAIN n_screen : n_screen'[p] # n_screen[p]
  => p \in Drawing!Points(n_visible)

LEMMA ShownInside ==
  ASSUME RenderInv, n_visible # Nil, NEW of, NEW at, NEW part \in SpanSet, Clipped(part),
         Drawing!Shown(of, at, part)
  PROVE  DOMAIN n_screen' = DOMAIN n_screen /\ OnlyInside
<1>1. n_screen' = [p \in DOMAIN n_screen |->
                     IF p \in Drawing!Points(part) THEN Append(of, p - at) ELSE n_screen[p]]
  BY DEF Drawing!Shown
<1>2. /\ DOMAIN n_screen' = DOMAIN n_screen
      /\ \A p \in DOMAIN n_screen : n_screen'[p] # n_screen[p] => p \in Drawing!Points(part)
  BY Zenon, <1>1
<1>3. part.x \in Int /\ part.w \in Nat /\ n_visible.x \in Int /\ n_visible.w \in Nat
  BY DEF RenderInv, Updating, SpanSet
<1>4. Drawing!Points(part) \subseteq Drawing!Points(n_visible)
  BY <1>3 DEF Drawing!Points, Clipped
<1> QED BY <1>2, <1>4 DEF OnlyInside

LEMMA BufferStep ==
  ASSUME RenderNumbers, RenderInv, Drawing!renderer_render_buffer
  PROVE  RenderInv' /\ OnlyInside
<1> PICK c, r : c = Head(n_todo) /\ r = n_regions
  OBVIOUS
<1> PICK out : out = Head(r)
  OBVIOUS
<1> PICK t : t = Drawing!Span(c.span.x + out.dx, c.span.w)
  OBVIOUS
<1> PICK cut : cut = Drawing!Intersect(t, out.clip)
  OBVIOUS
<1>1. /\ n_todo # <<>> /\ c.op = "buffer"
      /\ UNCHANGED <<n_windows, n_pointer, n_visible, n_regions>>
      /\ n_todo' = Tail(n_todo)
      /\ IF cut.meet THEN Drawing!Shown(c.of, c.span.x + out.dx, cut.span) ELSE n_screen' = n_screen
  BY DEF Drawing!renderer_render_buffer, Drawing!Call
<1>2. n_visible # Nil /\ Updating /\ Scene
  BY <1>1 DEF RenderInv
<1> PICK s, n : s = Drawing!ScreenRender /\ n = Len(s)
  OBVIOUS
<1>3. PICK f : \E k \in Nat : Walking(f, k)
  BY <1>2 DEF Updating
<1>4. PICK k \in Nat : Walking(f, k)
  BY <1>3
<1>5. r \in Seq(Region) /\ \A i \in DOMAIN r : Clipped(r[i].clip)
  BY <1>2 DEF Updating
<1>6. Levels(s, f) /\ f[0] = 0
  BY <1>4 DEF Walking
<1>7. /\ c \in Calls /\ (k # 1 => c \in Drawn)
      /\ (k = 0 => c = Drawing!Enter(Drawing!Span(0, Width), 0))
      /\ (k = 1 => c = Drawing!Filled("desktop", Drawing!Span(0, Width)))
      /\ f[k] \in Nat /\ f[k + 1] \in Nat /\ f[k + 1] = f[k] + Drawing!Change(c)
      /\ r # <<>> /\ Len(r) = 1 + f[k]
      /\ RestOf(Tail(n_todo), s, k + 1)
  BY <1>1, <1>2, <1>4, <1>5, NextCall
<1>8. k # 0 /\ f[k + 1] = f[k] /\ c.span \in SpanSet
  <2>1. k # 0 /\ k # 1
    BY <1>1, <1>7 DEF Drawing!Enter, Drawing!Filled
  <2>2. c.span \in SpanSet
    BY <1>1, <1>7, <2>1 DEF Drawn
  <2>3. Drawing!Change(c) = 0
    BY <1>1, <1>7, ChangeIs
  <2> QED BY <1>7, <2>1, <2>2, <2>3
<1>9. out \in Region /\ Clipped(out.clip) /\ n_visible.x \in Int /\ n_visible.w \in Nat
  BY <1>2, <1>7, HeadRegion
<1>10. t \in SpanSet /\ out.clip \in SpanSet
  BY <1>8, <1>9 DEF Drawing!Span, SpanSet, Region
<1>11. DOMAIN n_screen' = DOMAIN n_screen /\ OnlyInside
  <2>1. CASE cut.meet
    <3>1. /\ cut.span \in SpanSet /\ out.clip.x <= cut.span.x
          /\ cut.span.x + cut.span.w <= out.clip.x + out.clip.w
      BY <1>10, <2>1, CutIn
    <3>2. Clipped(cut.span)
      BY <1>9, <1>10, <3>1 DEF Clipped, SpanSet
    <3>3. Drawing!Shown(c.of, c.span.x + out.dx, cut.span)
      BY <1>1, <2>1
    <3> QED BY <1>2, <3>1, <3>2, <3>3, ShownInside
  <2>2. CASE ~cut.meet
    BY <1>1, <2>2 DEF OnlyInside
  <2> QED BY <2>1, <2>2
<1> PICK j \in Nat : j = k + 1
  OBVIOUS
<1>12. ~(j <= 1) /\ Len(n_regions') = 1 + f[j] /\ RestOf(n_todo', s, j) /\ n_regions' = r
  BY <1>1, <1>7, <1>8
<1> QED BY <1>1, <1>2, <1>5, <1>6, <1>11, <1>12, GoesOn

LEMMA FillStep ==
  ASSUME RenderNumbers, RenderInv, Drawing!renderer_draw_filled_rectangle
  PROVE  RenderInv' /\ OnlyInside
<1> PICK c, r : c = Head(n_todo) /\ r = n_regions
  OBVIOUS
<1> PICK out : out = Head(r)
  OBVIOUS
<1> PICK t : t = Drawing!Span(c.span.x + out.dx, c.span.w)
  OBVIOUS
<1> PICK cut : cut = Drawing!Intersect(t, out.clip)
  OBVIOUS
<1>1. /\ n_todo # <<>> /\ c.op = "fill" /\ UNCHANGED <<n_windows, n_pointer, n_visible, n_regions>>
      /\ n_todo' = Tail(n_todo) /\ Drawing!Shown(c.of, 0, cut.span)
  BY DEF Drawing!renderer_draw_filled_rectangle, Drawing!Call
<1>2. n_visible # Nil /\ Updating /\ Scene
  BY <1>1 DEF RenderInv
<1> PICK s, n : s = Drawing!ScreenRender /\ n = Len(s)
  OBVIOUS
<1>3. PICK f : \E k \in Nat : Walking(f, k)
  BY <1>2 DEF Updating
<1>4. PICK k \in Nat : Walking(f, k)
  BY <1>3
<1>5. r \in Seq(Region) /\ \A i \in DOMAIN r : Clipped(r[i].clip)
  BY <1>2 DEF Updating
<1>6. Levels(s, f) /\ f[0] = 0 /\ (k <= 1 => \A i \in DOMAIN r : r[i] = Whole)
  BY <1>4 DEF Walking
<1>7. /\ c \in Calls /\ (k # 1 => c \in Drawn)
      /\ (k = 1 => c = Drawing!Filled("desktop", Drawing!Span(0, Width)))
      /\ f[k] \in Nat /\ f[k + 1] \in Nat /\ f[k + 1] = f[k] + Drawing!Change(c)
      /\ r # <<>> /\ Len(r) = 1 + f[k]
      /\ RestOf(Tail(n_todo), s, k + 1)
  BY <1>1, <1>2, <1>4, <1>5, NextCall
<1>8. k = 1 /\ f[k + 1] = f[k] /\ c.span = Drawing!Span(0, Width)
  <2>1. c \notin Drawn
    BY <1>1 DEF Drawn
  <2>2. k = 1 /\ c.span = Drawing!Span(0, Width)
    BY <1>7, <2>1 DEF Drawing!Filled
  <2>3. Drawing!Change(c) = 0
    BY <1>1, <1>7, ChangeIs
  <2> QED BY <1>7, <2>2, <2>3
<1>9. out.clip = n_visible /\ out.dx = 0 /\ n_visible.x \in Int /\ n_visible.w \in Nat
  <2>1. out = r[1] /\ 1 \in DOMAIN r /\ n_visible.x \in Int /\ n_visible.w \in Nat
    BY <1>2, <1>7, HeadRegion
  <2> QED BY <1>6, <1>8, <2>1 DEF Whole
<1>10. t \in SpanSet /\ t.x = 0 /\ t.w = Width /\ n_visible \in SpanSet /\ Width \in Nat
  BY <1>2, <1>8, <1>9 DEF Drawing!Span, SpanSet, RenderNumbers, Updating
<1>11. DOMAIN n_screen' = DOMAIN n_screen /\ OnlyInside
  <2>1. t.x <= n_visible.x /\ n_visible.x + n_visible.w <= t.x + t.w
    BY <1>2, <1>9, <1>10 DEF Updating
  <2>2. cut.meet
    BY <1>9, <1>10, <2>1, Meets
  <2>3. cut.span = n_visible
    BY <1>9, <1>10, <2>1, <2>2, CutIn
  <2>4. Clipped(n_visible)
    BY <1>9 DEF Clipped
  <2> QED BY <1>1, <1>2, <1>10, <2>3, <2>4, ShownInside
<1> PICK j \in Nat : j = k + 1
  OBVIOUS
<1>12. ~(j <= 1) /\ Len(n_regions') = 1 + f[j] /\ RestOf(n_todo', s, j) /\ n_regions' = r
  BY <1>1, <1>7, <1>8
<1> QED BY <1>1, <1>2, <1>5, <1>6, <1>11, <1>12, GoesOn

LEMMA RenderStep ==
  ASSUME RenderNumbers, RenderInv, [Drawing!Next]_(Drawing!vars)
  PROVE  RenderInv' /\ [OnlyInside]_(Drawing!vars)
<1>1. ASSUME NEW x \in -1 .. Width, NEW w \in 1 .. Width, Drawing!Update(Drawing!Span(x, w))
      PROVE  RenderInv' /\ OnlyInside
  BY <1>1, UpdateStep DEF OnlyInside, Drawing!Update
<1>2. CASE Drawing!renderer_enter
  BY <1>2, EnterStep DEF OnlyInside, Drawing!renderer_enter
<1>3. CASE Drawing!renderer_leave
  BY <1>3, LeaveStep DEF OnlyInside, Drawing!renderer_leave
<1>4. CASE Drawing!renderer_render_buffer
  BY <1>4, BufferStep
<1>5. CASE Drawing!renderer_draw_filled_rectangle
  BY <1>5, FillStep
<1>6. CASE Drawing!Complete
  <2>1. /\ n_visible' = Nil /\ n_regions' = <<>> /\ n_todo = <<>> /\ n_todo' = n_todo
        /\ UNCHANGED <<n_windows, n_pointer, n_screen>>
    BY <1>6 DEF Drawing!Complete
  <2>2. Scene'
    BY <2>1, SameScene DEF RenderInv
  <2> QED BY <2>1, <2>2 DEF RenderInv, OnlyInside
<1>7. CASE UNCHANGED Drawing!vars
  <2>1. UNCHANGED <<n_windows, n_pointer, n_screen, n_visible, n_regions, n_todo>>
    BY <1>7 DEF Drawing!vars
  <2>2. Drawing!ScreenRender' = Drawing!ScreenRender /\ (Scene => Scene')
    BY <2>1, SameScene
  <2>3. Updating => Updating'
    BY <2>1, <2>2 DEF Updating, Walking, Clipped, Whole
  <2> QED BY <1>7, <2>1, <2>2, <2>3 DEF RenderInv
<1> QED BY <1>1, <1>2, <1>3, <1>4, <1>5, <1>6, <1>7 DEF Drawing!Next

LEMMA RenderInit ==
  ASSUME RenderNumbers, Drawing!Init
  PROVE  RenderInv
<1>1. PICK a \in Spans, b \in Spans, c \in Children \cup {Nil} :
        n_windows = <<[at |-> a, child |-> Nil], [at |-> b, child |-> c]>>
  BY DEF Drawing!Init
<1>2. a \in SpanSet /\ b \in SpanSet /\ c \in [at : SpanSet, width : Nat] \cup {Nil}
  BY DEF RenderNumbers
<1>3. n_pointer \in SpanSet
  BY DEF RenderNumbers, Drawing!Init
<1>4. Scene
  BY <1>1, <1>2, <1>3 DEF Scene
<1> QED BY <1>4 DEF RenderInv, Drawing!Init

(* While a part of the screen is rendered nothing beside it is touched,    *)
(* and the renderer is in a region whenever it draws (renderer.c).         *)
THEOREM RendersInside ==
  ASSUME RenderNumbers
  PROVE  Drawing!Spec => []Drawing!TypeOK /\ Drawing!StaysInside
<1>1. ASSUME RenderInv PROVE Drawing!TypeOK
  <2>1. CASE n_visible = Nil
    <3>1. n_regions = <<>> /\ n_todo = <<>>
      BY <1>1, <2>1 DEF RenderInv
    <3>2. \A i \in 1 .. Len(n_regions) : n_regions[i].dx \in Int
      BY <3>1
    <3> QED BY <1>1, <3>1, <3>2 DEF RenderInv, Drawing!TypeOK
  <2>2. CASE n_visible # Nil
    <3>1. ASSUME NEW i \in 1 .. Len(n_regions) PROVE n_regions[i].dx \in Int
      <4>1. n_regions \in Seq(Region)
        BY <1>1, <2>2 DEF RenderInv, Updating
      <4>2. n_regions[i] \in Region
        BY ONLY <4>1, i \in 1 .. Len(n_regions)
      <4> QED BY <4>2 DEF Region
    <3> QED BY <1>1, <2>2, <3>1 DEF RenderInv, Drawing!TypeOK
  <2> QED BY <2>1, <2>2
<1>2. RenderInv /\ [Drawing!Next]_(Drawing!vars) => RenderInv'
  BY RenderStep
<1>3. RenderInv /\ [Drawing!Next]_(Drawing!vars) =>
        [\A p \in DOMAIN n_screen : n_screen'[p] # n_screen[p] =>
           p \in Drawing!Points(n_visible)]_(Drawing!vars)
  BY RenderStep DEF OnlyInside
<1>4. Drawing!Init => RenderInv
  BY RenderInit
<1>5. Drawing!Spec => []Drawing!TypeOK
  BY <1>1, <1>2, <1>4, PTL DEF Drawing!Spec
<1>6. Drawing!Spec => Drawing!StaysInside
  BY <1>2, <1>3, <1>4, PTL DEF Drawing!Spec, Drawing!StaysInside
<1> QED BY <1>5, <1>6

-----------------------------------------------------------------------------
(* The stages of an update, by the call that is next.  The child of the    *)
(* upper window has stages 8 to 10, if there is one.                       *)
HasChild == n_windows[2].child # Nil
Stages == IF HasChild THEN 0 .. 15 ELSE 0 .. 7 \cup 11 .. 15
At(q) == IF HasChild \/ q <= 8 THEN q ELSE q - 3
CallAt(q) ==
  CASE q = 0 -> Drawing!Enter(Drawing!Span(0, Width), 0)
    [] q = 1 -> Drawing!Filled("desktop", Drawing!Span(0, Width))
    [] q = 2 -> Drawing!Buffer("background", 0, 0, Background)
    [] q = 3 -> Drawing!Enter(n_windows[1].at, n_windows[1].at.x)
    [] q = 4 -> Drawing!Buffer("window", 1, 0, n_windows[1].at.w)
    [] q = 6 -> Drawing!Enter(n_windows[2].at, n_windows[2].at.x)
    [] q = 7 -> Drawing!Buffer("window", 2, 0, n_windows[2].at.w)
    [] q = 8 -> Drawing!Enter(n_windows[2].child.at, n_windows[2].child.at.x)
    [] q = 9 -> Drawing!Buffer("child", 2, 0, n_windows[2].child.width)
    [] q \in {5, 10, 11, 12} -> Drawing!Leave
    [] q = 13 -> Drawing!Enter(n_pointer, 0)
    [] q = 14 -> Drawing!Buffer("pointer", 0, n_pointer.x, n_pointer.w)
Ahead(q, calls) == RestOf(calls, Drawing!ScreenRender, At(q))

(* The regions at a stage: that of a window shows what of it is visible.   *)
Own(i) == Drawing!Points(n_windows[i].at)
Inner == Drawing!Span(n_windows[2].at.x + n_windows[2].child.at.x, n_windows[2].child.at.w)
Sees(r, dx, there) ==
  /\ r # <<>> /\ Head(r).dx = dx
  /\ Drawing!Points(Head(r).clip) = Drawing!Points(n_visible) \cap there
OfDesktop(r) == Sees(r, 0, Int) /\ Sees(Tail(r), 0, Int)
OfWindow(r, i) == Sees(r, n_windows[i].at.x, Own(i)) /\ OfDesktop(Tail(r))
Regions(q, r) ==
  /\ q = 0 => r = <<Whole>>
  /\ q \in {0, 13} => Sees(r, 0, Int)
  /\ q \in {1, 2, 3, 6, 12} => OfDesktop(r)
  /\ q \in {4, 5} => OfWindow(r, 1)
  /\ q \in {7, 8, 11} => OfWindow(r, 2)
  /\ q \in {9, 10} => Sees(r, Inner.x, Own(2) \cap Drawing!Points(Inner)) /\ OfWindow(Tail(r), 2)
  /\ q = 14 => Sees(r, 0, Drawing!Points(n_pointer))

(* What a point shows when some layers have been drawn.                    *)
Layer0(p) == <<"desktop", 0, p>>
Layer1(p) == IF p < Background THEN <<"background", 0, p>> ELSE Layer0(p)
Layer2(p) == IF p \in Own(1) THEN <<"window", 1, p - n_windows[1].at.x>> ELSE Layer1(p)
Layer3(p) == IF p \in Own(2) THEN <<"window", 2, p - n_windows[2].at.x>> ELSE Layer2(p)
Layer4(p) ==
  IF /\ HasChild /\ p \in Own(2) /\ p \in Drawing!Points(Inner)
     /\ p < Inner.x + n_windows[2].child.width
  THEN <<"child", 2, p - Inner.x>> ELSE Layer3(p)
Layer5(p) == IF p \in Drawing!Points(n_pointer) THEN <<"pointer", 0, p - n_pointer.x>>
             ELSE Layer4(p)
Picture(q, image) ==
  \A p \in Drawing!Points(n_visible) :
    /\ q = 2 => image[p] = Layer0(p)
    /\ q \in {3, 4} => image[p] = Layer1(p)
    /\ q \in {5, 6, 7} => image[p] = Layer2(p)
    /\ q \in {8, 9} => image[p] = Layer3(p)
    /\ q \in {10, 11, 12, 13, 14} => image[p] = Layer4(p)
    /\ q = 15 => image[p] = Layer5(p)
Progress ==
  \E q \in Stages : Ahead(q, n_todo) /\ Regions(q, n_regions) /\ Picture(q, n_screen)

LEMMA SceneIs ==
  ASSUME Scene
  PROVE  /\ n_pointer \in SpanSet /\ Len(n_windows) = 2
         /\ n_windows[1].at \in SpanSet /\ n_windows[1].child = Nil
         /\ n_windows[2].at \in SpanSet
         /\ HasChild => n_windows[2].child.at \in SpanSet /\ n_windows[2].child.width \in Nat
<1> PICK a \in SpanSet, b \in SpanSet, c \in [at : SpanSet, width : Nat] \cup {Nil} :
      n_windows = <<[at |-> a, child |-> Nil], [at |-> b, child |-> c]>>
  BY DEF Scene
<1>1. /\ Len(n_windows) = 2 /\ n_windows[1] = [at |-> a, child |-> Nil]
      /\ n_windows[2] = [at |-> b, child |-> c]
  OBVIOUS
<1> QED BY <1>1 DEF Scene, HasChild

IsJoin(c, a, b, m, n) ==
  /\ c \in Seq(Calls) /\ Len(c) = m + n /\ \A i \in 1 .. m : c[i] = a[i]
  /\ \A i \in m + 1 .. m + n : c[i] = b[i - m]

LEMMA Joined ==
  ASSUME NEW a \in Seq(Calls), NEW b \in Seq(Calls), NEW m \in Nat, NEW n \in Nat,
         m = Len(a), n = Len(b)
  PROVE  IsJoin(a \o b, a, b, m, n)
<1>1. /\ a \o b \in Seq(Calls) /\ Len(a \o b) = m + n
      /\ \A i \in 1 .. m : (a \o b)[i] = a[i]
      /\ \A i \in m + 1 .. m + n : (a \o b)[i] = b[i - m]
  OBVIOUS
<1> QED BY <1>1 DEF IsJoin

LEMMA CallAtIs ==
  ASSUME RenderNumbers, Scene, NEW q \in Stages, q # 15
  PROVE  CallAt(q) \in Calls
<1>1. /\ n_pointer.x \in Int /\ n_pointer.w \in Nat /\ n_pointer \in SpanSet
      /\ n_windows[1].at \in SpanSet /\ n_windows[1].at.x \in Int /\ n_windows[1].at.w \in Nat
      /\ n_windows[2].at \in SpanSet /\ n_windows[2].at.x \in Int /\ n_windows[2].at.w \in Nat
      /\ HasChild => /\ n_windows[2].child.at \in SpanSet /\ n_windows[2].child.width \in Nat
                     /\ n_windows[2].child.at.x \in Int
  BY SceneIs DEF SpanSet
<1>2. Drawing!Span(0, Width) \in SpanSet /\ Background \in Nat
  BY DEF RenderNumbers, Drawing!Span, SpanSet
<1>3. {"desktop", "background", "window", "child", "pointer"} \subseteq Owners
  BY DEF Owners
<1>4. CASE q \in {0, 3, 6, 13} \/ (q = 8 /\ HasChild)
  <2>1. \A s \in SpanSet, dx \in Int : Drawing!Enter(s, dx) \in Calls
    BY EnterIs, DrawnAre
  <2> QED BY <1>1, <1>2, <1>4, <2>1 DEF CallAt
<1>5. CASE q \in {2, 4, 7, 14} \/ (q = 9 /\ HasChild)
  <2>1. ASSUME NEW of \in Owners, NEW n \in Int, NEW p \in Int, NEW w \in Nat
        PROVE  Drawing!Buffer(of, n, p, w) \in Calls
    <3>1. 0 \in Nat
      OBVIOUS
    <3>2. Drawing!Buffer(of, n, p, w) \in Drawn
      BY <3>1, BufferIs, Zenon
    <3> QED BY <3>2, DrawnAre
  <2>2. /\ "background" \in Owners /\ "window" \in Owners /\ "child" \in Owners
        /\ "pointer" \in Owners /\ 0 \in Int /\ 1 \in Int /\ 2 \in Int
    BY <1>3
  <2>3. CASE q = 2
    <3>1. Drawing!Buffer("background", 0, 0, Background) \in Calls
      BY <1>2, <2>1, <2>2, <2>3, Zenon
    <3> QED BY <2>3, <3>1 DEF CallAt
  <2>4. CASE q = 4
    <3>1. Drawing!Buffer("window", 1, 0, n_windows[1].at.w) \in Calls
      BY <1>1, <2>1, <2>2, <2>4, Zenon
    <3> QED BY <2>4, <3>1 DEF CallAt
  <2>5. CASE q = 7
    <3>1. Drawing!Buffer("window", 2, 0, n_windows[2].at.w) \in Calls
      BY <1>1, <2>1, <2>2, <2>5, Zenon
    <3> QED BY <2>5, <3>1 DEF CallAt
  <2>6. CASE q = 9
    <3>2. n_windows[2].child.width \in Nat
      BY <1>1, <1>5, <2>6
    <3>1. Drawing!Buffer("child", 2, 0, n_windows[2].child.width) \in Calls
      BY <2>1, <2>2, <3>2, Zenon
    <3> QED BY <2>6, <3>1 DEF CallAt
  <2>7. CASE q = 14
    <3>1. Drawing!Buffer("pointer", 0, n_pointer.x, n_pointer.w) \in Calls
      BY <1>1, <2>1, <2>2, <2>7, Zenon
    <3> QED BY <2>7, <3>1 DEF CallAt
  <2> QED BY <1>5, <2>3, <2>4, <2>5, <2>6, <2>7
<1>6. CASE q \in {5, 11, 12} \/ q = 10
  <2>1. Drawing!Leave \in Calls
    BY LeaveIs, DrawnAre
  <2> QED BY <1>6, <2>1 DEF CallAt
<1>7. CASE q = 1
  <2>1. Drawing!Filled("desktop", Drawing!Span(0, Width)) \in Calls
    BY <1>2, <1>3, FillIs
  <2> QED BY <1>7, <2>1 DEF CallAt
<1>8. q \in {0, 1, 2, 3, 4, 5, 6, 7, 11, 12, 13, 14} \/ (q \in {8, 9, 10} /\ HasChild)
  BY DEF Stages
<1> QED BY <1>4, <1>5, <1>6, <1>7, <1>8

LEMMA ThreeAre ==
  ASSUME NEW a \in Calls, NEW b \in Calls, NEW c \in Calls, NEW s, s = <<a, b, c>>
  PROVE  s \in Seq(Calls) /\ Len(s) = 3 /\ s[1] = a /\ s[2] = b /\ s[3] = c
OBVIOUS

(* The calls of an update, one after the other.                            *)
LEMMA CallsAre ==
  ASSUME RenderNumbers, Scene
  PROVE  /\ Drawing!ScreenRender \in Seq(Calls) /\ Len(Drawing!ScreenRender) = At(15)
         /\ \A q \in Stages : q # 15 => Drawing!ScreenRender[At(q) + 1] = CallAt(q)
<1> PICK c0, c1, c2, c3, c4 : /\ c0 = CallAt(0) /\ c1 = CallAt(1) /\ c2 = CallAt(2)
                              /\ c3 = CallAt(3) /\ c4 = CallAt(4)
  OBVIOUS
<1> PICK c6, c7, c8, c9, c13, c14 : /\ c6 = CallAt(6) /\ c7 = CallAt(7) /\ c8 = CallAt(8)
                                    /\ c9 = CallAt(9) /\ c13 = CallAt(13) /\ c14 = CallAt(14)
  OBVIOUS
<1> PICK l : l = Drawing!Leave
  OBVIOUS
<1>1. l = CallAt(5) /\ l = CallAt(10) /\ l = CallAt(11) /\ l = CallAt(12)
  BY DEF CallAt
<1>2. /\ \A q \in {0, 1, 2, 3, 4, 5, 6, 7, 11, 12, 13, 14} : q \in Stages
      /\ HasChild => {8, 9, 10} \subseteq Stages
  BY DEF Stages
<1>3. /\ c0 \in Calls /\ c1 \in Calls /\ c2 \in Calls /\ c3 \in Calls /\ c4 \in Calls /\ l \in Calls
      /\ c6 \in Calls /\ c7 \in Calls /\ c13 \in Calls /\ c14 \in Calls
      /\ HasChild => c8 \in Calls /\ c9 \in Calls
  BY <1>1, <1>2, CallAtIs
<1> PICK u, v : u = Drawing!WindowRender(1) /\ v = Drawing!WindowRender(2)
  OBVIOUS
<1>4. u \in Seq(Calls) /\ Len(u) = 3 /\ u[1] = c3 /\ u[2] = c4 /\ u[3] = l
  <2>1. u = <<c3, c4>> \o <<>> \o <<l>>
    <3>1. c3 = Drawing!Enter(n_windows[1].at, n_windows[1].at.x)
          /\ c4 = Drawing!Buffer("window", 1, 0, n_windows[1].at.w)
      BY DEF CallAt
    <3> QED BY <3>1, SceneIs DEF Drawing!WindowRender
  <2>2. <<c3, c4>> \o <<>> = <<c3, c4>>
    OBVIOUS
  <2>3. u = <<c3, c4, l>>
    BY <1>3, <2>1, <2>2, LeftTriple
  <2> QED BY <1>3, <2>3, ThreeAre
<1>5. c6 = Drawing!Enter(n_windows[2].at, n_windows[2].at.x)
      /\ c7 = Drawing!Buffer("window", 2, 0, n_windows[2].at.w)
  BY DEF CallAt
<1>6. ~HasChild => v \in Seq(Calls) /\ Len(v) = 3 /\ v[1] = c6 /\ v[2] = c7 /\ v[3] = l
  <2> SUFFICES ASSUME ~HasChild
               PROVE  v \in Seq(Calls) /\ Len(v) = 3 /\ v[1] = c6 /\ v[2] = c7 /\ v[3] = l
    OBVIOUS
  <2>1. v = <<c6, c7>> \o <<>> \o <<l>>
    BY <1>5 DEF Drawing!WindowRender, HasChild
  <2>2. <<c6, c7>> \o <<>> = <<c6, c7>>
    OBVIOUS
  <2>3. v = <<c6, c7, l>>
    BY <1>3, <2>1, <2>2, LeftTriple
  <2> QED BY <1>3, <2>3, ThreeAre
<1>7. HasChild => /\ v \in Seq(Calls) /\ Len(v) = 6 /\ v[1] = c6 /\ v[2] = c7
                  /\ v[3] = c8 /\ v[4] = c9 /\ v[5] = l /\ v[6] = l
  <2> SUFFICES ASSUME HasChild
               PROVE  /\ v \in Seq(Calls) /\ Len(v) = 6 /\ v[1] = c6 /\ v[2] = c7
                      /\ v[3] = c8 /\ v[4] = c9 /\ v[5] = l /\ v[6] = l
    OBVIOUS
  <2>1. v = <<c6, c7>> \o <<c8, c9, l>> \o <<l>>
    <3>1. c8 = Drawing!Enter(n_windows[2].child.at, n_windows[2].child.at.x)
          /\ c9 = Drawing!Buffer("child", 2, 0, n_windows[2].child.width)
      BY DEF CallAt
    <3> QED BY <1>5, <3>1 DEF Drawing!WindowRender, HasChild
  <2> PICK a, b, d : a = <<c6, c7>> /\ b = <<c8, c9, l>> /\ d = <<l>>
    OBVIOUS
  <2>2. /\ a \in Seq(Calls) /\ Len(a) = 2 /\ a[1] = c6 /\ a[2] = c7
        /\ b \in Seq(Calls) /\ Len(b) = 3 /\ b[1] = c8 /\ b[2] = c9 /\ b[3] = l
        /\ d \in Seq(Calls) /\ Len(d) = 1 /\ d[1] = l
    BY <1>3
  <2> PICK e : e = a \o b
    OBVIOUS
  <2>3. /\ e \in Seq(Calls) /\ Len(e) = 5 /\ e[1] = c6 /\ e[2] = c7 /\ e[3] = c8 /\ e[4] = c9
        /\ e[5] = l
    BY <2>2
  <2> PICK g : g = e \o d
    OBVIOUS
  <2>4. /\ g \in Seq(Calls) /\ Len(g) = 6 /\ g[1] = c6 /\ g[2] = c7 /\ g[3] = c8 /\ g[4] = c9
        /\ g[5] = l /\ g[6] = l
    BY <2>2, <2>3
  <2> QED BY <2>1, <2>4
<1> PICK n : n = IF HasChild THEN 6 ELSE 3
  OBVIOUS
<1>n. n \in Nat /\ n = Len(v)
  BY <1>6, <1>7
<1>8. v \in Seq(Calls)
  BY <1>6, <1>7
<1> PICK desk : desk = <<c1, c2>> \o u \o v
  OBVIOUS
<1>9. /\ desk \in Seq(Calls) /\ Len(desk) = n + 5 /\ desk[1] = c1 /\ desk[2] = c2
      /\ desk[3] = c3 /\ desk[4] = c4 /\ desk[5] = l /\ \A i \in 6 .. n + 5 : desk[i] = v[i - 5]
  <2> PICK a : a = <<c1, c2>>
    OBVIOUS
  <2>1. a \in Seq(Calls) /\ Len(a) = 2 /\ a[1] = c1 /\ a[2] = c2
    BY <1>3
  <2> PICK b : b = a \o u
    OBVIOUS
  <2>2. IsJoin(b, a, u, 2, 3)
    BY <1>4, <2>1, Joined
  <2>3. /\ b \in Seq(Calls) /\ Len(b) = 5 /\ b[1] = c1 /\ b[2] = c2 /\ b[3] = c3 /\ b[4] = c4
        /\ b[5] = l
    BY <1>4, <2>1, <2>2 DEF IsJoin
  <2>4. IsJoin(desk, b, v, 5, n)
    <3>1. desk = b \o v
      BY Zenon
    <3>2. 5 \in Nat /\ 5 = Len(b)
      BY <2>3
    <3> QED BY <1>8, <1>n, <2>3, <3>1, <3>2, Joined, Zenon
  <2> QED BY <1>n, <2>3, <2>4 DEF IsJoin
<1> PICK s : s = Drawing!ScreenRender
  OBVIOUS
<1>10. s = <<c0>> \o desk \o <<l>> \o <<c13, c14>>
  <2>1. c0 = Drawing!Enter(Drawing!Span(0, Width), 0)
        /\ c1 = Drawing!Filled("desktop", Drawing!Span(0, Width))
        /\ c2 = Drawing!Buffer("background", 0, 0, Background)
        /\ c13 = Drawing!Enter(n_pointer, 0)
        /\ c14 = Drawing!Buffer("pointer", 0, n_pointer.x, n_pointer.w)
    BY DEF CallAt
  <2> QED BY <2>1 DEF Drawing!ScreenRender, Drawing!DesktopRender, Drawing!PointerRender
<1>11. /\ s \in Seq(Calls) /\ Len(s) = n + 9 /\ s[1] = c0
       /\ \A i \in 2 .. n + 6 : s[i] = desk[i - 1]
       /\ s[n + 7] = l /\ s[n + 8] = c13 /\ s[n + 9] = c14
  <2> PICK a, b, d : a = <<c0>> /\ b = <<l>> /\ d = <<c13, c14>>
    OBVIOUS
  <2>1. /\ a \in Seq(Calls) /\ Len(a) = 1 /\ a[1] = c0
        /\ b \in Seq(Calls) /\ Len(b) = 1 /\ b[1] = l
        /\ d \in Seq(Calls) /\ Len(d) = 2 /\ d[1] = c13 /\ d[2] = c14
    BY <1>3
  <2> PICK e, g : e = a \o desk /\ g = e \o b
    OBVIOUS
  <2>n. /\ n + 5 \in Nat /\ n + 6 \in Nat /\ n + 7 \in Nat /\ 1 \in Nat /\ 2 \in Nat
        /\ 1 + (n + 5) = n + 6 /\ (n + 6) + 1 = n + 7 /\ (n + 7) + 2 = n + 9
    BY <1>n
  <2>2. IsJoin(e, a, desk, 1, n + 5)
    BY <1>9, <2>1, <2>n, Joined, Zenon
  <2>3. e \in Seq(Calls) /\ Len(e) = n + 6
    BY <2>n, <2>2, Zenon DEF IsJoin
  <2>4. IsJoin(g, e, b, n + 6, 1)
    BY <2>1, <2>n, <2>3, Joined, Zenon
  <2>5. g \in Seq(Calls) /\ Len(g) = n + 7
    BY <2>n, <2>4, Zenon DEF IsJoin
  <2>6. IsJoin(s, g, d, n + 7, 2)
    <3>1. s = g \o d
      BY <1>10, Zenon
    <3>2. d \in Seq(Calls) /\ 2 = Len(d) /\ n + 7 = Len(g)
      BY <2>1, <2>5
    <3>3. IsJoin(g \o d, g, d, n + 7, 2)
      BY <2>n, <2>5, <3>2, Joined, Zenon
    <3> QED BY <3>1, <3>3, Zenon
  <2>7. s \in Seq(Calls) /\ Len(s) = n + 9 /\ s[n + 8] = c13 /\ s[n + 9] = c14
    <3>1. n + 8 \in (n + 7) + 1 .. (n + 7) + 2 /\ n + 9 \in (n + 7) + 1 .. (n + 7) + 2
          /\ (n + 8) - (n + 7) = 1 /\ (n + 9) - (n + 7) = 2
      BY <1>n
    <3>2. s[n + 8] = d[(n + 8) - (n + 7)] /\ s[n + 9] = d[(n + 9) - (n + 7)]
      BY <2>6, <3>1, Zenon DEF IsJoin
    <3>3. s \in Seq(Calls) /\ Len(s) = n + 9
      BY <2>n, <2>6, Zenon DEF IsJoin
    <3> QED BY <2>1, <3>1, <3>2, <3>3
  <2>8. s[n + 7] = l
    <3>1. n + 7 \in (n + 6) + 1 .. (n + 6) + 1 /\ n + 7 \in 1 .. n + 7 /\ (n + 7) - (n + 6) = 1
      BY <1>n
    <3>2. s[n + 7] = g[n + 7] /\ g[n + 7] = b[(n + 7) - (n + 6)]
      BY <2>4, <2>6, <3>1, Zenon DEF IsJoin
    <3> QED BY <2>1, <3>1, <3>2
  <2>9. ASSUME NEW i \in 1 .. n + 6 PROVE s[i] = e[i]
    <3>1. i \in 1 .. n + 7
      BY <1>n
    <3> QED BY <2>4, <2>6, <3>1, Zenon DEF IsJoin
  <2>10. e[1] = c0 /\ \A i \in 2 .. n + 6 : e[i] = desk[i - 1]
    <3>1. 1 \in 1 .. 1 /\ \A i \in 2 .. n + 6 : i \in 1 + 1 .. 1 + (n + 5)
      BY <1>n
    <3>2. e[1] = a[1] /\ \A i \in 2 .. n + 6 : e[i] = desk[i - 1]
      BY <2>2, <3>1, Zenon DEF IsJoin
    <3> QED BY <2>1, <3>2
  <2>11. 1 \in 1 .. n + 6 /\ \A i \in 2 .. n + 6 : i \in 1 .. n + 6
    BY <1>n
  <2> QED BY <2>7, <2>8, <2>9, <2>10, <2>11, Zenon
<1>12. /\ s[1] = c0 /\ s[2] = c1 /\ s[3] = c2 /\ s[4] = c3 /\ s[5] = c4 /\ s[6] = l
       /\ \A i \in 7 .. n + 6 : s[i] = v[i - 6]
  <2>1. ASSUME NEW i \in 7 .. n + 6 PROVE s[i] = v[i - 6]
    <3>1. i \in 2 .. n + 6 /\ i - 1 \in 6 .. n + 5 /\ (i - 1) - 5 = i - 6
      BY <1>n
    <3>2. s[i] = desk[i - 1] /\ desk[i - 1] = v[(i - 1) - 5]
      BY <1>9, <1>11, <3>1
    <3> QED BY <3>1, <3>2
  <2>2. /\ s[2] = desk[1] /\ s[3] = desk[2] /\ s[4] = desk[3] /\ s[5] = desk[4] /\ s[6] = desk[5]
    <3>1. \A i \in 2 .. 6 : i \in 2 .. n + 6
      BY <1>n
    <3>2. \A i \in 2 .. 6 : s[i] = desk[i - 1]
      BY <1>11, <3>1
    <3>3. /\ 2 \in 2 .. 6 /\ 3 \in 2 .. 6 /\ 4 \in 2 .. 6 /\ 5 \in 2 .. 6 /\ 6 \in 2 .. 6
          /\ 2 - 1 = 1 /\ 3 - 1 = 2 /\ 4 - 1 = 3 /\ 5 - 1 = 4 /\ 6 - 1 = 5
      OBVIOUS
    <3> QED BY <3>2, <3>3, Zenon
  <2> QED BY <1>9, <1>11, <2>1, <2>2
<1>13. CASE HasChild
  <2>1. /\ s[7] = c6 /\ s[8] = c7 /\ s[9] = c8 /\ s[10] = c9 /\ s[11] = l /\ s[12] = l
        /\ s[13] = l /\ s[14] = c13 /\ s[15] = c14 /\ Len(s) = 15
    BY <1>7, <1>11, <1>12, <1>13, <1>n
  <2>2. \A q \in 0 .. 15 : At(q) = q
    BY <1>13 DEF At
  <2>3. \A q \in Stages : q \in 0 .. 15
    BY <1>13 DEF Stages
  <2>4. ASSUME NEW q \in 0 .. 15, q # 15 PROVE s[q + 1] = CallAt(q)
    <3>1. \/ q = 0 \/ q = 1 \/ q = 2 \/ q = 3 \/ q = 4 \/ q = 5 \/ q = 6 \/ q = 7
          \/ q = 8 \/ q = 9 \/ q = 10 \/ q = 11 \/ q = 12 \/ q = 13 \/ q = 14
      BY <2>4
    <3> QED BY <1>1, <1>12, <2>1, <3>1
  <2>5. ASSUME NEW q \in Stages, q # 15 PROVE s[At(q) + 1] = CallAt(q)
    <3>1. q \in 0 .. 15 /\ At(q) = q
      BY <2>2, <2>3
    <3> QED BY <2>4, <2>5, <3>1
  <2>6. At(15) = 15
    BY <2>2
  <2> QED BY <1>11, <2>1, <2>5, <2>6
<1>14. CASE ~HasChild
  <2>1. /\ s[7] = c6 /\ s[8] = c7 /\ s[9] = l
        /\ s[10] = l /\ s[11] = c13 /\ s[12] = c14 /\ Len(s) = 12
    BY <1>6, <1>11, <1>12, <1>14, <1>n
  <2>2. \A q \in 0 .. 15 : At(q) = IF q <= 8 THEN q ELSE q - 3
    BY <1>14 DEF At
  <2>3. Stages = 0 .. 7 \cup 11 .. 15
    BY <1>14 DEF Stages
  <2>4. ASSUME NEW q \in 0 .. 7 PROVE s[q + 1] = CallAt(q)
    BY <1>1, <1>12, <2>1
  <2>5. ASSUME NEW q \in 11 .. 14 PROVE s[q - 3 + 1] = CallAt(q)
    BY <1>1, <1>12, <2>1
  <2>6. ASSUME NEW q \in Stages, q # 15 PROVE s[At(q) + 1] = CallAt(q)
    <3>1. q \in 0 .. 7 \/ q \in 11 .. 14
      BY <2>3, <2>6
    <3>2. CASE q \in 0 .. 7
      <4>1. At(q) = q
        BY <2>2, <3>2
      <4> QED BY <2>4, <3>2, <4>1
    <3>3. CASE q \in 11 .. 14
      <4>1. At(q) = q - 3
        BY <2>2, <3>3
      <4> QED BY <2>5, <3>3, <4>1
    <3> QED BY <3>1, <3>2, <3>3
  <2>7. At(15) = 12
    BY <2>2
  <2> QED BY <1>11, <2>1, <2>6, <2>7
<1> QED BY <1>13, <1>14

(* How deep the calls of a stage are.                                      *)
DepthAt(q) ==
  CASE q \in {0, 13} -> 0 [] q \in {1, 2, 3, 6, 12, 14, 15} -> 1
    [] q \in {4, 5, 7, 8, 11} -> 2 [] q \in {9, 10} -> 3

LEMMA DepthIs ==
  ASSUME RenderNumbers, Scene, NEW f, Levels(Drawing!ScreenRender, f), f[0] = 0
  PROVE  \A q \in Stages : f[At(q)] = DepthAt(q)
<1> PICK s : s = Drawing!ScreenRender
  OBVIOUS
<1>1. /\ s \in Seq(Calls) /\ Len(s) = At(15)
      /\ \A q \in Stages : q # 15 => s[At(q) + 1] = CallAt(q)
  BY CallsAre
<1>2. /\ \A i \in 1 .. Len(s) : f[i] = f[i - 1] + Drawing!Change(s[i])
  BY DEF Levels
<1> PICK d : d = [q \in 0 .. 15 |-> IF q \in {0, 3, 6, 8, 13} THEN 1
                                    ELSE IF q \in {5, 10, 11, 12} THEN -1 ELSE 0]
  OBVIOUS
<1>3. ASSUME NEW q \in Stages, q # 15 PROVE Drawing!Change(CallAt(q)) = d[q]
  <2>1. q \in 0 .. 14
    BY <1>3 DEF Stages
  <2>2. CASE q \in {0, 3, 6, 8, 13}
    <3>1. CallAt(q).op = "enter"
      BY <2>2 DEF CallAt, Drawing!Enter
    <3> QED BY <1>3, <2>1, <2>2, <3>1, CallAtIs, ChangeIs
  <2>3. CASE q \in {5, 10, 11, 12}
    <3>1. CallAt(q).op = "leave"
      BY <2>3 DEF CallAt, Drawing!Leave
    <3> QED BY <1>3, <2>1, <2>3, <3>1, CallAtIs, ChangeIs
  <2>4. CASE q \in {1, 2, 4, 7, 9, 14}
    <3>1. CallAt(q).op \in {"buffer", "fill"}
      BY <2>4 DEF CallAt, Drawing!Buffer, Drawing!Filled
    <3> QED BY <1>3, <2>1, <2>4, <3>1, CallAtIs, ChangeIs
  <2> QED BY <2>1, <2>2, <2>3, <2>4
<1>4. /\ d[0] = 1 /\ d[1] = 0 /\ d[2] = 0 /\ d[3] = 1 /\ d[4] = 0 /\ d[5] = -1 /\ d[6] = 1
      /\ d[7] = 0 /\ d[8] = 1 /\ d[9] = 0 /\ d[10] = -1 /\ d[11] = -1 /\ d[12] = -1
      /\ d[13] = 1 /\ d[14] = 0
  OBVIOUS
<1>5. ASSUME NEW q \in Stages, q # 15 PROVE f[At(q) + 1] = f[At(q)] + d[q]
  <2>1. At(q) + 1 \in 1 .. Len(s) /\ (At(q) + 1) - 1 = At(q)
    <3>1. At(q) \in Nat /\ At(q) + 1 <= At(15)
      <4>1. CASE HasChild
        BY <1>5, <4>1 DEF At, Stages
      <4>2. CASE ~HasChild
        BY <1>5, <4>2 DEF At, Stages
      <4> QED BY <4>1, <4>2
    <3>2. At(15) \in Nat
      BY DEF At
    <3> QED BY <1>1, <3>1, <3>2
  <2> QED BY <1>1, <1>2, <1>3, <1>5, <2>1
<1>6. CASE HasChild
  <2>1. \A q \in 0 .. 14 : f[q + 1] = f[q] + d[q]
    BY <1>5, <1>6 DEF At, Stages
  <2>2. /\ f[1] = f[0] + d[0] /\ f[2] = f[1] + d[1] /\ f[3] = f[2] + d[2] /\ f[4] = f[3] + d[3]
        /\ f[5] = f[4] + d[4] /\ f[6] = f[5] + d[5] /\ f[7] = f[6] + d[6] /\ f[8] = f[7] + d[7]
        /\ f[9] = f[8] + d[8] /\ f[10] = f[9] + d[9] /\ f[11] = f[10] + d[10]
        /\ f[12] = f[11] + d[11] /\ f[13] = f[12] + d[12] /\ f[14] = f[13] + d[13]
        /\ f[15] = f[14] + d[14]
    BY <2>1
  <2>3. /\ f[1] = 1 /\ f[2] = 1 /\ f[3] = 1 /\ f[4] = 2 /\ f[5] = 2 /\ f[6] = 1 /\ f[7] = 2
        /\ f[8] = 2 /\ f[9] = 3 /\ f[10] = 3 /\ f[11] = 2 /\ f[12] = 1 /\ f[13] = 0 /\ f[14] = 1
        /\ f[15] = 1
    BY <1>4, <2>2
  <2>4. ASSUME NEW q \in 0 .. 15 PROVE f[q] = DepthAt(q)
    <3>1. \/ q = 0 \/ q = 1 \/ q = 2 \/ q = 3 \/ q = 4 \/ q = 5 \/ q = 6 \/ q = 7
          \/ q = 8 \/ q = 9 \/ q = 10 \/ q = 11 \/ q = 12 \/ q = 13 \/ q = 14 \/ q = 15
      OBVIOUS
    <3> QED BY <2>3, <3>1 DEF DepthAt
  <2> QED BY <1>6, <2>4 DEF At, Stages
<1>7. CASE ~HasChild
  <2>1. (\A q \in 0 .. 7 : f[q + 1] = f[q] + d[q])
        /\ \A q \in 11 .. 14 : f[q - 3 + 1] = f[q - 3] + d[q]
    <3>1. ASSUME NEW q \in 0 .. 7 PROVE f[q + 1] = f[q] + d[q]
      BY <1>5, <1>7 DEF At, Stages
    <3>2. ASSUME NEW q \in 11 .. 14 PROVE f[q - 3 + 1] = f[q - 3] + d[q]
      BY <1>5, <1>7 DEF At, Stages
    <3> QED BY <3>1, <3>2
  <2>2. /\ f[1] = f[0] + d[0] /\ f[2] = f[1] + d[1] /\ f[3] = f[2] + d[2] /\ f[4] = f[3] + d[3]
        /\ f[5] = f[4] + d[4] /\ f[6] = f[5] + d[5] /\ f[7] = f[6] + d[6] /\ f[8] = f[7] + d[7]
    BY <2>1
  <2>3. /\ f[9] = f[8] + d[11] /\ f[10] = f[9] + d[12] /\ f[11] = f[10] + d[13]
        /\ f[12] = f[11] + d[14]
    <3>1. f[11 - 3 + 1] = f[11 - 3] + d[11] /\ f[12 - 3 + 1] = f[12 - 3] + d[12]
          /\ f[13 - 3 + 1] = f[13 - 3] + d[13] /\ f[14 - 3 + 1] = f[14 - 3] + d[14]
      BY <2>1
    <3> QED BY <3>1
  <2>4. /\ f[1] = 1 /\ f[2] = 1 /\ f[3] = 1 /\ f[4] = 2 /\ f[5] = 2 /\ f[6] = 1 /\ f[7] = 2
        /\ f[8] = 2 /\ f[9] = 1 /\ f[10] = 0 /\ f[11] = 1 /\ f[12] = 1
    BY <1>4, <2>2, <2>3
  <2>5. ASSUME NEW q \in Stages PROVE f[At(q)] = DepthAt(q)
    <3>1. \/ q = 0 \/ q = 1 \/ q = 2 \/ q = 3 \/ q = 4 \/ q = 5 \/ q = 6 \/ q = 7
          \/ q = 11 \/ q = 12 \/ q = 13 \/ q = 14 \/ q = 15
      BY <1>7 DEF Stages
    <3>2. At(q) = IF q <= 8 THEN q ELSE q - 3
      BY <1>7 DEF At
    <3> QED BY <2>4, <3>1, <3>2 DEF DepthAt
  <2> QED BY <2>5
<1> QED BY <1>6, <1>7

(* A call that renderer_enter answers 0 is followed by what comes after    *)
(* its leave, the first call as deep as it is.                             *)
GoesTo(t, s, f, k) ==
  \E e \in Nat :
    /\ RestOf(t, s, k + e) /\ k + e <= Len(s) /\ e > 0
    /\ \A i \in 1 .. e - 1 : f[k + i] # f[k]
    /\ f[k + e] = f[k] \/ k + e = Len(s)

LEMMA PastLeaveIs ==
  ASSUME NEW s \in Seq(Calls), NEW f, Levels(s, f), NEW k \in Nat, NEW c, RestOf(c, s, k),
         c # <<>>
  PROVE  GoesTo(Drawing!PastLeave(c), s, f, k)
<1> PICK n \in Nat : n = Len(s)
  OBVIOUS
<1>2. /\ k <= n /\ c \in Seq(Calls) /\ Len(c) = n - k
      /\ \A j \in 1 .. n - k : c[j] = s[k + j]
  BY DEF RestOf
<1>m. n - k \in Nat /\ n - k # 0
  BY <1>2
<1> PICK m \in Nat : m = n - k /\ m # 0
  BY <1>m
<1> DEFINE ends == {i \in 1 .. Len(c) : Drawing!Depths(c)[i] = 0}
           end == IF ends = {} THEN Len(c) ELSE CHOOSE i \in ends : \A h \in ends : i <= h
<1>3. Drawing!PastLeave(c) = SubSeq(c, end + 1, Len(c))
  BY DEF Drawing!PastLeave
<1>4. end \in 1 .. m /\ (ends # {} => end \in ends /\ \A h \in ends : end <= h)
  <2>1. CASE ends = {}
    BY <1>2, <2>1
  <2>2. CASE ends # {}
    <3>1. ends \subseteq 1 .. m
      BY <1>2
    <3>2. \E i \in ends : \A h \in ends : i <= h
      <4>1. ends \subseteq Nat
        BY <3>1
      <4> HIDE DEF ends
      <4> QED BY <2>2, <4>1, LeastNumber
    <3>3. end \in ends /\ \A h \in ends : end <= h
      <4> HIDE DEF ends
      <4> QED BY <2>2, <3>2
    <3> HIDE DEF end, ends
    <3> QED BY <2>2, <3>1, <3>3
  <2> QED BY <2>1, <2>2
<1> PICK e : e = end
  OBVIOUS
<1>5. /\ e \in 1 .. m /\ (ends # {} => e \in ends /\ \A h \in ends : e <= h)
      /\ (ends = {} => e = m)
  BY <1>2, <1>4
<1>6. Drawing!PastLeave(c) = SubSeq(c, e + 1, m)
  BY <1>2, <1>3
<1> HIDE DEF end
<1> PICK t : t = SubSeq(c, e + 1, m)
  OBVIOUS
<1>7. t \in Seq(Calls) /\ Len(t) = m - e /\ \A j \in 1 .. m - e : t[j] = c[e + j]
  <2> HIDE DEF ends
  <2>1. CASE e = m
    BY <1>2, <2>1
  <2>2. CASE e < m
    BY <1>2, <1>5, <2>2
  <2> QED BY <1>5, <2>1, <2>2
<1>8. RestOf(t, s, k + e) /\ k + e <= n
  <2> HIDE DEF ends
  <2>1. ASSUME NEW j \in 1 .. n - (k + e) PROVE t[j] = s[(k + e) + j]
    <3>1. j \in 1 .. m - e /\ e + j \in 1 .. n - k /\ k + (e + j) = (k + e) + j
      BY <1>5
    <3> QED BY <1>2, <1>7, <3>1
  <2>2. k + e \in 0 .. n /\ m - e = n - (k + e)
    BY <1>2, <1>5
  <2> QED BY <1>7, <2>1, <2>2 DEF RestOf
<1>9. \A i \in 1 .. m : i \in ends <=> f[k + i] = f[k]
  <2> TAKE i \in 1 .. m
  <2>1. Drawing!Depths(c)[i] = f[k + i] - f[k]
    <3>1. i \in 0 .. Len(s) - k
      OBVIOUS
    <3> QED BY <3>1, DepthsOfRest
  <2>2. f[k + i] \in Nat /\ f[k] \in Nat
    <3>1. f \in [0 .. n -> Nat] /\ k + i \in 0 .. n /\ k \in 0 .. n
      BY <1>2 DEF Levels
    <3> QED BY <3>1
  <2>3. i \in 1 .. Len(c)
    BY <1>2
  <2> QED BY <2>1, <2>2, <2>3
<1> HIDE DEF ends
<1>10. \A i \in 1 .. e - 1 : f[k + i] # f[k]
  <2> TAKE i \in 1 .. e - 1
  <2>1. i \in 1 .. m /\ i < e
    BY <1>5
  <2>2. i \notin ends
    BY <1>5, <2>1
  <2> QED BY <1>9, <2>1, <2>2
<1>11. f[k + e] = f[k] \/ k + e = n
  BY <1>5, <1>9
<1>12. e \in Nat /\ e > 0
  BY <1>5
<1>13. RestOf(Drawing!PastLeave(c), s, k + e)
  BY <1>6, <1>8
<1>14. k + e <= Len(s) /\ (f[k + e] = f[k] \/ k + e = Len(s))
  BY <1>8, <1>11
<1> QED BY <1>10, <1>12, <1>13, <1>14, Zenon DEF GoesTo

(* Where it goes on.                                                       *)
LEMMA Skips ==
  ASSUME RenderNumbers, Scene, NEW q \in Stages, q \in {3, 6, 8, 13}, Ahead(q, n_todo),
         n_todo # <<>>
  PROVE  /\ q = 3 => 6 \in Stages /\ Ahead(6, Drawing!PastLeave(n_todo))
         /\ q = 6 => 12 \in Stages /\ Ahead(12, Drawing!PastLeave(n_todo))
         /\ q = 8 => 11 \in Stages /\ Ahead(11, Drawing!PastLeave(n_todo))
         /\ q = 13 => 15 \in Stages /\ Ahead(15, Drawing!PastLeave(n_todo))
<1> PICK s, t : s = Drawing!ScreenRender /\ t = Drawing!PastLeave(n_todo)
  OBVIOUS
<1>1. s \in Seq(Calls) /\ Len(s) = At(15)
  BY CallsAre
<1> PICK f : Levels(s, f) /\ f[0] = 0
  BY ScreenCalls DEF Level
<1>2. \A r \in Stages : f[At(r)] = DepthAt(r)
  BY DepthIs
<1>3. At(q) \in Nat /\ RestOf(n_todo, s, At(q))
  BY DEF Ahead, At
<1>4. PICK e \in Nat :
        /\ RestOf(t, s, At(q) + e) /\ At(q) + e <= Len(s) /\ e > 0
        /\ \A i \in 1 .. e - 1 : f[At(q) + i] # f[At(q)]
        /\ f[At(q) + e] = f[At(q)] \/ At(q) + e = Len(s)
  <2> PICK k \in Nat : k = At(q)
    BY <1>3
  <2>1. RestOf(n_todo, s, k) /\ n_todo # <<>>
    BY <1>3
  <2>2. GoesTo(Drawing!PastLeave(n_todo), s, f, k)
    BY <1>1, <2>1, PastLeaveIs, Zenon
  <2>3. GoesTo(t, s, f, At(q))
    BY <2>2, Zenon
  <2> QED BY <2>3, Zenon DEF GoesTo
<1>5. CASE HasChild
  <2>1. /\ Len(s) = 15 /\ At(q) = q /\ \A r \in 0 .. 15 : r \in Stages /\ At(r) = r
    BY <1>1, <1>5 DEF At, Stages
  <2>2. \A r \in 0 .. 15 : f[r] = DepthAt(r)
    BY <1>2, <2>1
  <2>3. /\ f[3] = 1 /\ f[4] = 2 /\ f[5] = 2 /\ f[6] = 1 /\ f[7] = 2
        /\ f[8] = 2 /\ f[9] = 3 /\ f[10] = 3 /\ f[11] = 2 /\ f[12] = 1 /\ f[13] = 0 /\ f[14] = 1
        /\ f[15] = 1
    BY <2>2 DEF DepthAt
  <2>4. \A i \in 1 .. e - 1 : f[q + i] # f[q]
    BY <1>4, <2>1
  <2>5. f[q + e] = f[q] \/ q + e = 15
    BY <1>4, <2>1
  <2>6. q + e <= 15
    BY <1>4, <2>1
  <2>7. CASE q = 3
    <3>1. e <= 3
      <4> SUFFICES ASSUME 3 \in 1 .. e - 1 PROVE FALSE
        OBVIOUS
      <4>1. f[3 + 3] # f[3]
        BY <2>4, <2>7
      <4> QED BY <2>3, <4>1
    <3>2. e = 1 \/ e = 2 \/ e = 3
      BY <1>4, <3>1
    <3>3. e = 3
      BY <2>3, <2>5, <2>7, <3>2
    <3> QED BY <1>4, <2>1, <2>7, <3>3 DEF Ahead
  <2>8. CASE q = 6
    <3>1. e <= 6
      <4> SUFFICES ASSUME 6 \in 1 .. e - 1 PROVE FALSE
        OBVIOUS
      <4>1. f[6 + 6] # f[6]
        BY <2>4, <2>8
      <4> QED BY <2>3, <4>1
    <3>2. e = 1 \/ e = 2 \/ e = 3 \/ e = 4 \/ e = 5 \/ e = 6
      BY <1>4, <3>1
    <3>3. e = 6
      BY <2>3, <2>5, <2>8, <3>2
    <3> QED BY <1>4, <2>1, <2>8, <3>3 DEF Ahead
  <2>9. CASE q = 8
    <3>1. e <= 3
      <4> SUFFICES ASSUME 3 \in 1 .. e - 1 PROVE FALSE
        OBVIOUS
      <4>1. f[8 + 3] # f[8]
        BY <2>4, <2>9
      <4> QED BY <2>3, <4>1
    <3>2. e = 1 \/ e = 2 \/ e = 3
      BY <1>4, <3>1
    <3>3. e = 3
      BY <2>3, <2>5, <2>9, <3>2
    <3> QED BY <1>4, <2>1, <2>9, <3>3 DEF Ahead
  <2>10. CASE q = 13
    <3>1. e = 1 \/ e = 2
      BY <1>4, <2>6, <2>10
    <3>2. e = 2
      BY <2>3, <2>5, <2>10, <3>1
    <3> QED BY <1>4, <2>1, <2>10, <3>2 DEF Ahead
  <2> QED BY <2>7, <2>8, <2>9, <2>10
<1>6. CASE ~HasChild
  <2>1. /\ Len(s) = 12 /\ \A r \in Stages : At(r) = IF r <= 8 THEN r ELSE r - 3
        /\ \A r \in 0 .. 7 : r \in Stages
        /\ \A r \in 11 .. 15 : r \in Stages
    BY <1>1, <1>6 DEF At, Stages
  <2>2. /\ f[At(3)] = 1 /\ f[At(4)] = 2 /\ f[At(5)] = 2 /\ f[At(6)] = 1 /\ f[At(7)] = 2
        /\ f[At(11)] = 2 /\ f[At(12)] = 1 /\ f[At(13)] = 0 /\ f[At(14)] = 1 /\ f[At(15)] = 1
    BY <1>2, <2>1 DEF DepthAt
  <2>3. /\ At(3) = 3 /\ At(4) = 4 /\ At(5) = 5 /\ At(6) = 6 /\ At(7) = 7 /\ At(11) = 8
        /\ At(12) = 9 /\ At(13) = 10 /\ At(14) = 11 /\ At(15) = 12
    BY <2>1
  <2>4. /\ f[3] = 1 /\ f[4] = 2 /\ f[5] = 2 /\ f[6] = 1 /\ f[7] = 2 /\ f[8] = 2 /\ f[9] = 1
        /\ f[10] = 0 /\ f[11] = 1 /\ f[12] = 1
    BY <2>2, <2>3
  <2>5. CASE q = 3
    <3>1. e <= 3
      <4> SUFFICES ASSUME 3 \in 1 .. e - 1 PROVE FALSE
        OBVIOUS
      <4>1. f[3 + 3] # f[3]
        BY <1>4, <2>3, <2>5
      <4> QED BY <2>4, <4>1
    <3>2. e = 1 \/ e = 2 \/ e = 3
      BY <1>4, <3>1
    <3>3. e = 3
      BY <1>4, <2>1, <2>3, <2>4, <2>5, <3>2
    <3> QED BY <1>4, <2>1, <2>3, <2>5, <3>3 DEF Ahead
  <2>6. CASE q = 6
    <3>1. e <= 3
      <4> SUFFICES ASSUME 3 \in 1 .. e - 1 PROVE FALSE
        OBVIOUS
      <4>1. f[6 + 3] # f[6]
        BY <1>4, <2>3, <2>6
      <4> QED BY <2>4, <4>1
    <3>2. e = 1 \/ e = 2 \/ e = 3
      BY <1>4, <3>1
    <3>3. e = 3
      BY <1>4, <2>1, <2>3, <2>4, <2>6, <3>2
    <3> QED BY <1>4, <2>1, <2>3, <2>6, <3>3 DEF Ahead
  <2>7. CASE q = 13
    <3>1. e = 1 \/ e = 2
      BY <1>4, <2>1, <2>3, <2>7
    <3>2. e = 2
      BY <1>4, <2>1, <2>3, <2>4, <2>7, <3>1
    <3> QED BY <1>4, <2>1, <2>3, <2>7, <3>2 DEF Ahead
  <2>8. q # 8
    BY <1>6 DEF Stages
  <2> QED BY <2>5, <2>6, <2>7, <2>8
<1> QED BY <1>5, <1>6

(* What comes after a stage, and when there is nothing left.               *)
After(q) == IF q = 7 /\ ~HasChild THEN 11 ELSE q + 1

LEMMA NextStage ==
  ASSUME RenderNumbers, Scene, NEW q \in Stages, Ahead(q, n_todo), n_todo # <<>>
  PROVE  /\ q # 15 /\ Head(n_todo) = CallAt(q)
         /\ After(q) \in Stages /\ Ahead(After(q), Tail(n_todo))
<1> PICK s : s = Drawing!ScreenRender
  OBVIOUS
<1>1. /\ s \in Seq(Calls) /\ Len(s) = At(15)
      /\ \A r \in Stages : r # 15 => s[At(r) + 1] = CallAt(r)
  BY CallsAre
<1> PICK c : c = n_todo
  OBVIOUS
<1> PICK n \in Nat, k \in Nat : n = Len(s) /\ k = At(q)
  <2>1. At(q) \in Nat
    BY DEF At, Stages
  <2> QED BY <1>1, <2>1
<1>2. /\ k <= n /\ c \in Seq(Calls) /\ c # <<>> /\ Len(c) = n - k
      /\ \A j \in 1 .. n - k : c[j] = s[k + j]
  BY DEF RestOf, Ahead
<1>3. k < n
  BY <1>2
<1>4. q # 15
  BY <1>1, <1>3
<1>5. Head(c) = s[k + 1]
  <2>1. Head(c) = c[1]
    BY <1>2
  <2>2. 1 \in 1 .. n - k
    BY <1>3
  <2> QED BY <1>2, <2>1, <2>2
<1>6. After(q) \in Stages /\ At(After(q)) = k + 1
  BY <1>4 DEF After, At, Stages
<1>7. RestOf(Tail(c), s, k + 1)
  <2>n. n - k \in Nat
    BY <1>3
  <2> PICK m \in Nat : m = n - k
    BY <2>n
  <2> PICK t : t = Tail(c)
    OBVIOUS
  <2>0. c \in Seq(Calls) /\ Len(c) = m /\ c # <<>> /\ t = Tail(c)
    BY <1>2
  <2>1. t \in Seq(Calls) /\ Len(t) = m - 1 /\ \A j \in 1 .. m - 1 : t[j] = c[j + 1]
    BY ONLY <2>0
  <2>2. ASSUME NEW j \in 1 .. n - (k + 1) PROVE t[j] = s[(k + 1) + j]
    <3>1. j \in 1 .. m - 1 /\ j + 1 \in 1 .. n - k /\ k + (j + 1) = (k + 1) + j
      BY <1>3
    <3> QED BY <1>2, <2>1, <3>1
  <2>3. m - 1 = n - (k + 1) /\ k + 1 \in 0 .. n
    BY <1>3
  <2> QED BY <2>1, <2>2, <2>3 DEF RestOf
<1>8. Ahead(After(q), Tail(n_todo))
  BY <1>6, <1>7 DEF Ahead
<1>9. Head(n_todo) = CallAt(q)
  BY <1>1, <1>4, <1>5
<1> QED BY <1>4, <1>6, <1>8, <1>9

LEMMA LastStage ==
  ASSUME RenderNumbers, Scene, NEW q \in Stages, Ahead(q, <<>>)
  PROVE  q = 15
<1>1. Len(Drawing!ScreenRender) = At(15)
  BY CallsAre
<1>2. At(q) \in 0 .. At(15) /\ 0 = At(15) - At(q)
  BY <1>1 DEF RestOf, Ahead
<1>3. CASE HasChild
  BY <1>2, <1>3 DEF At, Stages
<1>4. CASE ~HasChild
  BY <1>2, <1>4 DEF At, Stages
<1> QED BY <1>3, <1>4

(* What rectangleIntersect cuts out are the points of both.                *)
LEMMA CutPoints ==
  ASSUME NEW s \in SpanSet, NEW t \in SpanSet
  PROVE  /\ Drawing!Intersect(s, t).meet =>
              Drawing!Points(Drawing!Intersect(s, t).span)
                = Drawing!Points(s) \cap Drawing!Points(t)
         /\ ~Drawing!Intersect(s, t).meet => Drawing!Points(s) \cap Drawing!Points(t) = {}
<1> PICK a \in Int, b \in Nat, c \in Int, d \in Nat :
      s.x = a /\ s.w = b /\ t.x = c /\ t.w = d
  BY DEF SpanSet
<1> PICK x \in Int : x = Drawing!Larger(a, c)
  BY DEF Drawing!Larger
<1> PICK e \in Int : e = Drawing!Smaller(a + b, c + d)
  BY DEF Drawing!Smaller
<1>1. /\ Drawing!Points(s) = a .. a + b - 1 /\ Drawing!Points(t) = c .. c + d - 1
  BY DEF Drawing!Points
<1>2. /\ Drawing!Intersect(s, t).meet = (e >= x)
      /\ Drawing!Intersect(s, t).span = [x |-> x, w |-> IF e > x THEN e - x ELSE x - e]
  BY DEF Drawing!Intersect, Drawing!Span
<1>3. /\ x >= a /\ x >= c /\ (x = a \/ x = c)
      /\ e <= a + b /\ e <= c + d /\ (e = a + b \/ e = c + d)
  BY DEF Drawing!Larger, Drawing!Smaller
<1>4. \A p \in Int : (p \in a .. a + b - 1 /\ p \in c .. c + d - 1) <=> (x <= p /\ p < e)
  BY <1>3
<1>5. CASE e >= x
  <2>1. Drawing!Points(Drawing!Intersect(s, t).span) = x .. e - 1
    <3>1. (IF e > x THEN e - x ELSE x - e) = e - x /\ x + (e - x) - 1 = e - 1
      BY <1>5
    <3> QED BY <1>2, <3>1 DEF Drawing!Points
  <2>2. x .. e - 1 = (a .. a + b - 1) \cap (c .. c + d - 1)
    BY <1>4
  <2> QED BY <1>1, <1>2, <1>5, <2>1, <2>2
<1>6. CASE ~(e >= x)
  <2>1. (a .. a + b - 1) \cap (c .. c + d - 1) = {}
    BY <1>4, <1>6
  <2> QED BY <1>1, <1>2, <1>6, <2>1
<1> QED BY <1>5, <1>6

(* Into a region, or past it when it shows nothing that is visible.        *)
LEMMA GoesIn ==
  ASSUME RenderNumbers, RenderInv, n_visible # Nil, Drawing!renderer_enter,
         NEW s \in SpanSet, NEW dx \in Int, Head(n_todo) = Drawing!Enter(s, dx),
         NEW d \in Int, NEW there, Sees(n_regions, d, there)
  PROVE  /\ UNCHANGED <<n_windows, n_pointer, n_screen, n_visible>>
         /\ \/ /\ n_todo' = Tail(n_todo) /\ Tail(n_regions') = n_regions
               /\ Sees(n_regions', d + dx,
                       there \cap Drawing!Points(Drawing!Span(s.x + d, s.w)))
            \/ /\ n_todo' = Drawing!PastLeave(n_todo) /\ n_regions' = n_regions
               /\ \A p \in Drawing!Points(n_visible) :
                    ~(p \in there /\ p \in Drawing!Points(Drawing!Span(s.x + d, s.w)))
               /\ ~Drawing!Intersect(Drawing!Span(s.x + d, s.w), Head(n_regions).clip).meet
<1> PICK c, r : c = Head(n_todo) /\ r = n_regions
  OBVIOUS
<1>1. /\ n_todo # <<>> /\ UNCHANGED <<n_windows, n_pointer, n_screen, n_visible>>
      /\ LET in == Drawing!Entered(c.span, c.dx)
         IN IF in.meet THEN n_regions' = <<in.region>> \o r /\ n_todo' = Tail(n_todo)
            ELSE n_regions' = r /\ n_todo' = Drawing!PastLeave(n_todo)
  BY DEF Drawing!renderer_enter, Drawing!Call
<1>2. r \in Seq(Region) /\ r # <<>>
  BY DEF RenderInv, Updating, Sees
<1> PICK out : out = Head(r)
  OBVIOUS
<1>3. /\ out \in Region /\ out.dx = d
      /\ Drawing!Points(out.clip) = Drawing!Points(n_visible) \cap there
  BY <1>2 DEF Sees
<1>4. c.span = s /\ c.dx = dx /\ s.x \in Int /\ s.w \in Nat
  BY DEF Drawing!Enter, SpanSet
<1> PICK t : t = Drawing!Span(s.x + d, s.w)
  OBVIOUS
<1>5. t \in SpanSet /\ out.clip \in SpanSet
  BY <1>3, <1>4 DEF Drawing!Span, SpanSet, Region
<1> PICK cut : cut = Drawing!Intersect(t, out.clip)
  OBVIOUS
<1>6. Drawing!Entered(c.span, c.dx) =
         [meet |-> cut.meet, region |-> [clip |-> cut.span, dx |-> d + dx]]
  BY <1>3, <1>4 DEF Drawing!Entered
<1>7. CASE cut.meet
  <2> PICK g : g = [clip |-> cut.span, dx |-> d + dx]
    OBVIOUS
  <2>1. n_regions' = <<g>> \o r /\ n_todo' = Tail(n_todo)
    BY <1>1, <1>6, <1>7
  <2>2. g \in Region
    <3>1. cut.span \in SpanSet
      BY <1>5, <1>7, CutIn
    <3> QED BY <1>3, <3>1 DEF Region
  <2> PICK h : h = <<g>> \o r
    OBVIOUS
  <2>3. h # <<>> /\ Head(h) = g /\ Tail(h) = r
    BY <1>2, <2>2
  <2>4. Drawing!Points(g.clip) = Drawing!Points(n_visible) \cap (there \cap Drawing!Points(t))
    <3>1. Drawing!Points(cut.span) = Drawing!Points(t) \cap Drawing!Points(out.clip)
      BY <1>5, <1>7, CutPoints
    <3> QED BY <1>3, <3>1
  <2>5. Sees(n_regions', d + dx, there \cap Drawing!Points(t))
    BY <2>1, <2>3, <2>4 DEF Sees
  <2> QED BY <1>1, <2>1, <2>3, <2>5
<1>8. CASE ~cut.meet
  <2>1. Drawing!Points(t) \cap Drawing!Points(out.clip) = {}
    BY <1>5, <1>8, CutPoints
  <2>2. n_regions' = r /\ n_todo' = Drawing!PastLeave(n_todo)
    BY <1>1, <1>6, <1>8
  <2> QED BY <1>1, <1>3, <1>8, <2>1, <2>2
<1> QED BY <1>7, <1>8

LEMMA Named ==
  ASSUME NEW a, NEW b, NEW c
  PROVE  Append(<<a, b>>, c) = <<a, b, c>>
<1> PICK S, s, t : S = {a, b, c} /\ s = <<a, b>> /\ t = <<a, b, c>>
  OBVIOUS
<1>1. /\ s \in Seq(S) /\ Len(s) = 2 /\ s[1] = a /\ s[2] = b
      /\ t \in Seq(S) /\ Len(t) = 3 /\ t[1] = a /\ t[2] = b /\ t[3] = c /\ c \in S
  OBVIOUS
<1>2. /\ Append(s, c) \in Seq(S) /\ Len(Append(s, c)) = 3
      /\ Append(s, c)[1] = a /\ Append(s, c)[2] = b /\ Append(s, c)[3] = c
  BY <1>1
<1>3. \A i \in 1 .. 3 : Append(s, c)[i] = t[i]
  BY <1>1, <1>2
<1> QED BY <1>1, <1>2, <1>3, SeqEqual

(* What a buffer changes of what is visible.                               *)
LEMMA Draws ==
  ASSUME RenderNumbers, RenderInv, n_visible # Nil, Drawing!renderer_render_buffer,
         NEW of, NEW n, NEW x \in Int, NEW w \in Nat, Head(n_todo) = Drawing!Buffer(of, n, x, w),
         NEW d \in Int, NEW there, Sees(n_regions, d, there)
  PROVE  /\ UNCHANGED <<n_windows, n_pointer, n_visible, n_regions>> /\ n_todo' = Tail(n_todo)
         /\ \A p \in Drawing!Points(n_visible) :
              n_screen'[p] = IF p \in there /\ p \in Drawing!Points(Drawing!Span(x + d, w))
                             THEN <<of, n, p - (x + d)>> ELSE n_screen[p]
<1> PICK c, r : c = Head(n_todo) /\ r = n_regions
  OBVIOUS
<1> PICK out : out = Head(r)
  OBVIOUS
<1> PICK t : t = Drawing!Span(x + d, w)
  OBVIOUS
<1> PICK cut : cut = Drawing!Intersect(t, out.clip)
  OBVIOUS
<1>1. r \in Seq(Region) /\ r # <<>>
  BY DEF RenderInv, Updating, Sees
<1>2. /\ out \in Region /\ out.dx = d
      /\ Drawing!Points(out.clip) = Drawing!Points(n_visible) \cap there
  BY <1>1 DEF Sees
<1>3. c.of = <<of, n>> /\ c.span.x = x /\ c.span.w = w
  BY DEF Drawing!Buffer, Drawing!Span
<1>4. /\ UNCHANGED <<n_windows, n_pointer, n_visible, n_regions>> /\ n_todo' = Tail(n_todo)
      /\ IF cut.meet THEN Drawing!Shown(<<of, n>>, x + d, cut.span) ELSE n_screen' = n_screen
  BY <1>2, <1>3 DEF Drawing!renderer_render_buffer
<1>5. t \in SpanSet /\ out.clip \in SpanSet
  BY <1>2 DEF Drawing!Span, SpanSet, Region
<1>6. ASSUME NEW p \in Drawing!Points(n_visible)
      PROVE  n_screen'[p] = IF p \in there /\ p \in Drawing!Points(t)
                            THEN <<of, n, p - (x + d)>> ELSE n_screen[p]
  <2>1. p \in DOMAIN n_screen
    BY DEF RenderInv, Updating, Drawing!Points, SpanSet, RenderNumbers
  <2>2. CASE cut.meet
    <3>1. p \in Drawing!Points(cut.span) <=> p \in there /\ p \in Drawing!Points(t)
      BY <1>2, <1>5, <2>2, CutPoints
    <3>2. n_screen'[p] = IF p \in Drawing!Points(cut.span) THEN Append(<<of, n>>, p - (x + d))
                         ELSE n_screen[p]
      BY <1>4, <2>1, <2>2, Zenon DEF Drawing!Shown
    <3> QED BY <3>1, <3>2, Named
  <2>3. CASE ~cut.meet
    <3>1. ~(p \in there /\ p \in Drawing!Points(t))
      BY <1>2, <1>5, <2>3, CutPoints
    <3> QED BY <1>4, <2>3, <3>1
  <2> QED BY <2>2, <2>3
<1> QED BY <1>4, <1>6

(* The desktop fills all that is visible.                                  *)
LEMMA Fills ==
  ASSUME RenderNumbers, RenderInv, n_visible # Nil, Drawing!renderer_draw_filled_rectangle,
         Head(n_todo) = Drawing!Filled("desktop", Drawing!Span(0, Width)), Sees(n_regions, 0, Int)
  PROVE  /\ UNCHANGED <<n_windows, n_pointer, n_visible, n_regions>> /\ n_todo' = Tail(n_todo)
         /\ \A p \in Drawing!Points(n_visible) : n_screen'[p] = Layer0(p)
<1> PICK c, r : c = Head(n_todo) /\ r = n_regions
  OBVIOUS
<1> PICK out : out = Head(r)
  OBVIOUS
<1> PICK t : t = Drawing!Span(0, Width)
  OBVIOUS
<1> PICK cut : cut = Drawing!Intersect(t, out.clip)
  OBVIOUS
<1>1. r \in Seq(Region) /\ r # <<>>
  BY DEF RenderInv, Updating, Sees
<1>2. out \in Region /\ out.dx = 0 /\ Drawing!Points(out.clip) = Drawing!Points(n_visible)
  <2>1. /\ out \in Region /\ out.dx = 0
        /\ Drawing!Points(out.clip) = Drawing!Points(n_visible) \cap Int
    BY <1>1 DEF Sees
  <2>2. n_visible.x \in Int /\ n_visible.w \in Nat
    BY DEF RenderInv, Updating, SpanSet
  <2>3. Drawing!Points(n_visible) \subseteq Int
    BY <2>2 DEF Drawing!Points
  <2> QED BY <2>1, <2>3
<1>3. c.of = <<"desktop", 0>> /\ c.span.x = 0 /\ c.span.w = Width /\ Width \in Nat
  BY DEF Drawing!Filled, Drawing!Span, RenderNumbers
<1>4. /\ UNCHANGED <<n_windows, n_pointer, n_visible, n_regions>> /\ n_todo' = Tail(n_todo)
      /\ Drawing!Shown(<<"desktop", 0>>, 0, cut.span)
  <2>1. 0 + 0 = 0
    OBVIOUS
  <2> QED BY <1>2, <1>3, <2>1 DEF Drawing!renderer_draw_filled_rectangle
<1>5. t \in SpanSet /\ out.clip \in SpanSet
  BY <1>2, <1>3 DEF Drawing!Span, SpanSet, Region
<1>6. ASSUME NEW p \in Drawing!Points(n_visible) PROVE n_screen'[p] = Layer0(p)
  <2>1. p \in DOMAIN n_screen /\ p \in Int /\ p \in Drawing!Points(t)
    BY <1>3 DEF RenderInv, Updating, Drawing!Points, Drawing!Span, SpanSet, RenderNumbers
  <2>2. cut.meet
    <3>1. Drawing!Points(t) \cap Drawing!Points(out.clip) # {}
      BY <1>2, <2>1
    <3> QED BY <1>5, <3>1, CutPoints
  <2>3. p \in Drawing!Points(cut.span)
    BY <1>2, <1>5, <2>1, <2>2, CutPoints
  <2>4. n_screen'[p] = Append(<<"desktop", 0>>, p - 0)
    BY <1>4, <2>1, <2>3, Zenon DEF Drawing!Shown
  <2>5. p - 0 = p
    BY <2>1
  <2> QED BY <2>4, <2>5, Named DEF Layer0
<1> QED BY <1>4, <1>6

LEMMA MovesOn ==
  ASSUME UNCHANGED <<n_windows, n_pointer, n_visible>>, NEW q \in Stages,
         Ahead(q, n_todo'), Regions(q, n_regions'), Picture(q, n_screen')
  PROVE  Progress'
<1>1. Drawing!ScreenRender' = Drawing!ScreenRender
  BY SameScene
<1>2. q \in Stages' /\ (Ahead(q, n_todo)) ' /\ (Regions(q, n_regions))' /\ (Picture(q, n_screen))'
  BY <1>1 DEF Stages, HasChild, Ahead, At, Regions, Sees, OfDesktop, OfWindow, Own, Inner, Picture,
     Whole, Layer0, Layer1, Layer2, Layer3, Layer4, Layer5
<1> QED BY <1>2 DEF Progress

(* A call of a kind is that of one of these stages.                        *)
LEMMA KindOf ==
  ASSUME NEW q \in Stages, q # 15
  PROVE  /\ CallAt(q).op = "enter" => q \in {0, 3, 6, 8, 13}
         /\ CallAt(q).op = "leave" => q \in {5, 10, 11, 12}
         /\ CallAt(q).op = "buffer" => q \in {2, 4, 7, 9, 14}
         /\ CallAt(q).op = "fill" => q = 1
         /\ q \in {8, 9, 10} => HasChild
<1>1. \/ q = 0 \/ q = 1 \/ q = 2 \/ q = 3 \/ q = 4 \/ q = 5 \/ q = 6 \/ q = 7
      \/ q = 8 \/ q = 9 \/ q = 10 \/ q = 11 \/ q = 12 \/ q = 13 \/ q = 14
  BY DEF Stages
<1>2. q \in {8, 9, 10} => HasChild
  BY DEF Stages
<1>3. q \in {0, 3, 6, 8, 13} => CallAt(q).op = "enter"
  BY DEF CallAt, Drawing!Enter
<1>4. q \in {5, 10, 11, 12} => CallAt(q).op = "leave"
  BY DEF CallAt, Drawing!Leave
<1>5. q \in {2, 4, 7, 9, 14} => CallAt(q).op = "buffer"
  BY DEF CallAt, Drawing!Buffer
<1>6. q = 1 => CallAt(q).op = "fill"
  BY DEF CallAt, Drawing!Filled
<1> QED BY <1>1, <1>2, <1>3, <1>4, <1>5, <1>6

LEMMA SpanPoints ==
  ASSUME NEW s \in SpanSet
  PROVE  /\ s.x \in Int /\ s.w \in Nat /\ Drawing!Points(s) \subseteq Int
         /\ \A x \in Int : x = s.x => Drawing!Points(Drawing!Span(x, s.w)) = Drawing!Points(s)
<1>1. s.x \in Int /\ s.w \in Nat
  BY DEF SpanSet
<1> QED BY <1>1 DEF Drawing!Points, Drawing!Span

LEMMA EnterProgress ==
  ASSUME RenderNumbers, RenderInv, Progress, n_visible # Nil, Drawing!renderer_enter
  PROVE  Progress'
<1> PICK q \in Stages : Ahead(q, n_todo) /\ Regions(q, n_regions) /\ Picture(q, n_screen)
  BY DEF Progress
<1>1. Scene /\ n_todo # <<>> /\ Head(n_todo).op = "enter"
  BY DEF RenderInv, Drawing!renderer_enter, Drawing!Call
<1>2. /\ q # 15 /\ Head(n_todo) = CallAt(q) /\ After(q) \in Stages /\ Ahead(After(q), Tail(n_todo))
  BY <1>1, NextStage
<1>3. q \in {0, 3, 6, 8, 13} /\ (q = 8 => HasChild)
  BY <1>1, <1>2, KindOf
<1>4. /\ n_windows[1].at \in SpanSet /\ n_windows[2].at \in SpanSet /\ n_pointer \in SpanSet
      /\ HasChild => n_windows[2].child.at \in SpanSet
  BY <1>1, SceneIs
<1> PICK V : V = Drawing!Points(n_visible)
  OBVIOUS
<1>V. V \subseteq Int /\ n_visible \in SpanSet /\ n_regions \in Seq(Region)
  <2>1. n_visible \in SpanSet /\ n_regions \in Seq(Region)
    BY DEF RenderInv, Updating
  <2> QED BY <2>1, SpanPoints
<1>5. CASE q = 0
  <2> PICK s : s = Drawing!Span(0, Width)
    OBVIOUS
  <2>0. 0 \in Int
    OBVIOUS
  <2>1. s \in SpanSet /\ s.x = 0 /\ s.w = Width /\ Head(n_todo) = Drawing!Enter(s, 0)
    BY <1>2, <1>5 DEF CallAt, Drawing!Span, SpanSet, RenderNumbers
  <2>2. Sees(n_regions, 0, Int)
    BY <1>5 DEF Regions
  <2>3. V \subseteq Drawing!Points(s)
    BY <1>V, <2>1 DEF RenderInv, Updating, Drawing!Points, SpanSet
  <2>4. Drawing!Span(s.x + 0, s.w) = s
    BY <2>1 DEF Drawing!Span
  <2>11. /\ UNCHANGED <<n_windows, n_pointer, n_screen, n_visible>>
        /\ \/ /\ n_todo' = Tail(n_todo) /\ Tail(n_regions') = n_regions
              /\ Sees(n_regions', 0 + 0,
                      Int \cap Drawing!Points(Drawing!Span(s.x + 0, s.w)))
           \/ /\ n_todo' = Drawing!PastLeave(n_todo) /\ n_regions' = n_regions
              /\ \A p \in Drawing!Points(n_visible) :
                   ~(p \in Int /\ p \in Drawing!Points(Drawing!Span(s.x + 0, s.w)))
              /\ ~Drawing!Intersect(Drawing!Span(s.x + 0, s.w), Head(n_regions).clip).meet
    BY <2>0, <2>1, <2>2, GoesIn, Zenon
  <2>5. /\ UNCHANGED <<n_windows, n_pointer, n_screen, n_visible>>
        /\ \/ /\ n_todo' = Tail(n_todo) /\ Tail(n_regions') = n_regions
              /\ Sees(n_regions', 0 + 0, Int \cap Drawing!Points(s))
           \/ ~Drawing!Intersect(s, Head(n_regions).clip).meet
    BY <2>4, <2>11
  <2>6. Drawing!Intersect(s, Head(n_regions).clip).meet
    <3>1. Head(n_regions) = Whole
      <4>1. n_regions = <<Whole>>
        BY <1>5 DEF Regions
      <4> QED BY <4>1
    <3>2. s.x <= n_visible.x /\ n_visible.x + n_visible.w <= s.x + s.w
      BY <1>V, <2>1 DEF RenderInv, Updating, SpanSet
    <3> QED BY <1>V, <2>1, <3>1, <3>2, Meets DEF Whole
  <2>7. Sees(n_regions', 0, Int)
    <3>1. V \cap (Int \cap Drawing!Points(s)) = V \cap Int
      BY <1>V, <2>3
    <3>2. 0 + 0 = 0
      OBVIOUS
    <3> QED BY <2>5, <2>6, <3>1, <3>2 DEF Sees
  <2>8. Regions(1, n_regions')
    <3>1. Tail(n_regions') = n_regions
      BY <2>5, <2>6
    <3>2. OfDesktop(n_regions')
      BY <2>2, <2>7, <3>1, Zenon DEF OfDesktop
    <3> QED BY <3>2 DEF Regions
  <2>9. After(q) = 1
    BY <1>5 DEF After
  <2>10. Picture(1, n_screen')
    BY DEF Picture
  <2> QED BY <1>2, <2>5, <2>6, <2>8, <2>9, <2>10, MovesOn
<1>6. CASE q = 3
  <2> PICK s : s = n_windows[1].at
    OBVIOUS
  <2>0. 0 \in Int
    OBVIOUS
  <2>1. s \in SpanSet /\ s.x \in Int /\ Head(n_todo) = Drawing!Enter(s, s.x)
    BY <1>2, <1>4, <1>6, SpanPoints DEF CallAt
  <2>2. Sees(n_regions, 0, Int) /\ OfDesktop(n_regions)
    BY <1>6 DEF Regions, OfDesktop
  <2>3. s.x + 0 = s.x /\ 0 + s.x = s.x
        /\ Int \cap Drawing!Points(Drawing!Span(s.x + 0, s.w)) = Own(1)
    BY <2>1, SpanPoints DEF Own
  <2>8. /\ UNCHANGED <<n_windows, n_pointer, n_screen, n_visible>>
        /\ \/ /\ n_todo' = Tail(n_todo) /\ Tail(n_regions') = n_regions
              /\ Sees(n_regions', 0 + s.x,
                      Int \cap Drawing!Points(Drawing!Span(s.x + 0, s.w)))
           \/ /\ n_todo' = Drawing!PastLeave(n_todo) /\ n_regions' = n_regions
              /\ \A p \in Drawing!Points(n_visible) :
                   ~(p \in Int /\ p \in Drawing!Points(Drawing!Span(s.x + 0, s.w)))
              /\ ~Drawing!Intersect(Drawing!Span(s.x + 0, s.w), Head(n_regions).clip).meet
    BY <2>0, <2>1, <2>2, GoesIn, Zenon
  <2>4. /\ UNCHANGED <<n_windows, n_pointer, n_screen, n_visible>>
        /\ \/ /\ n_todo' = Tail(n_todo) /\ Tail(n_regions') = n_regions
              /\ Sees(n_regions', s.x, Own(1))
           \/ /\ n_todo' = Drawing!PastLeave(n_todo) /\ n_regions' = n_regions
              /\ \A p \in V : ~(p \in Int /\ p \in Drawing!Points(Drawing!Span(s.x + 0, s.w)))
    BY <2>3, <2>8
  <2>5. \A p \in V : n_screen'[p] = Layer1(p)
    BY <1>6, <2>4 DEF Picture
  <2>6. CASE n_todo' = Tail(n_todo) /\ Tail(n_regions') = n_regions /\ Sees(n_regions', s.x, Own(1))
    <3>1. Regions(4, n_regions')
      <4>1. OfWindow(n_regions', 1)
        BY <2>2, <2>6, Zenon DEF OfWindow
      <4> QED BY <4>1 DEF Regions
    <3>2. Picture(4, n_screen')
      BY <2>5 DEF Picture
    <3>3. After(q) = 4
      BY <1>6 DEF After
    <3> QED BY <1>2, <2>4, <2>6, <3>1, <3>2, <3>3, MovesOn
  <2>7. CASE /\ n_todo' = Drawing!PastLeave(n_todo) /\ n_regions' = n_regions
             /\ \A p \in V : ~(p \in Int /\ p \in Drawing!Points(Drawing!Span(s.x + 0, s.w)))
    <3>1. 6 \in Stages /\ Ahead(6, n_todo')
      BY <1>1, <1>6, <2>7, Skips
    <3>2. \A p \in V : p \notin Own(1)
      BY <2>3, <2>7
    <3>3. Picture(6, n_screen')
      BY <2>5, <3>2 DEF Picture, Layer2
    <3>4. Regions(6, n_regions')
      BY <2>2, <2>7 DEF Regions
    <3> QED BY <2>4, <3>1, <3>3, <3>4, MovesOn
  <2> QED BY <2>4, <2>6, <2>7
<1>7. CASE q = 6
  <2> PICK s : s = n_windows[2].at
    OBVIOUS
  <2>0. 0 \in Int
    OBVIOUS
  <2>1. s \in SpanSet /\ s.x \in Int /\ Head(n_todo) = Drawing!Enter(s, s.x)
    BY <1>2, <1>4, <1>7, SpanPoints DEF CallAt
  <2>2. Sees(n_regions, 0, Int) /\ OfDesktop(n_regions)
    BY <1>7 DEF Regions, OfDesktop
  <2>3. s.x + 0 = s.x /\ 0 + s.x = s.x
        /\ Int \cap Drawing!Points(Drawing!Span(s.x + 0, s.w)) = Own(2)
    BY <2>1, SpanPoints DEF Own
  <2>8. /\ UNCHANGED <<n_windows, n_pointer, n_screen, n_visible>>
        /\ \/ /\ n_todo' = Tail(n_todo) /\ Tail(n_regions') = n_regions
              /\ Sees(n_regions', 0 + s.x,
                      Int \cap Drawing!Points(Drawing!Span(s.x + 0, s.w)))
           \/ /\ n_todo' = Drawing!PastLeave(n_todo) /\ n_regions' = n_regions
              /\ \A p \in Drawing!Points(n_visible) :
                   ~(p \in Int /\ p \in Drawing!Points(Drawing!Span(s.x + 0, s.w)))
              /\ ~Drawing!Intersect(Drawing!Span(s.x + 0, s.w), Head(n_regions).clip).meet
    BY <2>0, <2>1, <2>2, GoesIn, Zenon
  <2>4. /\ UNCHANGED <<n_windows, n_pointer, n_screen, n_visible>>
        /\ \/ /\ n_todo' = Tail(n_todo) /\ Tail(n_regions') = n_regions
              /\ Sees(n_regions', s.x, Own(2))
           \/ /\ n_todo' = Drawing!PastLeave(n_todo) /\ n_regions' = n_regions
              /\ \A p \in V : ~(p \in Int /\ p \in Drawing!Points(Drawing!Span(s.x + 0, s.w)))
    BY <2>3, <2>8
  <2>5. \A p \in V : n_screen'[p] = Layer2(p)
    BY <1>7, <2>4 DEF Picture
  <2>6. CASE n_todo' = Tail(n_todo) /\ Tail(n_regions') = n_regions /\ Sees(n_regions', s.x, Own(2))
    <3>1. Regions(7, n_regions')
      <4>1. OfWindow(n_regions', 2)
        BY <2>2, <2>6, Zenon DEF OfWindow
      <4> QED BY <4>1 DEF Regions
    <3>2. Picture(7, n_screen')
      BY <2>5 DEF Picture
    <3>3. After(q) = 7
      BY <1>7 DEF After
    <3> QED BY <1>2, <2>4, <2>6, <3>1, <3>2, <3>3, MovesOn
  <2>7. CASE /\ n_todo' = Drawing!PastLeave(n_todo) /\ n_regions' = n_regions
             /\ \A p \in V : ~(p \in Int /\ p \in Drawing!Points(Drawing!Span(s.x + 0, s.w)))
    <3>1. 12 \in Stages /\ Ahead(12, n_todo')
      BY <1>1, <1>7, <2>7, Skips
    <3>2. \A p \in V : p \notin Own(2)
      BY <2>3, <2>7
    <3>3. Picture(12, n_screen')
      BY <2>5, <3>2 DEF Picture, Layer4, Layer3
    <3>4. Regions(12, n_regions')
      BY <2>2, <2>7 DEF Regions
    <3> QED BY <2>4, <3>1, <3>3, <3>4, MovesOn
  <2> QED BY <2>4, <2>6, <2>7
<1>8. CASE q = 8
  <2> PICK s, d : s = n_windows[2].child.at /\ d = n_windows[2].at.x
    OBVIOUS
  <2>0. 0 \in Int
    OBVIOUS
  <2>1. s \in SpanSet /\ s.x \in Int /\ d \in Int /\ Head(n_todo) = Drawing!Enter(s, s.x)
    BY <1>2, <1>3, <1>4, <1>8, SpanPoints DEF CallAt
  <2>2. Sees(n_regions, d, Own(2)) /\ OfWindow(n_regions, 2)
    BY <1>8 DEF Regions, OfWindow
  <2>3. Drawing!Span(s.x + d, s.w) = Inner /\ Inner.x = d + s.x
    <3>1. s.x + d = d + s.x
      BY <2>1
    <3> QED BY <3>1 DEF Inner, Drawing!Span
  <2>8. /\ UNCHANGED <<n_windows, n_pointer, n_screen, n_visible>>
        /\ \/ /\ n_todo' = Tail(n_todo) /\ Tail(n_regions') = n_regions
              /\ Sees(n_regions', d + s.x,
                      Own(2) \cap Drawing!Points(Drawing!Span(s.x + d, s.w)))
           \/ /\ n_todo' = Drawing!PastLeave(n_todo) /\ n_regions' = n_regions
              /\ \A p \in Drawing!Points(n_visible) :
                   ~(p \in Own(2) /\ p \in Drawing!Points(Drawing!Span(s.x + d, s.w)))
              /\ ~Drawing!Intersect(Drawing!Span(s.x + d, s.w), Head(n_regions).clip).meet
    BY <2>0, <2>1, <2>2, GoesIn, Zenon
  <2>4. /\ UNCHANGED <<n_windows, n_pointer, n_screen, n_visible>>
        /\ \/ /\ n_todo' = Tail(n_todo) /\ Tail(n_regions') = n_regions
              /\ Sees(n_regions', Inner.x, Own(2) \cap Drawing!Points(Inner))
           \/ /\ n_todo' = Drawing!PastLeave(n_todo) /\ n_regions' = n_regions
              /\ \A p \in V : ~(p \in Own(2) /\ p \in Drawing!Points(Inner))
    BY <2>3, <2>8
  <2>5. \A p \in V : n_screen'[p] = Layer3(p)
    BY <1>8, <2>4 DEF Picture
  <2>6. CASE /\ n_todo' = Tail(n_todo) /\ Tail(n_regions') = n_regions
             /\ Sees(n_regions', Inner.x, Own(2) \cap Drawing!Points(Inner))
    <3>1. Regions(9, n_regions')
      <4>1. OfWindow(Tail(n_regions'), 2)
        BY <2>2, <2>6, Zenon
      <4> QED BY <2>6, <4>1 DEF Regions
    <3>2. Picture(9, n_screen')
      BY <2>5 DEF Picture
    <3>3. After(q) = 9
      BY <1>8 DEF After
    <3> QED BY <1>2, <2>4, <2>6, <3>1, <3>2, <3>3, MovesOn
  <2>7. CASE /\ n_todo' = Drawing!PastLeave(n_todo) /\ n_regions' = n_regions
             /\ \A p \in V : ~(p \in Own(2) /\ p \in Drawing!Points(Inner))
    <3>1. 11 \in Stages /\ Ahead(11, n_todo')
      BY <1>1, <1>8, <2>7, Skips
    <3>2. Picture(11, n_screen')
      BY <2>5, <2>7 DEF Picture, Layer4
    <3>3. Regions(11, n_regions')
      BY <2>2, <2>7 DEF Regions
    <3> QED BY <2>4, <3>1, <3>2, <3>3, MovesOn
  <2> QED BY <2>4, <2>6, <2>7
<1>9. CASE q = 13
  <2> PICK s : s = n_pointer
    OBVIOUS
  <2>0. 0 \in Int
    OBVIOUS
  <2>1. s \in SpanSet /\ s.x \in Int /\ Head(n_todo) = Drawing!Enter(s, 0)
    BY <1>2, <1>4, <1>9, SpanPoints DEF CallAt
  <2>2. Sees(n_regions, 0, Int)
    BY <1>9 DEF Regions
  <2>3. s.x + 0 = s.x /\ 0 + 0 = 0
        /\ Int \cap Drawing!Points(Drawing!Span(s.x + 0, s.w)) = Drawing!Points(n_pointer)
    BY <2>1, SpanPoints
  <2>8. /\ UNCHANGED <<n_windows, n_pointer, n_screen, n_visible>>
        /\ \/ /\ n_todo' = Tail(n_todo) /\ Tail(n_regions') = n_regions
              /\ Sees(n_regions', 0 + 0,
                      Int \cap Drawing!Points(Drawing!Span(s.x + 0, s.w)))
           \/ /\ n_todo' = Drawing!PastLeave(n_todo) /\ n_regions' = n_regions
              /\ \A p \in Drawing!Points(n_visible) :
                   ~(p \in Int /\ p \in Drawing!Points(Drawing!Span(s.x + 0, s.w)))
              /\ ~Drawing!Intersect(Drawing!Span(s.x + 0, s.w), Head(n_regions).clip).meet
    BY <2>0, <2>1, <2>2, GoesIn, Zenon
  <2>4. /\ UNCHANGED <<n_windows, n_pointer, n_screen, n_visible>>
        /\ \/ /\ n_todo' = Tail(n_todo) /\ Tail(n_regions') = n_regions
              /\ Sees(n_regions', 0, Drawing!Points(n_pointer))
           \/ /\ n_todo' = Drawing!PastLeave(n_todo) /\ n_regions' = n_regions
              /\ \A p \in V : ~(p \in Int /\ p \in Drawing!Points(Drawing!Span(s.x + 0, s.w)))
    BY <2>3, <2>8
  <2>5. \A p \in V : n_screen'[p] = Layer4(p)
    BY <1>9, <2>4 DEF Picture
  <2>6. CASE /\ n_todo' = Tail(n_todo) /\ Tail(n_regions') = n_regions
             /\ Sees(n_regions', 0, Drawing!Points(n_pointer))
    <3>1. Regions(14, n_regions')
      BY <2>6 DEF Regions
    <3>2. Picture(14, n_screen')
      BY <2>5 DEF Picture
    <3>3. After(q) = 14
      BY <1>9 DEF After
    <3> QED BY <1>2, <2>4, <2>6, <3>1, <3>2, <3>3, MovesOn
  <2>7. CASE /\ n_todo' = Drawing!PastLeave(n_todo) /\ n_regions' = n_regions
             /\ \A p \in V : ~(p \in Int /\ p \in Drawing!Points(Drawing!Span(s.x + 0, s.w)))
    <3>1. 15 \in Stages /\ Ahead(15, n_todo')
      BY <1>1, <1>9, <2>7, Skips
    <3>2. \A p \in V : p \notin Drawing!Points(n_pointer)
      BY <2>3, <2>7
    <3>3. Picture(15, n_screen')
      BY <2>5, <3>2 DEF Picture, Layer5
    <3>4. Regions(15, n_regions')
      BY DEF Regions
    <3> QED BY <2>4, <3>1, <3>3, <3>4, MovesOn
  <2> QED BY <2>4, <2>6, <2>7
<1> QED BY <1>3, <1>5, <1>6, <1>7, <1>8, <1>9

LEMMA LeaveProgress ==
  ASSUME RenderNumbers, RenderInv, Progress, n_visible # Nil, Drawing!renderer_leave
  PROVE  Progress'
<1> PICK q \in Stages : Ahead(q, n_todo) /\ Regions(q, n_regions) /\ Picture(q, n_screen)
  BY DEF Progress
<1>1. Scene /\ n_todo # <<>> /\ Head(n_todo).op = "leave"
  BY DEF RenderInv, Drawing!renderer_leave, Drawing!Call
<1>2. /\ q # 15 /\ Head(n_todo) = CallAt(q) /\ After(q) \in Stages /\ Ahead(After(q), Tail(n_todo))
  BY <1>1, NextStage
<1>3. q \in {5, 10, 11, 12}
  BY <1>1, <1>2, KindOf
<1>4. /\ UNCHANGED <<n_windows, n_pointer, n_screen, n_visible>> /\ n_todo' = Tail(n_todo)
      /\ n_regions # <<>> => n_regions' = Tail(n_regions)
  BY DEF Drawing!renderer_leave
<1>5. After(q) = q + 1
  BY <1>3 DEF After
<1>6. Regions(q + 1, n_regions')
  <2>1. CASE q = 5
    <3>1. n_regions' = Tail(n_regions) /\ OfDesktop(Tail(n_regions))
      BY <1>4, <2>1 DEF Regions, OfWindow, Sees
    <3> QED BY <2>1, <3>1 DEF Regions
  <2>2. CASE q = 10
    <3>1. n_regions' = Tail(n_regions) /\ OfWindow(Tail(n_regions), 2)
      BY <1>4, <2>2 DEF Regions, Sees
    <3> QED BY <2>2, <3>1 DEF Regions
  <2>3. CASE q = 11
    <3>1. n_regions' = Tail(n_regions) /\ OfDesktop(Tail(n_regions))
      BY <1>4, <2>3 DEF Regions, OfWindow, Sees
    <3> QED BY <2>3, <3>1 DEF Regions
  <2>4. CASE q = 12
    <3>1. n_regions' = Tail(n_regions) /\ Sees(Tail(n_regions), 0, Int)
      BY <1>4, <2>4 DEF Regions, OfDesktop, Sees
    <3> QED BY <2>4, <3>1 DEF Regions
  <2> QED BY <1>3, <2>1, <2>2, <2>3, <2>4
<1>7. Picture(q + 1, n_screen')
  BY <1>3, <1>4 DEF Picture
<1> QED BY <1>2, <1>4, <1>5, <1>6, <1>7, MovesOn
LEMMA BufferProgress ==
  ASSUME RenderNumbers, RenderInv, Progress, n_visible # Nil, Drawing!renderer_render_buffer
  PROVE  Progress'
<1> PICK q \in Stages : Ahead(q, n_todo) /\ Regions(q, n_regions) /\ Picture(q, n_screen)
  BY DEF Progress
<1>1. Scene /\ n_todo # <<>> /\ Head(n_todo).op = "buffer"
  BY DEF RenderInv, Drawing!renderer_render_buffer, Drawing!Call
<1>2. /\ q # 15 /\ Head(n_todo) = CallAt(q) /\ After(q) \in Stages /\ Ahead(After(q), Tail(n_todo))
  BY <1>1, NextStage
<1>3. q \in {2, 4, 7, 9, 14} /\ (q = 9 => HasChild)
  BY <1>1, <1>2, KindOf
<1>4. /\ n_windows[1].at \in SpanSet /\ n_windows[2].at \in SpanSet /\ n_pointer \in SpanSet
      /\ HasChild => n_windows[2].child.at \in SpanSet /\ n_windows[2].child.width \in Nat
  BY <1>1, SceneIs
<1> PICK V : V = Drawing!Points(n_visible)
  OBVIOUS
<1>V. \A p \in V : p \in Int /\ p >= 0
  BY DEF RenderInv, Updating, Drawing!Points, SpanSet
<1>5. CASE q = 2
  <2>1. Head(n_todo) = Drawing!Buffer("background", 0, 0, Background) /\ Background \in Nat
    BY <1>2, <1>5 DEF CallAt, RenderNumbers
  <2>2. Sees(n_regions, 0, Int) /\ OfDesktop(n_regions)
    BY <1>5 DEF Regions, OfDesktop
  <2>3. /\ UNCHANGED <<n_windows, n_pointer, n_visible, n_regions>> /\ n_todo' = Tail(n_todo)
        /\ \A p \in V :
             n_screen'[p] = IF p \in Int /\ p \in Drawing!Points(Drawing!Span(0 + 0, Background))
                            THEN <<"background", 0, p - (0 + 0)>> ELSE n_screen[p]
    BY <2>1, <2>2, Draws
  <2>4. ASSUME NEW p \in V PROVE n_screen'[p] = Layer1(p)
    <3>1. /\ n_screen[p] = Layer0(p) /\ p - (0 + 0) = p
          /\ p \in Int /\ p \in Drawing!Points(Drawing!Span(0 + 0, Background)) <=> p < Background
      BY <1>5, <1>V, <2>1 DEF Picture, Drawing!Points, Drawing!Span
    <3> QED BY <2>3, <3>1 DEF Layer1
  <2>5. Picture(3, n_screen')
    BY <2>4 DEF Picture
  <2>6. Regions(3, n_regions')
    BY <2>2, <2>3 DEF Regions
  <2>7. After(q) = 3
    BY <1>5 DEF After
  <2> QED BY <1>2, <2>3, <2>5, <2>6, <2>7, MovesOn
<1>6. CASE q = 4
  <2> PICK s : s = n_windows[1].at
    OBVIOUS
  <2>1. /\ Head(n_todo) = Drawing!Buffer("window", 1, 0, s.w)
        /\ s.x \in Int /\ s.w \in Nat
    BY <1>2, <1>4, <1>6, SpanPoints DEF CallAt
  <2>2. OfWindow(n_regions, 1) /\ Sees(n_regions, s.x, Own(1))
    BY <1>6 DEF Regions, OfWindow
  <2>3. /\ UNCHANGED <<n_windows, n_pointer, n_visible, n_regions>> /\ n_todo' = Tail(n_todo)
        /\ \A p \in V :
             n_screen'[p] = IF p \in Own(1) /\ p \in Drawing!Points(Drawing!Span(0 + s.x, s.w))
                            THEN <<"window", 1, p - (0 + s.x)>> ELSE n_screen[p]
    BY <2>1, <2>2, Draws
  <2>4. 0 + s.x = s.x /\ Drawing!Points(Drawing!Span(0 + s.x, s.w)) = Own(1)
    BY <1>4, <2>1, SpanPoints DEF Own
  <2>5. ASSUME NEW p \in V PROVE n_screen'[p] = Layer2(p)
    <3>1. n_screen[p] = Layer1(p)
      BY <1>6 DEF Picture
    <3> QED BY <2>3, <2>4, <3>1 DEF Layer2
  <2>6. Picture(5, n_screen')
    BY <2>5 DEF Picture
  <2>7. Regions(5, n_regions')
    BY <2>2, <2>3 DEF Regions
  <2>8. After(q) = 5
    BY <1>6 DEF After
  <2> QED BY <1>2, <2>3, <2>6, <2>7, <2>8, MovesOn
<1>7. CASE q = 7
  <2> PICK s : s = n_windows[2].at
    OBVIOUS
  <2>1. /\ Head(n_todo) = Drawing!Buffer("window", 2, 0, s.w)
        /\ s.x \in Int /\ s.w \in Nat
    BY <1>2, <1>4, <1>7, SpanPoints DEF CallAt
  <2>2. OfWindow(n_regions, 2) /\ Sees(n_regions, s.x, Own(2))
    BY <1>7 DEF Regions, OfWindow
  <2>3. /\ UNCHANGED <<n_windows, n_pointer, n_visible, n_regions>> /\ n_todo' = Tail(n_todo)
        /\ \A p \in V :
             n_screen'[p] = IF p \in Own(2) /\ p \in Drawing!Points(Drawing!Span(0 + s.x, s.w))
                            THEN <<"window", 2, p - (0 + s.x)>> ELSE n_screen[p]
    BY <2>1, <2>2, Draws
  <2>4. 0 + s.x = s.x /\ Drawing!Points(Drawing!Span(0 + s.x, s.w)) = Own(2)
    BY <1>4, <2>1, SpanPoints DEF Own
  <2>5. ASSUME NEW p \in V PROVE n_screen'[p] = Layer3(p)
    <3>1. n_screen[p] = Layer2(p)
      BY <1>7 DEF Picture
    <3> QED BY <2>3, <2>4, <3>1 DEF Layer3
  <2>6. CASE HasChild
    <3>1. Picture(8, n_screen')
      BY <2>5 DEF Picture
    <3>2. Regions(8, n_regions')
      BY <2>2, <2>3 DEF Regions
    <3>3. After(q) = 8
      BY <1>7, <2>6 DEF After
    <3> QED BY <1>2, <2>3, <3>1, <3>2, <3>3, MovesOn
  <2>7. CASE ~HasChild
    <3>1. Picture(11, n_screen')
      BY <2>5, <2>7 DEF Picture, Layer4
    <3>2. Regions(11, n_regions')
      BY <2>2, <2>3 DEF Regions
    <3>3. After(q) = 11
      BY <1>7, <2>7 DEF After
    <3> QED BY <1>2, <2>3, <3>1, <3>2, <3>3, MovesOn
  <2> QED BY <2>6, <2>7
<1>8. CASE q = 9
  <2> PICK s, d, w : s = n_windows[2].child.at /\ d = Inner.x /\ w = n_windows[2].child.width
    OBVIOUS
  <2>0. d = n_windows[2].at.x + s.x /\ Inner = [x |-> d, w |-> s.w]
    BY DEF Inner, Drawing!Span
  <2>1. /\ Head(n_todo) = Drawing!Buffer("child", 2, 0, w)
        /\ d \in Int /\ s.w \in Nat /\ w \in Nat
    BY <1>2, <1>3, <1>4, <1>8, <2>0, SpanPoints DEF CallAt
  <2>2. OfWindow(Tail(n_regions), 2) /\ Sees(n_regions, d, Own(2) \cap Drawing!Points(Inner))
    BY <1>8 DEF Regions
  <2>3. /\ UNCHANGED <<n_windows, n_pointer, n_visible, n_regions>> /\ n_todo' = Tail(n_todo)
        /\ \A p \in V :
             n_screen'[p] = IF /\ p \in Own(2) \cap Drawing!Points(Inner)
                               /\ p \in Drawing!Points(Drawing!Span(0 + d, w))
                            THEN <<"child", 2, p - (0 + d)>> ELSE n_screen[p]
    BY <2>1, <2>2, Draws
  <2>4. ASSUME NEW p \in V PROVE n_screen'[p] = Layer4(p)
    <3>1. n_screen[p] = Layer3(p) /\ 0 + d = d
      BY <1>8, <2>1 DEF Picture
    <3>2. /\ p \in Own(2) \cap Drawing!Points(Inner) /\ p \in Drawing!Points(Drawing!Span(0 + d, w))
             <=> p \in Own(2) /\ p \in Drawing!Points(Inner) /\ p < d + w
      <4>1. p \in Drawing!Points(Inner) => p >= d
        BY <1>V, <2>0, <2>1 DEF Drawing!Points
      <4>2. p \in Drawing!Points(Drawing!Span(0 + d, w)) <=> p >= d /\ p < d + w
        BY <1>V, <2>1 DEF Drawing!Points, Drawing!Span
      <4> QED BY <4>1, <4>2
    <3> QED BY <1>3, <1>8, <2>3, <3>1, <3>2 DEF Layer4
  <2>5. Picture(10, n_screen')
    BY <2>4 DEF Picture
  <2>6. Regions(10, n_regions')
    BY <1>8, <2>2, <2>3 DEF Regions
  <2>7. After(q) = 10
    BY <1>8 DEF After
  <2> QED BY <1>2, <2>3, <2>5, <2>6, <2>7, MovesOn
<1>9. CASE q = 14
  <2> PICK s : s = n_pointer
    OBVIOUS
  <2>1. /\ Head(n_todo) = Drawing!Buffer("pointer", 0, s.x, s.w)
        /\ s.x \in Int /\ s.w \in Nat
    BY <1>2, <1>4, <1>9, SpanPoints DEF CallAt
  <2>2. Sees(n_regions, 0, Drawing!Points(s))
    BY <1>9 DEF Regions
  <2>3. /\ UNCHANGED <<n_windows, n_pointer, n_visible, n_regions>> /\ n_todo' = Tail(n_todo)
        /\ \A p \in V :
             n_screen'[p] = IF /\ p \in Drawing!Points(s)
                               /\ p \in Drawing!Points(Drawing!Span(s.x + 0, s.w))
                            THEN <<"pointer", 0, p - (s.x + 0)>> ELSE n_screen[p]
    BY <2>1, <2>2, Draws
  <2>4. s.x + 0 = s.x /\ Drawing!Points(Drawing!Span(s.x + 0, s.w)) = Drawing!Points(s)
    BY <1>4, <2>1, SpanPoints
  <2>5. ASSUME NEW p \in V PROVE n_screen'[p] = Layer5(p)
    <3>1. n_screen[p] = Layer4(p)
      BY <1>9 DEF Picture
    <3> QED BY <2>3, <2>4, <3>1 DEF Layer5
  <2>6. Picture(15, n_screen')
    BY <2>5 DEF Picture
  <2>7. Regions(15, n_regions')
    BY DEF Regions
  <2>8. After(q) = 15
    BY <1>9 DEF After
  <2> QED BY <1>2, <2>3, <2>6, <2>7, <2>8, MovesOn
<1> QED BY <1>3, <1>5, <1>6, <1>7, <1>8, <1>9

LEMMA FillProgress ==
  ASSUME RenderNumbers, RenderInv, Progress, n_visible # Nil,
         Drawing!renderer_draw_filled_rectangle
  PROVE  Progress'
<1> PICK q \in Stages : Ahead(q, n_todo) /\ Regions(q, n_regions) /\ Picture(q, n_screen)
  BY DEF Progress
<1>1. Scene /\ n_todo # <<>> /\ Head(n_todo).op = "fill"
  BY DEF RenderInv, Drawing!renderer_draw_filled_rectangle, Drawing!Call
<1>2. /\ q # 15 /\ Head(n_todo) = CallAt(q) /\ After(q) \in Stages /\ Ahead(After(q), Tail(n_todo))
  BY <1>1, NextStage
<1>3. q = 1
  BY <1>1, <1>2, KindOf
<1>4. Head(n_todo) = Drawing!Filled("desktop", Drawing!Span(0, Width))
  BY <1>2, <1>3 DEF CallAt
<1>5. Sees(n_regions, 0, Int) /\ OfDesktop(n_regions)
  BY <1>3 DEF Regions, OfDesktop
<1>6. /\ UNCHANGED <<n_windows, n_pointer, n_visible, n_regions>> /\ n_todo' = Tail(n_todo)
      /\ \A p \in Drawing!Points(n_visible) : n_screen'[p] = Layer0(p)
  BY <1>4, <1>5, Fills
<1>7. Picture(2, n_screen')
  BY <1>6 DEF Picture
<1>8. Regions(2, n_regions')
  BY <1>5, <1>6 DEF Regions
<1>9. After(q) = 2
  BY <1>3 DEF After
<1> QED BY <1>2, <1>6, <1>7, <1>8, <1>9, MovesOn

LEMMA UpdateProgress ==
  ASSUME RenderNumbers, RenderInv, NEW x \in -1 .. Width, NEW w \in 1 .. Width,
         Drawing!Update(Drawing!Span(x, w))
  PROVE  Progress'
<1> PICK s, t : s = Drawing!Span(x, w) /\ t = Drawing!Span(0, Width)
  OBVIOUS
<1>1. s \in SpanSet /\ t \in SpanSet
  BY DEF Drawing!Span, SpanSet, RenderNumbers
<1> PICK v : v = Drawing!Intersect(s, t).span
  OBVIOUS
<1>2. /\ Drawing!Intersect(s, t).meet /\ n_visible' = v
      /\ n_regions' = <<[clip |-> v, dx |-> 0]>> /\ n_todo' = Drawing!ScreenRender
      /\ n_windows' = n_windows /\ n_pointer' = n_pointer
  BY DEF Drawing!Update
<1>3. v \in SpanSet
  BY <1>1, <1>2, CutIn
<1>4. Drawing!ScreenRender' = Drawing!ScreenRender
  BY <1>2 DEF Drawing!ScreenRender, Drawing!DesktopRender, Drawing!PointerRender,
     Drawing!WindowRender
<1> PICK c : c = Drawing!ScreenRender
  OBVIOUS
<1>5. c \in Seq(Calls)
  BY CallsAre DEF RenderInv
<1>6. RestOf(c, c, 0)
  <2>1. Len(c) \in Nat
    BY <1>5
  <2> QED BY <1>5, <2>1 DEF RestOf
<1>7. 0 \in Stages /\ At(0) = 0
  BY DEF Stages, At
<1>8. /\ 0 \in Stages' /\ At(0)' = 0
      /\ (Ahead(0, n_todo))'
  <2>1. 0 \in Stages' /\ At(0)' = 0
    BY <1>2, <1>7 DEF Stages, At, HasChild
  <2>2. RestOf(n_todo, Drawing!ScreenRender, 0)'
    BY <1>2, <1>4, <1>6 DEF RestOf
  <2> QED BY <2>1, <2>2 DEF Ahead
<1> PICK g, r : g = [clip |-> v, dx |-> 0] /\ r = <<g>>
  OBVIOUS
<1>9. r # <<>> /\ Head(r) = g /\ g.dx = 0 /\ g.clip = v
  OBVIOUS
<1>10. Drawing!Points(v) = Drawing!Points(v) \cap Int
  BY <1>3, SpanPoints
<1>11. (Regions(0, n_regions))'
  <2>1. n_regions' = r /\ Whole' = g
    BY <1>2 DEF Whole
  <2>2. Sees(n_regions, 0, Int)'
    BY <1>2, <1>9, <1>10, <2>1 DEF Sees, Drawing!Points
  <2> QED BY <2>1, <2>2 DEF Regions
<1>12. (Picture(0, n_screen))'
  BY DEF Picture
<1> QED BY <1>8, <1>11, <1>12 DEF Progress

Midway == n_visible # Nil => Progress

LEMMA ProgressStep ==
  ASSUME RenderNumbers, RenderInv, Midway, [Drawing!Next]_(Drawing!vars)
  PROVE  Midway'
<1>1. ASSUME NEW x \in -1 .. Width, NEW w \in 1 .. Width, Drawing!Update(Drawing!Span(x, w))
      PROVE  Midway'
  BY <1>1, UpdateProgress DEF Midway
<1>n. n_visible = Nil => n_todo = <<>>
  BY DEF RenderInv
<1>2. CASE Drawing!renderer_enter
  <2>1. n_visible # Nil
    BY <1>2, <1>n DEF Drawing!renderer_enter, Drawing!Call
  <2> QED BY <1>2, <2>1, EnterProgress DEF Midway
<1>3. CASE Drawing!renderer_leave
  <2>1. n_visible # Nil
    BY <1>3, <1>n DEF Drawing!renderer_leave, Drawing!Call
  <2> QED BY <1>3, <2>1, LeaveProgress DEF Midway
<1>4. CASE Drawing!renderer_render_buffer
  <2>1. n_visible # Nil
    BY <1>4, <1>n DEF Drawing!renderer_render_buffer, Drawing!Call
  <2> QED BY <1>4, <2>1, BufferProgress DEF Midway
<1>5. CASE Drawing!renderer_draw_filled_rectangle
  <2>1. n_visible # Nil
    BY <1>5, <1>n DEF Drawing!renderer_draw_filled_rectangle, Drawing!Call
  <2> QED BY <1>5, <2>1, FillProgress DEF Midway
<1>6. CASE Drawing!Complete
  BY <1>6 DEF Drawing!Complete, Midway
<1>7. CASE UNCHANGED Drawing!vars
  <2>1. UNCHANGED <<n_windows, n_pointer, n_screen, n_visible, n_regions, n_todo>>
    BY <1>7 DEF Drawing!vars
  <2> SUFFICES ASSUME n_visible # Nil PROVE Progress'
    BY <2>1 DEF Midway
  <2> PICK q \in Stages : Ahead(q, n_todo) /\ Regions(q, n_regions) /\ Picture(q, n_screen)
    BY DEF Midway, Progress
  <2>2. Ahead(q, n_todo') /\ Regions(q, n_regions') /\ Picture(q, n_screen')
    BY <2>1
  <2> QED BY <2>1, <2>2, MovesOn
<1> QED BY <1>1, <1>2, <1>3, <1>4, <1>5, <1>6, <1>7 DEF Drawing!Next

(* The layers show what is on top.                                         *)
LEMMA LayersTop ==
  ASSUME RenderNumbers, Scene, NEW p \in Int
  PROVE  Layer5(p) = Drawing!OnTop(p)
<1>1. /\ n_pointer \in SpanSet /\ Len(n_windows) = 2
      /\ n_windows[1].at \in SpanSet /\ n_windows[1].child = Nil
      /\ n_windows[2].at \in SpanSet
      /\ HasChild => n_windows[2].child.at \in SpanSet /\ n_windows[2].child.width \in Nat
  BY SceneIs
<1> DEFINE there == {i \in 1 .. Len(n_windows) : p \in Drawing!Points(n_windows[i].at)}
           top == CHOOSE i \in there : \A j \in there : j <= i
<1> PICK d, e : d = there /\ e = top
  OBVIOUS
<1>2. \A i : i \in d <=> i \in {1, 2} /\ p \in Own(i)
  BY <1>1 DEF Own
<1>3. p \in Own(2) => d # {} /\ e = 2
  <2> SUFFICES ASSUME p \in Own(2) PROVE d # {} /\ e = 2
    OBVIOUS
  <2>1. 2 \in d /\ \A j \in d : j <= 2
    BY <1>2
  <2>2. e \in d /\ \A j \in d : j <= e
    BY <2>1
  <2>3. 2 <= e /\ e <= 2 /\ e \in {1, 2}
    BY <1>2, <2>1, <2>2
  <2> QED BY <2>1, <2>3
<1>4. p \notin Own(2) /\ p \in Own(1) => d # {} /\ e = 1
  <2> SUFFICES ASSUME p \notin Own(2), p \in Own(1) PROVE d # {} /\ e = 1
    OBVIOUS
  <2>1. d = {1}
    BY <1>2
  <2>2. e \in d
    BY <2>1
  <2> QED BY <2>1, <2>2
<1>5. p \notin Own(2) /\ p \notin Own(1) => d = {}
  BY <1>2
<1>6. Drawing!OnTop(p) =
        IF p \in Drawing!Points(n_pointer) THEN <<"pointer", 0, p - n_pointer.x>>
        ELSE IF d = {} THEN IF p < Background THEN <<"background", 0, p>> ELSE <<"desktop", 0, p>>
        ELSE IF n_windows[e].child = Nil THEN <<"window", e, p - n_windows[e].at.x>>
        ELSE IF /\ p - n_windows[e].at.x \in Drawing!Points(n_windows[e].child.at)
                /\ (p - n_windows[e].at.x) - n_windows[e].child.at.x < n_windows[e].child.width
             THEN <<"child", e, (p - n_windows[e].at.x) - n_windows[e].child.at.x>>
        ELSE <<"window", e, p - n_windows[e].at.x>>
  BY DEF Drawing!OnTop
<1> HIDE DEF there, top
<1>7. CASE p \in Drawing!Points(n_pointer)
  BY <1>6, <1>7 DEF Layer5
<1>8. CASE p \notin Drawing!Points(n_pointer) /\ p \notin Own(2)
  <2>1. Layer5(p) = Layer2(p)
    BY <1>8 DEF Layer5, Layer4, Layer3
  <2>2. CASE p \in Own(1)
    <3>1. Drawing!OnTop(p) = <<"window", 1, p - n_windows[1].at.x>>
      BY <1>1, <1>4, <1>6, <1>8, <2>2
    <3> QED BY <2>1, <2>2, <3>1 DEF Layer2
  <2>3. CASE p \notin Own(1)
    BY <1>5, <1>6, <1>8, <2>1, <2>3 DEF Layer2, Layer1, Layer0
  <2> QED BY <2>2, <2>3
<1>9. CASE p \notin Drawing!Points(n_pointer) /\ p \in Own(2) /\ ~HasChild
  BY <1>3, <1>6, <1>9 DEF Layer5, Layer4, Layer3, HasChild
<1>10. CASE p \notin Drawing!Points(n_pointer) /\ p \in Own(2) /\ HasChild
  <2>0. /\ n_windows[2].at.x \in Int /\ n_windows[2].child.width \in Nat
        /\ n_windows[2].child.at.x \in Int /\ n_windows[2].child.at.w \in Nat
    BY <1>1, <1>10, SpanPoints
  <2> PICK s : s = n_windows[2].child.at
    OBVIOUS
  <2> PICK a \in Int, x \in Int, b \in Nat, w \in Nat :
        a = n_windows[2].at.x /\ x = s.x /\ b = s.w /\ w = n_windows[2].child.width
    BY <2>0
  <2>1. (p - a) \in Drawing!Points(s) /\ (p - a) - x < w
          <=> p \in Drawing!Points(Inner) /\ p < Inner.x + w
    BY DEF Drawing!Points, Inner, Drawing!Span
  <2>2. Inner.x = a + x /\ (p - a) - x = p - Inner.x
    BY DEF Inner, Drawing!Span
  <2>3. Drawing!OnTop(p) = IF (p - a) \in Drawing!Points(s) /\ (p - a) - x < w
                           THEN <<"child", 2, (p - a) - x>> ELSE <<"window", 2, p - a>>
    BY <1>3, <1>6, <1>10 DEF HasChild
  <2>4. Layer5(p) = IF p \in Drawing!Points(Inner) /\ p < Inner.x + w
                    THEN <<"child", 2, p - Inner.x>> ELSE <<"window", 2, p - a>>
    BY <1>10 DEF Layer5, Layer4, Layer3
  <2> QED BY <2>1, <2>2, <2>3, <2>4
<1> QED BY <1>7, <1>8, <1>9, <1>10

(* When an update is over, what it was for shows what is on top there,     *)
(* however the windows lie (renderer.c, desktop.c, window.c, pointer.c).   *)
THEOREM RendersTop ==
  ASSUME RenderNumbers
  PROVE  Drawing!Spec => []Drawing!RendersRight
<1>1. RenderInv /\ [Drawing!Next]_(Drawing!vars) => RenderInv'
  BY RenderStep
<1>2. Drawing!Init => RenderInv /\ Midway
  <2>1. Drawing!Init => n_visible = Nil
    BY DEF Drawing!Init
  <2> QED BY <2>1, RenderInit DEF Midway
<1>3. RenderInv /\ Midway /\ [Drawing!Next]_(Drawing!vars) => Midway'
  BY ProgressStep
<1>4. ASSUME RenderInv, Midway PROVE Drawing!RendersRight
  <2> SUFFICES ASSUME n_visible # Nil, n_todo = <<>>, NEW p \in Drawing!Points(n_visible)
               PROVE  n_screen[p] = Drawing!OnTop(p)
    BY DEF Drawing!RendersRight
  <2> PICK q \in Stages : Ahead(q, <<>>) /\ Picture(q, n_screen)
    BY <1>4 DEF Midway, Progress
  <2>1. Scene /\ n_visible \in SpanSet
    BY <1>4 DEF RenderInv, Updating
  <2>2. q = 15
    BY <2>1, LastStage
  <2>3. n_screen[p] = Layer5(p)
    BY <2>2 DEF Picture
  <2>4. p \in Int
    BY <2>1, SpanPoints
  <2> QED BY <2>1, <2>3, <2>4, LayersTop
<1> QED BY <1>1, <1>2, <1>3, <1>4, PTL DEF Drawing!Spec

-----------------------------------------------------------------------------
(* Screen: rectangles.  The greater and the lesser of two numbers.         *)
Area == [x : Int, y : Int, w : Nat, h : Nat]
Plane == Int \X Int

LEMMA OfTwo ==
  ASSUME NEW a \in Int, NEW b \in Int
  PROVE  /\ Display!Max({a, b}) = IF a < b THEN b ELSE a
         /\ Display!Min({a, b}) = IF a < b THEN a ELSE b
<1>1. \E m \in {a, b} : \A y \in {a, b} : m >= y
  OBVIOUS
<1>2. \E m \in {a, b} : \A y \in {a, b} : m <= y
  OBVIOUS
<1>3. Display!Max({a, b}) \in {a, b} /\ \A y \in {a, b} : Display!Max({a, b}) >= y
  BY <1>1 DEF Display!Max
<1>4. Display!Min({a, b}) \in {a, b} /\ \A y \in {a, b} : Display!Min({a, b}) <= y
  BY <1>2 DEF Display!Min
<1> QED BY <1>3, <1>4

LEMMA RectIs ==
  ASSUME NEW x \in Int, NEW y \in Int, NEW w \in Nat, NEW h \in Nat
  PROVE  /\ Display!Rect(x, y, w, h) \in Area
         /\ Display!Rect(x, y, w, h).x = x /\ Display!Rect(x, y, w, h).y = y
         /\ Display!Rect(x, y, w, h).w = w /\ Display!Rect(x, y, w, h).h = h
BY DEF Display!Rect, Area

LEMMA PointsAre ==
  ASSUME NEW r \in Area, NEW p
  PROVE  p \in Display!Points(r) <=>
           /\ p \in Plane
           /\ r.x <= p[1] /\ p[1] < r.x + r.w /\ r.y <= p[2] /\ p[2] < r.y + r.h
<1> PICK x \in Int, y \in Int, w \in Nat, h \in Nat :
      r.x = x /\ r.y = y /\ r.w = w /\ r.h = h
  BY DEF Area
<1>1. Display!Points(r) = (x .. x + w - 1) \X (y .. y + h - 1)
  BY DEF Display!Points
<1>2. ASSUME p \in (x .. x + w - 1) \X (y .. y + h - 1)
      PROVE  p \in Int \X Int /\ x <= p[1] /\ p[1] < x + w /\ y <= p[2] /\ p[2] < y + h
  BY <1>2
<1>3. ASSUME p \in Int \X Int, x <= p[1], p[1] < x + w, y <= p[2], p[2] < y + h
      PROVE  p \in (x .. x + w - 1) \X (y .. y + h - 1)
  BY <1>3
<1> QED BY <1>1, <1>2, <1>3 DEF Plane

(* rectangleUnion holds both.                                              *)
LEMMA HullIs ==
  ASSUME NEW r \in Area, NEW s \in Area
  PROVE  /\ Display!Hull(r, s) \in Area
         /\ Display!Points(r) \cup Display!Points(s) \subseteq Display!Points(Display!Hull(r, s))
<1> PICK rx \in Int, ry \in Int, rw \in Nat, rh \in Nat :
      r.x = rx /\ r.y = ry /\ r.w = rw /\ r.h = rh
  BY DEF Area
<1> PICK sx \in Int, sy \in Int, sw \in Nat, sh \in Nat :
      s.x = sx /\ s.y = sy /\ s.w = sw /\ s.h = sh
  BY DEF Area
<1> PICK x0 \in Int : x0 = IF rx < sx THEN rx ELSE sx
  OBVIOUS
<1> PICK y0 \in Int : y0 = IF ry < sy THEN ry ELSE sy
  OBVIOUS
<1> PICK x1 \in Int : x1 = IF rx + rw < sx + sw THEN sx + sw ELSE rx + rw
  OBVIOUS
<1> PICK y1 \in Int : y1 = IF ry + rh < sy + sh THEN sy + sh ELSE ry + rh
  OBVIOUS
<1>1. Display!Hull(r, s) = Display!Rect(x0, y0, x1 - x0, y1 - y0)
  <2>1. Display!Min({rx, sx}) = x0 /\ Display!Min({ry, sy}) = y0
    BY OfTwo
  <2>2. Display!Max({rx + rw, sx + sw}) = x1 /\ Display!Max({ry + rh, sy + sh}) = y1
    <3>1. rx + rw \in Int /\ sx + sw \in Int /\ ry + rh \in Int /\ sy + sh \in Int
      OBVIOUS
    <3> QED BY <3>1, OfTwo
  <2> QED BY <2>1, <2>2 DEF Display!Hull
<1>2. x1 - x0 \in Nat /\ y1 - y0 \in Nat
  OBVIOUS
<1> PICK q : q = Display!Hull(r, s)
  OBVIOUS
<1>3. q \in Area /\ q.x = x0 /\ q.y = y0 /\ q.w = x1 - x0 /\ q.h = y1 - y0
  <2> PICK w \in Nat, h \in Nat : w = x1 - x0 /\ h = y1 - y0
    BY <1>2
  <2>1. q = Display!Rect(x0, y0, w, h)
    BY <1>1
  <2>2. q \in Area /\ q.x = x0 /\ q.y = y0 /\ q.w = w /\ q.h = h
    BY <2>1 DEF Display!Rect, Area
  <2> QED BY <2>2
<1>4. ASSUME NEW p, p \in Display!Points(r) \/ p \in Display!Points(s) PROVE p \in Display!Points(q)
  <2>1. /\ p \in Plane
        /\ \/ rx <= p[1] /\ p[1] < rx + rw /\ ry <= p[2] /\ p[2] < ry + rh
           \/ sx <= p[1] /\ p[1] < sx + sw /\ sy <= p[2] /\ p[2] < sy + sh
    BY <1>4, PointsAre
  <2> PICK a \in Int, b \in Int : a = p[1] /\ b = p[2]
    BY <2>1 DEF Plane
  <2>2. x0 <= a /\ a < x0 + (x1 - x0) /\ y0 <= b /\ b < y0 + (y1 - y0)
    BY <2>1
  <2> QED BY <1>3, <2>1, <2>2, PointsAre
<1> QED BY <1>3, <1>4

(* What some rectangles cover.                                             *)
CoverOf(s) == Display!Cover(Display!Range(s))

LEMMA CoverIs ==
  ASSUME NEW s, NEW p
  PROVE  p \in CoverOf(s) <=> \E i \in DOMAIN s : p \in Display!Points(s[i])
BY DEF CoverOf, Display!Cover, Display!Range

(* What holds of 0, and of i when it holds of i - 1.                       *)
LEMMA UpTo ==
  ASSUME NEW n \in Nat, NEW S, 0 \in S, \A i \in 1 .. n : i - 1 \in S => i \in S
  PROVE  \A i \in 0 .. n : i \in S
<1> SUFFICES ASSUME NEW k \in 0 .. n, k \notin S PROVE FALSE
  OBVIOUS
<1>1. PICK m \in (0 .. n) \ S : \A j \in (0 .. n) \ S : m <= j
  <2>1. (0 .. n) \ S \subseteq Nat /\ (0 .. n) \ S # {}
    OBVIOUS
  <2> QED BY <2>1, LeastNumber
<1>2. m \in 1 .. n /\ m - 1 \in 0 .. n /\ ~(m <= m - 1)
  BY <1>1
<1> QED BY <1>1, <1>2

(* rectanglelistUnionOverlaps: a rectangle takes in another, or leaves it. *)
Absorbing == [r : Area, rest : Seq(Area)]
AreaOf(acc) == Display!Points(acc.r) \cup CoverOf(acc.rest)
Absorbed(acc, s) ==
  IF Display!Meet(acc.r, s) THEN [acc EXCEPT !.r = Display!Hull(acc.r, s)]
  ELSE [acc EXCEPT !.rest = Append(acc.rest, s)]

LEMMA AbsorbedIs ==
  ASSUME NEW acc \in Absorbing, NEW s \in Area
  PROVE  /\ Absorbed(acc, s) \in Absorbing
         /\ AreaOf(acc) \cup Display!Points(s) \subseteq AreaOf(Absorbed(acc, s))
<1> PICK a \in Area, l \in Seq(Area) : acc.r = a /\ acc.rest = l /\ acc = [r |-> a, rest |-> l]
  BY DEF Absorbing
<1>1. CASE Display!Meet(a, s)
  <2> PICK h \in Area : h = Display!Hull(a, s)
    BY HullIs
  <2>1. Absorbed(acc, s) = [r |-> h, rest |-> l]
    BY <1>1 DEF Absorbed
  <2>2. Display!Points(a) \cup Display!Points(s) \subseteq Display!Points(h)
    BY HullIs
  <2> QED BY <2>1, <2>2 DEF Absorbing, AreaOf
<1>2. CASE ~Display!Meet(a, s)
  <2> PICK n \in Nat : n = Len(l)
    OBVIOUS
  <2> PICK k : k = Append(l, s)
    OBVIOUS
  <2>1. Absorbed(acc, s) = [r |-> a, rest |-> k]
    BY <1>2 DEF Absorbed
  <2>2. k \in Seq(Area) /\ DOMAIN k = 1 .. n + 1 /\ k[n + 1] = s /\ \A i \in 1 .. n : k[i] = l[i]
    OBVIOUS
  <2>3. DOMAIN l = 1 .. n /\ n + 1 \in DOMAIN k /\ \A i \in 1 .. n : i \in DOMAIN k
    BY <2>2
  <2>4. ASSUME NEW p, p \in CoverOf(l) \/ p \in Display!Points(s) PROVE p \in CoverOf(k)
    <3>1. CASE p \in CoverOf(l)
      <4>1. PICK i \in DOMAIN l : p \in Display!Points(l[i])
        BY <3>1, CoverIs
      <4>2. i \in DOMAIN k /\ k[i] = l[i]
        BY <2>2, <2>3
      <4>3. p \in Display!Points(k[i])
        BY <4>1, <4>2
      <4> QED BY <4>2, <4>3, CoverIs, Zenon
    <3>2. CASE p \in Display!Points(s)
      <4>1. p \in Display!Points(k[n + 1])
        BY <2>2, <3>2
      <4> QED BY <2>3, <4>1, CoverIs, Zenon
    <3> QED BY <2>4, <3>1, <3>2
  <2>5. Absorbed(acc, s) \in Absorbing
    BY <2>1, <2>2 DEF Absorbing
  <2>6. AreaOf(Absorbed(acc, s)) = Display!Points(a) \cup CoverOf(k)
    <3>1. Absorbed(acc, s).r = a /\ Absorbed(acc, s).rest = k
      BY <2>1
    <3> QED BY <3>1, Zenon DEF AreaOf
  <2>7. AreaOf(acc) = Display!Points(a) \cup CoverOf(l)
    BY DEF AreaOf
  <2> QED BY <2>4, <2>5, <2>6, <2>7
<1> QED BY <1>1, <1>2

LEMMA TakeInIs ==
  ASSUME NEW r \in Area, NEW rest \in Seq(Area)
  PROVE  /\ Display!TakeIn(r, rest) \in Absorbing
         /\ Display!Points(r) \cup CoverOf(rest) \subseteq AreaOf(Display!TakeIn(r, rest))
<1> PICK n \in Nat : n = Len(rest)
  OBVIOUS
<1> PICK z : z = [r |-> r, rest |-> <<>>]
  OBVIOUS
<1> PICK g : g = [q \in (1 .. n) \X Absorbing |-> Absorbed(q[2], rest[q[1]])]
  OBVIOUS
<1>1. \A i \in 1 .. n : rest[i] \in Area
  OBVIOUS
<1>2. z \in Absorbing /\ z.r = r
  BY DEF Absorbing
<1>3. \A i \in 1 .. n : \A acc \in Absorbing : g[<<i, acc>>] = Absorbed(acc, rest[i])
  OBVIOUS
<1>4. g \in [(1 .. n) \X Absorbing -> Absorbing]
  <2>1. \A q \in (1 .. n) \X Absorbing : Absorbed(q[2], rest[q[1]]) \in Absorbing
    <3>1. TAKE q \in (1 .. n) \X Absorbing
    <3>2. q[1] \in 1 .. n /\ q[2] \in Absorbing
      OBVIOUS
    <3>3. rest[q[1]] \in Area
      BY <1>1, <3>2
    <3> QED BY <3>2, <3>3, AbsorbedIs
  <2> QED BY <2>1
<1> DEFINE Following(f) == [i \in 0 .. Len(rest) |->
             IF i = 0 THEN [r |-> r, rest |-> <<>>]
             ELSE LET acc == f[i - 1]
                  IN IF Display!Meet(acc.r, rest[i])
                     THEN [acc EXCEPT !.r = Display!Hull(acc.r, rest[i])]
                     ELSE [acc EXCEPT !.rest = Append(acc.rest, rest[i])]]
           after == CHOOSE f : f = Following(f)
<1>5. Display!TakeIn(r, rest) = after[Len(rest)]
  BY DEF Display!TakeIn
<1>6. \A f : Following(f) = [i \in 0 .. n |-> IF i = 0 THEN z ELSE Absorbed(f[i - 1], rest[i])]
  BY Zenon DEF Absorbed
<1> HIDE DEF Following
<1>7. \E f : f = Following(f)
  <2>1. PICK f : Runs(f, Absorbing, z, g, n)
    BY <1>2, <1>4, Recursion, Zenon
  <2>2. f \in [0 .. n -> Absorbing] /\ f[0] = z /\ \A i \in 1 .. n : f[i] = g[<<i, f[i - 1]>>]
    BY <2>1, Zenon DEF Runs
  <2>3. ASSUME NEW i \in 0 .. n PROVE f[i] = IF i = 0 THEN z ELSE Absorbed(f[i - 1], rest[i])
    <3>1. CASE i = 0
      BY <2>2, <3>1
    <3>2. CASE i # 0
      <4>1. i \in 1 .. n /\ i - 1 \in 0 .. n
        BY <3>2
      <4>2. f[i - 1] \in Absorbing /\ f[i] = g[<<i, f[i - 1]>>]
        BY ONLY <2>2, <4>1
      <4>3. g[<<i, f[i - 1]>>] = Absorbed(f[i - 1], rest[i])
        BY <1>3, <4>1, <4>2, Zenon
      <4> QED BY <3>2, <4>2, <4>3
    <3> QED BY <3>1, <3>2
  <2>4. f = [i \in 0 .. n |-> f[i]]
    BY ONLY <2>2
  <2>5. f = [i \in 0 .. n |-> IF i = 0 THEN z ELSE Absorbed(f[i - 1], rest[i])]
    BY ONLY <2>3, <2>4
  <2> QED BY <1>6, <2>5, Zenon
<1>8. after = Following(after)
  BY <1>7, Zenon
<1> HIDE DEF after
<1>9. after = [i \in 0 .. n |-> IF i = 0 THEN z ELSE Absorbed(after[i - 1], rest[i])]
  BY <1>6, <1>8, Zenon
<1>10. Runs(after, Absorbing, z, g, n)
  <2>1. after[0] = z /\ after = [i \in 0 .. n |-> after[i]]
    BY ONLY <1>9
  <2>2. \A i \in 1 .. n : after[i] = Absorbed(after[i - 1], rest[i])
    BY ONLY <1>9
  <2>3. \A i \in 1 .. n : after[i - 1] \in Absorbing => after[i] = g[<<i, after[i - 1]>>]
    BY <1>3, <2>2, Zenon
  <2>4. Unfolds(after, Absorbing, z, g, n)
    BY ONLY <2>1, <2>3 DEF Unfolds
  <2> QED BY <1>2, <1>4, <2>4, Unfolded, Zenon
<1>11. after \in [0 .. n -> Absorbing] /\ after[0] = z
       /\ \A i \in 1 .. n : after[i] = g[<<i, after[i - 1]>>]
  BY <1>10, Zenon DEF Runs
<1>12. ASSUME NEW i \in 1 .. n
       PROVE  /\ after[i - 1] \in Absorbing /\ after[i] \in Absorbing
              /\ AreaOf(after[i - 1]) \cup Display!Points(rest[i]) \subseteq AreaOf(after[i])
  <2>1. i - 1 \in 0 .. n /\ i \in 0 .. n
    OBVIOUS
  <2>2. after[i - 1] \in Absorbing /\ after[i] \in Absorbing /\ after[i] = g[<<i, after[i - 1]>>]
    BY ONLY <1>11, <2>1, i \in 1 .. n
  <2>3. after[i] = Absorbed(after[i - 1], rest[i])
    BY <1>3, <2>2, Zenon
  <2> QED BY <1>1, <2>2, <2>3, AbsorbedIs
<1>13. ASSUME NEW p, p \in Display!Points(r) \/ p \in CoverOf(rest) PROVE p \in AreaOf(after[n])
  <2> DEFINE Met(i) == p \in Display!Points(r) \/ \E j \in 1 .. i : p \in Display!Points(rest[j])
             S == {i \in 0 .. n : Met(i) => p \in AreaOf(after[i])}
  <2>1. 0 \in S
    BY <1>2, <1>11 DEF AreaOf
  <2>2. ASSUME NEW i \in 1 .. n, i - 1 \in S PROVE i \in S
    <3>1. \A j \in 1 .. i : j = i \/ j \in 1 .. i - 1
      OBVIOUS
    <3>2. Met(i) => Met(i - 1) \/ p \in Display!Points(rest[i])
      BY <3>1
    <3>3. Met(i) => p \in AreaOf(after[i])
      BY <1>12, <2>2, <3>2
    <3> QED BY <3>3
  <2>3. n \in S
    <3>1. \A i \in 0 .. n : i \in S
      <4> HIDE DEF S
      <4> QED BY <2>1, <2>2, UpTo
    <3> QED BY <3>1
  <2>4. Met(n)
    BY <1>13, CoverIs
  <2> QED BY <2>3, <2>4
<1>14. after[n] \in Absorbing
  BY ONLY <1>11, n \in Nat
<1> QED BY <1>5, <1>13, <1>14

LEMMA JoinIs ==
  ASSUME NEW S, NEW a \in Seq(S), NEW b \in Seq(S), NEW m \in Nat, NEW n \in Nat,
         Len(a) = m, Len(b) = n
  PROVE  /\ a \o b \in Seq(S) /\ Len(a \o b) = m + n
         /\ \A j \in 1 .. m : (a \o b)[j] = a[j]
         /\ \A j \in 1 .. n : (a \o b)[m + j] = b[j]
OBVIOUS

(* A rectangle takes in those behind it, in its place in the list.         *)
TakenIn(l, i) ==
  IF i > Len(l) THEN l
  ELSE LET t == Display!TakeIn(l[i], SubSeq(l, i + 1, Len(l)))
       IN SubSeq(l, 1, i - 1) \o <<t.r>> \o t.rest

LEMMA TakenInIs ==
  ASSUME NEW l \in Seq(Area), NEW i \in Nat \ {0}
  PROVE  TakenIn(l, i) \in Seq(Area) /\ CoverOf(l) \subseteq CoverOf(TakenIn(l, i))
<1> PICK n \in Nat : n = Len(l)
  OBVIOUS
<1> SUFFICES ASSUME i <= n
             PROVE  TakenIn(l, i) \in Seq(Area) /\ CoverOf(l) \subseteq CoverOf(TakenIn(l, i))
  BY DEF TakenIn
<1> PICK low : low = SubSeq(l, 1, i - 1)
  OBVIOUS
<1> PICK high : high = SubSeq(l, i + 1, n)
  OBVIOUS
<1>1. /\ low \in Seq(Area) /\ Len(low) = i - 1 /\ \A j \in 1 .. i - 1 : low[j] = l[j]
      /\ high \in Seq(Area) /\ Len(high) = n - i /\ \A j \in 1 .. n - i : high[j] = l[i + j]
  OBVIOUS
<1>2. l[i] \in Area
  OBVIOUS
<1> PICK t \in Absorbing : t = Display!TakeIn(l[i], high)
  BY <1>1, <1>2, TakeInIs
<1> PICK a \in Area, rest \in Seq(Area) : a = t.r /\ rest = t.rest
  BY DEF Absorbing
<1>3. Display!Points(l[i]) \cup CoverOf(high) \subseteq Display!Points(a) \cup CoverOf(rest)
  BY <1>1, <1>2, TakeInIs, Zenon DEF AreaOf
<1> PICK m \in Nat : m = Len(rest)
  OBVIOUS
<1> PICK k : k = low \o <<a>> \o rest
  OBVIOUS
<1>4. TakenIn(l, i) = k
  <2>1. ~(i > Len(l))
    OBVIOUS
  <2> QED BY <2>1, Zenon DEF TakenIn
<1>5. /\ k \in Seq(Area) /\ Len(k) = i + m /\ k[i] = a
      /\ \A j \in 1 .. i - 1 : k[j] = low[j]
      /\ \A j \in 1 .. m : k[i + j] = rest[j]
  <2> PICK b : b = low \o <<a>>
    OBVIOUS
  <2> PICK one : one = <<a>>
    OBVIOUS
  <2>1. one \in Seq(Area) /\ Len(one) = 1 /\ one[1] = a
    OBVIOUS
  <2> PICK e \in Nat : e = i - 1
    OBVIOUS
  <2>2. /\ b \in Seq(Area) /\ Len(b) = e + 1
        /\ \A j \in 1 .. e : b[j] = low[j]
        /\ \A j \in 1 .. 1 : b[e + j] = one[j]
    <3>1. b = low \o one
      OBVIOUS
    <3>2. low \in Seq(Area) /\ Len(low) = e
      BY <1>1
    <3>4. /\ low \o one \in Seq(Area) /\ Len(low \o one) = e + 1
          /\ \A j \in 1 .. e : (low \o one)[j] = low[j]
          /\ \A j \in 1 .. 1 : (low \o one)[e + j] = one[j]
      BY <2>1, <3>2, JoinIs
    <3> QED BY ONLY <3>1, <3>4
  <2>3. Len(b) = i /\ b[i] = a /\ \A j \in 1 .. i - 1 : b[j] = low[j]
    BY <2>1, <2>2
  <2>4. /\ k \in Seq(Area) /\ Len(k) = i + m
        /\ \A j \in 1 .. i : k[j] = b[j]
        /\ \A j \in 1 .. m : k[i + j] = rest[j]
    <3>1. k = b \o rest
      OBVIOUS
    <3>2. /\ i \in Nat /\ m \in Nat /\ Len(rest) = m /\ rest \in Seq(Area)
          /\ b \in Seq(Area) /\ Len(b) = i
      BY <2>2, <2>3
    <3>3. /\ b \o rest \in Seq(Area) /\ Len(b \o rest) = i + m
          /\ \A j \in 1 .. i : (b \o rest)[j] = b[j]
          /\ \A j \in 1 .. m : (b \o rest)[i + j] = rest[j]
      BY ONLY <3>2
    <3> QED BY ONLY <3>1, <3>3
  <2>5. i \in 1 .. i /\ \A j \in 1 .. i - 1 : j \in 1 .. i
    OBVIOUS
  <2>6. k[i] = a /\ \A j \in 1 .. i - 1 : k[j] = low[j]
    BY ONLY <2>3, <2>4, <2>5
  <2> QED BY <2>4, <2>6
<1>6. ASSUME NEW p, p \in Display!Points(a) \/ p \in CoverOf(rest) PROVE p \in CoverOf(k)
  <2>1. CASE p \in Display!Points(a)
    <3>1. i \in DOMAIN k
      BY ONLY <1>5, m \in Nat, i \in Nat \ {0}
    <3>2. p \in Display!Points(k[i])
      BY <1>5, <2>1
    <3> QED BY <3>1, <3>2, CoverIs, Zenon
  <2>2. CASE p \in CoverOf(rest)
    <3>1. PICK j \in DOMAIN rest : p \in Display!Points(rest[j])
      BY <2>2, CoverIs, Zenon
    <3>2. j \in 1 .. m /\ i + j \in DOMAIN k
      BY ONLY <1>5, <3>1, m \in Nat, i \in Nat \ {0}, m = Len(rest), rest \in Seq(Area)
    <3>3. p \in Display!Points(k[i + j])
      BY <1>5, <3>1, <3>2
    <3> QED BY <3>2, <3>3, CoverIs, Zenon
  <2> QED BY <1>6, <2>1, <2>2
<1>7. ASSUME NEW p, p \in CoverOf(l) PROVE p \in CoverOf(k)
  <2>1. PICK j \in DOMAIN l : p \in Display!Points(l[j])
    BY <1>7, CoverIs, Zenon
  <2>2. CASE j < i
    <3>1. j \in 1 .. i - 1 /\ j \in DOMAIN k
      BY ONLY <1>5, <2>1, <2>2, m \in Nat, i \in Nat \ {0}, l \in Seq(Area)
    <3>2. p \in Display!Points(k[j])
      BY <1>1, <1>5, <2>1, <3>1
    <3> QED BY <3>1, <3>2, CoverIs, Zenon
  <2>3. CASE j = i
    BY <1>3, <1>6, <2>1, <2>3
  <2>4. CASE j > i
    <3> PICK e : e = j - i
      OBVIOUS
    <3>1. e \in DOMAIN high /\ high[e] = l[j]
      BY <1>1, <2>4
    <3>2. p \in Display!Points(high[e])
      BY <2>1, <3>1
    <3>3. p \in CoverOf(high)
      BY <3>1, <3>2, CoverIs, Zenon
    <3> QED BY <1>3, <1>6, <3>3
  <2> QED BY <2>2, <2>3, <2>4
<1> QED BY <1>4, <1>5, <1>7

(* What the list becomes covers what the list covered.                     *)
LEMMA UnionKeeps ==
  ASSUME NEW s \in Seq(Area)
  PROVE  CoverOf(s) \subseteq CoverOf(Display!UnionOverlaps(s))
<1> PICK n \in Nat : n = Len(s)
  OBVIOUS
<1> PICK V : V = Seq(Area)
  OBVIOUS
<1> PICK g : g = [q \in (1 .. n) \X V |-> TakenIn(q[2], q[1])]
  OBVIOUS
<1>1. \A i \in 1 .. n : \A l \in V : g[<<i, l>>] = TakenIn(l, i)
  OBVIOUS
<1>2. \A i \in 1 .. n : \A l \in V :
        TakenIn(l, i) \in V /\ CoverOf(l) \subseteq CoverOf(TakenIn(l, i))
  BY TakenInIs
<1>3. g \in [(1 .. n) \X V -> V] /\ s \in V
  <2>1. \A q \in (1 .. n) \X V : TakenIn(q[2], q[1]) \in V
    BY <1>2
  <2> QED BY <2>1
<1> DEFINE Following(f) == [i \in 0 .. Len(s) |->
             IF i = 0 THEN s
             ELSE LET l == f[i - 1]
                  IN IF i > Len(l) THEN l
                     ELSE LET t == Display!TakeIn(l[i], SubSeq(l, i + 1, Len(l)))
                          IN SubSeq(l, 1, i - 1) \o <<t.r>> \o t.rest]
           after == CHOOSE f : f = Following(f)
<1>4. Display!UnionOverlaps(s) = after[Len(s)]
  BY DEF Display!UnionOverlaps
<1>5. \A f : Following(f) = [i \in 0 .. n |-> IF i = 0 THEN s ELSE TakenIn(f[i - 1], i)]
  BY Zenon DEF TakenIn
<1> HIDE DEF Following
<1>6. \E f : f = Following(f)
  <2>1. PICK f : Runs(f, V, s, g, n)
    BY <1>3, Recursion, Zenon
  <2>2. f \in [0 .. n -> V] /\ f[0] = s /\ \A i \in 1 .. n : f[i] = g[<<i, f[i - 1]>>]
    BY <2>1, Zenon DEF Runs
  <2>3. ASSUME NEW i \in 0 .. n PROVE f[i] = IF i = 0 THEN s ELSE TakenIn(f[i - 1], i)
    <3>1. CASE i = 0
      BY <2>2, <3>1
    <3>2. CASE i # 0
      <4>1. i \in 1 .. n /\ i - 1 \in 0 .. n
        BY <3>2
      <4>2. f[i - 1] \in V /\ f[i] = g[<<i, f[i - 1]>>]
        BY ONLY <2>2, <4>1
      <4>3. g[<<i, f[i - 1]>>] = TakenIn(f[i - 1], i)
        BY <1>1, <4>1, <4>2, Zenon
      <4> QED BY <3>2, <4>2, <4>3
    <3> QED BY <3>1, <3>2
  <2>4. f = [i \in 0 .. n |-> f[i]]
    BY ONLY <2>2
  <2>5. f = [i \in 0 .. n |-> IF i = 0 THEN s ELSE TakenIn(f[i - 1], i)]
    BY ONLY <2>3, <2>4
  <2> QED BY <1>5, <2>5, Zenon
<1>7. after = Following(after)
  BY <1>6, Zenon
<1> HIDE DEF after
<1>8. after = [i \in 0 .. n |-> IF i = 0 THEN s ELSE TakenIn(after[i - 1], i)]
  BY <1>5, <1>7, Zenon
<1>9. Runs(after, V, s, g, n)
  <2>1. after[0] = s /\ after = [i \in 0 .. n |-> after[i]]
    BY ONLY <1>8
  <2>2. \A i \in 1 .. n : after[i] = TakenIn(after[i - 1], i)
    BY ONLY <1>8
  <2>3. \A i \in 1 .. n : after[i - 1] \in V => after[i] = g[<<i, after[i - 1]>>]
    BY <1>1, <2>2, Zenon
  <2>4. Unfolds(after, V, s, g, n)
    BY ONLY <2>1, <2>3 DEF Unfolds
  <2> QED BY <1>3, <2>4, Unfolded, Zenon
<1>10. /\ after \in [0 .. n -> V] /\ after[0] = s
       /\ \A i \in 1 .. n : after[i] = g[<<i, after[i - 1]>>]
  BY <1>9, Zenon DEF Runs
<1>11. ASSUME NEW i \in 1 .. n PROVE CoverOf(after[i - 1]) \subseteq CoverOf(after[i])
  <2>1. i - 1 \in 0 .. n
    OBVIOUS
  <2>2. after[i - 1] \in V /\ after[i] = g[<<i, after[i - 1]>>]
    BY ONLY <1>10, <2>1, i \in 1 .. n
  <2>3. after[i] = TakenIn(after[i - 1], i)
    BY <1>1, <2>2, Zenon
  <2> QED BY <1>2, <2>2, <2>3, Zenon
<1>12. CoverOf(s) \subseteq CoverOf(after[n])
  <2> DEFINE S == {i \in 0 .. n : CoverOf(s) \subseteq CoverOf(after[i])}
  <2>1. 0 \in S
    BY <1>10
  <2>2. \A i \in 1 .. n : i - 1 \in S => i \in S
    BY <1>11
  <2>3. n \in S
    <3>1. \A i \in 0 .. n : i \in S
      <4> HIDE DEF S
      <4> QED BY <2>1, <2>2, UpTo
    <3> QED BY <3>1
  <2> QED BY <2>3
<1> QED BY <1>4, <1>12

-----------------------------------------------------------------------------
(* Where the pointer may be: the nearest number of an interval, and the    *)
(* squares by which distances are compared.                                *)
LEMMA SquaresGrow ==
  ASSUME NEW a \in Nat, NEW b \in Nat, a <= b
  PROVE  a * a <= b * b
<1> PICK k \in Nat : b = a + k
  <2>1. b - a \in Nat /\ b = a + (b - a)
    OBVIOUS
  <2> QED BY <2>1
<1>1. a * k \in Nat /\ k * k \in Nat /\ a * a \in Nat
  OBVIOUS
<1>2. (a + k) * (a + k) = a * a + a * k + a * k + k * k
  OBVIOUS
<1> QED BY <1>1, <1>2

LEMMA SquaredAlike ==
  ASSUME NEW a \in Int, NEW b \in Int
  PROVE  (a - b) * (a - b) = (b - a) * (b - a) /\ (a - b) * (a - b) \in Nat
<1> PICK d \in Int : d = a - b
  OBVIOUS
<1>1. b - a = -d
  OBVIOUS
<1>2. (-d) * (-d) = d * d
  OBVIOUS
<1>3. d * d \in Nat
  <2>1. CASE d \in Nat
    BY <2>1
  <2>2. CASE -d \in Nat
    <3>1. (-d) * (-d) \in Nat
      BY <2>2
    <3> QED BY <1>2, <3>1
  <2> QED BY <2>1, <2>2
<1> QED BY <1>1, <1>2, <1>3

LEMMA WithinIs ==
  ASSUME NEW n \in Int, NEW h \in Nat \ {0}
  PROVE  /\ Display!Within(n, 0, h - 1) \in 0 .. h - 1
         /\ \A r \in 0 .. h - 1 :
              (n - Display!Within(n, 0, h - 1)) * (n - Display!Within(n, 0, h - 1))
                <= (n - r) * (n - r)
<1> PICK w : w = Display!Within(n, 0, h - 1)
  OBVIOUS
<1>1. w = IF n < 0 THEN 0 ELSE IF n > h - 1 THEN h - 1 ELSE n
  BY DEF Display!Within
<1>2. w \in 0 .. h - 1
  BY <1>1
<1>3. ASSUME NEW r \in 0 .. h - 1 PROVE (n - w) * (n - w) <= (n - r) * (n - r)
  <2>1. CASE n < 0
    <3> PICK a \in Nat, b \in Nat : a = w - n /\ b = r - n /\ a <= b
      <4>1. w - n \in Nat /\ r - n \in Nat /\ w - n <= r - n
        BY <1>1, <2>1
      <4> QED BY <4>1
    <3>1. a * a <= b * b
      BY SquaresGrow
    <3>2. (n - w) * (n - w) = (w - n) * (w - n) /\ (n - r) * (n - r) = (r - n) * (r - n)
      BY <1>2, SquaredAlike
    <3> QED BY <3>1, <3>2
  <2>2. CASE n > h - 1
    <3> PICK a \in Nat, b \in Nat : a = n - w /\ b = n - r /\ a <= b
      <4>1. n - w \in Nat /\ n - r \in Nat /\ n - w <= n - r
        BY <1>1, <2>2
      <4> QED BY <4>1
    <3>1. a * a <= b * b
      BY SquaresGrow
    <3> QED BY <3>1
  <2>3. CASE ~(n < 0) /\ ~(n > h - 1)
    <3>1. n - w = 0
      BY <1>1, <2>3
    <3>2. (n - r) * (n - r) \in Nat
      BY SquaredAlike
    <3> QED BY <3>1, <3>2
  <2> QED BY <2>1, <2>2, <2>3
<1> QED BY <1>2, <1>3

-----------------------------------------------------------------------------
(* The state of the screen.  What a viewport waits for is in its list.     *)
ScreenTyped ==
  /\ s_registered \subseteq Viewports
  /\ s_size \in [Viewports -> Nat \X Nat]
  /\ \A v \in s_registered : s_size[v] \in DisplaySizes
  /\ s_invalid \in [Viewports -> Seq(Area)]
  /\ \A v \in Viewports : Len(s_invalid[v]) <= MaxInvalid
  /\ s_updateEvent \in [Viewports -> BOOLEAN] /\ s_timers \in [Viewports -> Nat]
  /\ s_screenSize \in Nat \X Nat /\ s_pointer \in Plane /\ DOMAIN s_stale = Viewports

Queued ==
  \A v \in Viewports :
    /\ (s_invalid[v] # <<>>) = s_updateEvent[v]
    /\ s_updateEvent[v] => s_timers[v] > 0

Listed ==
  \A v \in s_registered :
    s_stale[v] \subseteq CoverOf(s_invalid[v]) \cap Display!Points(Display!Extent(v))

Boxed == s_registered # {} => s_screenSize = Display!Bounds(s_registered, s_size)
ScreenInv == ScreenTyped /\ Queued /\ Listed /\ Boxed

LEMMA ExtentIs ==
  ASSUME ScreenNumbers, ScreenTyped, NEW v \in s_registered
  PROVE  /\ s_size[v][1] \in Nat \ {0} /\ s_size[v][2] \in Nat \ {0}
         /\ \A p : p \in Display!Points(Display!Extent(v)) <=>
              p \in Plane /\ p[1] \in 0 .. s_size[v][1] - 1 /\ p[2] \in 0 .. s_size[v][2] - 1
<1>1. s_size[v] \in DisplaySizes
  BY DEF ScreenTyped
<1>2. s_size[v] \in (Nat \ {0}) \X (Nat \ {0})
  BY <1>1 DEF ScreenNumbers
<1> PICK w \in Nat \ {0}, h \in Nat \ {0} : s_size[v][1] = w /\ s_size[v][2] = h
  BY <1>2
<1> PICK r : r = Display!Rect(0, 0, w, h)
  OBVIOUS
<1>3. r \in Area /\ r.x = 0 /\ r.y = 0 /\ r.w = w /\ r.h = h
  BY DEF Display!Rect, Area
<1>4. Display!Extent(v) = r
  BY DEF Display!Extent
<1>5. ASSUME NEW p
      PROVE  p \in Display!Points(r) <=> p \in Plane /\ p[1] \in 0 .. w - 1 /\ p[2] \in 0 .. h - 1
  <2>1. p \in Display!Points(r) <=>
          p \in Plane /\ 0 <= p[1] /\ p[1] < 0 + w /\ 0 <= p[2] /\ p[2] < 0 + h
    BY <1>3, PointsAre
  <2>2. CASE p \in Plane
    <3> PICK a \in Int, b \in Int : a = p[1] /\ b = p[2]
      BY <2>2 DEF Plane
    <3> QED BY <2>1, <2>2
  <2>3. CASE p \notin Plane
    BY <2>1, <2>3
  <2> QED BY <2>2, <2>3
<1> QED BY <1>4, <1>5

(* The nearest point of one viewport.                                      *)
LEMMA CandidateIs ==
  ASSUME ScreenNumbers, ScreenTyped, NEW v \in s_registered, NEW p \in Plane
  PROVE  /\ Display!Candidate(v, p) \in Display!Points(Display!Extent(v))
         /\ Display!Distance(Display!Candidate(v, p), p) \in Nat
         /\ \A r \in Display!Points(Display!Extent(v)) :
              Display!Distance(p, Display!Candidate(v, p)) <= Display!Distance(p, r)
         /\ Display!Distance(p, Display!Candidate(v, p))
              = Display!Distance(Display!Candidate(v, p), p)
<1> PICK x \in Int, y \in Int : x = p[1] /\ y = p[2]
  BY DEF Plane
<1> PICK w \in Nat \ {0}, h \in Nat \ {0} : s_size[v][1] = w /\ s_size[v][2] = h
  BY ExtentIs
<1> PICK a \in 0 .. w - 1 : a = Display!Within(x, 0, w - 1)
  BY WithinIs
<1> PICK b \in 0 .. h - 1 : b = Display!Within(y, 0, h - 1)
  BY WithinIs
<1> PICK c : c = Display!Candidate(v, p)
  OBVIOUS
<1>1. c = <<a, b>>
  BY DEF Display!Candidate
<1>2. c \in Display!Points(Display!Extent(v))
  <2>1. c \in Plane /\ c[1] \in 0 .. w - 1 /\ c[2] \in 0 .. h - 1
    BY <1>1 DEF Plane
  <2> QED BY <2>1, ExtentIs
<1>3. Display!Distance(c, p) = (a - x) * (a - x) + (b - y) * (b - y)
  BY <1>1 DEF Display!Distance
<1>4. Display!Distance(p, c) = (x - a) * (x - a) + (y - b) * (y - b)
  BY <1>1 DEF Display!Distance
<1>5. /\ (a - x) * (a - x) = (x - a) * (x - a) /\ (a - x) * (a - x) \in Nat
      /\ (b - y) * (b - y) = (y - b) * (y - b) /\ (b - y) * (b - y) \in Nat
  <2>1. a \in Int /\ b \in Int
    OBVIOUS
  <2>2. (a - x) * (a - x) = (x - a) * (x - a) /\ (a - x) * (a - x) \in Nat
    BY <2>1, SquaredAlike
  <2>3. (b - y) * (b - y) = (y - b) * (y - b) /\ (b - y) * (b - y) \in Nat
    BY <2>1, SquaredAlike
  <2> QED BY <2>2, <2>3
<1>6. ASSUME NEW r \in Display!Points(Display!Extent(v))
      PROVE  Display!Distance(p, c) <= Display!Distance(p, r)
  <2>1. r \in Plane /\ r[1] \in 0 .. w - 1 /\ r[2] \in 0 .. h - 1
    BY ExtentIs
  <2> PICK i \in 0 .. w - 1, j \in 0 .. h - 1 : i = r[1] /\ j = r[2]
    BY <2>1
  <2>2. (x - a) * (x - a) <= (x - i) * (x - i)
    BY WithinIs
  <2>3. (y - b) * (y - b) <= (y - j) * (y - j)
    BY WithinIs
  <2>4. Display!Distance(p, r) = (x - i) * (x - i) + (y - j) * (y - j)
    BY DEF Display!Distance
  <2>5. /\ (x - a) * (x - a) \in Nat /\ (y - b) * (y - b) \in Nat
        /\ (x - i) * (x - i) \in Nat /\ (y - j) * (y - j) \in Nat
    BY SquaredAlike
  <2> QED BY <1>4, <2>2, <2>3, <2>4, <2>5
<1>7. Display!Distance(c, p) \in Nat /\ Display!Distance(p, c) = Display!Distance(c, p)
  BY <1>3, <1>4, <1>5
<1> QED BY <1>2, <1>6, <1>7

(* And of them all.                                                        *)
LEMMA NearestIs ==
  ASSUME ScreenNumbers, ScreenTyped, s_registered # {}, NEW p \in Plane
  PROVE  /\ Display!ConstrainPoint(p) \in Display!On
         /\ \A r \in Display!On :
              Display!Distance(p, Display!ConstrainPoint(p)) <= Display!Distance(p, r)
<1> DEFINE d(v) == Display!Distance(Display!Candidate(v, p), p)
           D == {d(v) : v \in s_registered}
           best == {v \in s_registered : \A u \in s_registered : ~Display!Closer(u, v, p)}
<1>1. \A v \in s_registered : d(v) \in Nat
  BY CandidateIs
<1>2. PICK m \in D : \A e \in D : m <= e
  <2>1. D \subseteq Nat /\ D # {}
    BY <1>1
  <2> HIDE DEF D
  <2> QED BY <2>1, LeastNumber
<1>3. PICK b \in s_registered : m = d(b)
  BY <1>2
<1>4. \A u, v \in s_registered : Display!Closer(u, v, p) <=> d(u) < d(v)
  BY DEF Display!Closer
<1>5. b \in best
  <2>1. ASSUME NEW u \in s_registered PROVE ~(d(u) < d(b))
    <3>1. d(b) <= d(u) /\ d(b) \in Nat /\ d(u) \in Nat
      BY <1>1, <1>2, <1>3
    <3> HIDE DEF d
    <3> QED BY <3>1
  <2> QED BY <1>4, <2>1
<1>6. PICK v : v = Display!Min(best)
  OBVIOUS
<1>7. v \in best
  <2>1. best \subseteq Nat /\ best # {}
    BY <1>5 DEF ScreenNumbers, ScreenTyped
  <2>2. \E e \in best : \A f \in best : e <= f
    <3> HIDE DEF best
    <3> QED BY <2>1, LeastNumber
  <2>3. Display!Min(best) \in best
    <3> HIDE DEF best
    <3> QED BY <2>2 DEF Display!Min
  <2> QED BY <1>6, <2>3
<1>8. Display!ConstrainPoint(p) = Display!Candidate(v, p)
  BY <1>6 DEF Display!ConstrainPoint
<1>9. ASSUME NEW r \in Display!On
      PROVE  Display!Distance(p, Display!Candidate(v, p)) <= Display!Distance(p, r)
  <2> PICK u \in s_registered : r \in Display!Points(Display!Extent(u))
    BY DEF Display!On
  <2>1. /\ Display!Distance(p, Display!Candidate(u, p)) <= Display!Distance(p, r)
        /\ Display!Distance(p, Display!Candidate(u, p)) = d(u)
        /\ Display!Distance(p, Display!Candidate(v, p)) = d(v)
    BY <1>7, CandidateIs
  <2>2. ~(d(u) < d(v)) /\ d(u) \in Nat /\ d(v) \in Nat
    BY <1>1, <1>4, <1>7
  <2>3. Display!Distance(p, r) \in Int
    <3> PICK x \in Int, y \in Int : x = p[1] /\ y = p[2]
      BY DEF Plane
    <3>1. r \in Plane
      BY ExtentIs
    <3> PICK i \in Int, j \in Int : i = r[1] /\ j = r[2]
      BY <3>1 DEF Plane
    <3>2. (x - i) * (x - i) \in Nat /\ (y - j) * (y - j) \in Nat
      BY SquaredAlike
    <3> QED BY <3>2 DEF Display!Distance
  <2> HIDE DEF d
  <2> QED BY <2>1, <2>2, <2>3
<1>10. Display!Candidate(v, p) \in Display!On
  <2>1. v \in s_registered /\ Display!Candidate(v, p) \in Display!Points(Display!Extent(v))
    BY <1>7, CandidateIs
  <2> QED BY <2>1 DEF Display!On
<1> QED BY <1>8, <1>9, <1>10

-----------------------------------------------------------------------------
(* screenViewportsChanged takes the greatest of the widths and heights.    *)
LEMMA GreatestIs == ASSUME NEW S PROVE Display!Max(S) = Grid!Max(S)
BY DEF Display!Max, Grid!Max

LEMMA BoundsAre ==
  ASSUME ScreenNumbers, NEW vs, vs # {}, NEW sizes, \A v \in vs : sizes[v] \in DisplaySizes
  PROVE  /\ Display!Bounds(vs, sizes) \in Nat \X Nat
         /\ \A v \in vs : /\ sizes[v][1] <= Display!Bounds(vs, sizes)[1]
                          /\ sizes[v][2] <= Display!Bounds(vs, sizes)[2]
         /\ \E v \in vs : sizes[v][1] = Display!Bounds(vs, sizes)[1]
         /\ \E v \in vs : sizes[v][2] = Display!Bounds(vs, sizes)[2]
<1> DEFINE X == {sizes[v][1] : v \in vs}
           Y == {sizes[v][2] : v \in vs}
<1>1. PICK m \in DisplaySizes : \A s \in DisplaySizes : s[1] <= m[1]
  BY DEF ScreenNumbers
<1>2. PICK k \in DisplaySizes : \A s \in DisplaySizes : s[2] <= k[2]
  BY DEF ScreenNumbers
<1>3. \A s \in DisplaySizes : s[1] \in Nat /\ s[2] \in Nat
  BY DEF ScreenNumbers
<1> PICK w \in Nat, h \in Nat : w = m[1] /\ h = k[2]
  BY <1>3
<1>4. X \subseteq 0 .. w /\ X # {}
  BY <1>1, <1>3
<1>5. Y \subseteq 0 .. h /\ Y # {}
  BY <1>2, <1>3
<1> PICK a, b : a = Display!Max(X) /\ b = Display!Max(Y)
  OBVIOUS
<1>6. a \in X /\ \A x \in X : x <= a
  <2> HIDE DEF X
  <2> QED BY <1>4, Extremes, GreatestIs
<1>7. b \in Y /\ \A y \in Y : y <= b
  <2> HIDE DEF Y
  <2> QED BY <1>5, Extremes, GreatestIs
<1>8. Display!Bounds(vs, sizes) = <<a, b>>
  BY DEF Display!Bounds
<1>9. a \in Nat /\ b \in Nat
  BY <1>4, <1>5, <1>6, <1>7
<1> PICK c : c = Display!Bounds(vs, sizes)
  OBVIOUS
<1>10. c \in Nat \X Nat /\ c[1] = a /\ c[2] = b
  BY <1>8, <1>9
<1>11. \A v \in vs : sizes[v][1] <= c[1] /\ sizes[v][2] <= c[2]
  BY <1>6, <1>7, <1>10
<1>12. \E v \in vs : sizes[v][1] = c[1]
  BY <1>6, <1>10
<1>13. \E v \in vs : sizes[v][2] = c[2]
  BY <1>7, <1>10
<1> QED BY <1>10, <1>11, <1>12, <1>13

(* What is added to a list is covered.                                     *)
LEMMA ListGrows ==
  ASSUME NEW a \in Seq(Area), NEW b \in Seq(Area), b # <<>>
  PROVE  /\ a \o b \in Seq(Area) /\ a \o b # <<>> /\ Len(a \o b) = Len(a) + Len(b)
         /\ CoverOf(a) \cup CoverOf(b) \subseteq CoverOf(a \o b)
<1> PICK m \in Nat, n \in Nat : m = Len(a) /\ n = Len(b)
  OBVIOUS
<1> PICK c : c = a \o b
  OBVIOUS
<1>1. /\ c \in Seq(Area) /\ Len(c) = m + n
      /\ \A j \in 1 .. m : c[j] = a[j]
      /\ \A j \in 1 .. n : c[m + j] = b[j]
  OBVIOUS
<1>2. n # 0
  OBVIOUS
<1>3. ASSUME NEW p, p \in CoverOf(a) PROVE p \in CoverOf(c)
  <2>1. PICK j \in DOMAIN a : p \in Display!Points(a[j])
    BY <1>3, CoverIs, Zenon
  <2>2. j \in 1 .. m /\ j \in DOMAIN c
    BY <1>1
  <2>3. p \in Display!Points(c[j])
    BY <1>1, <2>1, <2>2
  <2> QED BY <2>2, <2>3, CoverIs, Zenon
<1>4. ASSUME NEW p, p \in CoverOf(b) PROVE p \in CoverOf(c)
  <2>1. PICK j \in DOMAIN b : p \in Display!Points(b[j])
    BY <1>4, CoverIs, Zenon
  <2>2. j \in 1 .. n /\ m + j \in DOMAIN c
    BY <1>1
  <2>3. p \in Display!Points(c[m + j])
    BY <1>1, <2>1, <2>2
  <2> QED BY <2>2, <2>3, CoverIs, Zenon
<1>5. c # <<>>
  BY <1>1, <1>2
<1> QED BY <1>1, <1>3, <1>4, <1>5

(* viewportInvalidateRectangle, of viewports that were known or are all    *)
(* invalid now: what is outdated has been listed, and will be painted.     *)
Outlisted(v, rects, vs, gone) ==
  \/ v \in vs /\ Display!Points(Display!Extent(v))' \subseteq CoverOf(rects)
  \/ /\ v \in s_registered /\ s_size'[v] = s_size[v]
     /\ gone[v] = {} \/ (v \in vs /\ gone[v] \subseteq CoverOf(rects))

LEMMA InvalidatedGood ==
  ASSUME ScreenInv, NEW vs, NEW rects \in Seq(Area), rects # <<>>, NEW gone,
         Display!Invalidated(vs, rects, gone), vs \subseteq Viewports,
         s_registered' \subseteq Viewports, MaxInvalid \in Nat,
         \A v \in s_registered' : Outlisted(v, rects, vs, gone)
  PROVE  /\ s_invalid' \in [Viewports -> Seq(Area)]
         /\ \A v \in Viewports : Len(s_invalid'[v]) <= MaxInvalid
         /\ s_updateEvent' \in [Viewports -> BOOLEAN] /\ s_timers' \in [Viewports -> Nat]
         /\ Queued' /\ Listed' /\ DOMAIN s_stale' = Viewports
<1> PICK list : list = s_invalid'
  OBVIOUS
<1>1. /\ \A v \in vs : Len(s_invalid[v]) + Len(rects) <= MaxInvalid
      /\ list = [v \in Viewports |-> IF v \in vs THEN s_invalid[v] \o rects ELSE s_invalid[v]]
      /\ s_timers' = [v \in Viewports |->
                       IF v \in vs /\ ~s_updateEvent[v] THEN s_timers[v] + 1 ELSE s_timers[v]]
      /\ s_updateEvent' = [v \in Viewports |-> v \in vs \/ s_updateEvent[v]]
      /\ \A v \in s_registered' :
           s_stale'[v] = (s_stale[v] \cup gone[v]) \cap Display!Points(Display!Extent(v))'
      /\ DOMAIN s_stale' = Viewports
  BY DEF Display!Invalidated, Display!Extent
<1>2. /\ s_invalid \in [Viewports -> Seq(Area)] /\ s_updateEvent \in [Viewports -> BOOLEAN]
      /\ s_timers \in [Viewports -> Nat] /\ \A v \in Viewports : Len(s_invalid[v]) <= MaxInvalid
  BY DEF ScreenInv, ScreenTyped
<1>3. ASSUME NEW v \in Viewports
      PROVE  /\ list[v] \in Seq(Area) /\ Len(list[v]) <= MaxInvalid
             /\ CoverOf(s_invalid[v]) \subseteq CoverOf(list[v])
             /\ v \in vs => list[v] # <<>> /\ CoverOf(rects) \subseteq CoverOf(list[v])
             /\ v \notin vs => list[v] = s_invalid[v]
  <2> PICK s \in Seq(Area) : s = s_invalid[v]
    BY <1>2
  <2>1. CASE v \in vs
    <3>1. list[v] = s \o rects
      BY <1>1, <2>1
    <3>2. /\ s \o rects \in Seq(Area) /\ s \o rects # <<>>
          /\ Len(s \o rects) = Len(s) + Len(rects)
          /\ CoverOf(s) \cup CoverOf(rects) \subseteq CoverOf(s \o rects)
      BY ListGrows
    <3>3. Len(s) + Len(rects) <= MaxInvalid
      BY <1>1, <2>1
    <3> PICK t : t = s \o rects
      OBVIOUS
    <3>4. /\ t \in Seq(Area) /\ t # <<>> /\ Len(t) <= MaxInvalid
          /\ CoverOf(s) \subseteq CoverOf(t) /\ CoverOf(rects) \subseteq CoverOf(t)
      BY <3>2, <3>3, Zenon
    <3> QED BY <2>1, <3>1, <3>4, Zenon
  <2>2. CASE v \notin vs
    BY <1>1, <1>2, <2>2
  <2> QED BY <2>1, <2>2
<1>4. list \in [Viewports -> Seq(Area)]
  <2>1. list = [v \in Viewports |-> list[v]]
    BY <1>1
  <2> QED BY ONLY <1>3, <2>1
<1>5. s_timers' \in [Viewports -> Nat]
  <2>1. \A v \in Viewports : s_timers[v] + 1 \in Nat
    BY <1>2
  <2> QED BY ONLY <1>1, <1>2, <2>1
<1>6. s_updateEvent' \in [Viewports -> BOOLEAN]
  BY <1>1, <1>2, Zenon
<1>7. Queued'
  <2>1. ASSUME NEW v \in Viewports
        PROVE  /\ (list[v] # <<>>) = s_updateEvent'[v]
               /\ s_updateEvent'[v] => s_timers'[v] > 0
    <3>1. /\ (s_invalid[v] # <<>>) = s_updateEvent[v] /\ (s_updateEvent[v] => s_timers[v] > 0)
          /\ s_timers[v] \in Nat /\ s_updateEvent[v] \in BOOLEAN
      BY <1>2 DEF ScreenInv, Queued
    <3>2. /\ s_timers'[v] = IF v \in vs /\ ~s_updateEvent[v] THEN s_timers[v] + 1 ELSE s_timers[v]
          /\ s_updateEvent'[v] = (v \in vs \/ s_updateEvent[v])
      BY <1>1, Zenon
    <3>3. v \in vs => list[v] # <<>>
      BY <1>3, Zenon
    <3>4. v \notin vs => list[v] = s_invalid[v]
      BY <1>3, Zenon
    <3>5. CASE v \in vs
      <4>1. s_timers'[v] > 0
        BY ONLY <3>1, <3>2, <3>5
      <4> QED BY <3>2, <3>3, <3>5, <4>1, Zenon
    <3>6. CASE v \notin vs
      BY <3>1, <3>2, <3>4, <3>6, Zenon
    <3> QED BY <3>5, <3>6
  <2> QED BY <2>1 DEF Queued
<1>8. ASSUME NEW v \in s_registered'
      PROVE  s_stale'[v] \subseteq CoverOf(list[v]) \cap Display!Points(Display!Extent(v))'
  <2> PICK E : E = Display!Points(Display!Extent(v))'
    OBVIOUS
  <2>1. s_stale'[v] = (s_stale[v] \cup gone[v]) \cap E
    BY <1>1
  <2>2. v \in Viewports
    OBVIOUS
  <2>3. CASE v \in vs /\ E \subseteq CoverOf(rects)
    BY <1>3, <2>1, <2>2, <2>3, Zenon
  <2>4. CASE v \in s_registered /\ gone[v] = {}
    <3>1. s_stale[v] \subseteq CoverOf(s_invalid[v])
      BY <2>4 DEF ScreenInv, Listed
    <3> QED BY <1>3, <2>1, <2>2, <2>4, <3>1, Zenon
  <2>5. CASE v \in s_registered /\ v \in vs /\ gone[v] \subseteq CoverOf(rects)
    <3>1. s_stale[v] \subseteq CoverOf(s_invalid[v])
      BY <2>5 DEF ScreenInv, Listed
    <3> QED BY <1>3, <2>1, <2>2, <2>5, <3>1, Zenon
  <2>6. Outlisted(v, rects, vs, gone)
    OBVIOUS
  <2> QED BY <2>3, <2>4, <2>5, <2>6 DEF Outlisted
<1>9. Listed'
  BY <1>8 DEF Listed
<1> QED BY <1>1, <1>3, <1>4, <1>5, <1>6, <1>7, <1>9

LEMMA RectangleIs ==
  ASSUME ScreenNumbers, NEW s \in DisplaySizes
  PROVE  /\ s \in Nat \X Nat
         /\ <<Display!Rect(0, 0, s[1], s[2])>> \in Seq(Area)
         /\ <<Display!Rect(0, 0, s[1], s[2])>> # <<>>
         /\ CoverOf(<<Display!Rect(0, 0, s[1], s[2])>>)
              = Display!Points(Display!Rect(0, 0, s[1], s[2]))
<1>1. s \in (Nat \ {0}) \X (Nat \ {0})
  BY DEF ScreenNumbers
<1> PICK r : r = Display!Rect(0, 0, s[1], s[2])
  OBVIOUS
<1>2. r \in Area
  BY <1>1 DEF Display!Rect, Area
<1> PICK l : l = <<r>>
  OBVIOUS
<1>3. l \in Seq(Area) /\ l # <<>> /\ DOMAIN l = {1} /\ l[1] = r
  BY <1>2
<1>4. ASSUME NEW p PROVE p \in CoverOf(l) <=> p \in Display!Points(r)
  BY <1>3, CoverIs
<1>5. CoverOf(l) = Display!Points(r)
  BY <1>4
<1>6. s \in Nat \X Nat
  BY <1>1
<1> QED BY <1>3, <1>5, <1>6

(* A viewport v gets a size, and all of it is invalid.                     *)
LEMMA SizedGood ==
  ASSUME ScreenNumbers, ScreenInv, NEW v \in Viewports, NEW s \in DisplaySizes, NEW vs,
         v \in vs, vs \subseteq Viewports, s_registered' = s_registered \cup {v},
         s_size' = [s_size EXCEPT ![v] = s],
         s_screenSize' = Display!Bounds(s_registered', s_size'),
         Display!Invalidated(vs, <<Display!Rect(0, 0, s[1], s[2])>>,
           [u \in Viewports |->
              IF u = v THEN Display!Points(Display!Rect(0, 0, s[1], s[2])) ELSE {}]),
         UNCHANGED s_pointer
  PROVE  ScreenInv'
<1> PICK rects : rects = <<Display!Rect(0, 0, s[1], s[2])>>
  OBVIOUS
<1> PICK gone : gone = [u \in Viewports |->
              IF u = v THEN Display!Points(Display!Rect(0, 0, s[1], s[2])) ELSE {}]
  OBVIOUS
<1>1. /\ rects \in Seq(Area) /\ rects # <<>> /\ s \in Nat \X Nat
      /\ CoverOf(rects) = Display!Points(Display!Rect(0, 0, s[1], s[2]))
  BY RectangleIs
<1>2. s_size \in [Viewports -> Nat \X Nat] /\ s_registered \subseteq Viewports
      /\ s_pointer \in Plane /\ \A u \in s_registered : s_size[u] \in DisplaySizes
  BY DEF ScreenInv, ScreenTyped
<1>3. /\ s_size' \in [Viewports -> Nat \X Nat] /\ s_registered' \subseteq Viewports
      /\ s_size'[v] = s /\ \A u \in Viewports \ {v} : s_size'[u] = s_size[u]
      /\ \A u \in s_registered' : s_size'[u] \in DisplaySizes
      /\ s_pointer' \in Plane
  BY <1>1, <1>2
<1>4. ASSUME NEW u \in s_registered' PROVE Outlisted(u, rects, vs, gone)
  <2>1. CASE u = v
    <3>1. Display!Points(Display!Extent(u))' = CoverOf(rects)
      BY <1>1, <1>3, <2>1 DEF Display!Extent
    <3> QED BY <2>1, <3>1 DEF Outlisted
  <2>2. CASE u # v
    <3>1. u \in s_registered /\ u \in Viewports
      BY <1>2, <2>2
    <3>2. s_size'[u] = s_size[u] /\ gone[u] = {}
      BY <1>3, <2>2, <3>1
    <3> QED BY <3>1, <3>2 DEF Outlisted
  <2> QED BY <2>1, <2>2
<1>5. Display!Invalidated(vs, rects, gone) /\ MaxInvalid \in Nat
  BY DEF ScreenNumbers
<1>6. /\ s_invalid' \in [Viewports -> Seq(Area)]
      /\ \A u \in Viewports : Len(s_invalid'[u]) <= MaxInvalid
      /\ s_updateEvent' \in [Viewports -> BOOLEAN] /\ s_timers' \in [Viewports -> Nat]
      /\ Queued' /\ Listed' /\ DOMAIN s_stale' = Viewports
  BY <1>1, <1>3, <1>4, <1>5, InvalidatedGood
<1>7. s_screenSize' \in Nat \X Nat
  <2>1. s_registered' # {}
    OBVIOUS
  <2>2. Display!Bounds(s_registered', s_size') \in Nat \X Nat
    BY <1>3, <2>1, BoundsAre
  <2> QED BY <2>2
<1>8. Boxed'
  <2>1. Display!Bounds(s_registered, s_size)' = Display!Bounds(s_registered', s_size')
    BY DEF Display!Bounds
  <2> QED BY <2>1 DEF Boxed
<1>9. ScreenTyped'
  BY <1>3, <1>6, <1>7 DEF ScreenTyped
<1> QED BY <1>6, <1>8, <1>9 DEF ScreenInv

(* Something on all viewports changes.                                     *)
LEMMA ChangeGood ==
  ASSUME ScreenNumbers, ScreenInv, NEW rects \in Seq(Area), rects # <<>>, NEW gone,
         \A v \in Viewports : gone[v] \subseteq CoverOf(rects),
         Display!Invalidated(s_registered, rects, gone),
         UNCHANGED <<s_registered, s_size, s_screenSize>>, s_pointer' \in Plane
  PROVE  ScreenInv'
<1>1. s_registered \subseteq Viewports
  BY DEF ScreenInv, ScreenTyped
<1>2. \A v \in s_registered' : Outlisted(v, rects, s_registered, gone)
  BY <1>1 DEF Outlisted
<1>3. MaxInvalid \in Nat
  BY DEF ScreenNumbers
<1>4. /\ s_invalid' \in [Viewports -> Seq(Area)]
      /\ \A v \in Viewports : Len(s_invalid'[v]) <= MaxInvalid
      /\ s_updateEvent' \in [Viewports -> BOOLEAN] /\ s_timers' \in [Viewports -> Nat]
      /\ Queued' /\ Listed' /\ DOMAIN s_stale' = Viewports
  BY <1>1, <1>2, <1>3, InvalidatedGood
<1>5. ScreenTyped'
  BY <1>4 DEF ScreenInv, ScreenTyped
<1>6. Boxed'
  BY DEF ScreenInv, Boxed, Display!Bounds
<1> QED BY <1>4, <1>5, <1>6 DEF ScreenInv

LEMMA RerenderGood ==
  ASSUME ScreenNumbers, ScreenInv, Display!Rerender
  PROVE  ScreenInv'
<1> PICK p \in {<<0, 0>>, <<1, 1>>}, w \in {1, 2} :
      Display!Invalidated(s_registered, <<Display!Rect(p[1], p[2], w, 1)>>,
        [v \in Viewports |-> Display!Points(Display!Rect(p[1], p[2], w, 1))])
  BY DEF Display!Rerender
<1> PICK r : r = Display!Rect(p[1], p[2], w, 1)
  OBVIOUS
<1>1. r \in Area
  BY DEF Display!Rect, Area
<1> PICK rects : rects = <<r>>
  OBVIOUS
<1> PICK gone : gone = [v \in Viewports |-> Display!Points(r)]
  OBVIOUS
<1>2. rects \in Seq(Area) /\ rects # <<>> /\ DOMAIN rects = {1} /\ rects[1] = r
  BY <1>1
<1>3. \A v \in Viewports : gone[v] \subseteq CoverOf(rects)
  <2>1. ASSUME NEW q \in Display!Points(r) PROVE q \in CoverOf(rects)
    BY <1>2, CoverIs
  <2> QED BY <2>1
<1>4. Display!Invalidated(s_registered, rects, gone)
  OBVIOUS
<1>5. UNCHANGED <<s_registered, s_size, s_screenSize>> /\ s_pointer' \in Plane
  BY DEF Display!Rerender, ScreenInv, ScreenTyped
<1> QED BY <1>2, <1>3, <1>4, <1>5, ChangeGood

LEMMA SetPositionGood ==
  ASSUME ScreenNumbers, ScreenInv, Display!SetPosition
  PROVE  ScreenInv'
<1> PICK p \in Moves :
      /\ s_pointer' = Display!ConstrainPoint(p)
      /\ Display!Invalidated(s_registered, Display!Outdated(s_pointer, s_pointer'),
           [v \in Viewports |-> Display!Points(Display!Square(s_pointer)) \cup
                                  Display!Points(Display!Square(s_pointer'))])
  BY DEF Display!SetPosition
<1>1. s_pointer \in Plane /\ p \in Plane /\ ScreenTyped
  BY DEF ScreenInv, ScreenTyped, ScreenNumbers, Plane
<1>2. s_pointer' \in Plane
  <2>1. CASE s_registered = {}
    BY <1>1, <2>1 DEF Display!ConstrainPoint
  <2>2. CASE s_registered # {}
    <3>1. s_pointer' \in Display!On
      BY <1>1, <2>2, NearestIs
    <3> PICK v \in s_registered : s_pointer' \in Display!Points(Display!Extent(v))
      BY <3>1 DEF Display!On
    <3> QED BY <1>1, ExtentIs
  <2> QED BY <2>1, <2>2
<1> PICK a, b : a = Display!Square(s_pointer) /\ b = Display!Square(s_pointer')
  OBVIOUS
<1>3. a \in Area /\ b \in Area
  BY <1>1, <1>2 DEF Display!Square, Display!Rect, Area, Plane, ScreenNumbers
<1> PICK rects : rects = <<a, b>>
  OBVIOUS
<1> PICK gone : gone = [v \in Viewports |-> Display!Points(a) \cup Display!Points(b)]
  OBVIOUS
<1>4. rects \in Seq(Area) /\ rects # <<>> /\ DOMAIN rects = {1, 2} /\ rects[1] = a /\ rects[2] = b
  BY <1>3
<1>5. \A v \in Viewports : gone[v] \subseteq CoverOf(rects)
  <2>1. ASSUME NEW q, q \in Display!Points(a) \/ q \in Display!Points(b) PROVE q \in CoverOf(rects)
    BY <1>4, <2>1, CoverIs
  <2> QED BY <2>1
<1>6. Display!Invalidated(s_registered, rects, gone)
  BY DEF Display!Outdated
<1>7. UNCHANGED <<s_registered, s_size, s_screenSize>>
  BY DEF Display!SetPosition
<1> QED BY <1>2, <1>4, <1>5, <1>6, <1>7, ChangeGood

LEMMA UpdateGood ==
  ASSUME ScreenNumbers, ScreenInv, NEW v \in Viewports, Display!Update(v)
  PROVE  ScreenInv'
<1>1. /\ s_timers[v] > 0 /\ v \in s_registered
      /\ s_timers' = [s_timers EXCEPT ![v] = @ - 1]
      /\ UNCHANGED <<s_registered, s_size, s_screenSize, s_pointer>>
  BY DEF Display!Update
<1>2. /\ s_invalid \in [Viewports -> Seq(Area)] /\ s_updateEvent \in [Viewports -> BOOLEAN]
      /\ s_timers \in [Viewports -> Nat] /\ \A u \in Viewports : Len(s_invalid[u]) <= MaxInvalid
  BY DEF ScreenInv, ScreenTyped
<1>3. s_timers' \in [Viewports -> Nat] /\ \A u \in Viewports \ {v} : s_timers'[u] = s_timers[u]
  BY <1>1, <1>2
<1>4. Boxed'
  BY <1>1 DEF ScreenInv, Boxed, Display!Bounds
<1>5. CASE s_invalid[v] = <<>>
  <2>1. UNCHANGED <<s_invalid, s_updateEvent, s_stale>>
    BY <1>5 DEF Display!Update
  <2>2. ScreenTyped'
    BY <1>1, <1>3, <2>1 DEF ScreenInv, ScreenTyped
  <2>3. Queued'
    <3>1. \A u \in Viewports : (s_invalid[u] # <<>>) = s_updateEvent[u]
      BY DEF ScreenInv, Queued
    <3>2. ~s_updateEvent[v]
      BY <1>2, <1>5, <3>1, Zenon
    <3>3. \A u \in Viewports : s_updateEvent[u] => s_timers'[u] > 0
      BY <1>3, <3>2 DEF ScreenInv, Queued
    <3> QED BY <2>1, <3>1, <3>3 DEF Queued
  <2>4. Listed'
    BY <1>1, <2>1 DEF ScreenInv, Listed, Display!Extent
  <2> QED BY <1>4, <2>2, <2>3, <2>4 DEF ScreenInv
<1>6. CASE s_invalid[v] # <<>>
  <2>1. /\ s_stale' = [s_stale EXCEPT ![v] = @ \ Display!Painted(v)]
        /\ s_invalid' = [s_invalid EXCEPT ![v] = <<>>]
        /\ s_updateEvent' = [s_updateEvent EXCEPT ![v] = FALSE]
    BY <1>6 DEF Display!Update
  <2>2. /\ s_invalid' \in [Viewports -> Seq(Area)]
        /\ \A u \in Viewports : Len(s_invalid'[u]) <= MaxInvalid
    <3>1. <<>> \in Seq(Area) /\ Len(<<>>) <= MaxInvalid
      BY DEF ScreenNumbers
    <3>2. \A u \in Viewports : s_invalid'[u] = IF u = v THEN <<>> ELSE s_invalid[u]
      BY <1>2, <2>1
    <3> QED BY <1>2, <2>1, <3>1, <3>2
  <2>3. s_updateEvent' \in [Viewports -> BOOLEAN]
    BY <1>2, <2>1, Zenon
  <2>4. ScreenTyped'
    BY <1>1, <1>3, <2>1, <2>2, <2>3 DEF ScreenInv, ScreenTyped
  <2>5. Queued'
    <3>1. \A u \in Viewports \ {v} :
            s_invalid'[u] = s_invalid[u] /\ s_updateEvent'[u] = s_updateEvent[u]
      BY <1>2, <2>1
    <3>2. s_invalid'[v] = <<>> /\ s_updateEvent'[v] = FALSE
      BY <1>2, <2>1
    <3>3. ASSUME NEW u \in Viewports \ {v}
          PROVE  /\ (s_invalid'[u] # <<>>) = s_updateEvent'[u]
                 /\ s_updateEvent'[u] => s_timers'[u] > 0
      BY <1>3, <3>1 DEF ScreenInv, Queued
    <3>4. ASSUME NEW u \in Viewports
          PROVE  /\ (s_invalid'[u] # <<>>) = s_updateEvent'[u]
                 /\ s_updateEvent'[u] => s_timers'[u] > 0
      BY <3>2, <3>3, Zenon
    <3> QED BY <3>4 DEF Queued
  <2>6. Listed'
    <3>1. ASSUME NEW u \in s_registered
          PROVE  s_stale'[u] \subseteq CoverOf(s_invalid'[u]) \cap Display!Points(Display!Extent(u))
      <4>1. /\ u \in Viewports
            /\ s_stale[u] \subseteq CoverOf(s_invalid[u]) \cap Display!Points(Display!Extent(u))
        BY DEF ScreenInv, ScreenTyped, Listed
      <4>2. CASE u # v
        BY <1>2, <2>1, <4>1, <4>2
      <4>3. CASE u = v
        <5>1. s_invalid[v] \in Seq(Area)
          BY <1>2
        <5>2. CoverOf(s_invalid[v]) \subseteq CoverOf(Display!UnionOverlaps(s_invalid[v]))
          BY <5>1, UnionKeeps
        <5>3. s_stale[v] \subseteq Display!Painted(v)
          BY <4>1, <4>3, <5>2 DEF Display!Painted, CoverOf
        <5>4. s_stale'[v] = {}
          <6>1. DOMAIN s_stale = Viewports
            BY DEF ScreenInv, ScreenTyped
          <6> QED BY <2>1, <5>3, <6>1
        <5> QED BY <4>3, <5>4
      <4> QED BY <4>2, <4>3
    <3>2. \A u : Display!Extent(u)' = Display!Extent(u)
      BY <1>1 DEF Display!Extent
    <3> QED BY <1>1, <3>1, <3>2 DEF Listed
  <2> QED BY <1>4, <2>4, <2>5, <2>6 DEF ScreenInv
<1> QED BY <1>5, <1>6

LEMMA UnregisterGood ==
  ASSUME ScreenNumbers, ScreenInv, NEW v \in Viewports, Display!Unregister(v)
  PROVE  ScreenInv'
<1>1. /\ v \in s_registered /\ s_registered' = s_registered \ {v}
      /\ s_screenSize' = Display!Bounds(s_registered', s_size)
      /\ s_invalid' = [s_invalid EXCEPT ![v] = <<>>]
      /\ s_updateEvent' = [s_updateEvent EXCEPT ![v] = FALSE]
      /\ s_stale' = [s_stale EXCEPT ![v] = {}]
      /\ UNCHANGED <<s_size, s_timers, s_pointer>>
  BY DEF Display!Unregister
<1>2. /\ s_invalid \in [Viewports -> Seq(Area)] /\ s_updateEvent \in [Viewports -> BOOLEAN]
      /\ DOMAIN s_stale = Viewports /\ \A u \in Viewports : Len(s_invalid[u]) <= MaxInvalid
      /\ s_screenSize \in Nat \X Nat /\ \A u \in s_registered : s_size[u] \in DisplaySizes
  BY DEF ScreenInv, ScreenTyped
<1>3. /\ s_invalid' \in [Viewports -> Seq(Area)]
      /\ \A u \in Viewports : Len(s_invalid'[u]) <= MaxInvalid
  <2>1. <<>> \in Seq(Area) /\ Len(<<>>) <= MaxInvalid
    BY DEF ScreenNumbers
  <2>2. \A u \in Viewports : s_invalid'[u] = IF u = v THEN <<>> ELSE s_invalid[u]
    BY <1>1, <1>2
  <2> QED BY <1>1, <1>2, <2>1, <2>2
<1>4. s_updateEvent' \in [Viewports -> BOOLEAN]
  BY <1>1, <1>2, Zenon
<1>5. s_screenSize' \in Nat \X Nat
  <2>1. CASE s_registered' = {}
    <3>1. s_screenSize' = s_screenSize
      BY <1>1, <2>1 DEF Display!Bounds
    <3> QED BY <1>2, <3>1
  <2>2. CASE s_registered' # {}
    <3>1. \A u \in s_registered' : s_size[u] \in DisplaySizes
      BY <1>1, <1>2
    <3>2. Display!Bounds(s_registered', s_size) \in Nat \X Nat
      BY <2>2, <3>1, BoundsAre
    <3> QED BY <1>1, <3>2
  <2> QED BY <2>1, <2>2
<1>6. ScreenTyped'
  BY <1>1, <1>3, <1>4, <1>5 DEF ScreenInv, ScreenTyped
<1>7. Queued'
  <2>1. \A u \in Viewports \ {v} :
          s_invalid'[u] = s_invalid[u] /\ s_updateEvent'[u] = s_updateEvent[u]
    BY <1>1, <1>2
  <2>2. s_invalid'[v] = <<>> /\ s_updateEvent'[v] = FALSE
    BY <1>1, <1>2
  <2>3. ASSUME NEW u \in Viewports \ {v}
        PROVE  /\ (s_invalid'[u] # <<>>) = s_updateEvent'[u]
               /\ s_updateEvent'[u] => s_timers'[u] > 0
    BY <1>1, <2>1 DEF ScreenInv, Queued
  <2>4. ASSUME NEW u \in Viewports
        PROVE  /\ (s_invalid'[u] # <<>>) = s_updateEvent'[u]
               /\ s_updateEvent'[u] => s_timers'[u] > 0
    BY <2>2, <2>3, Zenon
  <2> QED BY <2>4 DEF Queued
<1>8. Listed'
  <2>1. ASSUME NEW u \in s_registered'
        PROVE  s_stale'[u] \subseteq CoverOf(s_invalid'[u]) \cap Display!Points(Display!Extent(u))
    <3>1. u \in s_registered /\ u # v /\ u \in Viewports
      BY <1>1 DEF ScreenInv, ScreenTyped
    <3>2. s_stale'[u] = s_stale[u] /\ s_invalid'[u] = s_invalid[u]
      BY <1>1, <1>2, <3>1
    <3> QED BY <3>1, <3>2 DEF ScreenInv, Listed
  <2>2. \A u : Display!Extent(u)' = Display!Extent(u)
    BY <1>1 DEF Display!Extent
  <2> QED BY <2>1, <2>2 DEF Listed
<1>9. Boxed'
  BY <1>1 DEF Boxed, Display!Bounds
<1> QED BY <1>6, <1>7, <1>8, <1>9 DEF ScreenInv

LEMMA ScreenStep ==
  ASSUME ScreenNumbers, ScreenInv, [Display!Next]_(Display!vars)
  PROVE  ScreenInv'
<1>1. CASE UNCHANGED Display!vars
  BY <1>1 DEF Display!vars, ScreenInv, ScreenTyped, Queued, Listed, Boxed, Display!Extent,
     Display!Bounds
<1>2. ASSUME NEW v \in Viewports, Display!Register(v) PROVE ScreenInv'
  <2> PICK s \in DisplaySizes :
        /\ s_registered' = s_registered \cup {v}
        /\ s_size' = [s_size EXCEPT ![v] = s]
        /\ s_screenSize' = Display!Bounds(s_registered', s_size')
        /\ Display!Invalidated(s_registered', <<Display!Rect(0, 0, s[1], s[2])>>,
             [u \in Viewports |->
                IF u = v THEN Display!Points(Display!Rect(0, 0, s[1], s[2])) ELSE {}])
        /\ UNCHANGED s_pointer
    BY <1>2 DEF Display!Register
  <2> PICK vs : vs = s_registered'
    OBVIOUS
  <2>1. v \in vs /\ vs \subseteq Viewports
    BY DEF ScreenInv, ScreenTyped
  <2> QED BY <2>1, SizedGood
<1>3. ASSUME NEW v \in Viewports, Display!SetSize(v) PROVE ScreenInv'
  <2> PICK s \in DisplaySizes :
        /\ s_registered' = s_registered
        /\ s_size' = [s_size EXCEPT ![v] = s]
        /\ s_screenSize' = Display!Bounds(s_registered, s_size')
        /\ Display!Invalidated({v}, <<Display!Rect(0, 0, s[1], s[2])>>,
             [u \in Viewports |->
                IF u = v THEN Display!Points(Display!Rect(0, 0, s[1], s[2])) ELSE {}])
        /\ UNCHANGED s_pointer
    BY <1>3 DEF Display!SetSize
  <2> PICK vs : vs = {v}
    OBVIOUS
  <2>1. v \in vs /\ vs \subseteq Viewports
    OBVIOUS
  <2>2. /\ s_registered' = s_registered \cup {v}
        /\ s_screenSize' = Display!Bounds(s_registered', s_size')
    BY <1>3 DEF Display!SetSize
  <2> QED BY <2>1, <2>2, SizedGood
<1>4. ASSUME NEW v \in Viewports, Display!Update(v) PROVE ScreenInv'
  BY <1>4, UpdateGood
<1>5. ASSUME NEW v \in Viewports, Display!Unregister(v) PROVE ScreenInv'
  BY <1>5, UnregisterGood
<1>6. CASE Display!Rerender
  BY <1>6, RerenderGood
<1>7. CASE Display!SetPosition
  BY <1>7, SetPositionGood
<1> QED BY <1>1, <1>2, <1>3, <1>4, <1>5, <1>6, <1>7 DEF Display!Next

LEMMA ScreenStart ==
  ASSUME ScreenNumbers, Display!Init
  PROVE  ScreenInv
<1>1. /\ s_registered = {} /\ s_size = [v \in Viewports |-> <<0, 0>>]
      /\ s_invalid = [v \in Viewports |-> <<>>] /\ s_updateEvent = [v \in Viewports |-> FALSE]
      /\ s_timers = [v \in Viewports |-> 0] /\ s_screenSize = <<2, 2>> /\ s_pointer = <<0, 0>>
      /\ s_stale = [v \in Viewports |-> {}]
  BY DEF Display!Init, Display!Default
<1>2. <<>> \in Seq(Area) /\ Len(<<>>) <= MaxInvalid
  BY DEF ScreenNumbers
<1>3. s_invalid \in [Viewports -> Seq(Area)] /\ \A v \in Viewports : Len(s_invalid[v]) <= MaxInvalid
  BY <1>1, <1>2
<1>4. ScreenTyped
  BY <1>1, <1>3 DEF ScreenTyped, Plane
<1>5. Queued /\ Listed /\ Boxed
  BY <1>1 DEF Queued, Listed, Boxed
<1> QED BY <1>4, <1>5 DEF ScreenInv

LEMMA ScreenInductive ==
  ASSUME ScreenNumbers
  PROVE  Display!Spec => []ScreenInv
<1>1. Display!Init => ScreenInv
  BY ScreenStart
<1>2. ScreenInv /\ [Display!Next]_(Display!vars) => ScreenInv'
  BY ScreenStep
<1> QED BY <1>1, <1>2, PTL DEF Display!Spec

(* Types, and that what is outdated on a viewport will be painted by an    *)
(* update that is due, for any rectangles that rectanglelistUnionOverlaps  *)
(* makes of what was invalidated (viewport.c, rectangle.c).                *)
THEOREM StalePainted ==
  ASSUME ScreenNumbers
  PROVE  Display!Spec => [](Display!TypeOK /\ Display!StaleIsQueued)
<1>1. ASSUME ScreenInv PROVE Display!TypeOK
  BY <1>1 DEF ScreenInv, ScreenTyped, Display!TypeOK, Plane
<1>2. ASSUME ScreenInv PROVE Display!StaleIsQueued
  <2>1. ASSUME NEW v \in s_registered
        PROVE  /\ s_stale[v] \subseteq Display!Painted(v)
               /\ (s_invalid[v] # <<>>) = s_updateEvent[v]
               /\ s_updateEvent[v] => s_timers[v] > 0
    <3>1. v \in Viewports /\ s_invalid[v] \in Seq(Area)
      BY <1>2 DEF ScreenInv, ScreenTyped
    <3>2. CoverOf(s_invalid[v]) \subseteq CoverOf(Display!UnionOverlaps(s_invalid[v]))
      BY <3>1, UnionKeeps
    <3>3. s_stale[v] \subseteq Display!Painted(v)
      BY <1>2, <3>2 DEF Display!Painted, CoverOf, ScreenInv, Listed
    <3>4. /\ (s_invalid[v] # <<>>) = s_updateEvent[v]
          /\ s_updateEvent[v] => s_timers[v] > 0
      BY <1>2, <3>1 DEF ScreenInv, Queued
    <3> QED BY <3>3, <3>4
  <2> QED BY <2>1 DEF Display!StaleIsQueued
<1> QED BY <1>1, <1>2, ScreenInductive, PTL

(* The screen is the least rectangle that holds all viewports (screen.c).  *)
THEOREM ScreenIsBox ==
  ASSUME ScreenNumbers
  PROVE  Display!Spec => []Display!ScreenCovers
<1>1. ASSUME ScreenInv, s_registered # {} PROVE
        /\ Display!On \subseteq Display!Points(Display!Rect(0, 0, s_screenSize[1], s_screenSize[2]))
        /\ \A w \in 0 .. s_screenSize[1], h \in 0 .. s_screenSize[2] :
             Display!On \subseteq Display!Points(Display!Rect(0, 0, w, h)) =>
               s_screenSize = <<w, h>>
  <2>1. ScreenTyped /\ s_screenSize = Display!Bounds(s_registered, s_size)
    BY <1>1 DEF ScreenInv, Boxed
  <2>2. s_screenSize \in Nat \X Nat
    BY <2>1 DEF ScreenTyped
  <2> PICK x \in Nat, y \in Nat : s_screenSize = <<x, y>>
    BY <2>2
  <2>3. \A v \in s_registered : s_size[v] \in DisplaySizes
    BY <2>1 DEF ScreenTyped
  <2>4. /\ \A v \in s_registered : s_size[v][1] <= x /\ s_size[v][2] <= y
        /\ \E v \in s_registered : s_size[v][1] = x
        /\ \E v \in s_registered : s_size[v][2] = y
    <3>1. x = Display!Bounds(s_registered, s_size)[1] /\ y = Display!Bounds(s_registered, s_size)[2]
      BY <2>1
    <3> QED BY <1>1, <2>3, <3>1, BoundsAre
  <2>5. ASSUME NEW w \in Nat, NEW h \in Nat, NEW p
        PROVE  p \in Display!Points(Display!Rect(0, 0, w, h)) <=>
                 p \in Plane /\ 0 <= p[1] /\ p[1] < w /\ 0 <= p[2] /\ p[2] < h
    <3> PICK r : r = Display!Rect(0, 0, w, h)
      OBVIOUS
    <3>1. r \in Area /\ r.x = 0 /\ r.y = 0 /\ r.w = w /\ r.h = h
      BY DEF Display!Rect, Area
    <3>2. p \in Display!Points(r) <=>
            p \in Plane /\ 0 <= p[1] /\ p[1] < 0 + w /\ 0 <= p[2] /\ p[2] < 0 + h
      BY <3>1, PointsAre
    <3> QED BY <3>2
  <2>6. ASSUME NEW p \in Display!On
        PROVE  p \in Display!Points(Display!Rect(0, 0, x, y))
    <3> PICK v \in s_registered : p \in Display!Points(Display!Extent(v))
      BY DEF Display!On
    <3>1. /\ s_size[v][1] \in Nat \ {0} /\ s_size[v][2] \in Nat \ {0} /\ p \in Plane
          /\ p[1] \in 0 .. s_size[v][1] - 1 /\ p[2] \in 0 .. s_size[v][2] - 1
      BY <2>1, ExtentIs
    <3>2. s_size[v][1] <= x /\ s_size[v][2] <= y
      BY <2>4
    <3>3. p \in Plane /\ 0 <= p[1] /\ p[1] < x /\ 0 <= p[2] /\ p[2] < y
      BY <3>1, <3>2
    <3> QED BY <2>5, <3>3
  <2>7. ASSUME NEW w \in 0 .. x, NEW h \in 0 .. y,
               Display!On \subseteq Display!Points(Display!Rect(0, 0, w, h))
        PROVE  w = x /\ h = y
    <3> PICK v \in s_registered, u \in s_registered : s_size[v][1] = x /\ s_size[u][2] = y
      BY <2>4
    <3>1. /\ x \in Nat \ {0} /\ s_size[v][2] \in Nat \ {0}
          /\ y \in Nat \ {0} /\ s_size[u][1] \in Nat \ {0}
      BY <2>1, ExtentIs
    <3>2. <<x - 1, 0>> \in Display!Points(Display!Extent(v))
      <4> PICK p : p = <<x - 1, 0>>
        OBVIOUS
      <4>1. p \in Plane /\ p[1] \in 0 .. s_size[v][1] - 1 /\ p[2] \in 0 .. s_size[v][2] - 1
        BY <3>1 DEF Plane
      <4> QED BY <2>1, <4>1, ExtentIs
    <3>3. <<0, y - 1>> \in Display!Points(Display!Extent(u))
      <4> PICK p : p = <<0, y - 1>>
        OBVIOUS
      <4>1. p \in Plane /\ p[1] \in 0 .. s_size[u][1] - 1 /\ p[2] \in 0 .. s_size[u][2] - 1
        BY <3>1 DEF Plane
      <4> QED BY <2>1, <4>1, ExtentIs
    <3>4. /\ <<x - 1, 0>> \in Display!Points(Display!Rect(0, 0, w, h))
          /\ <<0, y - 1>> \in Display!Points(Display!Rect(0, 0, w, h))
      BY <2>7, <3>2, <3>3 DEF Display!On
    <3>5. x - 1 < w /\ y - 1 < h
      BY <2>5, <3>4
    <3> QED BY <3>1, <3>5
  <2> QED BY <2>6, <2>7
<1>2. ScreenInv => Display!ScreenCovers
  BY <1>1 DEF Display!ScreenCovers
<1> QED BY <1>2, ScreenInductive, PTL

(* screenConstrainPoint finds the nearest point of all viewports, for any  *)
(* point, also when viewports overlap (screen.c).                          *)
THEOREM PointerNearest ==
  ASSUME ScreenNumbers
  PROVE  Display!Spec => []Display!NearestFound
<1>1. ASSUME ScreenInv PROVE Display!NearestFound
  <2>1. ScreenTyped /\ \A p \in Moves : p \in Plane
    BY <1>1 DEF ScreenInv, ScreenNumbers, Plane
  <2> QED BY <2>1, NearestIs DEF Display!NearestFound
<1> QED BY <1>1, ScreenInductive, PTL

(* As long as drivers do not leave while an update of their viewport is    *)
(* due, no timer is left for a viewport that is destroyed (viewport.c).    *)
THEOREM NoTimerLeft ==
  ASSUME ScreenNumbers, ~Unloads
  PROVE  Display!Spec => []Display!TimersLive
<1>1. ASSUME ScreenInv, Display!TimersLive, Display!Next PROVE Display!TimersLive'
  <2>1. s_timers \in [Viewports -> Nat] /\ s_registered \subseteq Viewports
    BY <1>1 DEF ScreenInv, ScreenTyped
  <2>2. ASSUME NEW vs, NEW rects, NEW gone, Display!Invalidated(vs, rects, gone),
               vs \subseteq s_registered', s_registered \subseteq s_registered'
        PROVE  Display!TimersLive'
    <3>1. s_timers' = [v \in Viewports |->
                        IF v \in vs /\ ~s_updateEvent[v] THEN s_timers[v] + 1 ELSE s_timers[v]]
      BY <2>2 DEF Display!Invalidated
    <3>2. \A v \in Viewports \ s_registered' : v \notin vs /\ v \notin s_registered
      BY <2>2
    <3> QED BY <1>1, <3>1, <3>2 DEF Display!TimersLive
  <2>3. ASSUME NEW v \in Viewports, Display!Register(v) PROVE Display!TimersLive'
    BY <2>2, <2>3 DEF Display!Register
  <2>4. ASSUME NEW v \in Viewports, Display!SetSize(v) PROVE Display!TimersLive'
    BY <2>2, <2>4 DEF Display!SetSize
  <2>5. CASE Display!Rerender
    BY <2>2, <2>5 DEF Display!Rerender
  <2>6. CASE Display!SetPosition
    BY <2>2, <2>6 DEF Display!SetPosition
  <2>7. ASSUME NEW v \in Viewports, Display!Update(v) PROVE Display!TimersLive'
    <3>1. s_timers' = [s_timers EXCEPT ![v] = @ - 1] /\ v \in s_registered
          /\ s_registered' = s_registered
      BY <2>7 DEF Display!Update
    <3> QED BY <1>1, <2>1, <3>1 DEF Display!TimersLive
  <2>8. ASSUME NEW v \in Viewports, Display!Unregister(v) PROVE Display!TimersLive'
    <3>1. s_timers[v] = 0 /\ s_timers' = s_timers /\ s_registered' = s_registered \ {v}
      BY <2>8 DEF Display!Unregister
    <3> QED BY <1>1, <3>1 DEF Display!TimersLive
  <2> QED BY <1>1, <2>3, <2>4, <2>5, <2>6, <2>7, <2>8 DEF Display!Next
<1>2. ScreenInv /\ Display!TimersLive /\ [Display!Next]_(Display!vars) => Display!TimersLive'
  <2>1. UNCHANGED Display!vars /\ Display!TimersLive => Display!TimersLive'
    BY DEF Display!vars, Display!TimersLive
  <2> QED BY <1>1, <2>1
<1>3. Display!Init => Display!TimersLive
  BY DEF Display!Init, Display!TimersLive
<1> QED BY <1>2, <1>3, ScreenInductive, PTL DEF Display!Spec

-----------------------------------------------------------------------------
(* Together, as MCDesktop runs them: a step of the whole is a step of each *)
(* part or leaves it alone.                                                *)
LEMMA Parts ==
  MCSpec => /\ Spec /\ Geometry!Spec /\ Grid!Spec /\ Row!Spec /\ Presses!Spec
            /\ Paints!Spec /\ Drawing!Spec /\ Display!Spec
<1>1. MCInit => /\ Init /\ Geometry!Init /\ Grid!Init /\ Row!Init /\ Presses!Init
                /\ Paints!Init /\ Drawing!Init /\ Display!Init
  BY DEF MCInit
<1>2. [MCNext]_mcVars => [Next]_vars
  BY DEF MCNext, mcVars
<1>3. [MCNext]_mcVars => [Geometry!Next]_(Geometry!vars)
  BY DEF MCNext, mcVars, g_vars, Geometry!vars
<1>4. [MCNext]_mcVars => [Grid!Next]_(Grid!vars)
  BY DEF MCNext, mcVars, t_vars, Grid!vars
<1>5. [MCNext]_mcVars => [Row!Next]_(Row!vars)
  BY DEF MCNext, mcVars, r_vars, Row!vars
<1>6. [MCNext]_mcVars => [Presses!Next]_(Presses!vars)
  BY DEF MCNext, mcVars, b_vars, Presses!vars
<1>7. [MCNext]_mcVars => [Paints!Next]_(Paints!vars)
  BY DEF MCNext, mcVars, a_vars, Paints!vars, Paints!bufferVars, Paints!canvasVars,
     Paints!painterVars
<1>8. MCSpec => Spec
  BY <1>1, <1>2, PTL DEF MCSpec, Spec
<1>9. MCSpec => Geometry!Spec
  BY <1>1, <1>3, PTL DEF MCSpec, Geometry!Spec
<1>10. MCSpec => Grid!Spec
  BY <1>1, <1>4, PTL DEF MCSpec, Grid!Spec
<1>11. MCSpec => Row!Spec
  BY <1>1, <1>5, PTL DEF MCSpec, Row!Spec
<1>12. MCSpec => Presses!Spec
  BY <1>1, <1>6, PTL DEF MCSpec, Presses!Spec
<1>13. MCSpec => Paints!Spec
  BY <1>1, <1>7, PTL DEF MCSpec, Paints!Spec
<1>14. [MCNext]_mcVars => [Drawing!Next]_(Drawing!vars)
  BY DEF MCNext, mcVars, n_vars, Drawing!vars
<1>15. MCSpec => Drawing!Spec
  BY <1>1, <1>14, PTL DEF MCSpec, Drawing!Spec
<1>16. [MCNext]_mcVars => [Display!Next]_(Display!vars)
  BY DEF MCNext, mcVars, s_vars, Display!vars
<1>17. MCSpec => Display!Spec
  BY <1>1, <1>16, PTL DEF MCSpec, Display!Spec
<1> QED BY <1>8, <1>9, <1>10, <1>11, <1>12, <1>13, <1>15, <1>17

(* A window has a size that its child can be shown in (window.c), a grid   *)
(* is divided between its widgets (gridlayout.c), and the surface of a     *)
(* buffer and what draws on it fit the buffer (imagebuffer.c, painter.c).  *)
THEOREM SizesKept ==
  ASSUME SizesAreNumbers, GridNumbers, WidthsAreNumbers, Sparing
  PROVE  MCSpec => []SizesFit
<1>1. Geometry!Constrained /\ Grid!Tiled /\ Paints!SurfaceFits /\ Paints!PaintersLive
        /\ Paints!StatesMatch => SizesFit
  BY DEF SizesFit
<1>2. /\ Geometry!Spec => []Geometry!Constrained
      /\ Grid!Spec => [](Grid!TypeOK /\ Grid!Tiled)
      /\ Paints!Spec => []Paints!SurfaceFits
      /\ Paints!Spec => [](Paints!PaintersLive /\ Paints!StatesMatch)
  BY WindowsFit, GridTiled, SurfacesFit, PainterKept
<1> QED BY <1>1, <1>2, Parts, PTL

(* The pointer leaves what it entered (gridlayout.c, yrowlayout.c), and    *)
(* what is pressed in a group is selected and lets go of the pointer with  *)
(* the mouse (ybutton.c, yradiogroup.c).                                   *)
THEOREM PointerKept ==
  ASSUME GridNumbers, RowNumbers, ButtonKinds, ~DisablesPressed
  PROVE  MCSpec => []PointerFollows
<1>1. Grid!EnteredOnce /\ Row!RowEnteredOnce /\ Presses!OnlySelected /\ Presses!HeldWhileDown
        => PointerFollows
  BY DEF PointerFollows
<1>2. /\ Grid!Spec => []Grid!EnteredOnce
      /\ Row!Spec => [](Row!TypeOK /\ Row!RowEnteredOnce)
      /\ Presses!Spec => [](Presses!TypeOK /\ Presses!OnlySelected)
      /\ Presses!Spec => []Presses!HeldWhileDown
  BY GridEntered, RowEntered, RadioGroups, PointerReleased
<1> QED BY <1>1, <1>2, Parts, PTL

(* While an edge is dragged the other stays and the pointer stays on it    *)
(* (window.c), a row that is laid out is filled (yrowlayout.c), and what   *)
(* is rendered is only what is updated (renderer.c).                       *)
THEOREM ReshapesKept ==
  ASSUME SizesAreNumbers, RowNumbers, RenderNumbers
  PROVE  MCSpec => ReshapesRight
<1>1. /\ Geometry!Spec => Geometry!OtherEdgeStays /\ Geometry!HandleUnderPointer
      /\ Row!Spec => Row!RowTiled
      /\ Drawing!Spec => []Drawing!TypeOK /\ Drawing!StaysInside
  BY DragsFollow, RowIsTiled, RendersInside
<1> QED BY <1>1, Parts DEF ReshapesRight

(* What is stale is painted, the screen is the box of its viewports, the   *)
(* pointer is moved to the nearest point (screen.c, viewport.c), and what  *)
(* is rendered is what is on top (renderer.c).                             *)
THEOREM ScreenWellKept ==
  ASSUME ScreenNumbers, RenderNumbers, ~Unloads
  PROVE  MCSpec => []ScreenKept
<1>1. Display!StaleIsQueued /\ Display!ScreenCovers /\ Display!NearestFound /\ Display!TimersLive
        /\ Drawing!RendersRight => ScreenKept
  BY DEF ScreenKept
<1> QED BY <1>1, StalePainted, ScreenIsBox, PointerNearest, NoTimerLeft, RendersTop, Parts, PTL

LEMMA TypesPaint ==
  ASSUME WidthsAreNumbers, Sparing
  PROVE  Paints!Spec => []Paints!TypeOK
<1>1. ASSUME SurfaceInv, PainterInv PROVE Paints!TypeOK
  BY <1>1 DEF SurfaceInv, PainterInv, Paints!TypeOK, Paints!Live, Paints!Buffers
<1> QED BY <1>1, PaintInductive, PTL

(* Every variable of every part has its type.                              *)
THEOREM TypesKept ==
  ASSUME Disciplined, Distinct, ButtonKinds, SizesAreNumbers, GridNumbers, RowNumbers,
         RenderNumbers, WidthsAreNumbers, Sparing, ScreenNumbers
  PROVE  MCSpec => []Typed
<1> DEFINE Known == which \in {"desktop", "geometry", "grid", "row", "buttons", "screen",
                               "rendering", "painting"}
           AllTyped == /\ TypeOK /\ Geometry!TypeOK /\ Grid!TypeOK /\ Row!TypeOK
                       /\ Presses!TypeOK /\ Display!TypeOK /\ Drawing!TypeOK /\ Paints!TypeOK
<1>1. MCInit => Known
  BY DEF MCInit
<1>2. Known /\ [MCNext]_mcVars => Known'
  BY DEF MCNext, mcVars
<1>3. Known /\ AllTyped => Typed
  <2> HIDE DEF Known
  <2> SUFFICES ASSUME Known, AllTyped PROVE Typed
    OBVIOUS
  <2> QED BY DEF Known, Typed
<1>4. /\ Spec => []TypeOK
      /\ Geometry!Spec => [](Geometry!TypeOK /\ Geometry!Constrained)
      /\ Grid!Spec => [](Grid!TypeOK /\ Grid!Tiled)
      /\ Row!Spec => [](Row!TypeOK /\ Row!RowEnteredOnce)
      /\ Presses!Spec => [](Presses!TypeOK /\ Presses!OnlySelected)
      /\ Display!Spec => [](Display!TypeOK /\ Display!StaleIsQueued)
      /\ Drawing!Spec => []Drawing!TypeOK /\ Drawing!StaysInside
      /\ Paints!Spec => []Paints!TypeOK
  BY TypeCorrect, WindowsFit, GridTiled, RowEntered, RadioGroups, StalePainted, RendersInside,
     TypesPaint
<1>5. MCSpec => []Known
  BY <1>1, <1>2, PTL DEF MCSpec
<1>6. MCSpec => []AllTyped
  BY <1>4, Parts, PTL
<1> QED BY <1>3, <1>5, <1>6, PTL
=============================================================================
