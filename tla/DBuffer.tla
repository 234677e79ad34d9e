------------------------------- MODULE DBuffer -------------------------------
(***************************************************************************)
(* Data buffers, Y/util/dbuffer.c: queues of bytes kept in chains of       *)
(* elements of a fixed size, which come from a list of free elements that  *)
(* all buffers share.  The server reads every connection into one.         *)
(*                                                                         *)
(* An element's memory is an array, and start and end are offsets into the *)
(* array of the first and of the current last element, so that a copy at a *)
(* wrong place shows.  One action is one call.                             *)
(***************************************************************************)
EXTENDS Naturals, FiniteSets, Sequences, SequencesExt, TLC

CONSTANTS
  Buffers,     \* struct dbuffers
  Elements,    \* addresses of elements
  Byte,        \* bytes
  Junk,        \* what memory holds before it is written
  Size,        \* DBUFFER_ELEMENT_SIZE
  Threshold,   \* DBUFFER_ELEMENTS_FREE_THRESHOLD
  MaxAdd,      \* bound: bytes added in a call
  MaxLen       \* bound: bytes in a buffer

VARIABLES
  buf,     \* of each buffer that exists: its struct dbuffer
  mem,     \* of each allocated element: its struct dbuffer_element
  free,    \* free_element_list
  out      \* what the last call copied to its caller

vars == <<buf, mem, free, out>>

Offsets == 0 .. Size - 1
Chunks == UNION {[1 .. n -> Byte] : n \in 1 .. MaxAdd}
LeastOf(m, n) == IF m < n THEN m ELSE n

-----------------------------------------------------------------------------
(* The calls work on a record of one buffer, the elements and the free     *)
(* list: s.b, s.mem, s.free, and s.out for the bytes copied out.           *)

(* What a new element holds counts as junk, also if it was used before.    *)
NewElement ==
  [space |-> Size, len |-> 0, data |-> [i \in Offsets |-> Junk]]

(* allocate_element, appended to the chain of s.b.                         *)
AllocateElement(s) ==
  LET fresh == CHOOSE e \in Elements : e \notin DOMAIN s.mem
      e == IF s.free = <<>> THEN fresh ELSE Head(s.free)
  IN [s EXCEPT !.b.chain = Append(@, e),
               !.mem = (e :> NewElement) @@ @,
               !.free = IF @ = <<>> THEN @ ELSE Tail(@)]

(* Mutation: the element is taken out of its chain and forgotten.          *)
Forgets(s, e) == s
(* free_element: beyond the threshold, the element just put at the front   *)
(* of the list is given back.                                              *)
FreeElement(s, e) ==
  IF Len(s.free) < Threshold
  THEN [s EXCEPT !.free = <<e>> \o @, !.mem[e] = NewElement]
  ELSE [s EXCEPT !.mem = [f \in DOMAIN @ \ {e} |-> @[f]]]

(* dbuffer_grow.                                                           *)
RECURSIVE Grow(_, _)
Grow(s, len) ==
  IF s.b.space <= len
  THEN Grow([AllocateElement(s) EXCEPT !.b.space = @ + Size], len)
  ELSE s

(* Mutation: the room is taken to be enough when it is exactly used up.    *)
GrowsLate(s, len) == IF len > s.b.space THEN Grow(s, len) ELSE s
GrowIfNeeded(s, len) == IF len >= s.b.space THEN Grow(s, len) ELSE s

(* The loop of dbuffer_add; i is the position in the chain of the element  *)
(* that end points into.                                                   *)
RECURSIVE AddFrom(_, _, _)
AddFrom(s, i, data) ==
  IF data = <<>> THEN s ELSE
  LET e == s.b.chain[i]
      l == LeastOf(Len(data), s.mem[e].space)
      at == s.b.end
      written == [j \in at .. at + l - 1 |-> data[j - at + 1]]
      full == s.mem[e].space = l
  IN AddFrom([s EXCEPT !.mem[e] = [space |-> @.space - l, len |-> @.len + l,
                                   data |-> written @@ @.data],
                       !.b.end = IF full THEN 0 ELSE at + l,
                       !.b.len = @ + l, !.b.space = @ - l],
             IF full THEN i + 1 ELSE i,
             SubSeq(data, l + 1, Len(data)))

(* Mutation: end is not reset when the last element is drained.            *)
EndStays(b) == b.end
EndWhenDrained(b) == 0

(* The loop of dbuffer_extract, and of dbuffer_remove.  What has been taken *)
(* out counts as junk from then on.                                        *)
RECURSIVE Drop(_, _)
Drop(s, n) ==
  IF n = 0 \/ s.b.len = 0 THEN s ELSE
  LET e == Head(s.b.chain)
      l == LeastOf(n, s.mem[e].len)
      taken == s.b.start .. s.b.start + l - 1
      read == [s EXCEPT !.b.len = @ - l, !.b.start = @ + l,
                 !.mem[e].len = @ - l,
                 !.mem[e].data = [j \in taken |-> Junk] @@ @,
                 !.out = @ \o [j \in 1 .. l |-> s.mem[e].data[s.b.start + j - 1]]]
      drained ==
        IF Len(s.b.chain) > 1
        THEN FreeElement([read EXCEPT !.b.chain = Tail(@), !.b.start = 0], e)
        ELSE [read EXCEPT !.b.end = EndWhenDrained(read.b), !.b.start = 0]
  IN Drop(IF l = s.mem[e].len THEN drained ELSE read, n - l)

(* dbuffer_get: the bytes it copies.                                       *)
RECURSIVE GetFrom(_, _, _)
GetFrom(chain, start, n) ==
  IF n = 0 \/ chain = <<>> \/ mem[Head(chain)].len = 0 THEN <<>> ELSE
  LET e == Head(chain)
      l == LeastOf(n, mem[e].len)
  IN [j \in 1 .. l |-> mem[e].data[start + j - 1]]
       \o GetFrom(Tail(chain), 0, n - l)
(* Mutation: only the first element is read.                               *)
HeadOnly(b, n) == GetFrom(<<Head(buf[b].chain)>>, buf[b].start, n)
Get(b, n) == GetFrom(buf[b].chain, buf[b].start, n)

(* dbuffer_find_char: an offset, or -1 written as NotFound.                *)
NotFound == MaxLen + 1
RECURSIVE FindFrom(_, _, _)
FindFrom(chain, start, c) ==
  IF chain = <<>> THEN NotFound ELSE
  LET e == Head(chain)
      hits == {j \in 0 .. mem[e].len - 1 : mem[e].data[start + j] = c}
      rest == FindFrom(Tail(chain), 0, c)
  IN IF hits # {} THEN CHOOSE j \in hits : \A k \in hits : j <= k
     ELSE IF rest = NotFound THEN NotFound ELSE mem[e].len + rest
FindChar(b, c) == FindFrom(buf[b].chain, buf[b].start, c)

-----------------------------------------------------------------------------
Load(b) == [b |-> buf[b], mem |-> mem, free |-> free, out |-> <<>>]

Store(b, s) ==
  /\ buf' = (b :> s.b) @@ buf
  /\ mem' = s.mem /\ free' = s.free

Init == buf = <<>> /\ mem = <<>> /\ free = <<>> /\ out = <<>>

(* Elements enough for whatever a call may need.                           *)
Room == Elements \ DOMAIN mem # {} \/ free # <<>>

NewBuffer(b) ==
  /\ b \notin DOMAIN buf /\ Room
  /\ LET empty == [len |-> 0, space |-> Size, chain |-> <<>>,
                   start |-> 0, end |-> 0]
     IN Store(b, AllocateElement([b |-> empty, mem |-> mem, free |-> free,
                                  out |-> <<>>]))
  /\ out' = <<>>

(* free_dbuffer puts the elements on the free list one by one.             *)
FreeBuffer(b) ==
  /\ b \in DOMAIN buf
  /\ LET s == FoldLeft(FreeElement, Load(b), buf[b].chain) IN
       /\ mem' = s.mem /\ free' = s.free
  /\ buf' = [c \in DOMAIN buf \ {b} |-> buf[c]]
  /\ out' = <<>>

Add(b, data) ==
  /\ b \in DOMAIN buf
  /\ buf[b].len + Len(data) <= MaxLen
  /\ LET s == Load(b) IN
       Store(b, AddFrom(GrowIfNeeded(s, Len(data)), Len(s.b.chain), data))
  /\ out' = <<>>

RemoveBytes(b, n) ==
  /\ b \in DOMAIN buf
  /\ Store(b, Drop(Load(b), n))
  /\ out' = <<>>

Extract(b, n) ==
  /\ b \in DOMAIN buf
  /\ LET s == Drop(Load(b), n) IN Store(b, s) /\ out' = s.out

(* dbuffer_cleanup gives all free elements back.                           *)
Cleanup ==
  /\ free # <<>>
  /\ mem' = [e \in DOMAIN mem \ Range(free) |-> mem[e]]
  /\ free' = <<>>
  /\ out' = <<>>
  /\ UNCHANGED buf

Next ==
  \/ \E b \in Buffers :
       \/ NewBuffer(b) \/ FreeBuffer(b)
       \/ \E data \in Chunks : Add(b, data)
       \/ \E n \in 1 .. MaxLen : RemoveBytes(b, n) \/ Extract(b, n)
  \/ Cleanup

Spec == Init /\ [][Next]_vars

-----------------------------------------------------------------------------
TypeOK ==
  /\ DOMAIN buf \subseteq Buffers
  /\ \A b \in DOMAIN buf :
       buf[b] \in [len : 0 .. MaxLen, space : Nat, start : 0 .. Size,
                   end : 0 .. Size, chain : Seq(DOMAIN mem)]
  /\ DOMAIN mem \subseteq Elements
  /\ \A e \in DOMAIN mem :
       mem[e] \in [space : 0 .. Size, len : 0 .. Size,
                   data : [Offsets -> Byte \cup {Junk}]]
  /\ free \in Seq(DOMAIN mem) /\ out \in Seq(Byte)

(* The bytes of a buffer, from start in the first element to the last.     *)
BytesAt(e, start) == [j \in 1 .. mem[e].len |-> mem[e].data[start + j - 1]]
Contents(b) ==
  LET chain == buf[b].chain
  IN FlattenSeq([i \in 1 .. Len(chain) |->
       BytesAt(chain[i], IF i = 1 THEN buf[b].start ELSE 0)])

(* A dbuffer is the queue of bytes ByteQueue describes.                    *)
Queue == INSTANCE ByteQueue WITH queue <- [b \in DOMAIN buf |-> Contents(b)]
IsByteQueue == Queue!Spec

TotalLen(b) ==
  FoldLeft(LAMBDA n, e : n + mem[e].len, 0, buf[b].chain)

(* The counters agree with the elements: only the last element of a chain  *)
(* has space, it always has some, and neither the bytes of the first nor   *)
(* the space of the last reaches beyond the array.  "When len == 0, then   *)
(* start == end and head == tail.  When start == end, then len == 0"       *)
(* (dbuffer.h:46).                                                         *)
Accounting ==
  \A b \in DOMAIN buf :
    LET chain == buf[b].chain IN
      /\ buf[b].len = TotalLen(b)
      /\ buf[b].space = mem[Last(chain)].space /\ buf[b].space > 0
      /\ \A e \in Range(Front(chain)) : mem[e].space = 0
      /\ buf[b].start + mem[Head(chain)].len <= Size
      /\ buf[b].end + mem[Last(chain)].space <= Size
      /\ buf[b].len = 0 <=> buf[b].start = buf[b].end /\ Len(chain) = 1

(* Every element belongs to one chain or to the free list, once, and the   *)
(* free list stays within its threshold.                                   *)
ElementsOnce ==
  LET all == FoldLeft(LAMBDA s, b : s \o buf[b].chain, free,
                      SetToSeq(DOMAIN buf))
  IN /\ Len(free) <= Threshold
     /\ Len(all) = Cardinality(DOMAIN mem)
     /\ Range(all) = DOMAIN mem

(* dbuffer_get and dbuffer_find_char see the bytes that dbuffer_extract    *)
(* would return.                                                           *)
ReadsAgree ==
  \A b \in DOMAIN buf :
    LET bytes == Contents(b) IN
      /\ \A n \in 0 .. MaxLen :
           Get(b, n) = SubSeq(bytes, 1, LeastOf(n, Len(bytes)))
      /\ \A c \in Byte :
           FindChar(b, c) = IF c \notin Range(bytes) THEN NotFound
                            ELSE SelectInSeq(bytes, LAMBDA x : x = c) - 1

(* "Current number of unused bytes allocated to this buffer (All unused    *)
(* bytes are at the end of the buffer)" (dbuffer.h:53).                    *)
SpaceIsUnused ==
  \A b \in DOMAIN buf : buf[b].space = Size - buf[b].end
=============================================================================
