------------------------------ MODULE ByteQueue ------------------------------
(***************************************************************************)
(* What a dbuffer promises (Y/util/dbuffer.h): "a dynamically sized buffer *)
(* that stores arbitrary bytes in a queue".                                *)
(***************************************************************************)
EXTENDS Naturals, Sequences

CONSTANTS
  Buffers,   \* buffers
  Byte,      \* bytes
  Chunks     \* sequences of bytes that are added in one call

VARIABLES
  queue,     \* of each buffer that exists: its bytes
  out        \* the bytes the last call returned

Init == queue = <<>> /\ out = <<>>

New(b) ==
  /\ b \notin DOMAIN queue
  /\ queue' = [c \in DOMAIN queue \cup {b} |->
                 IF c = b THEN <<>> ELSE queue[c]]
  /\ out' = <<>>

Free(b) ==
  /\ b \in DOMAIN queue
  /\ queue' = [c \in DOMAIN queue \ {b} |-> queue[c]]
  /\ out' = <<>>

Add(b, chunk) ==
  /\ b \in DOMAIN queue
  /\ queue' = [queue EXCEPT ![b] = @ \o chunk]
  /\ out' = <<>>

(* The first k bytes leave the queue; the caller is given them, or not.    *)
Take(b, k) ==
  /\ queue' = [queue EXCEPT ![b] = SubSeq(@, k + 1, Len(@))]
  /\ out' \in {<<>>, SubSeq(queue[b], 1, k)}

Next ==
  \E b \in Buffers :
    \/ New(b) \/ Free(b)
    \/ \E chunk \in Chunks : Add(b, chunk)
    \/ b \in DOMAIN queue /\ \E k \in 0 .. Len(queue[b]) : Take(b, k)

Step == [Next]_<<queue, out>>   \* one of these, or none
Spec == Init /\ [][Next]_<<queue, out>>
=============================================================================
