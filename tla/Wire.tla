-------------------------------- MODULE Wire --------------------------------
(***************************************************************************)
(* The bytes of messages: Y/message/message.c and tuple.c at the server,   *)
(* libYc++/Y/c++/message.cc at the client, each with its own encoder and   *)
(* parser; and the two loops that take messages out of a stream that       *)
(* arrives in any pieces, clientReadData of Y/message/client.c and         *)
(* Message::parseStream.                                                   *)
(* A scalar is WordSize bytes, the highest first (htonl).                  *)
(***************************************************************************)
EXTENDS Integers, Sequences, SequencesExt

CONSTANTS
  WordSize, Byte,   \* 4 and 256 in the code
  Seqs,          \* bound: sequence numbers wrap here (2^32)
  Tuples,        \* bound: the tuples that are sent, of the values below
  MaxSent        \* bound: messages sent

Scalar(n) == [i \in 1 .. WordSize |-> (n \div Byte ^ (WordSize - i)) % Byte]
Number(b) == FoldLeft(LAMBDA n, d : n * Byte + d, 0, b)
Signed(n) == IF 2 * n >= Byte ^ WordSize THEN n - Byte ^ WordSize ELSE n

String(b) == [type |-> "string", of |-> b]
Uint(n) == [type |-> "uint32", of |-> n]
Sint(n) == [type |-> "int32", of |-> n]
Object(n) == [type |-> "object", of |-> n]

(* The receiver gets an object as its number.                              *)
AsWired(v) == IF v.type = "object" THEN Uint(v.of) ELSE v

VARIABLES
  next,        \* the counter of nextSeq
  sent,        \* history: what each side sent,
  received,    \* and what the other side made of it
  stream,      \* the bytes on their way to each side
  buffer,      \* c->recvq, inbound_buffer
  ended        \* the server closed the client; the client died of an exception

vars == <<next, sent, received, stream, buffer, ended>>
Sides == {"client", "server"}
Other(s) == IF s = "client" THEN "server" ELSE "client"

Init ==
  /\ next = 1
  /\ sent = [s \in Sides |-> <<>>] /\ received = [s \in Sides |-> <<>>]
  /\ stream = [s \in Sides |-> <<>>] /\ buffer = [s \in Sides |-> <<>>]
  /\ ended = {}

-----------------------------------------------------------------------------
(* valueToString and Member::serialise.                                    *)
ValueBytes(v) ==
  CASE v.type = "string" -> Scalar(0) \o v.of
    [] v.type \in {"uint32", "object"} -> Scalar(1) \o Scalar(v.of)
    [] v.type = "int32" -> Scalar(2) \o Scalar(v.of)

(* messageToString and Message::serialise, which agree on the order.       *)
Sized(b) == Scalar(Len(b)) \o b
MessageBytes(m) ==
  FlattenSeq([i \in 1 .. Len(m.head) |-> Scalar(m.head[i])])
    \o Scalar(Len(m.tuple))
    \o FlattenSeq([i \in 1 .. Len(m.tuple) |-> Sized(ValueBytes(m.tuple[i]))])

First(b, n) == SubSeq(b, 1, IF n < Len(b) THEN n ELSE Len(b))
Without(b, n) == SubSeq(b, n + 1, Len(b))

(* What a parser says: a value, or why there is none.                      *)
Failed == [ok |-> FALSE]
Parsed(v) == [ok |-> TRUE, is |-> v]

(* valueFromString refuses what it does not know and what is left over;    *)
(* Member::parse does not look at what is left over, and aborts at a type  *)
(* that it does not know.                                                  *)
ParseValue(side, b) ==
  LET type == Number(First(b, WordSize))
      data == Without(b, WordSize)
      full == IF side = "server" THEN Len(data) = WordSize ELSE Len(data) >= WordSize
      n == Number(First(data, WordSize))
  IN IF Len(b) < WordSize THEN Failed
     ELSE IF type = 0 THEN Parsed(String(data))
     ELSE IF type = 1 /\ full THEN Parsed(Uint(n))
     ELSE IF type = 2 /\ full THEN Parsed(Sint(Signed(n)))
     ELSE Failed

(* messageFromString and the constructor of Message: seven scalars, then   *)
(* as many values as the last of them says, each after its length, and     *)
(* nothing more.                                                           *)
Heads == 6
Take(side, got) ==
  LET len == Number(First(got.left, WordSize))
      left == Without(got.left, WordSize)
      value == ParseValue(side, First(left, len))
  IN IF ~got.ok \/ Len(got.left) < WordSize \/ Len(left) < len \/ ~value.ok THEN Failed
     ELSE [ok |-> TRUE, left |-> Without(left, len), tuple |-> Append(got.tuple, value.is)]

ParseMessage(side, b) ==
  LET scalars == [i \in 1 .. Heads + 1 |-> Number(SubSeq(b, WordSize * (i - 1) + 1, WordSize * i))]
      start == [ok |-> TRUE, left |-> Without(b, WordSize * (Heads + 1)), tuple |-> <<>>]
      take[k \in 0 .. scalars[Heads + 1]] == IF k = 0 THEN start ELSE Take(side, take[k - 1])
      end == take[scalars[Heads + 1]]
  IN IF Len(b) < WordSize * (Heads + 1) \/ ~end.ok \/ end.left # <<>> THEN Failed
     ELSE Parsed([head |-> SubSeq(scalars, 1, Heads), tuple |-> end.tuple])

(* A packet is its length and its bytes.  parseStream compares the length  *)
(* of the buffer with that of the bytes alone, so that it takes a packet   *)
(* of which up to WordSize bytes are missing.                              *)
(* Mutation: the server does the same.                                     *)
CompleteAlike(side, b) == Len(b) >= WordSize /\ Len(b) >= Number(First(b, WordSize))
Complete(side, b) ==
  /\ Len(b) >= WordSize
  /\ Len(b) >= Number(First(b, WordSize)) + (IF side = "server" THEN WordSize ELSE 0)

(* The loop of clientReadData and that over parseStream: what is left of   *)
(* the buffer, the messages it held, and whether one was refused.          *)
Drain(side, b) ==
  LET drain[c \in {First(b, 0)} \cup {Without(b, i) : i \in 0 .. Len(b)}] ==
        IF ~Complete(side, c) THEN [left |-> c, messages |-> <<>>, refused |-> FALSE]
        ELSE LET len == Number(First(c, WordSize))
                 m == ParseMessage(side, First(Without(c, WordSize), len))
                 after == Without(c, WordSize + len)
             IN IF ~m.ok THEN [left |-> after, messages |-> <<>>, refused |-> TRUE]
                ELSE LET more == drain[after] IN [more EXCEPT !.messages = <<m.is>> \o @]
  IN drain[b]

-----------------------------------------------------------------------------
(* nextSeq: 0 is left out when the counter wraps.                          *)
NextSeq == IF (next + 1) % Seqs = 0 THEN 1 ELSE next + 1

Total == Len(sent["client"]) + Len(sent["server"])
Put(side, m) ==
  /\ sent' = [sent EXCEPT ![side] = Append(@, m)]
  /\ stream' = [stream EXCEPT ![Other(side)] = @ \o Sized(MessageBytes(m))]

(* A Message with the next number: the head is seq, to, from, op, id, meta.*)
ClientSends(t, meta) ==
  /\ "client" \notin ended /\ Total < MaxSent
  /\ next' = NextSeq
  /\ Put("client", [head |-> <<NextSeq, 1, 0, 3, 2, meta>>, tuple |-> t])
  /\ UNCHANGED <<received, buffer, ended>>

(* messageBuildReply takes the operation, id and number of the request.    *)
ReplyTo(m, t) == [head |-> <<m.head[1], 1, 0, m.head[4], m.head[5], 0>>, tuple |-> t]
Event(t) == [head |-> <<0, 1, 2, 1, 2, 0>>, tuple |-> t]

(* clientSendMessage, for an answer or an event.                           *)
ServerSends(t) ==
  /\ "server" \notin ended /\ Total < MaxSent
  /\ \/ Put("server", Event(t))
     \/ \E i \in 1 .. Len(received["server"]) : Put("server", ReplyTo(received["server"][i], t))
  /\ UNCHANGED <<next, received, buffer, ended>>

(* n bytes arrive: clientReadData, and dispatch over parseStream.  Once    *)
(* refused, the server closes the client, and the exception of the client  *)
(* is caught by no one.                                                    *)
Arrive(side, n) ==
  /\ side \notin ended /\ n \in 1 .. Len(stream[side])
  /\ LET got == Drain(side, buffer[side] \o First(stream[side], n))
     IN /\ stream' = [stream EXCEPT ![side] = Without(@, n)]
        /\ buffer' = [buffer EXCEPT ![side] = got.left]
        /\ received' = [received EXCEPT ![side] = @ \o got.messages]
        /\ ended' = IF got.refused THEN ended \cup {side} ELSE ended
  /\ UNCHANGED <<next, sent>>

Next ==
  \/ \E t \in Tuples, meta \in {0, 1} : ClientSends(t, meta)
  \/ \E t \in Tuples : ServerSends(t)
  \/ \E side \in Sides : \E n \in 1 .. Len(stream[side]) : Arrive(side, n)

Spec == Init /\ [][Next]_vars

-----------------------------------------------------------------------------
TypeOK ==
  /\ next \in 1 .. Seqs - 1 /\ ended \in SUBSET Sides
  /\ \A s \in Sides :
       /\ \A i \in 1 .. Len(stream[s]) : stream[s][i] \in 0 .. Byte - 1
       /\ \A i \in 1 .. Len(buffer[s]) : buffer[s][i] \in 0 .. Byte - 1

(* Each side gets what the other sent, in order, the objects as numbers,   *)
(* however the stream is cut; and the server, of what the library sends,   *)
(* refuses nothing.                                                        *)
Wired(m) == [m EXCEPT !.tuple = [i \in 1 .. Len(m.tuple) |-> AsWired(m.tuple[i])]]
WiredSent(side) == [i \in 1 .. Len(sent[side]) |-> Wired(sent[side][i])]
ReceivedAsSent ==
  /\ \A s \in Sides : IsPrefix(received[s], WiredSent(Other(s)))
  /\ "server" \notin ended

(* Once all has arrived, all was received: no message waits in a buffer    *)
(* for bytes of the next one.                                              *)
NothingWaits ==
  \A s \in Sides :
    s \notin ended /\ stream[s] = <<>> => received[s] = WiredSent(Other(s)) /\ buffer[s] = <<>>

(* What was cut off is not taken for a message by either parser.           *)
CutIsRefused ==
  \A s \in Sides : \A i \in 1 .. Len(sent[s]) :
    LET b == MessageBytes(sent[s][i])
    IN \A n \in 0 .. Len(b) - 1 : ~ParseMessage(Other(s), First(b, n)).ok

(* Not so: a client that gets all but the last bytes of a packet throws.   *)
NobodyThrows == ended = {}
=============================================================================
