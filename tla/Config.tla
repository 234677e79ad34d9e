------------------------------- MODULE Config -------------------------------
(***************************************************************************)
(* The configuration file, Y/main/config.c: lines that are headings of     *)
(* groups, or a key and its values, or neither.  A character stands for    *)
(* its kind: a letter, a digit, a space, or one the parser looks for.      *)
(* Files here are written from what they are to say, with comments and     *)
(* other lines between.                                                    *)
(***************************************************************************)
EXTENDS Integers, Sequences, FiniteSets, SequencesExt

CONSTANTS
  Groups, KeyNames,    \* names, as sequences of characters
  Tuples,          \* bound: the tuples of values in a file
  Noise,           \* lines that say nothing
  MaxItems,        \* bound: items of a file
  End              \* what follows the values on a line: nothing, or a space

Letters == {"a", "b", "k"}
Digits == {"1"}
Alnum == Letters \cup Digits
IsSpace(c) == c = " "

Text(s) == [type |-> "string", of |-> s]
Whole(s) == [type |-> "uint32", of |-> s]
Sign(s) == [type |-> "int32", of |-> s]

(* What a file says: items in order, the first of a key counts.            *)
Items == [group : Groups, key : KeyNames, tuple : Tuples]
Contents == UNION {[1 .. n -> Items] : n \in 1 .. MaxItems}

(* How that is written: text in quotes, with a \ before " and \.           *)
Quoted(s) == <<"\"">> \o FlattenSeq([i \in 1 .. Len(s) |->
               IF s[i] \in {"\"", "\\"} THEN <<"\\", s[i]>> ELSE <<s[i]>>]) \o <<"\"">>
Written(v) == IF v.type = "string" THEN Quoted(v.of) ELSE v.of
ItemLine(item) ==
  <<" ">> \o item.key
    \o FlattenSeq([i \in 1 .. Len(item.tuple) |-> <<" ">> \o Written(item.tuple[i])]) \o End
Lines(contents, noise) ==
  FlattenSeq([i \in 1 .. Len(contents) |->
    <<noise, contents[i].group \o <<":", " ">>, ItemLine(contents[i])>>])

VARIABLES
  says,       \* history: the contents of the file
  left,       \* buf: the lines that were not read
  groups,     \* conf->groups, each with its items
  current     \* currentGroup, <<>> for none

vars == <<says, left, groups, current>>

Init ==
  /\ says = <<>> /\ left = <<>>
  /\ groups = [g \in {} |-> <<>>] /\ current = <<>>

-----------------------------------------------------------------------------
Failed == [ok |-> FALSE]
Without(s, n) == SubSeq(s, n + 1, Len(s))
(* The length of the piece before the first space.                         *)
WordLength(s) ==
  LET n == SelectInSeq(s, IsSpace) IN IF n = 0 THEN Len(s) ELSE n - 1
TrimStart(s) ==
  LET n == SelectInSeq(s, LAMBDA c : ~IsSpace(c)) IN IF n = 0 THEN <<>> ELSE Without(s, n - 1)

(* parseQuotedString: what is read of s, in quotes, up to its closing one. *)
(* Mutation: a \ is taken as it stands.                                    *)
KeepsBackslash(s, at) == FALSE
Escapes(s, at) == s[at] = "\\"
ParseQuoted(s) ==
  LET from[at \in 2 .. Len(s) + 2] ==
        IF at > Len(s) THEN Failed
        ELSE IF s[at] = "\"" THEN [ok |-> TRUE, value |-> <<>>, end |-> at]
        ELSE IF Escapes(s, at) /\ at = Len(s) THEN Failed
        ELSE LET next == IF Escapes(s, at) THEN at + 1 ELSE at
                 rest == from[next + 1]
             IN IF rest.ok THEN [rest EXCEPT !.value = <<s[next]>> \o @] ELSE Failed
      got == from[2]
  IN IF got.ok THEN [ok |-> TRUE, value |-> Text(got.value), left |-> Without(s, got.end)] ELSE Failed

(* strtol: the digits after a sign; a space must follow, and the end of    *)
(* the line is none.                                                       *)
ParseInteger(s, signs, type) ==
  LET digits == {n \in 1 .. Len(s) : (s[n] \in Digits \/ (n = 1 /\ s[n] \in signs))
                                     /\ \A m \in 2 .. n : s[m] \in Digits}
      n == Cardinality(digits)
  IN IF n > 0 /\ (n > 1 \/ s[1] \in Digits) /\ n < Len(s) /\ IsSpace(s[n + 1])
     THEN [ok |-> TRUE, value |-> [type |-> type, of |-> SubSeq(s, 1, n)], left |-> Without(s, n)]
     ELSE Failed

(* parseValue, by the first character.                                     *)
ParseValue(s) ==
  IF s[1] = "\"" THEN ParseQuoted(s)
  ELSE IF s[1] \in {"+", "-"} THEN ParseInteger(s, {"+", "-"}, "int32")
  ELSE IF s[1] \in Digits THEN ParseInteger(s, {}, "uint32")
  ELSE [ok |-> TRUE, value |-> Text(SubSeq(s, 1, WordLength(s))), left |-> Without(s, WordLength(s))]

(* parseTuple: all of the values, or none.                                 *)
ParseTuple(s) ==
  LET read[t \in {Without(s, n) : n \in 0 .. Len(s)}] ==
        LET u == TrimStart(t)
            v == ParseValue(u)
            more == read[v.left]
        IN IF u = <<>> THEN [ok |-> TRUE, tuple |-> <<>>]
           ELSE IF ~v.ok THEN Failed
           ELSE IF ~more.ok THEN Failed
           ELSE [ok |-> TRUE, tuple |-> <<v.value>> \o more.tuple]
  IN read[s]

(* The guess at the nature of a line: a heading has a colon with only      *)
(* spaces after it, and letters, digits, spaces and colons before; a # is  *)
(* a comment if only spaces are before it.                                 *)
Says(line) == TrimStart(line) # <<>> /\ TrimStart(line)[1] # "#"
TrailingColon(line) ==
  \E n \in 1 .. Len(line) : line[n] = ":" /\ \A m \in n + 1 .. Len(line) : IsSpace(line[m])
ValidHeading(line) ==
  \A n \in 1 .. Len(line) : line[n] \in Alnum \cup {":"} \/ IsSpace(line[n])
LooksLikeHeading(line) == TrailingColon(line) /\ ValidHeading(line)

(* The name is what is before the first colon, after which nothing is      *)
(* allowed; a group that is there is used again.                           *)
Heading(line) ==
  LET colon == SelectInSeq(line, LAMBDA c : c = ":")
      name == TrimStart(SubSeq(line, 1, colon - 1))
  IN IF \A n \in colon + 1 .. Len(line) : IsSpace(line[n])
     THEN /\ current' = <<name>>
          /\ groups' = [g \in DOMAIN groups \cup {name} |->
                          IF g \in DOMAIN groups THEN groups[g] ELSE [k \in {} |-> <<>>]]
     ELSE UNCHANGED <<current, groups>>

(* The first word is the key, the rest its tuple.  A key that is there     *)
(* keeps its tuple.                                                        *)
Item(line) ==
  LET s == TrimStart(line)
      key == SubSeq(s, 1, WordLength(s))
      t == ParseTuple(Without(s, WordLength(s) + 1))
      items == groups[current[1]]
  IN /\ UNCHANGED current
     /\ IF current = <<>> THEN UNCHANGED groups
        ELSE IF key \in DOMAIN items \/ ~t.ok THEN UNCHANGED groups
        ELSE groups' = [groups EXCEPT ![current[1]] =
                          [k \in DOMAIN items \cup {key} |-> IF k = key THEN t.tuple ELSE items[k]]]

(* configRead reads the whole of the file, and then line by line.          *)
Open ==
  /\ says = <<>>
  /\ \E noise \in Noise : says' \in Contents /\ left' = Lines(says', noise)
  /\ UNCHANGED <<groups, current>>

(* One line of it: nothing, a heading or an item.                          *)
ReadLine ==
  /\ left # <<>> /\ left' = Tail(left)
  /\ LET line == Head(left)
     IN IF ~Says(line) THEN UNCHANGED <<current, groups>>
        ELSE IF LooksLikeHeading(line) THEN Heading(line) ELSE Item(line)
  /\ UNCHANGED says

Next == Open \/ ReadLine
Spec == Init /\ [][Next]_vars

(* configGet, without the cast: <<>> for NULL.                             *)
Get(g, k) ==
  IF g \notin DOMAIN groups THEN <<>>
  ELSE IF k \notin DOMAIN groups[g] THEN <<>> ELSE <<groups[g][k]>>

-----------------------------------------------------------------------------
TypeOK ==
  /\ DOMAIN groups \subseteq Groups /\ current \in {<<>>} \cup {<<g>> : g \in DOMAIN groups}
  /\ \A g \in DOMAIN groups : DOMAIN groups[g] \subseteq KeyNames

(* Of what was read, each key has the tuple of its first line, and other   *)
(* keys have none: quotes, signs, comments, headings given twice and lines *)
(* that say nothing do not matter.                                         *)
ReadsWhatIsSaid ==
  left = <<>> /\ says # <<>> =>
    \A g \in Groups, k \in KeyNames :
      LET those == {i \in 1 .. Len(says) : says[i].group = g /\ says[i].key = k}
      IN Get(g, k) = IF those = {} THEN <<>>
                     ELSE <<says[CHOOSE i \in those : \A j \in those : i <= j].tuple>>
=============================================================================
