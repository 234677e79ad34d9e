----------------------------- MODULE Calculator -----------------------------
(***************************************************************************)
(* The calculator, clients/calculator/calculator.cc: keys on a grid, a     *)
(* stack of operands and one of operators that wait for one of lower       *)
(* precedence, and the display.                                            *)
(* A result is kept as the tree of what was computed, not as a number.     *)
(***************************************************************************)
EXTENDS Integers, Sequences, SequencesExt

CONSTANTS
  Digits,       \* bound: the digits that are clicked
  MaxClicks     \* bound: clicks of operators and digits between two of "="

Operators == {"+", "-", "*", "/"}
Keys == Digits \cup Operators \cup {".", "=", "C"}

(* The places of the constructor: column, row, columns and rows.           *)
Area(x, y, w, h) == (x .. x + w - 1) \X (y .. y + h - 1)
Places ==
  [k \in {"display", "0", "1", "2", "3", "4", "5", "6", "7", "8", "9", ".", "=", "C"} \cup Operators |->
     CASE k = "display" -> Area(0, 0, 4, 1)
       [] k = "0" -> Area(0, 5, 2, 1)
       [] k = "1" -> Area(0, 4, 1, 1) [] k = "2" -> Area(1, 4, 1, 1) [] k = "3" -> Area(2, 4, 1, 1)
       [] k = "4" -> Area(0, 3, 1, 1) [] k = "5" -> Area(1, 3, 1, 1) [] k = "6" -> Area(2, 3, 1, 1)
       [] k = "7" -> Area(0, 2, 1, 1) [] k = "8" -> Area(1, 2, 1, 1) [] k = "9" -> Area(2, 2, 1, 1)
       [] k = "." -> Area(2, 5, 1, 1)
       [] k = "=" -> Area(3, 4, 1, 2) [] k = "+" -> Area(3, 2, 1, 2)
       [] k = "-" -> Area(3, 1, 1, 1) [] k = "*" -> Area(2, 1, 1, 1)
       [] k = "/" -> Area(1, 1, 1, 1) [] k = "C" -> Area(0, 1, 1, 1)]

VARIABLES
  operands, operators,     \* the stacks, the top first
  current, decimalPlace,   \* the number being entered: its digits, and the places after the point
  display,                 \* what setResult was given
  aborted,                 \* top of an empty stack, or "=" on the stack
  entered                  \* history: the numbers and operators since the last "="

vars == <<operands, operators, current, decimalPlace, display, aborted, entered>>

(* A number: digits and places; 0 is a number without digits.              *)
Entry(digits, places) == [digits |-> digits, places |-> places]
Zero == Entry(<<>>, 0)
Tree(op, a, b) == [op |-> op, left |-> a, right |-> b]

Init ==
  /\ operands = <<>> /\ operators = <<>>
  /\ current = <<>> /\ decimalPlace = 0
  /\ display = Zero /\ aborted = FALSE /\ entered = <<>>

Number == Entry(current, IF decimalPlace > 0 THEN decimalPlace - 1 ELSE 0)

-----------------------------------------------------------------------------
(* setupOpTable, and operatorLessThan: whether op1 is evaluated before op2.*)
Precedence(op) == CASE op \in {"*", "/"} -> 0 [] op \in {"+", "-"} -> 1 [] op = "=" -> 2
(* Mutation: all operators alike.                                          *)
InTurn(op1, op2) == op2 = "=" \/ Precedence(op1) <= Precedence(op2)
LessThan(op1, op2) == Precedence(op1) < Precedence(op2)

(* evaluate: the operators on the stack as long as they come before max.   *)
Evaluated(max, given) ==
  LET n == SelectInSeq(operators, LAMBDA op : ~LessThan(op, max))
      due == IF n = 0 THEN Len(operators) ELSE n - 1
      step[i \in 0 .. due] ==
        IF i = 0 THEN given
        ELSE IF Len(step[i - 1]) < 2 THEN <<>>
        ELSE <<Tree(operators[i], step[i - 1][2], step[i - 1][1])>> \o SubSeq(step[i - 1], 3, Len(step[i - 1]))
  IN [operands |-> step[due], operators |-> SubSeq(operators, due + 1, Len(operators))]

Clear == current' = <<>> /\ decimalPlace' = 0

numberClicked(n) ==
  /\ current' = IF current = <<>> /\ n = "0" /\ decimalPlace = 0 THEN <<>> ELSE Append(current, n)
  /\ decimalPlace' = IF decimalPlace > 0 THEN decimalPlace + 1 ELSE 0
  /\ display' = Number'
  /\ UNCHANGED <<operands, operators, aborted, entered>>

pointClicked ==
  /\ decimalPlace' = IF decimalPlace = 0 THEN 1 ELSE decimalPlace
  /\ display' = Number
  /\ UNCHANGED <<operands, operators, current, aborted, entered>>

clearClicked ==
  /\ Clear /\ display' = Zero
  /\ UNCHANGED <<operands, operators, aborted, entered>>

operatorClicked(op) ==
  LET after == Evaluated(op, <<Number>> \o operands)
  IN /\ Clear
     /\ aborted' = (after.operands = <<>>)
     /\ operands' = after.operands /\ operators' = <<op>> \o after.operators
     /\ display' = IF aborted' THEN display ELSE after.operands[1]
     /\ entered' = entered \o <<Number, op>>

equalsClicked ==
  LET after == Evaluated("=", <<Number>> \o operands)
  IN /\ Clear
     /\ aborted' = (after.operands = <<>>)
     /\ operands' = Tail(after.operands) /\ operators' = after.operators
     /\ display' = after.operands[1]
     /\ entered' = <<>>

(* The signal of the button at a place of the grid.                        *)
At(place) == CHOOSE k \in DOMAIN Places : place \in Places[k]
Click(place) ==
  LET k == At(place)
  IN /\ ~aborted /\ Len(entered) + Len(current) + decimalPlace <= MaxClicks
     /\ \/ k \in Digits /\ numberClicked(k)
        \/ k = "." /\ pointClicked
        \/ k = "C" /\ clearClicked
        \/ k \in Operators /\ operatorClicked(k)
        \/ k = "=" /\ equalsClicked

Next == \E place \in (0 .. 3) \X (0 .. 5) : Click(place)
Spec == Init /\ [][Next]_vars

-----------------------------------------------------------------------------
TypeOK ==
  /\ decimalPlace \in Nat /\ aborted \in BOOLEAN
  /\ \A i \in 1 .. Len(operators) : operators[i] \in Operators
  /\ \A i \in 1 .. Len(current) : current[i] \in Digits

(* There is an operand for each operator that waits, the operators wait in *)
(* the order of their precedence, and no stack is popped when empty.       *)
StacksMatch ==
  /\ Len(operands) = Len(operators) /\ ~aborted
  /\ \A i \in 1 .. Len(operators) - 1 : Precedence(operators[i]) <= Precedence(operators[i + 1])

(* The grammar: a sum of products, each of which takes what is right of it *)
(* as one operand (as a - (b - c), which is what < in evaluate makes).     *)
Operator(s, i) == s[2 * i]
Reference(s) ==
  LET n == Len(s) \div 2        \* operators
      first(ops, i, j) == LET at == {k \in i .. j : Operator(s, k) \in ops}
                          IN IF at = {} THEN 0 ELSE CHOOSE k \in at : \A l \in at : k <= l
      \* the tree of numbers i to j, for longer and longer pieces
      tree[len \in 0 .. n] ==
        [i \in 1 .. n + 1 - len |->
           LET j == i + len
               k == IF first({"+", "-"}, i, j - 1) # 0 THEN first({"+", "-"}, i, j - 1)
                    ELSE first({"*", "/"}, i, j - 1)
           IN IF len = 0 THEN s[2 * i - 1]
              ELSE Tree(Operator(s, k), tree[k - i][i], tree[j - k - 1][k + 1])]
  IN tree[n][1]

(* What "=" shows is what was entered since the last, by that grammar,     *)
(* whatever was cleared meanwhile.                                         *)
ResultRight ==
  [][entered # <<>> /\ entered' = <<>> => display' = Reference(Append(entered, Number))]_vars

(* The keys cover the grid and each other nowhere.                         *)
PlacesRight ==
  /\ UNION {Places[k] : k \in DOMAIN Places} = (0 .. 3) \X (0 .. 5)
  /\ \A k, l \in DOMAIN Places : k # l => Places[k] \cap Places[l] = {}
=============================================================================
