------------------------------ MODULE Console ------------------------------
(***************************************************************************)
(* Y/widget/console.c and the terminal that draws on it, clients/terminal: *)
(* the server keeps the cells of the screen, the client the size that it   *)
(* believes they have, which is late by the events it has not handled.  A  *)
(* request that is under way when the size changes is the same as one of a *)
(* client that has not heard of it, so requests are handled at once.       *)
(***************************************************************************)
EXTENDS Integers, Sequences, FiniteSets

CONSTANTS
  Chars, Colours,        \* characters, and foregrounds that are asked for
  Columns, Lines,        \* widths and heights of the widget, in characters
  MaxEvents,             \* bound: events on their way to the client
  Wraps                  \* text is drawn past the end of a row

VARIABLES
  cols, rows, contents,  \* the console's cells, numbered row by row
  foreground, cursor,
  repainted,             \* history: the cells the last request had repainted
  scrolled,              \* history: the lines it moved: to, from, how many
  events,                \* resize events on their way to the client
  tcols, trows           \* the size that the terminal works with

vars == <<cols, rows, contents, foreground, cursor, repainted, scrolled, events, tcols, trows>>
terminal == <<events, tcols, trows>>

Unscrolled == <<0, 0, 0>>
Empty == <<"", -1>>
Least(m, n) == IF m < n THEN m ELSE n
Most(m, n) == IF m > n THEN m ELSE n

(* The cells of a rectangle: columns from a up to b, rows from c up to d.  *)
Within(a, c, b, d) == {k \in 0 .. cols * rows - 1 : k % cols \in a .. b - 1 /\ k \div cols \in c .. d - 1}

(* The widget has the size of the console when the terminal has made it.   *)
Init ==
  /\ cols = 2 /\ rows = 2 /\ tcols = 2 /\ trows = 2
  /\ contents = [k \in 0 .. 3 |-> Empty]
  /\ foreground = -1 /\ cursor = <<0, 0>> /\ repainted = {} /\ scrolled = Unscrolled
  /\ events = <<>>

-----------------------------------------------------------------------------
(* consoleResizeContents.  Mutation: the cells are copied in one piece.    *)
CopiedWhole(c, r) ==
  [k \in 0 .. c * r - 1 |-> IF k < cols * rows THEN contents[k] ELSE Empty]
Copied(c, r) ==
  [k \in 0 .. c * r - 1 |-> IF k % c < cols /\ k \div c < rows
                            THEN contents[cols * (k \div c) + (k % c)] ELSE Empty]

(* consoleResize: at least one cell; the client is told if it changed.     *)
Resize(w, h) ==
  LET c == Most(w, 1)  r == Most(h, 1)
  IN /\ <<c, r>> # <<cols, rows>> /\ Len(events) < MaxEvents
     /\ cols' = c /\ rows' = r /\ contents' = Copied(c, r)
     /\ repainted' = 0 .. c * r - 1 /\ scrolled' = Unscrolled
     /\ events' = Append(events, <<c, r>>)
     /\ UNCHANGED <<foreground, cursor, tcols, trows>>

(* Terminal::resize.                                                       *)
Resized ==
  /\ events # <<>>
  /\ tcols' = Head(events)[1] /\ trows' = Head(events)[2] /\ events' = Tail(events)
  /\ repainted' = {} /\ scrolled' = Unscrolled
  /\ UNCHANGED <<cols, rows, contents, foreground, cursor>>

(* consoleSetRendition: colours 1 to 8, anything else is the default.      *)
(* Mutation: the number is not checked.                                    *)
AnyColour(n) == n - 1
Colour(n) == IF n \in 1 .. 8 THEN n - 1 ELSE -1
SetRendition(n) ==
  /\ foreground' = Colour(n)
  /\ repainted' = {} /\ scrolled' = Unscrolled
  /\ UNCHANGED <<cols, rows, contents, cursor, terminal>>

(* consoleDrawText: where the k-th character goes.  After the end of a row *)
(* the address is made with the number of rows and not of columns.         *)
Target(col, row, k) ==
  LET j == row + (col + k) \div cols
  IN IF j = row THEN cols * row + col + k ELSE rows * j + ((col + k) % cols)

(* The cells repainted: those of each row that was written to.             *)
(* Mutation: the row is repainted from its start, up to the last one.      *)
RowOnly(col, row, n) == Within(0, row, col + n - 1, row + 1)
Drawn(col, row, n) ==
  Within(col, row, col + n, row + 1)
  \cup UNION {Within(0, j, col + n - cols * (j - row), j + 1) : j \in row + 1 .. rows - 1}

DrawText(col, row, text) ==
  /\ scrolled' = Unscrolled
  /\ Wraps \/ col + Len(text) <= cols
  /\ LET n == Len(text)
         taken == {k \in 0 .. n - 1 : row + (col + k) \div cols < rows}
         writes(t) == {k \in taken : Target(col, row, k) = t}
         lastOf(t) == CHOOSE k \in writes(t) : \A l \in writes(t) : l <= k
     IN IF col >= cols \/ row >= rows
        THEN UNCHANGED contents /\ repainted' = {}
        ELSE /\ contents' = [t \in DOMAIN contents |->
                               IF writes(t) = {} THEN contents[t]
                               ELSE <<text[lastOf(t) + 1], foreground>>]
             /\ repainted' = Drawn(col, row, n)
  /\ UNCHANGED <<cols, rows, foreground, cursor, terminal>>

(* consoleClearRect, as a set of cells.                                    *)
Cleared(a, c, b, d) == IF a >= cols \/ c >= rows THEN {} ELSE Within(a, c, Least(b, cols), Least(d, rows))
ClearRect(a, c, b, d) ==
  /\ contents' = [k \in DOMAIN contents |-> IF k \in Cleared(a, c, b, d) THEN Empty ELSE contents[k]]
  /\ repainted' = Cleared(a, c, b, d) /\ scrolled' = Unscrolled
  /\ UNCHANGED <<cols, rows, foreground, cursor, terminal>>

(* consoleScrollView: the lines are moved, and those they came from are    *)
(* cleared; downwards, up to MIN (numLines, destRow - srcRow), which is a  *)
(* number of rows and not a row.                                           *)
(* Mutation: the first line of those that came is cleared as well.         *)
ClearsArrived(dest, src, n) == Within(0, Most(src, dest + n) - 1, cols, src + n)
Vacated(dest, src, n) ==
  IF dest < src THEN Cleared(0, Most(src, dest + n), cols, src + n)
  ELSE IF src < dest THEN Cleared(0, src, cols, Least(n, dest - src)) ELSE {}

ScrollView(dest, src, n) ==
  /\ UNCHANGED <<cols, rows, foreground, cursor, terminal>>
  /\ IF dest >= rows \/ src >= rows THEN UNCHANGED contents /\ repainted' = {} /\ scrolled' = Unscrolled
     ELSE LET m == Least(n, Least(rows - dest, rows - src))
              moved == Within(0, dest, cols, dest + m)
          IN /\ contents' = [k \in DOMAIN contents |->
                               IF k \in Vacated(dest, src, m) THEN Empty
                               ELSE IF k \in moved THEN contents[k + (src - dest) * cols] ELSE contents[k]]
             /\ repainted' = moved \cup Vacated(dest, src, m)
             /\ scrolled' = <<dest, src, m>>

UpdateCursorPos(col, row) ==
  /\ <<col, row>> # cursor
  /\ cursor' = <<col, row>> /\ scrolled' = Unscrolled
  /\ repainted' = Within(cursor[1], cursor[2], cursor[1] + 1, cursor[2] + 1) \cup Within(col, row, col + 1, row + 1)
  /\ UNCHANGED <<cols, rows, contents, foreground, terminal>>

Texts == UNION {[1 .. n -> Chars] : n \in 1 .. tcols}
Next ==
  \/ \E w \in Columns, h \in Lines : Resize(w, h)
  \/ Resized
  \/ \E n \in Colours : SetRendition(n)
  \/ \E col \in 0 .. tcols - 1, row \in 0 .. trows - 1 :
       \/ \E text \in Texts : DrawText(col, row, text)
       \/ UpdateCursorPos(col, row)
       \/ \E b \in col .. tcols, d \in row .. trows : ClearRect(col, row, b, d)
  \/ \E dest, src \in 0 .. trows - 1, n \in 1 .. trows : ScrollView(dest, src, n)

Spec == Init /\ [][Next]_vars

-----------------------------------------------------------------------------
TypeOK ==
  /\ cols \in Columns \cup {1, 2} /\ rows \in Lines \cup {1, 2}
  /\ contents \in [0 .. cols * rows - 1 -> {Empty} \cup (Chars \X (-1 .. 7))]
  /\ foreground \in -1 .. 7 /\ repainted \subseteq 0 .. cols * rows - 1

(* What a request changed is repainted, so that the screen shows what the  *)
(* console keeps, whatever size the terminal believed it to have.          *)
ChangedIsRepainted ==
  [][\A k \in DOMAIN contents' :
       k \notin DOMAIN contents \/ contents'[k] # contents[k] => k \in repainted']_vars

(* The lines that are scrolled arrive as they were, and no line is changed *)
(* that they neither came from nor went to.                                *)
Line(c, r, w) == [i \in 0 .. w - 1 |-> c[w * r + i]]
ScrollKeepsLines ==
  [][scrolled' # Unscrolled =>
       LET dest == scrolled'[1]  src == scrolled'[2]  m == scrolled'[3]
       IN \A r \in 0 .. rows - 1 :
            /\ r \in dest .. dest + m - 1 => Line(contents', r, cols) = Line(contents, r + src - dest, cols)
            /\ r \notin (dest .. dest + m - 1) \cup (src .. src + m - 1) =>
                 Line(contents', r, cols) = Line(contents, r, cols)]_vars

(* A cell that exists before and after a change of size keeps its place.   *)
ResizeKeepsCells ==
  [][<<cols, rows>>' # <<cols, rows>> =>
       \A r \in 0 .. Least(rows, rows') - 1, i \in 0 .. Least(cols, cols') - 1 :
         contents'[cols' * r + i] = contents[cols * r + i]]_vars

(* When the terminal has handled all events it knows the console's size.   *)
SizesAgree == events = <<>> => tcols = cols /\ trows = rows
=============================================================================
