-------------------------- MODULE WindowGeometry --------------------------
(***************************************************************************)
(* The position and size of a window (Y/widget/window.c, widget.c,         *)
(* desktop.c, the window managers and themes): moved and resized by the    *)
(* pointer, constrained by its child, maximised, and pushed back when the  *)
(* screen shrinks.                                                         *)
(*                                                                         *)
(* The two axes are handled alike and apart: the eight ways to resize are  *)
(* the products of "low" (left, top), "high" (right, bottom) and "still"   *)
(* on each.  The module is one axis.                                       *)
(***************************************************************************)
EXTENDS Integers

CONSTANTS
  Sizes,        \* that the screen may have
  Mins, Maxs,   \* what the child may ask for; Unset is no maximum
  Outset,       \* a maximised window begins so far off the screen
  Inset,        \* and is so much smaller
  Far           \* bound: how far, and how large, the user makes it

Unset == -1
Unused == <<0, 0>>   \* what is stored, while the window is not maximised

VARIABLES
  desk, pointer,
  pos, size, min, max,          \* of struct Widget; a window requests the size it has
  mode, drag,                   \* dragging, dragX
  maximised, stored             \* sizeState, storeX and storeW

vars == <<desk, pointer, pos, size, min, max, mode, drag, maximised, stored>>
Modes == {"none", "move", "low", "high", "still"}
Least == CHOOSE m \in Mins : \A n \in Mins : m <= n

(* widget_resize.                                                          *)
AtLeast(s) == IF s < min THEN min ELSE s
AtMost(s) == IF max # Unset /\ s > max THEN max ELSE s
Positive(s) == IF s < 0 THEN 0 ELSE s
Fitted(s) == AtMost(AtLeast(Positive(s)))

Placed(p, s) == pos' = p /\ size' = Fitted(s)

Init ==
  /\ desk \in Sizes /\ pointer = 0
  /\ pos = 0 /\ min = Least /\ max = Unset
  /\ size = min
  /\ mode = "none" /\ drag = 0
  /\ maximised = FALSE /\ stored = Unused

(* windowStartReshape, of a press in the title or in the border, which is  *)
(* one pixel wide here (the themes' getRegion).                            *)
Region(m) ==
  CASE m = "low" -> {pos}
    [] m = "high" -> {pos + size}
    [] OTHER -> pos .. pos + size
StartReshape(m) ==
  /\ ~maximised /\ m # "none" /\ pointer \in Region(m)
  /\ mode' = m /\ drag' = pointer - pos
  /\ UNCHANGED <<desk, pointer, pos, size, min, max, maximised, stored>>

StopReshape ==
  /\ mode # "none" /\ mode' = "none" /\ drag' = 0
  /\ UNCHANGED <<desk, pointer, pos, size, min, max, maximised, stored>>

(* windowPointerMotion.  The pointer is given relative to the window, so   *)
(* that the handle of the low edge moves along with it.                    *)
(* Mutation: the low edge moves on when the window cannot shrink.          *)
Unlimited(d) == d
LowBy(d) == IF size - d < min THEN size - min ELSE d
HighBy(d) == IF size + d < min THEN min - size ELSE d
(* Mutation: the handle of the high edge stays where it was.               *)
HandleStays(d) == drag
HandleMoves(d) == drag + d
Motion(p) ==
  LET d == (p - pos) - drag
  IN /\ p # pointer /\ pointer' = p
     /\ \/ mode = "none" /\ UNCHANGED <<pos, size, drag>>
        \/ mode = "move" /\ pos' = pos + d /\ UNCHANGED <<size, drag>>
        \/ mode = "low" /\ Placed(pos + LowBy(d), size - LowBy(d)) /\ UNCHANGED drag
        \/ mode = "high" /\ Placed(pos, size + HighBy(d)) /\ drag' = HandleMoves(HighBy(d))
        \/ mode = "still" /\ Placed(pos, size) /\ UNCHANGED drag
     /\ pos' \in -Far .. Far /\ size' <= 2 * Far
     /\ UNCHANGED <<desk, min, max, mode, maximised, stored>>

(* windowReconfigure, by the theme: what the child asks for bounds the     *)
(* window; fresh is when a child is set or the window shown.               *)
(* Mutation: a maximum below the minimum is kept.                          *)
AsAsked(lo, hi) == hi
Largest(lo, hi) == IF hi # Unset /\ hi < lo THEN lo ELSE hi
Reconfigure(lo, hi, wish, fresh) ==
  LET top == Largest(lo, hi)
      asked == IF fresh THEN wish ELSE size
      below == IF top # Unset /\ asked > top THEN top ELSE asked
  IN /\ min' = lo /\ max' = top
     /\ size' = IF below < lo THEN lo ELSE below
     /\ UNCHANGED <<desk, pointer, pos, mode, drag, maximised, stored>>

(* defaultMaximiseWindow, defaultRestoreWindow.                            *)
Maximise ==
  /\ ~maximised /\ maximised' = TRUE
  /\ stored' = <<pos, size>>
  /\ Placed(-Outset, desk - Inset)
  /\ UNCHANGED <<desk, pointer, min, max, mode, drag>>

Restore ==
  /\ maximised /\ maximised' = FALSE
  /\ Placed(stored[1], stored[2]) /\ stored' = Unused
  /\ UNCHANGED <<desk, pointer, min, max, mode, drag>>

(* desktopResize: a window that is wider is resized to the screen, and one *)
(* that reaches over its end is moved back, before it is resized.          *)
DesktopResize(d) ==
  LET s == IF size > d THEN d ELSE size
  IN /\ d # desk /\ desk' = d
     /\ IF maximised THEN Placed(pos, d)
        ELSE IF s = size THEN pos' = (IF pos + s > d THEN d - s ELSE pos) /\ UNCHANGED size
        ELSE Placed(IF pos + s > d THEN d - s ELSE pos, s)
     /\ pointer' = IF pointer < d THEN pointer ELSE d - 1
     /\ UNCHANGED <<min, max, mode, drag, maximised, stored>>

Next ==
  \/ \E m \in Modes : StartReshape(m)
  \/ StopReshape \/ Maximise \/ Restore
  \/ \E p \in 0 .. desk - 1 : Motion(p)
  \/ \E lo \in Mins, hi \in Maxs, wish \in Mins, fresh \in BOOLEAN : Reconfigure(lo, hi, wish, fresh)
  \/ \E d \in Sizes : DesktopResize(d)

Spec == Init /\ [][Next]_vars

-----------------------------------------------------------------------------
TypeOK ==
  /\ desk \in Sizes /\ pointer \in 0 .. desk - 1
  /\ {pos, size, min, max, drag, stored[1], stored[2]} \subseteq Int
  /\ mode \in Modes /\ maximised \in BOOLEAN

(* Whatever the pointer, the screen and the child did, in any order, the   *)
(* window has a size its child can be shown in.                            *)
Constrained == size >= min /\ (max # Unset => size <= max)

(* While an edge is dragged the other one stays, and a window that is      *)
(* moved keeps its size, unless the child limits the window's size (the    *)
(* code moves the low edge before it finds that the window cannot grow).   *)
OtherEdgeStays ==
  [][pointer' # pointer /\ desk' = desk /\ max = Unset =>
       /\ mode = "low" => pos' + size' = pos + size
       /\ mode = "high" => pos' = pos
       /\ mode = "move" => size' = size]_vars

(* The pointer is on the handle it took after each step of the drag, or    *)
(* the window is as small as it can be.                                    *)
HandleUnderPointer ==
  [][pointer' # pointer /\ desk' = desk /\ mode \in {"move", "low", "high"} /\ max = Unset =>
       pointer' - pos' = drag' \/ (mode # "move" /\ size' = min')]_vars
=============================================================================
