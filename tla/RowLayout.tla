----------------------------- MODULE RowLayout -----------------------------
(***************************************************************************)
(* Y/widget/yrowlayout.c and ylayoutcell.c: widgets side by side in cells. *)
(* What the layout has to spare, or lacks, is shared by the cells that     *)
(* stretch, or by all if none does.  Widgets are as high as the layout and *)
(* at the left of their cells, which nothing ever changes.                 *)
(***************************************************************************)
EXTENDS Integers, Sequences, FiniteSets, SequencesExt

CONSTANTS Widgets, Nil,
          Widths,   \* that the layout is given
          Mins      \* that widgets ask for, with Unset

VARIABLES
  cells,      \* [widget, stretch, x, w]
  width,
  least, w,   \* minWidth and w of each widget
  alive, told, pointerWidget, entered, crashed   \* as in GridLayout

vars == <<cells, width, least, w, alive, told, pointerWidget, entered, crashed>>
pointerVars == <<told, pointerWidget, entered>>
Unset == -1
Cell == [widget : Widgets, stretch : BOOLEAN, x : Int, w : Int]
Held == {cells[i].widget : i \in DOMAIN cells}

Init ==
  /\ cells = <<>> /\ width = 0
  /\ least = [v \in Widgets |-> Unset] /\ w = [v \in Widgets |-> 0]
  /\ alive = Widgets /\ told = FALSE /\ pointerWidget = Nil /\ entered = {} /\ crashed = FALSE

-----------------------------------------------------------------------------
(* What a widget has, at least; C's division.                              *)
Has(v) == IF w[v] < least[v] THEN least[v] ELSE w[v]
Quotient(a, b) == IF a < 0 THEN -((-a) \div b) ELSE a \div b
Total(f(_), cs) ==
  LET sum[i \in 0 .. Len(cs)] == IF i = 0 THEN 0 ELSE sum[i - 1] + f(cs[i])
  IN sum[Len(cs)]
Shown(cs) == {i \in DOMAIN cs : Has(cs[i].widget) > 0}
Stretching(cs) == {i \in Shown(cs) : cs[i].stretch}

(* yrowlayout_arrange_cells.  A cell gets its part of the spare width; the *)
(* last that stretches gets all that is left.  n counts those to come.     *)
(* Mutation: it gets a part as the others.                                 *)
PartOnly(n, spare, part) == part
PartOf(n, spare, part) == IF n = 1 THEN spare ELSE part
Arranged(cs, wd) ==
  LET n == Cardinality(Stretching(cs))
      shown == Cardinality(Shown(cs))
      spare == wd - Total(LAMBDA c : Has(c.widget), cs)
      part == CASE n > 0 -> Quotient(spare, n)
                [] n = 0 /\ shown > 0 -> Quotient(spare, shown)
                [] OTHER -> 0
      grows(c) == n = 0 \/ c.stretch
      wide(c, rest) == Has(c.widget) + IF grows(c) THEN PartOf(rest.n, rest.spare, part) ELSE 0
      left[i \in 0 .. Len(cs)] ==   \* after so many cells
        IF i = 0 THEN [x |-> 0, n |-> n, spare |-> spare]
        ELSE LET c == cs[i]  rest == left[i - 1]
             IN [x |-> rest.x + wide(c, rest),
                 n |-> IF grows(c) THEN rest.n - 1 ELSE rest.n,
                 spare |-> IF grows(c) THEN rest.spare - part ELSE rest.spare]
  IN [i \in 1 .. Len(cs) |-> [cs[i] EXCEPT !.x = left[i - 1].x, !.w = wide(cs[i], left[i - 1])]]

(* ylayoutcell_align_widget: the widget is resized to its cell.            *)
(* Mutation: by a widget_resize that takes any width.                      *)
Taken(a, b) == a
Larger(a, b) == IF a < b THEN b ELSE a
PlacesOf(cs, v) == {i \in DOMAIN cs : cs[i].widget = v}
Arrange(cs, wd) ==
  LET placed == Arranged(cs, wd)
      of(v) == placed[Min(PlacesOf(cs, v))]
  IN /\ cells' = placed
     /\ w' = [v \in Widgets |->
               IF PlacesOf(cs, v) = {} \/ of(v).w = w[v] THEN w[v]
               ELSE Larger(Larger(of(v).w, 0), least[v])]

Running == ~crashed

AddWidget(v, s) ==
  /\ Running /\ v \in alive \ Held
  /\ Arrange(Append(cells, [widget |-> v, stretch |-> s, x |-> 0, w |-> 0]), width)
  /\ UNCHANGED <<width, least, alive, pointerVars, crashed>>

(* Neither removal nor yrowlayout_unpack, when the widget is destroyed,    *)
(* moves the others.                                                       *)
Dropped(v) == IF v \in Held THEN RemoveAt(cells, Min(PlacesOf(cells, v))) ELSE cells
RemoveWidget(v) ==
  /\ Running /\ v \in Held /\ cells' = Dropped(v)
  /\ UNCHANGED <<width, least, w, alive, pointerVars, crashed>>
Destroy(v) ==
  /\ Running /\ v \in alive
  /\ alive' = alive \ {v} /\ cells' = Dropped(v) /\ entered' = entered \ {v}
  /\ UNCHANGED <<width, least, w, told, pointerWidget, crashed>>

Resize(n) ==
  /\ Running /\ width' = n /\ Arrange(cells, n)
  /\ UNCHANGED <<least, alive, pointerVars, crashed>>

(* A widget asks for another minimum; what becomes of it waits for the     *)
(* container's resize.                                                     *)
Reconfigure(v, m) ==
  /\ Running /\ v \in alive /\ least[v] # m /\ least' = [least EXCEPT ![v] = m]
  /\ UNCHANGED <<cells, width, w, alive, pointerVars, crashed>>

-----------------------------------------------------------------------------
Over == Held \cup {Nil}
PointerEnter(v) ==
  /\ Running /\ ~told /\ told' = TRUE
  /\ pointerWidget' = IF v = Nil THEN pointerWidget ELSE v
  /\ entered' = entered \cup ({v} \ {Nil})
  /\ UNCHANGED <<cells, width, least, w, alive, crashed>>

(* Mutation: a widget is not told that it was left for another.            *)
Abandoned(v) == IF v = Nil THEN {pointerWidget} ELSE {}
LeftFor(v) == {pointerWidget}
PointerMotion(v) ==
  /\ Running /\ told /\ v # pointerWidget
  /\ crashed' = (pointerWidget \notin alive \cup {Nil})
  /\ pointerWidget' = v
  /\ entered' = (entered \ LeftFor(v)) \cup ({v} \ {Nil})
  /\ UNCHANGED <<cells, width, least, w, alive, told>>

PointerLeave ==
  /\ Running /\ told /\ told' = FALSE
  /\ crashed' = (pointerWidget \notin alive \cup {Nil})
  /\ pointerWidget' = Nil /\ entered' = entered \ {pointerWidget}
  /\ UNCHANGED <<cells, width, least, w, alive>>

Next ==
  \/ \E v \in Widgets, s \in BOOLEAN : AddWidget(v, s)
  \/ \E v \in Widgets : RemoveWidget(v) \/ Destroy(v)
  \/ \E n \in Widths : Resize(n)
  \/ \E v \in Widgets, m \in Mins : Reconfigure(v, m)
  \/ \E v \in Over : PointerEnter(v) \/ PointerMotion(v)
  \/ PointerLeave

Spec == Init /\ [][Next]_vars

-----------------------------------------------------------------------------
TypeOK ==
  /\ cells \in Seq(Cell) /\ width \in Widths \cup {0}
  /\ w \in [Widgets -> Nat] /\ least \in [Widgets -> Mins]
  /\ pointerWidget \in Widgets \cup {Nil} /\ entered \subseteq Widgets

(* When the layout is resized and a cell stretches, the cells make up its  *)
(* width to the last pixel, side by side, unless a widget without a size   *)
(* stretches too: it takes its part without having been counted.           *)
RowTiled ==
  [][width' # width
     /\ (\E i \in DOMAIN cells : cells[i].stretch)
     /\ (\A i \in DOMAIN cells : cells[i].stretch => Has(cells[i].widget) > 0) =>
       /\ Total(LAMBDA c : c.w, cells') = width'
       /\ \A i \in 2 .. Len(cells') : cells'[i].x = cells'[i - 1].x + cells'[i - 1].w]_vars

(* As EnteredOnce of GridLayout.                                           *)
RowEnteredOnce == ~crashed => entered = {pointerWidget} \cap alive

(* yrowlayout.c:35: if all cells are set to BEST_FIT the behaviour is the  *)
(* same as if all cells are set to STRETCH.                                *)
All(s) == [i \in DOMAIN cells |-> [cells[i] EXCEPT !.stretch = s]]
Widths1(cs) == [i \in DOMAIN cs |-> cs[i].w]
BestFitIsStretch == Widths1(Arranged(All(FALSE), width)) = Widths1(Arranged(All(TRUE), width))
=============================================================================
