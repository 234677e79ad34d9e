----------------------------- MODULE GridLayout -----------------------------
(***************************************************************************)
(* Y/widget/gridlayout.c: widgets in the cells of a grid, whose columns    *)
(* share the width of the layout.  Rows and columns are handled alike; the *)
(* module is about the columns.                                            *)
(*                                                                         *)
(* The layout passes on where the pointer is: a widget is told to be       *)
(* entered and left.  A widget that is destroyed or removed while the      *)
(* pointer is in it stays pointerWidget; it is then told to be left, in    *)
(* memory that was freed if it was destroyed, and crashed is set.          *)
(***************************************************************************)
EXTENDS Naturals, Integers, Sequences, FiniteSets, SequencesExt

CONSTANTS Widgets, Nil,
          MaxCols,   \* bound: columns a client asks for
          Widths,    \* that the layout is given
          Bits       \* of an integer

VARIABLES
  items,      \* [widget, col, span], in the order they were added
  cols, colWidths,
  width,      \* of the layout
  minWidth,   \* of the layout
  least,      \* minWidth of each widget, Unset for none
  x, w,       \* of each widget
  alive,
  told,       \* the pointer is in the layout, as its container told it
  pointerWidget,
  entered,    \* widgets told to be entered and not to be left
  crashed

vars == <<items, cols, colWidths, width, minWidth, least, x, w, alive,
          told, pointerWidget, entered, crashed>>
pointerVars == <<told, pointerWidget, entered>>
Unset == -1
Item == [widget : Widgets, col : 0 .. MaxCols - 1, span : 1 .. MaxCols]
Held == {items[i].widget : i \in DOMAIN items}

Init ==
  /\ items = <<>> /\ cols = 0 /\ colWidths = <<>>
  /\ width = 0 /\ minWidth = Unset
  /\ least = [v \in Widgets |-> Unset]
  /\ x = [v \in Widgets |-> 0] /\ w = x
  /\ alive = Widgets
  /\ told = FALSE /\ pointerWidget = Nil /\ entered = {} /\ crashed = FALSE

-----------------------------------------------------------------------------
(* gridlayoutFitChildren: each column takes its share of what is left.     *)
(* Mutation: each takes the same share, whatever is lost.                  *)
EqualShare(wd, left, n, i) == wd \div n
ShareOf(wd, left, n, i) == left \div (n - i)
Shares(wd, n) ==
  LET taken[i \in 0 .. n] ==
        IF i = 0 THEN 0 ELSE taken[i - 1] + ShareOf(wd, wd - taken[i - 1], n, i - 1)
  IN [i \in 1 .. n |-> taken[i] - taken[i - 1]]

(* colWidth: the columns from col on.                                      *)
ColWidth(ws, col, span) ==
  LET sum[k \in 0 .. span] == IF k = 0 THEN 0 ELSE sum[k - 1] + ws[col + k]
  IN sum[span]

(* The last item of a widget decides where it is; widget_resize does not   *)
(* make it smaller than its minimum.                                       *)
PlacesOf(its, v) == {j \in DOMAIN its : its[j].widget = v}
Fit(its, wd, n) ==
  LET ws == Shares(wd, n)
      at(v) == its[Max(PlacesOf(its, v))]
      larger(s, v) == IF s < least[v] THEN least[v] ELSE s
  IN /\ colWidths' = ws
     /\ x' = [v \in Widgets |-> IF PlacesOf(its, v) = {} THEN x[v] ELSE ColWidth(ws, 0, at(v).col)]
     /\ w' = [v \in Widgets |-> IF PlacesOf(its, v) = {} THEN w[v]
                                ELSE LET s == ColWidth(ws, at(v).col, at(v).span)
                                     IN IF s = w[v] THEN s ELSE larger(s, v)]

(* gridlayoutResizeGrid: no smaller than any child needs.                  *)
Needed(n, its) == Max({n} \cup {its[i].col + its[i].span : i \in DOMAIN its})

(* gridlayoutReconfigure: the widest need of any column, in int.  A need   *)
(* is divided by an unsigned span, so that -1 becomes a large number when  *)
(* the span is more than one.                                              *)
AsUnsigned(n) == IF n < 0 THEN n + 2 ^ Bits ELSE n
AsInt(n) == IF n >= 2 ^ (Bits - 1) THEN n - 2 ^ Bits ELSE n
Need(mins, i) == AsInt(AsUnsigned(mins[i.widget]) \div i.span)
Minimum(mins, its, n) ==
  LET most == FoldLeft(LAMBDA m, i : IF Need(mins, i) > m THEN Need(mins, i) ELSE m, Unset, its)
  IN IF most > 0 THEN AsInt((most * n) % 2 ^ Bits) ELSE Unset

Running == ~crashed

AddWidget(i) ==
  LET its == Append(items, i)
      n == IF i.col + i.span > cols THEN Needed(cols, its) ELSE cols
  IN /\ Running /\ i.widget \in alive \ Held
     /\ items' = its /\ cols' = n
     /\ Fit(its, width, n)
     /\ minWidth' = Minimum(least, its, n)
     /\ UNCHANGED <<width, least, alive, pointerVars, crashed>>

(* The first item of a widget is taken out.                                *)
Dropped(v) == IF v \in Held THEN RemoveAt(items, Min(PlacesOf(items, v))) ELSE items

(* gridlayoutRemoveWidget shrinks the grid to what the others need.        *)
RemoveWidget(v) ==
  LET its == Dropped(v)
  IN /\ Running /\ v \in alive
     /\ items' = its /\ cols' = Needed(0, its)
     /\ Fit(its, width, Needed(0, its))
     /\ minWidth' = Minimum(least, its, Needed(0, its))
     /\ UNCHANGED <<width, least, alive, pointerVars, crashed>>

(* gridlayoutUnpack, when a widget is destroyed, leaves the grid as it is. *)
Destroy(v) ==
  /\ Running /\ v \in alive
  /\ alive' = alive \ {v} /\ items' = Dropped(v)
  /\ entered' = entered \ {v}
  /\ UNCHANGED <<cols, colWidths, width, minWidth, least, x, w, told, pointerWidget, crashed>>

(* widget_resize of the layout.                                            *)
Resize(n) ==
  /\ Running /\ width' = n
  /\ Fit(items, n, cols)
  /\ UNCHANGED <<items, cols, minWidth, least, alive, pointerVars, crashed>>

(* A widget asks for another minimum, and for widget_reconfigure.          *)
Reconfigure(v, m) ==
  /\ Running /\ v \in Held /\ least[v] # m
  /\ least' = [least EXCEPT ![v] = m]
  /\ minWidth' = Minimum(least', items, cols)
  /\ UNCHANGED <<items, cols, colWidths, width, x, w, alive, pointerVars, crashed>>

-----------------------------------------------------------------------------
(* Where the pointer is: over the widget v, or over none (Nil).            *)
Over == Held \cup {Nil}
Without(v) == entered \ {v}

PointerEnter(v) ==
  /\ Running /\ ~told /\ v \in Over
  /\ told' = TRUE
  /\ pointerWidget' = IF v = Nil THEN pointerWidget ELSE v
  /\ entered' = entered \cup ({v} \ {Nil})
  /\ UNCHANGED <<items, cols, colWidths, width, minWidth, least, x, w, alive, crashed>>

(* Mutation: the widget left is not forgotten.                             *)
Remembered(v) == IF v = Nil THEN pointerWidget ELSE v
NowIn(v) == v
PointerMotion(v) ==
  /\ Running /\ told /\ v \in Over /\ v # pointerWidget
  /\ crashed' = (pointerWidget \notin alive \cup {Nil})
  /\ pointerWidget' = NowIn(v)
  /\ entered' = Without(pointerWidget) \cup ({v} \ {Nil})
  /\ UNCHANGED <<items, cols, colWidths, width, minWidth, least, x, w, alive, told>>

PointerLeave ==
  /\ Running /\ told /\ told' = FALSE
  /\ crashed' = (pointerWidget \notin alive \cup {Nil})
  /\ pointerWidget' = Nil
  /\ entered' = Without(pointerWidget)
  /\ UNCHANGED <<items, cols, colWidths, width, minWidth, least, x, w, alive>>

Next ==
  \/ \E i \in Item : AddWidget(i)
  \/ \E v \in Widgets : RemoveWidget(v) \/ Destroy(v)
  \/ \E n \in Widths : Resize(n)
  \/ \E v \in Widgets, m \in {Unset, 1} : Reconfigure(v, m)
  \/ \E v \in Over : PointerEnter(v) \/ PointerMotion(v)
  \/ PointerLeave

Spec == Init /\ [][Next]_vars

-----------------------------------------------------------------------------
TypeOK ==
  /\ items \in Seq(Item) /\ cols \in 0 .. 2 * MaxCols /\ width \in Widths \cup {0}
  /\ colWidths \in Seq(Nat)
  /\ x \in [Widgets -> Nat] /\ w \in [Widgets -> Nat]
  /\ pointerWidget \in Widgets \cup {Nil} /\ entered \subseteq Widgets

(* Adding, removing and resizing in any order leave columns that make up   *)
(* the width of the layout to the last pixel, and enough of them for every *)
(* item, so that colWidth never reads behind the array.                    *)
Tiled ==
  /\ Len(colWidths) = cols
  /\ \A i \in DOMAIN items : items[i].col + items[i].span <= cols
  /\ cols > 0 => ColWidth(colWidths, 0, cols) = width

(* The widget that was told to be entered is the one that will be told to  *)
(* be left, also if it is removed meanwhile.                               *)
EnteredOnce == ~crashed => entered = {pointerWidget} \cap alive
=============================================================================
