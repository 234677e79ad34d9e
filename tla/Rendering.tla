------------------------------ MODULE Rendering ------------------------------
(***************************************************************************)
(* How an invalid part of a viewport is rendered: viewportUpdate makes a   *)
(* renderer that is clipped to it (Y/screen/viewport.c, cairorenderer.c),  *)
(* and screenRender sends it through the desktop, its windows from the     *)
(* bottom up, their children, and the pointer (screen.c, desktop.c,        *)
(* window.c, pointer.c).  Y/screen/renderer.c keeps a stack of regions,    *)
(* each with what is visible of it and where its origin is.                *)
(* There is one axis: the code does with y what it does with x.  Buffers   *)
(* are opaque, and a point of the screen shows a point of one of them.     *)
(***************************************************************************)
EXTENDS Integers, Sequences

CONSTANTS
  Width,         \* of the screen and of the desktop, which begin at 0
  Spans,         \* where windows may be
  Children,      \* where the child of a window may be, and how wide its buffer
  Pointers,      \* where the pointer may be
  Background,    \* the width of the background image
  Nil

Span(x, w) == [x |-> x, w |-> w]
Points(s) == s.x .. s.x + s.w - 1
Larger(a, b) == IF a > b THEN a ELSE b
Smaller(a, b) == IF a < b THEN a ELSE b

VARIABLES
  windows,     \* from the bottom: where each is, and its child or Nil
  pointer,     \* where the pointer is
  screen,      \* what each point shows: whose buffer, and its point
  visible,     \* the part that is updated, Nil between updates
  regions,     \* self->regions, the last entered first
  todo         \* what is left of the walk over the widgets

vars == <<windows, pointer, screen, visible, regions, todo>>

Init ==
  /\ \E a, b \in Spans, c \in Children \cup {Nil} :
       windows = <<[at |-> a, child |-> Nil], [at |-> b, child |-> c]>>
  /\ pointer \in Pointers
  /\ screen = [p \in 0 .. Width - 1 |-> <<"nothing", 0, 0>>]
  /\ visible = Nil /\ regions = <<>> /\ todo = <<>>

-----------------------------------------------------------------------------
(* rectangleIntersect: of spans apart the result is the gap, and no.       *)
Intersect(s, t) ==
  LET x == Larger(s.x, t.x)
      end == Smaller(s.x + s.w, t.x + t.w)
  IN [meet |-> end >= x, span |-> Span(x, IF end > x THEN end - x ELSE x - end)]

(* renderer_enter: the region in the coordinates of the screen, cut to the *)
(* one around it.                                                          *)
(* Mutation: it is not cut.                                                *)
Uncut(s, dx) == LET out == Head(regions)
                IN [meet |-> Intersect(Span(s.x + out.dx, s.w), out.clip).meet,
                    region |-> [clip |-> Span(s.x + out.dx, s.w), dx |-> out.dx + dx]]
Entered(s, dx) ==
  LET out == Head(regions)
      cut == Intersect(Span(s.x + out.dx, s.w), out.clip)
  IN [meet |-> cut.meet, region |-> [clip |-> cut.span, dx |-> out.dx + dx]]

(* The calls of a renderer.                                                *)
Enter(s, dx) == [op |-> "enter", span |-> s, dx |-> dx]
Leave == [op |-> "leave"]
Buffer(of, n, x, w) == [op |-> "buffer", of |-> <<of, n>>, span |-> Span(x, w)]
Filled(of, s) == [op |-> "fill", of |-> <<of, 0>>, span |-> s]

(* windowRender, with the child's render.                                  *)
WindowRender(i) ==
  LET w == windows[i]
  IN <<Enter(w.at, w.at.x), Buffer("window", i, 0, w.at.w)>>
       \o (IF w.child = Nil THEN <<>>
           ELSE <<Enter(w.child.at, w.child.at.x), Buffer("child", i, 0, w.child.width), Leave>>)
       \o <<Leave>>

(* desktopRender: the background, and the windows from the bottom.         *)
DesktopRender ==
  <<Filled("desktop", Span(0, Width)), Buffer("background", 0, 0, Background)>>
    \o WindowRender(1) \o WindowRender(2)

(* pointerRender enters, draws where the pointer is, and does not leave.   *)
PointerRender == <<Enter(pointer, 0), Buffer("pointer", 0, pointer.x, pointer.w)>>
ScreenRender == <<Enter(Span(0, Width), 0)>> \o DesktopRender \o <<Leave>> \o PointerRender

(* viewportUpdate, for a rectangle: getRenderer enters it first.           *)
Update(s) ==
  /\ visible = Nil
  /\ LET cut == Intersect(s, Span(0, Width))
     IN cut.meet /\ visible' = cut.span /\ regions' = <<[clip |-> cut.span, dx |-> 0]>>
  /\ todo' = ScreenRender
  /\ UNCHANGED <<windows, pointer, screen>>

(* How deep the calls go, and a caller to which renderer_enter says 0 goes *)
(* on after its leave.                                                     *)
Change(call) == CASE call.op = "enter" -> 1 [] call.op = "leave" -> -1 [] OTHER -> 0
Depths(calls) ==
  LET depth[n \in 0 .. Len(calls)] == IF n = 0 THEN 0 ELSE depth[n - 1] + Change(calls[n])
  IN depth
PastLeave(calls) ==
  LET ends == {n \in 1 .. Len(calls) : Depths(calls)[n] = 0}
      end == IF ends = {} THEN Len(calls) ELSE CHOOSE n \in ends : \A m \in ends : n <= m
  IN SubSeq(calls, end + 1, Len(calls))

Call(op) == todo # <<>> /\ Head(todo).op = op

renderer_enter ==
  /\ Call("enter")
  /\ LET in == Entered(Head(todo).span, Head(todo).dx)
     IN IF in.meet THEN regions' = <<in.region>> \o regions /\ todo' = Tail(todo)
        ELSE UNCHANGED regions /\ todo' = PastLeave(todo)
  /\ UNCHANGED <<windows, pointer, screen, visible>>

renderer_leave ==
  /\ Call("leave") /\ todo' = Tail(todo)
  /\ regions' = IF regions = <<>> THEN <<>> ELSE Tail(regions)
  /\ UNCHANGED <<windows, pointer, screen, visible>>

(* What the driver gets is where the buffer begins, where the part of it   *)
(* that is drawn begins, and how much that is.                             *)
Shown(of, at, part) ==
  screen' = [p \in DOMAIN screen |-> IF p \in Points(part) THEN Append(of, p - at) ELSE screen[p]]

renderer_render_buffer ==
  /\ Call("buffer") /\ todo' = Tail(todo)
  /\ LET b == Head(todo)  region == Head(regions)
         at == b.span.x + region.dx
         cut == Intersect(Span(at, b.span.w), region.clip)
     IN IF cut.meet THEN Shown(b.of, at, cut.span) ELSE UNCHANGED screen
  /\ UNCHANGED <<windows, pointer, visible, regions>>

(* The answer of rectangleIntersect is not looked at.                      *)
renderer_draw_filled_rectangle ==
  /\ Call("fill") /\ todo' = Tail(todo)
  /\ LET s == Head(todo).span  region == Head(regions)
     IN Shown(Head(todo).of, 0, Intersect(Span(s.x + region.dx, s.w), region.clip).span)
  /\ UNCHANGED <<windows, pointer, visible, regions>>

(* renderer_destroy.                                                       *)
Complete ==
  /\ visible # Nil /\ todo = <<>>
  /\ visible' = Nil /\ regions' = <<>>
  /\ UNCHANGED <<windows, pointer, screen, todo>>

Next ==
  \/ \E x \in -1 .. Width, w \in 1 .. Width : Update(Span(x, w))
  \/ renderer_enter \/ renderer_leave \/ renderer_render_buffer
  \/ renderer_draw_filled_rectangle \/ Complete

Spec == Init /\ [][Next]_vars

-----------------------------------------------------------------------------
TypeOK ==
  /\ DOMAIN screen = 0 .. Width - 1
  /\ \A i \in 1 .. Len(regions) : regions[i].dx \in Int
  /\ visible = Nil => regions = <<>> /\ todo = <<>>

(* What is on top at a point: the pointer, then the windows from the top,  *)
(* a child where its window and its own place and buffer reach, and the    *)
(* background before the colour of the desktop.                            *)
OnTop(p) ==
  LET there == {i \in 1 .. Len(windows) : p \in Points(windows[i].at)}
      top == CHOOSE i \in there : \A j \in there : j <= i
      w == windows[top]
      in == p - w.at.x
      inChild == in - w.child.at.x
  IN IF p \in Points(pointer) THEN <<"pointer", 0, p - pointer.x>>
     ELSE IF there = {} THEN IF p < Background THEN <<"background", 0, p>> ELSE <<"desktop", 0, p>>
     ELSE IF w.child = Nil THEN <<"window", top, in>>
     ELSE IF in \in Points(w.child.at) /\ inChild < w.child.width THEN <<"child", top, inChild>>
     ELSE <<"window", top, in>>

(* When an update is over, what it was for shows what is on top, however   *)
(* windows lie outside of each other, of the screen and of the part.       *)
RendersRight ==
  visible # Nil /\ todo = <<>> => \A p \in Points(visible) : screen[p] = OnTop(p)

(* And nothing else was touched on the way.                                *)
StaysInside ==
  [][\A p \in DOMAIN screen : screen'[p] # screen[p] => p \in Points(visible)]_vars
=============================================================================
