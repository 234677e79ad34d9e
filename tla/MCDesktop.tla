------------------------------ MODULE MCDesktop ------------------------------
(***************************************************************************)
(* What the user sees and handles, one part at a time: the stack of        *)
(* windows and the focus, the geometry of a window, the layouts, the       *)
(* buttons, the screen with its viewports, the rendering of a part of it,  *)
(* and the buffers with what draws on them.  The desktop's state has its   *)
(* own names, that of the other parts begins with a letter of theirs; the  *)
(* configuration gives all constants their values.                         *)
(***************************************************************************)
EXTENDS Desktop, Integers

CONSTANTS
  Plain, Toggle, Radio, Groups, ClientSets, SetsAgain, DisablesPressed,   \* Buttons
  BufferWidths, Hint, Begun, Addresses, MaxSaved, StartsLarge,
  ResetsResized, RestoresMore,                                            \* Painting
  Sizes, Mins, Maxs, Outset, Inset, Far,                                  \* WindowGeometry
  Widths, MaxCols, Bits,                                                  \* GridLayout
  RowMins,                                                                \* RowLayout
  Viewports, DisplaySizes, Moves, PointerSize, MaxInvalid, Unloads,       \* Screen
  Width, Spans, Children, Pointers, Background                            \* Rendering

(* Where windows, their children and the pointer are when a part of the    *)
(* screen is rendered: beyond its edges, beside each other and overlapping.*)
Spots == {[x |-> -1, w |-> 3], [x |-> 2, w |-> 1], [x |-> 0, w |-> 4]}
ChildSpots == {[at |-> [x |-> 1, w |-> 2], width |-> 3], [at |-> [x |-> -1, w |-> 2], width |-> 1]}
PointerSpots == {[x |-> 0, w |-> 1], [x |-> 3, w |-> 2]}

(* What the child of a window, the widgets of a row, the display and the   *)
(* pointer may be asked for.                                               *)
SomeMaxs == {-1, 1}
SomeMins == {-1, 1, 2}
SomeDisplays == {<<1, 3>>, <<2, 2>>}
SomeMoves == {<<0, 0>>, <<1, 3>>, <<-1, 1>>}

VARIABLES
  which,   \* the component at work
  g_desk, g_pointer, g_pos, g_size, g_min, g_max, g_mode, g_drag,
  g_maximised, g_stored,
  t_items, t_cols, t_colWidths, t_width, t_minWidth, t_least, t_x, t_w,
  t_alive, t_told, t_pointerWidget, t_entered, t_crashed,
  r_cells, r_width, r_least, r_w, r_alive, r_told, r_pointerWidget,
  r_entered, r_crashed,
  b_pressed, b_state, b_look, b_group, b_members, b_selected, b_grabbed,
  b_down,
  s_registered, s_size, s_invalid, s_updateEvent, s_timers, s_screenSize,
  s_pointer, s_stale,
  n_windows, n_pointer, n_screen, n_visible, n_regions, n_todo,
  a_width, a_held, a_surface, a_resizing, a_painters, a_states, a_saved,
  a_front, a_back, a_painter, a_asked, a_canvas, a_window, a_dragging,
  a_undefined

g_vars == <<
  g_desk, g_pointer, g_pos, g_size, g_min, g_max, g_mode, g_drag,
  g_maximised, g_stored>>
t_vars == <<
  t_items, t_cols, t_colWidths, t_width, t_minWidth, t_least, t_x, t_w,
  t_alive, t_told, t_pointerWidget, t_entered, t_crashed>>
r_vars == <<
  r_cells, r_width, r_least, r_w, r_alive, r_told, r_pointerWidget,
  r_entered, r_crashed>>
b_vars == <<
  b_pressed, b_state, b_look, b_group, b_members, b_selected, b_grabbed,
  b_down>>
s_vars == <<
  s_registered, s_size, s_invalid, s_updateEvent, s_timers, s_screenSize,
  s_pointer, s_stale>>
n_vars == <<
  n_windows, n_pointer, n_screen, n_visible, n_regions, n_todo>>
a_vars == <<
  a_width, a_held, a_surface, a_resizing, a_painters, a_states, a_saved,
  a_front, a_back, a_painter, a_asked, a_canvas, a_window, a_dragging,
  a_undefined>>
mcVars == <<which, vars, g_vars, t_vars, r_vars, b_vars, s_vars, n_vars, a_vars>>

Geometry == INSTANCE WindowGeometry WITH
  desk <- g_desk, pointer <- g_pointer, pos <- g_pos, size <- g_size,
  min <- g_min, max <- g_max, mode <- g_mode, drag <- g_drag,
  maximised <- g_maximised, stored <- g_stored

Grid == INSTANCE GridLayout WITH
  items <- t_items, cols <- t_cols, colWidths <- t_colWidths,
  width <- t_width, minWidth <- t_minWidth, least <- t_least, x <- t_x,
  w <- t_w, alive <- t_alive, told <- t_told,
  pointerWidget <- t_pointerWidget, entered <- t_entered, crashed <- t_crashed

Row == INSTANCE RowLayout WITH
  Mins <- RowMins, cells <- r_cells, width <- r_width, least <- r_least,
  w <- r_w, alive <- r_alive, told <- r_told,
  pointerWidget <- r_pointerWidget, entered <- r_entered, crashed <- r_crashed

Presses == INSTANCE Buttons WITH
  pressed <- b_pressed, state <- b_state, look <- b_look, group <- b_group,
  members <- b_members, selected <- b_selected, grabbed <- b_grabbed,
  down <- b_down

Display == INSTANCE Screen WITH
  Sizes <- DisplaySizes, registered <- s_registered, size <- s_size,
  invalid <- s_invalid, updateEvent <- s_updateEvent, timers <- s_timers,
  screenSize <- s_screenSize, pointer <- s_pointer, stale <- s_stale

Drawing == INSTANCE Rendering WITH
  windows <- n_windows, pointer <- n_pointer, screen <- n_screen,
  visible <- n_visible, regions <- n_regions, todo <- n_todo

Paints == INSTANCE Painting WITH
  Widths <- BufferWidths, width <- a_width, held <- a_held,
  surface <- a_surface, resizing <- a_resizing, painters <- a_painters,
  states <- a_states, saved <- a_saved, front <- a_front, back <- a_back,
  painter <- a_painter, asked <- a_asked, canvas <- a_canvas,
  window <- a_window, dragging <- a_dragging, undefined <- a_undefined

-----------------------------------------------------------------------------
(* What the proofs in DesktopProofs suppose of the constants.  Clients     *)
(* show no window that is shown and give no window or widget away twice;   *)
(* objects are not one another.                                            *)
Disciplined == ~ShowsAgain /\ ~SharesWidgets

Distinct ==
  Windows \cap Widgets = {} /\ Nil \notin Windows \cup Widgets

(* The kinds of buttons differ, and their properties are 0 or 1.           *)
ButtonKinds ==
  /\ Plain \cap Toggle = {} /\ Plain \cap Radio = {} /\ Toggle \cap Radio = {}
  /\ Nil \notin Presses!Buttons /\ Nil \notin Groups
  /\ ClientSets \subseteq {0, 1}

(* Sizes are numbers, and there is a least of the minimums that a child    *)
(* may ask for.                                                            *)
SizesAreNumbers ==
  /\ Sizes \subseteq Nat \ {0} /\ Mins \subseteq Nat /\ Maxs \subseteq Nat \cup {-1}
  /\ Outset \in Int /\ Inset \in Int /\ Far \in Int
  /\ \E m \in Mins : \A n \in Mins : m <= n

GridNumbers == Widths \subseteq Nat /\ MaxCols \in Nat /\ Nil \notin Widgets
RowNumbers == Widths \subseteq Int /\ RowMins \subseteq Int /\ -1 \in RowMins /\ Nil \notin Widgets

SpanSet == [x : Int, w : Nat]
RenderNumbers ==
  /\ Width \in Nat /\ Background \in Nat /\ Nil \notin [x : Int, w : Int]
  /\ Spans \subseteq SpanSet /\ Pointers \subseteq SpanSet
  /\ Children \subseteq [at : SpanSet, width : Nat]

(* No window starts to be dragged with a width over the hint, no canvas is *)
(* reset after a resize, and clients restore only what they saved.         *)
WidthsAreNumbers ==
  /\ BufferWidths \subseteq Nat /\ Hint \in Nat \ {0} /\ Begun \in Nat /\ Nil \notin Nat
Sparing == ~StartsLarge /\ ~ResetsResized /\ ~RestoresMore

(* Viewports are numbered, and a display has a greatest width and height.  *)
ScreenNumbers ==
  /\ Viewports \subseteq Nat /\ DisplaySizes \subseteq (Nat \ {0}) \X (Nat \ {0})
  /\ \E most \in DisplaySizes : \A s \in DisplaySizes : s[1] <= most[1]
  /\ \E most \in DisplaySizes : \A s \in DisplaySizes : s[2] <= most[2]
  /\ Moves \subseteq Int \X Int /\ PointerSize \in Nat /\ MaxInvalid \in Nat

ASSUME Supposed ==
  /\ Disciplined /\ Distinct /\ ButtonKinds /\ SizesAreNumbers
  /\ GridNumbers /\ RowNumbers /\ RenderNumbers /\ WidthsAreNumbers /\ Sparing
  /\ ScreenNumbers /\ ~Unloads /\ ~DisablesPressed

-----------------------------------------------------------------------------
MCInit ==
  /\ which \in {"desktop", "geometry", "grid", "row", "buttons", "screen", "rendering",
                "painting"}
  /\ Init
  /\ Geometry!Init
  /\ Grid!Init
  /\ Row!Init
  /\ Presses!Init
  /\ Display!Init
  /\ Drawing!Init
  /\ Paints!Init
  /\ (which # "geometry" => g_desk = 2)   \* one initial state of what is not at work
  /\ (which # "rendering" => /\ n_pointer.x = 0 /\ n_windows[2].child = Nil
                             /\ \A i \in {1, 2} : n_windows[i].at.x = 0)
  /\ (which # "painting" => a_window = 1 /\ a_painter = 1)

MCNext ==
  /\ UNCHANGED which
  /\ \/ /\ which = "desktop" /\ Next
        /\ UNCHANGED <<g_vars, t_vars, r_vars, b_vars, s_vars, n_vars, a_vars>>
     \/ /\ which = "geometry" /\ Geometry!Next
        /\ UNCHANGED <<vars, t_vars, r_vars, b_vars, s_vars, n_vars, a_vars>>
     \/ /\ which = "grid" /\ Grid!Next
        /\ UNCHANGED <<vars, g_vars, r_vars, b_vars, s_vars, n_vars, a_vars>>
     \/ /\ which = "row" /\ Row!Next
        /\ UNCHANGED <<vars, g_vars, t_vars, b_vars, s_vars, n_vars, a_vars>>
     \/ /\ which = "buttons" /\ Presses!Next
        /\ UNCHANGED <<vars, g_vars, t_vars, r_vars, s_vars, n_vars, a_vars>>
     \/ /\ which = "screen" /\ Display!Next
        /\ UNCHANGED <<vars, g_vars, t_vars, r_vars, b_vars, n_vars, a_vars>>
     \/ /\ which = "rendering" /\ Drawing!Next
        /\ UNCHANGED <<vars, g_vars, t_vars, r_vars, b_vars, s_vars, a_vars>>
     \/ /\ which = "painting" /\ Paints!Next
        /\ UNCHANGED <<vars, g_vars, t_vars, r_vars, b_vars, s_vars, n_vars>>

MCSpec == MCInit /\ [][MCNext]_mcVars

-----------------------------------------------------------------------------
(* Every variable has its type.                                            *)
Typed ==
  CASE which = "desktop" -> TypeOK
    [] which = "geometry" -> Geometry!TypeOK
    [] which = "grid" -> Grid!TypeOK
    [] which = "row" -> Row!TypeOK
    [] which = "buttons" -> Presses!TypeOK
    [] which = "screen" -> Display!TypeOK
    [] which = "rendering" -> Drawing!TypeOK
    [] which = "painting" -> Paints!TypeOK

(* A window has a size that its child can be shown in, whatever the        *)
(* pointer, the screen and the child did (window.c, widget.c), a grid      *)
(* divides its width between its widgets without a gap and without overlap *)
(* (gridlayout.c), and the surface of a buffer is as wide as its buffer    *)
(* while it is dragged over blocks of memory, and within them              *)
(* (imagebuffer.c); what draws on it is alive (buffer.c, painter.c).       *)
SizesFit ==
  /\ which = "geometry" => Geometry!Constrained
  /\ which = "grid" => Grid!Tiled
  /\ which = "painting" => Paints!SurfaceFits /\ Paints!PaintersLive /\ Paints!StatesMatch

(* Whichever widget a layout told that the pointer entered it is told when *)
(* the pointer leaves, although widgets come and go and are moved under    *)
(* it (gridlayout.c, yrowlayout.c); a button holds the pointer exactly     *)
(* while the mouse holds it down, and in a group no radio button is        *)
(* pressed but the selected one (ybutton.c, yradiogroup.c).                *)
PointerFollows ==
  /\ which = "grid" => Grid!EnteredOnce
  /\ which = "row" => Row!RowEnteredOnce
  /\ which = "buttons" => Presses!OnlySelected /\ Presses!HeldWhileDown

(* While an edge of a window is dragged the other stays, and the edge or   *)
(* the title that is dragged stays under the pointer (window.c); and when  *)
(* a row is laid out its cells fill it, in their order (yrowlayout.c), and *)
(* when a part of the screen is rendered nothing beside it changes         *)
(* (renderer.c).                                                           *)
ReshapesRight ==
  /\ Geometry!OtherEdgeStays /\ Geometry!HandleUnderPointer /\ Row!RowTiled
  /\ Drawing!StaysInside

(* What is no longer right on a viewport will be painted by an update that *)
(* is due, the screen is the bounding box of its viewports, and the point  *)
(* that the pointer is moved to is the nearest on them (screen.c,          *)
(* viewport.c, rectangle.c); and when an update is over what it was for    *)
(* shows what is on top there (renderer.c, desktop.c, window.c).           *)
ScreenKept ==
  /\ which = "screen" =>
       Display!StaleIsQueued /\ Display!ScreenCovers /\ Display!NearestFound /\ Display!TimersLive
  /\ which = "rendering" => Drawing!RendersRight
=============================================================================
