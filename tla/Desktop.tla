------------------------------ MODULE Desktop ------------------------------
(***************************************************************************)
(* Y/widget/desktop.c, window.c, widget.c, Y/input/pointer.c and the       *)
(* window manager wm/default: which window is selected, which widget has   *)
(* the keyboard, where the pointer is.  The server keeps plain pointers to *)
(* windows and widgets, while clients destroy them at any time.            *)
(*                                                                         *)
(* One action is one message of a client or one event of an input driver.  *)
(* Geometry is left out: a motion or a button of the pointer hits any node *)
(* of the stack, inside its child or not (WindowGeometry has the rest).    *)
(* A use of a destroyed window or widget sets crashed, and nothing follows.*)
(***************************************************************************)
EXTENDS Naturals, Sequences, FiniteSets, SequencesExt

CONSTANTS Windows, Widgets, Nil,
          Root,           \* the widget of the desktop
          ShowsAgain,     \* clients show windows that are shown
          SharesWidgets   \* clients give a window a second child, or a child
                          \* to a second window

VARIABLES
  alive,        \* windows and widgets not destroyed
  stack,        \* self->windows, top first; only an indexed node can be found
  current,      \* currentWindow of the window manager
  child, focus, inChild, dragging, maximised,   \* fields of struct Window
  container,    \* of windows and widgets
  keyFocus,     \* focus in ykb.c
  grabbed,      \* pointerWidget in pointer.c
  under,        \* pointerWidget of the desktop
  crashed

vars == <<alive, stack, current, child, focus, inChild, dragging, maximised,
          container, keyFocus, grabbed, under, crashed>>
windowVars == <<child, focus, inChild, dragging, maximised>>
Node == [win : Windows, indexed : BOOLEAN]

(* Clients have created their objects; none is shown.                      *)
Init ==
  /\ alive = Windows \cup Widgets
  /\ stack = <<>> /\ current = Nil
  /\ child = [w \in Windows |-> Nil] /\ focus = child
  /\ inChild = [w \in Windows |-> FALSE] /\ dragging = inChild /\ maximised = inChild
  /\ container = [o \in Windows \cup Widgets |-> Nil]
  /\ keyFocus = Nil /\ grabbed = Nil /\ under = Nil
  /\ crashed = FALSE

(* A pointer that may be followed.                                         *)
Usable(p) == p = Nil \/ p \in alive
Uses(S) == crashed' = \E p \in S : ~Usable(p)

-----------------------------------------------------------------------------
(* The order of the windows (zorder.c): all but adding goes by the index.  *)
Top(s) == IF s = <<>> THEN Nil ELSE s[1].win
IsNode(n, w) == n.win = w /\ n.indexed
Indexed(s, w) == \E i \in DOMAIN s : IsNode(s[i], w)
PlaceOf(s, w) == CHOOSE i \in DOMAIN s : IsNode(s[i], w)
Removed(s, w) == IF Indexed(s, w) THEN RemoveAt(s, PlaceOf(s, w)) ELSE s
Found(s, w) == IF Indexed(s, w) THEN <<s[PlaceOf(s, w)]>> ELSE <<>>
AddedAtTop(s, w) == <<[win |-> w, indexed |-> ~Indexed(s, w)]>> \o s
MovedToTop(s, w) == Found(s, w) \o Removed(s, w)
MovedToBottom(s, w) == Removed(s, w) \o Found(s, w)

(* defaultSelectWindow, when old is the current window: the keyboard       *)
(* leaves its focus for that of w, and desktopRaiseWindow moves w to the   *)
(* top of s.                                                               *)
(* Mutation: the window is not raised.                                     *)
NotRaised(s, w) == s
Raised(s, w) == IF Top(s) \in {Nil, w} THEN s ELSE MovedToTop(s, w)
Select(old, w, s) ==
  /\ current' = w
  /\ IF w = old THEN stack' = s /\ UNCHANGED keyFocus
     ELSE stack' = Raised(s, w) /\ keyFocus' = focus[w]

Running == ~crashed

(* windowSetChild: the previous child keeps its container, and a previous  *)
(* container of c its child.                                               *)
SetChild(w, c) ==
  /\ Running /\ {w, c} \subseteq alive
  /\ SharesWidgets \/ (child[w] = Nil /\ container[c] = Nil)
  /\ child' = [child EXCEPT ![w] = c]
  /\ container' = [container EXCEPT ![c] = w]
  /\ UNCHANGED <<alive, stack, current, focus, inChild, dragging, maximised, keyFocus, grabbed, under, crashed>>

(* windowSetFocussedWidget.                                                *)
(* Mutation: the keyboard goes to the widget of whatever window.           *)
AnyWindow(w) == TRUE
IsSelected(w) == current = w
SetFocussed(w, c) ==
  /\ Running /\ {w, c} \subseteq alive /\ focus[w] # c
  /\ Uses({focus[w], container[c]})
  /\ focus' = [focus EXCEPT ![w] = c]
  /\ keyFocus' = IF IsSelected(w) THEN c ELSE keyFocus
  /\ UNCHANGED <<alive, stack, current, child, inChild, dragging, maximised, container, grabbed, under>>

(* windowShow: desktopAddWindow, which selects the window.                 *)
Show(w) ==
  /\ Running /\ w \in alive
  /\ ShowsAgain \/ ~Indexed(stack, w)
  /\ Uses({child[w]})
  /\ container' = [container EXCEPT ![w] = Root]
  /\ Select(current, w, AddedAtTop(stack, w))
  /\ UNCHANGED <<alive, windowVars, grabbed, under>>

(* windowDestroy: wmUnregisterWindow selects the window that is now at the *)
(* top, and the child loses its container.                                 *)
(* Mutation: the child keeps it.                                           *)
KeepsContainer(w) == container
WithoutContainer(w) ==
  IF child[w] = Nil THEN container ELSE [container EXCEPT ![child[w]] = Nil]
DestroyWindow(w) ==
  LET left == Removed(stack, w)
      old == IF current = w THEN Nil ELSE current
  IN /\ Running /\ w \in alive
     /\ alive' = alive \ {w}
     /\ crashed' = \/ ~Usable(child[w])
                   \/ Top(left) # Nil /\ Top(left) \notin alive'
     /\ IF left = <<>> THEN stack' = left /\ current' = old /\ UNCHANGED keyFocus
                       ELSE Select(old, Top(left), left)
     /\ under' = IF under = w THEN Nil ELSE under
     /\ container' = WithoutContainer(w)
     /\ UNCHANGED <<windowVars, grabbed>>

(* widgetFinalise of a widget: windowUnpack if it is the window's child.   *)
(* The focus of a window keeps the pointer.                                *)
DestroyWidget(c) ==
  LET w == container[c]
      packed == w # Nil /\ child[w] = c
  IN /\ Running /\ c \in alive
     /\ Uses({w})
     /\ alive' = alive \ {c}
     /\ keyFocus' = IF keyFocus = c THEN Nil ELSE keyFocus
     /\ child' = IF packed THEN [child EXCEPT ![w] = Nil] ELSE child
     /\ container' = IF packed THEN [container EXCEPT ![c] = Nil] ELSE container
     /\ UNCHANGED <<stack, current, focus, inChild, dragging, maximised, grabbed, under>>

(* desktopCycleWindows, from a key bound to an event of the window manager.*)
Cycle(s) ==
  /\ Running /\ stack # <<>>
  /\ Uses({Top(s)})
  /\ Select(current, Top(s), s)
  /\ UNCHANGED <<alive, windowVars, container, grabbed, under>>
CycleForward == stack # <<>> /\ Cycle(MovedToBottom(stack, Top(stack)))
CycleBackward == stack # <<>> /\ Cycle(MovedToTop(stack, Last(stack).win))

(* Any other key is for the focus.                                         *)
Key ==
  /\ Running /\ keyFocus # Nil
  /\ Uses({keyFocus})
  /\ UNCHANGED <<alive, stack, current, windowVars, container, keyFocus, grabbed, under>>

-----------------------------------------------------------------------------
(* What pointerSetPosition and pointerButtonChange hit: the window that    *)
(* holds the pointer, or node i of the stack, once the nodes above it have *)
(* been asked for their rectangles.                                        *)
Asked(i) == {stack[j].win : j \in 1 .. i}

(* windowPointerEnter, then windowPointerMotion: the child is entered and  *)
(* left, unless the window is being dragged.                               *)
Inside(w, enters, in) ==
  IF child[w] = Nil THEN inChild[w]
  ELSE IF dragging[w] THEN inChild[w] \/ enters ELSE in

(* desktopPointerMotion: the window left forgets that the pointer was in   *)
(* its child, if it has one.                                               *)
MotionOver(i, enters, in) ==
  LET w == stack[i].win
      left == IF under \in {Nil, w} THEN {} ELSE {under}
  IN /\ Running /\ grabbed = Nil
     /\ Uses(Asked(i) \cup {child[v] : v \in left \cup {w}})
     /\ under' = w
     /\ inChild' = [v \in Windows |->
                      IF v = w THEN Inside(w, enters /\ under # w, in)
                      ELSE inChild[v] /\ ~(v \in left /\ child[v] # Nil)]
     /\ UNCHANGED <<alive, stack, current, child, focus, dragging, maximised, container, keyFocus, grabbed>>

MotionOverNone ==
  /\ Running /\ grabbed = Nil
  /\ Uses(Asked(Len(stack)))
  /\ inChild' = [v \in Windows |-> inChild[v] /\ ~(v = under /\ child[v] # Nil)]
  /\ under' = Nil
  /\ UNCHANGED <<alive, stack, current, child, focus, dragging, maximised, container, keyFocus, grabbed>>

Drag ==
  /\ Running /\ grabbed # Nil
  /\ Uses({grabbed, child[grabbed]})
  /\ UNCHANGED <<alive, stack, current, windowVars, container, keyFocus, grabbed, under>>

(* windowPointerButton of the window hit: pressing selects it and, by the  *)
(* region of the theme, starts a reshape or changes its size; a release    *)
(* ends the reshape.                                                       *)
ButtonOn(w, used, Does(_)) ==
  /\ Running
  /\ Uses({w} \cup used)
  /\ Does(w)
  /\ UNCHANGED <<alive, child, focus, inChild, container, under>>

PlainPress(w) == Select(current, w, stack) /\ UNCHANGED <<dragging, maximised, grabbed>>
(* windowStartReshape.  Mutation: the pointer is not grabbed.              *)
LeavesPointer(w) == grabbed
GrabsPointer(w) == w
Reshape(w) ==
  /\ Select(current, w, stack) /\ ~maximised[w]
  /\ dragging' = [dragging EXCEPT ![w] = TRUE] /\ grabbed' = GrabsPointer(w)
  /\ UNCHANGED maximised
Maximise(w) ==
  /\ Select(current, w, stack)
  /\ maximised' = [maximised EXCEPT ![w] = ~@] /\ UNCHANGED <<dragging, grabbed>>
Release(w) ==
  /\ dragging' = [dragging EXCEPT ![w] = FALSE] /\ grabbed' = Nil
  /\ UNCHANGED <<stack, current, keyFocus, maximised>>

Button(w, asked) ==
  \/ ButtonOn(w, asked, PlainPress)
  \/ ButtonOn(w, asked \cup {child[w]}, PlainPress)
  \/ ButtonOn(w, asked, Reshape)
  \/ ButtonOn(w, asked \cup {child[w]}, Maximise)
  \/ ButtonOn(w, asked, Release)
ButtonGrabbed == grabbed # Nil /\ Button(grabbed, {})
ButtonOver(i) == grabbed = Nil /\ Button(stack[i].win, Asked(i))

Next ==
  \/ \E w \in Windows : Show(w) \/ DestroyWindow(w)
  \/ \E w \in Windows, c \in Widgets : SetChild(w, c) \/ SetFocussed(w, c)
  \/ \E c \in Widgets : DestroyWidget(c)
  \/ CycleForward \/ CycleBackward \/ Key
  \/ \E i \in DOMAIN stack : ButtonOver(i) \/ \E enters, in \in BOOLEAN : MotionOver(i, enters, in)
  \/ MotionOverNone \/ Drag \/ ButtonGrabbed

Spec == Init /\ [][Next]_vars

-----------------------------------------------------------------------------
TypeOK ==
  /\ alive \subseteq Windows \cup Widgets
  /\ stack \in Seq(Node) /\ current \in Windows \cup {Nil}
  /\ child \in [Windows -> Widgets \cup {Nil}] /\ focus \in [Windows -> Widgets \cup {Nil}]
  /\ {inChild, dragging, maximised} \subseteq [Windows -> BOOLEAN]
  /\ container \in [Windows \cup Widgets -> Windows \cup {Root, Nil}]
  /\ keyFocus \in Widgets \cup {Nil} /\ grabbed \in Windows \cup {Nil}
  /\ under \in Windows \cup {Nil} /\ crashed \in BOOLEAN

(* The window that is selected is the one at the top, and while a window   *)
(* is shown one is selected: through showing, pressing, cycling and the    *)
(* destruction of any window, the manager and the desktop agree.           *)
SelectedOnTop == ~crashed => current = Top(stack)

(* The keyboard is with the focus of the selected window, unless that      *)
(* widget was destroyed.                                                   *)
KeyboardFollows ==
  ~crashed /\ current # Nil =>
    keyFocus = focus[current] \/ (keyFocus = Nil /\ focus[current] \notin alive)

(* Windows and children name each other, the stack and the pointer name    *)
(* windows that exist, and the only window that is dragged holds the       *)
(* pointer.  What a destroyed object leaves behind is the focus of a       *)
(* window and the grab of the pointer, and those only.                     *)
References ==
  ~crashed =>
    /\ \A w \in Windows \cap alive, c \in Widgets : child[w] = c => c \in alive
    /\ \A w \in Windows, c \in Widgets \cap alive :
         container[c] = w <=> (w \in alive /\ child[w] = c)
    /\ \A i \in DOMAIN stack : stack[i].win \in alive
    /\ under # Nil => Indexed(stack, under)
    /\ \A w \in Windows \cap alive : dragging[w] <=> grabbed = w

(* All three: whatever clients, the manager and the mouse do, the window   *)
(* on top, the keyboard and the pointers to windows go together.           *)
FocusFollows == SelectedOnTop /\ KeyboardFollows /\ References
=============================================================================
