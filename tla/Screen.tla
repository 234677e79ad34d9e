------------------------------- MODULE Screen -------------------------------
(***************************************************************************)
(* The screen, its viewports and the pointer on it (Y/screen/screen.c,     *)
(* Y/screen/viewport.c, Y/util/rectangle.c, Y/input/pointer.c and the      *)
(* events of Y/modules/drivers/video/xlib): what is invalidated when       *)
(* something changes, what the update of a viewport paints, and where the  *)
(* pointer may be.                                                         *)
(***************************************************************************)
EXTENDS Integers, Sequences, FiniteSets, SequencesExt, FiniteSetsExt

CONSTANTS
  Viewports,    \* numbers, in the order of the index; a video driver owns each
  Sizes,        \* <<w, h>> that the display may have
  Moves,        \* points that the pointer is asked to move to
  PointerSize,  \* of the square that a pointer's image is in
  MaxInvalid,   \* bound: rectangles that wait for one update
  Unloads       \* may a driver leave while an update of its viewport is due?

Default == <<2, 2>>   \* of screenRectangle before there is a viewport

Rect(x, y, w, h) == [x |-> x, y |-> y, w |-> w, h |-> h]
Square(p) == Rect(p[1], p[2], PointerSize, PointerSize)
Points(r) == (r.x .. r.x + r.w - 1) \X (r.y .. r.y + r.h - 1)
Cover(rects) == UNION {Points(r) : r \in rects}

(* rectangleUnion and rectangleIntersect, of which the second also holds   *)
(* of rectangles that only touch.                                          *)
SmallHull(r, s) == [r EXCEPT !.w = Max({r.w, s.w}), !.h = Max({r.h, s.h})]   \* mutant
Hull(r, s) ==
  LET x0 == Min({r.x, s.x})
      y0 == Min({r.y, s.y})
  IN Rect(x0, y0, Max({r.x + r.w, s.x + s.w}) - x0, Max({r.y + r.h, s.y + s.h}) - y0)
Meet(r, s) ==
  /\ Max({r.x, s.x}) <= Min({r.x + r.w, s.x + s.w})
  /\ Max({r.y, s.y}) <= Min({r.y + r.h, s.y + s.h})

VARIABLES
  registered,   \* the index viewports
  size,         \* of each viewport; every viewport is at <<0, 0>>
  invalid,      \* invalidRectangles of each viewport
  updateEvent,  \* is updateEventID set?
  timers,       \* timers that will call viewportUpdate, for each viewport
  screenSize,   \* of screenRectangle, and of the root widget
  pointer,
  stale         \* ghost: points that a viewport shows as they no longer are

vars == <<registered, size, invalid, updateEvent, timers, screenSize, pointer, stale>>

Extent(v) == Rect(0, 0, size[v][1], size[v][2])

Init ==
  /\ registered = {}
  /\ size = [v \in Viewports |-> <<0, 0>>]
  /\ invalid = [v \in Viewports |-> << >>]
  /\ updateEvent = [v \in Viewports |-> FALSE]
  /\ timers = [v \in Viewports |-> 0]
  /\ screenSize = Default
  /\ pointer = <<0, 0>>
  /\ stale = [v \in Viewports |-> {}]

(* viewportInvalidateRectangle of some rectangles in each of vs, with the  *)
(* change of what is shown, which outdates gone[v].                        *)
Invalidated(vs, rects, gone) ==
  /\ \A v \in vs : Len(invalid[v]) + Len(rects) <= MaxInvalid
  /\ invalid' = [v \in Viewports |-> IF v \in vs THEN invalid[v] \o rects ELSE invalid[v]]
  /\ timers' = [v \in Viewports |->
                  IF v \in vs /\ ~updateEvent[v] THEN timers[v] + 1 ELSE timers[v]]
  /\ updateEvent' = [v \in Viewports |-> v \in vs \/ updateEvent[v]]
  /\ stale' = [v \in Viewports |-> IF v \in registered' THEN (stale[v] \union gone[v]) \intersect
                                     Points(Rect(0, 0, size'[v][1], size'[v][2]))
                                   ELSE {}]

(* screenViewportsChanged: the bounding box of what is registered.         *)
FirstOnly(vs, sizes) == IF vs = {} THEN screenSize ELSE sizes[Min(vs)]   \* mutant
Bounds(vs, sizes) ==
  IF vs = {} THEN screenSize
  ELSE <<Max({sizes[v][1] : v \in vs}), Max({sizes[v][2] : v \in vs})>>

(* viewportCreate and screenRegisterViewport, by a driver's initialise.    *)
Register(v) ==
  /\ v \notin registered /\ timers[v] = 0
  /\ \E s \in Sizes :
       /\ registered' = registered \union {v}
       /\ size' = [size EXCEPT ![v] = s]
       /\ screenSize' = Bounds(registered', size')
       /\ Invalidated(registered', <<Rect(0, 0, s[1], s[2])>>,
                      [u \in Viewports |-> IF u = v THEN Points(Rect(0, 0, s[1], s[2])) ELSE {}])
  /\ UNCHANGED pointer

(* viewportSetSize, of an event ConfigureNotify: the driver has a new      *)
(* pixmap, on which nothing is painted.                                    *)
SetSize(v) ==
  /\ v \in registered
  /\ \E s \in Sizes \ {size[v]} :
       /\ size' = [size EXCEPT ![v] = s]
       /\ screenSize' = Bounds(registered, size')
       /\ registered' = registered
       /\ Invalidated({v}, <<Rect(0, 0, s[1], s[2])>>,
                      [u \in Viewports |-> IF u = v THEN Points(Rect(0, 0, s[1], s[2])) ELSE {}])
  /\ UNCHANGED pointer

(* widget_rerender: a widget changes, in a rectangle that its containers   *)
(* have moved to the screen's coordinates.                                 *)
Rerender ==
  /\ UNCHANGED <<registered, size, screenSize, pointer>>
  /\ \E p \in {<<0, 0>>, <<1, 1>>}, w \in {1, 2} :
       LET r == Rect(p[1], p[2], w, 1)
       IN Invalidated(registered, <<r>>, [v \in Viewports |-> Points(r)])

Distance(p, q) == (p[1] - q[1]) * (p[1] - q[1]) + (p[2] - q[2]) * (p[2] - q[2])
Within(n, low, high) == IF n < low THEN low ELSE IF n > high THEN high ELSE n

(* screenConstrainPoint: the first viewport with the least distance.       *)
Candidate(v, p) == <<Within(p[1], 0, size[v][1] - 1), Within(p[2], 0, size[v][2] - 1)>>
Further(v, u, p) == Distance(Candidate(v, p), p) > Distance(Candidate(u, p), p)   \* mutant
Closer(v, u, p) == Distance(Candidate(v, p), p) < Distance(Candidate(u, p), p)
ConstrainPoint(p) ==
  IF registered = {} THEN p
  ELSE LET best == {v \in registered : \A u \in registered : ~Closer(u, v, p)}
       IN Candidate(Min(best), p)

(* pointerSetPosition.  The widgets that it tells are in Desktop.          *)
NewOnly(p, q) == <<Square(q), Square(q)>>   \* mutant
Outdated(p, q) == <<Square(p), Square(q)>>
SetPosition ==
  /\ UNCHANGED <<registered, size, screenSize>>
  /\ \E p \in Moves :
       LET q == ConstrainPoint(p)
       IN /\ q # pointer
          /\ pointer' = q
          /\ Invalidated(registered, Outdated(pointer, q),
                         [v \in Viewports |-> Points(Square(pointer)) \union Points(Square(q))])

(* rectanglelistUnionOverlaps: each rectangle takes in those behind it     *)
(* that meet what it has become.                                           *)
TakeIn(r, rest) ==
  LET after[i \in 0 .. Len(rest)] ==
        IF i = 0 THEN [r |-> r, rest |-> <<>>]
        ELSE LET acc == after[i - 1]
             IN IF Meet(acc.r, rest[i]) THEN [acc EXCEPT !.r = Hull(acc.r, rest[i])]
                ELSE [acc EXCEPT !.rest = Append(acc.rest, rest[i])]
  IN after[Len(rest)]
UnionOverlaps(rects) ==
  LET after[i \in 0 .. Len(rects)] ==
        IF i = 0 THEN rects
        ELSE LET l == after[i - 1]
             IN IF i > Len(l) THEN l
                ELSE LET t == TakeIn(l[i], SubSeq(l, i + 1, Len(l)))
                     IN SubSeq(l, 1, i - 1) \o <<t.r>> \o t.rest
  IN after[Len(rects)]

(* viewportUpdate, when a timer is due.  With nothing to do it returns     *)
(* before it forgets the timer.                                            *)
Painted(v) == Cover(Range(UnionOverlaps(invalid[v]))) \intersect Points(Extent(v))
Update(v) ==
  /\ timers[v] > 0 /\ v \in registered
  /\ timers' = [timers EXCEPT ![v] = @ - 1]
  /\ IF invalid[v] = << >>
     THEN UNCHANGED <<invalid, updateEvent, stale>>
     ELSE /\ stale' = [stale EXCEPT ![v] = @ \ Painted(v)]
          /\ invalid' = [invalid EXCEPT ![v] = << >>]
          /\ updateEvent' = [updateEvent EXCEPT ![v] = FALSE]
  /\ UNCHANGED <<registered, size, screenSize, pointer>>

(* screenUnregisterViewport and viewportDestroy, by a driver's finalise.   *)
(* The timer stays.                                                        *)
Unregister(v) ==
  /\ v \in registered
  /\ Unloads \/ timers[v] = 0
  /\ registered' = registered \ {v}
  /\ screenSize' = Bounds(registered', size)
  /\ invalid' = [invalid EXCEPT ![v] = << >>]
  /\ updateEvent' = [updateEvent EXCEPT ![v] = FALSE]
  /\ stale' = [stale EXCEPT ![v] = {}]
  /\ UNCHANGED <<size, timers, pointer>>

Next ==
  \/ \E v \in Viewports : Register(v) \/ SetSize(v) \/ Update(v) \/ Unregister(v)
  \/ Rerender
  \/ SetPosition

Spec == Init /\ [][Next]_vars

-----------------------------------------------------------------------------
TypeOK ==
  /\ registered \subseteq Viewports
  /\ \A v \in Viewports : Len(invalid[v]) <= MaxInvalid
  /\ updateEvent \in [Viewports -> BOOLEAN] /\ timers \in [Viewports -> Nat]
  /\ \A v \in registered : size[v] \in Sizes
  /\ screenSize \in Nat \X Nat /\ pointer \in Int \X Int

(* What a viewport shows as it no longer is lies in a rectangle that its   *)
(* next update paints, and that update is due: the rectangles that         *)
(* rectanglelistUnionOverlaps replaces are still covered.                  *)
StaleIsQueued == \A v \in registered :
  /\ stale[v] \subseteq Painted(v)
  /\ (invalid[v] # << >>) = updateEvent[v]
  /\ updateEvent[v] => timers[v] > 0

(* The screen, and with it the root widget, is the bounding box of the     *)
(* viewports, whichever of them are added, removed or resized: it holds    *)
(* all their points, and nothing smaller does.                             *)
On == UNION {Points(Extent(v)) : v \in registered}
ScreenCovers == registered # {} =>
  /\ On \subseteq Points(Rect(0, 0, screenSize[1], screenSize[2]))
  /\ \A w \in 0 .. screenSize[1], h \in 0 .. screenSize[2] :
       On \subseteq Points(Rect(0, 0, w, h)) => screenSize = <<w, h>>

(* "the point is moved the minimum distance possible" (screen.c): the      *)
(* pointer is moved onto a viewport, and no point of any is nearer.        *)
NearestFound == registered # {} => \A p \in Moves :
  LET q == ConstrainPoint(p)
  IN q \in On /\ \A r \in On : Distance(p, q) <= Distance(p, r)

(* No timer is left for a viewport that its driver has destroyed.          *)
TimersLive == \A v \in Viewports \ registered : timers[v] = 0
=============================================================================
