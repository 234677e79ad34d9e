------------------------------ MODULE Painting ------------------------------
(***************************************************************************)
(* Buffers of pixels and the painters that draw on them: Y/buffer/buffer.c,*)
(* painter.c and imagebuffer.c (the buffers of the video drivers keep      *)
(* pixmaps the same way), for their two users: a window, which resizes its *)
(* buffer while the user drags an edge (Y/widget/window.c), and a canvas,  *)
(* which lets a client draw on one buffer while another is shown           *)
(* (Y/widget/canvas.c).                                                    *)
(* Only widths are kept: the code does with heights what it does with them.*)
(***************************************************************************)
EXTENDS Integers, Sequences, FiniteSets

CONSTANTS
  Widths,         \* of widgets
  Hint,           \* the width that windowStartReshape hints at, 800
  Begun,          \* the width of a new canvas, 64
  Addresses,      \* of painters
  Nil,
  MaxSaved,       \* bound: states that a client saves
  StartsLarge,    \* whether windows of the width of the hint or more are dragged
  ResetsResized,  \* whether clients reset a canvas that was resized
  RestoresMore    \* whether clients restore more states than they saved

Buffers == {"window", "one", "other"}

VARIABLES
  width,       \* of each buffer
  held,        \* the pixels that its memory has in a row
  surface,     \* the width of its cairo surface
  resizing,    \* buf->resizing, with blocks of the hint
  painters,    \* self->painters of each buffer
  states,      \* of each painter: its saved states, the last first
  saved,       \* how often its cairo context is saved, or Nil once it failed
  front, back, painter, asked,   \* of the canvas; asked is its resizing
  canvas, window,                \* the widths of the two widgets
  dragging,
  undefined    \* a destroyed painter was used

bufferVars == <<width, held, surface, resizing>>
canvasVars == <<front, back, painter, asked, canvas>>
painterVars == <<painters, states, saved, undefined>>
vars == <<bufferVars, canvasVars, painterVars, window, dragging>>

Live == DOMAIN states

(* The parts that clip and originate are in the state; what a client of a  *)
(* canvas can change is how many there are.                                *)
Init ==
  /\ canvas = Begun /\ window \in Widths
  /\ width = [b \in Buffers |-> IF b = "window" THEN window ELSE Begun]
  /\ held = width /\ surface = width /\ resizing = [b \in Buffers |-> FALSE]
  /\ front = "one" /\ back = "other" /\ asked = FALSE
  /\ painter \in Addresses
  /\ painters = [b \in Buffers |-> IF b = "other" THEN {painter} ELSE {}]
  /\ states = [p \in {painter} |-> 1] /\ saved = [p \in {painter} |-> 0]
  /\ dragging = FALSE /\ undefined = FALSE

-----------------------------------------------------------------------------
(* painter_destroy of some; one that was destroyed is freed twice.         *)
Without(f, gone) == [p \in DOMAIN f \ gone |-> f[p]]
Destroyed(gone) ==
  [painters |-> [b \in Buffers |-> painters[b] \ gone], live |-> Live \ gone,
   bad |-> ~(gone \subseteq Live)]

(* buffer_get_painter, when some have been destroyed: a context without    *)
(* saved states, clipped to the buffer.                                    *)
NewPainter(gone, b) ==
  \E p \in Addresses \ (Live \ gone) :
    /\ painter' = p
    /\ painters' = [Destroyed(gone).painters EXCEPT ![b] = @ \cup {p}]
    /\ states' = [q \in Destroyed(gone).live \cup {p} |-> IF q = p THEN 1 ELSE states[q]]
    /\ saved' = [q \in Destroyed(gone).live \cup {p} |-> IF q = p THEN 0 ELSE saved[q]]

(* buffer_destroy_all_painters.                                            *)
DestroyPainters(b) ==
  LET gone == painters[b]
  IN /\ painters' = Destroyed(gone).painters
     /\ states' = Without(states, gone) /\ saved' = Without(saved, gone)
     /\ UNCHANGED undefined

(* image_buffer_set_size: while it is resized the memory has whole blocks, *)
(* one more than fit into the width, and is kept as long as their number   *)
(* is; else it has the width.                                              *)
Blocks(w) == 1 + w \div Hint
(* Mutation: the number of blocks is rounded down.                         *)
FewerBlocks(b, w) == IF resizing[b] /\ (w \div Hint) = (width[b] \div Hint) THEN held[b]
                     ELSE IF resizing[b] THEN (w \div Hint) * Hint ELSE w
Memory(b, w) ==
  IF ~resizing[b] THEN w
  ELSE IF Blocks(w) = Blocks(width[b]) THEN held[b] ELSE Blocks(w) * Hint
SetSize(b, w) ==
  /\ held' = [held EXCEPT ![b] = IF w = width[b] THEN @ ELSE Memory(b, w)]
  /\ surface' = [surface EXCEPT ![b] = IF w = width[b] THEN @ ELSE w]
  /\ width' = [width EXCEPT ![b] = w]
  /\ UNCHANGED resizing

(* image_buffer_reallocate, to the hint or to the width.                   *)
Reallocate(b, w, begin) ==
  /\ held' = [held EXCEPT ![b] = w] /\ surface' = [surface EXCEPT ![b] = w]
  /\ resizing' = [resizing EXCEPT ![b] = begin]
  /\ UNCHANGED width
  /\ DestroyPainters(b)

-----------------------------------------------------------------------------
(* windowStartReshape and windowStopReshape.                               *)
StartReshape ==
  /\ ~undefined /\ ~dragging /\ dragging' = TRUE
  /\ StartsLarge \/ window < Hint
  /\ Reallocate("window", Hint, TRUE)
  /\ UNCHANGED <<canvasVars, window>>

StopReshape ==
  /\ ~undefined /\ dragging /\ dragging' = FALSE
  /\ Reallocate("window", width["window"], FALSE)
  /\ UNCHANGED <<canvasVars, window>>

(* windowResize, of a drag or of the client; the canvas of another window  *)
(* is resized too: canvasResize tells its client until it resets.                    *)
windowResize(w) ==
  /\ ~undefined /\ window' = w /\ SetSize("window", w)
  /\ IF w = window THEN UNCHANGED painterVars ELSE DestroyPainters("window")
  /\ UNCHANGED <<canvasVars, dragging>>

canvasResize(w) ==
  /\ ~undefined /\ canvas' = w /\ asked' = TRUE
  /\ UNCHANGED <<bufferVars, painterVars, front, back, painter, window, dragging>>

(* canvasReset: the back takes the size, which destroys its painters if it *)
(* changes, and then the painter is destroyed.                             *)
canvasReset ==
  /\ ~undefined /\ (ResetsResized \/ canvas = width[back])
  /\ asked' = FALSE
  /\ SetSize(back, canvas)
  /\ undefined' = (canvas # width[back] \/ Destroyed({painter}).bad)
  /\ NewPainter({painter}, back)
  /\ UNCHANGED <<front, back, canvas, window, dragging>>

(* canvasSwapBuffers: a painter draws on the back only.                    *)
(* Mutation: that of the buffer that is shown from now stays.              *)
NotDestroyed == {}
OldPainter == {painter}
canvasSwapBuffers ==
  /\ ~undefined /\ front' = back /\ back' = front
  /\ undefined' = Destroyed(OldPainter).bad
  /\ NewPainter(OldPainter, front)
  /\ UNCHANGED <<bufferVars, asked, canvas, window, dragging>>

(* painter_save_state and painter_restore_state: cairo is told to restore  *)
(* even if there is no state to go back to, and then draws no more.        *)
SaveState ==
  /\ ~undefined /\ states[painter] < MaxSaved
  /\ states' = [states EXCEPT ![painter] = @ + 1]
  /\ saved' = [saved EXCEPT ![painter] = IF @ = Nil THEN Nil ELSE @ + 1]
  /\ UNCHANGED <<bufferVars, canvasVars, painters, undefined, window, dragging>>

RestoreState ==
  /\ ~undefined /\ (RestoresMore \/ states[painter] > 1)
  /\ states' = [states EXCEPT ![painter] = IF @ > 1 THEN @ - 1 ELSE @]
  /\ saved' = [saved EXCEPT ![painter] = IF @ \in {0, Nil} THEN Nil ELSE @ - 1]
  /\ UNCHANGED <<bufferVars, canvasVars, painters, undefined, window, dragging>>

Next ==
  \/ StartReshape \/ StopReshape \/ canvasReset \/ canvasSwapBuffers
  \/ SaveState \/ RestoreState
  \/ \E w \in Widths : windowResize(w) \/ canvasResize(w)

Spec == Init /\ [][Next]_vars

-----------------------------------------------------------------------------
TypeOK ==
  /\ Live \subseteq Addresses /\ DOMAIN saved = Live
  /\ \A b \in Buffers : painters[b] \subseteq Addresses /\ held[b] \in Nat
  /\ {front, back} = {"one", "other"}

(* A surface is as wide as its buffer, or wider, and no wider than its     *)
(* memory, at every moment of a drag; after it, exactly as wide.           *)
SurfaceFits ==
  \A b \in Buffers :
    /\ width[b] <= surface[b] /\ surface[b] <= held[b]
    /\ ~resizing[b] => held[b] = width[b]

(* The painters that live are those of the lists of the buffers, each in   *)
(* one; that of the canvas is one of them, and draws on what is not shown. *)
PaintersLive ==
  /\ ~undefined /\ Live = UNION {painters[b] : b \in Buffers}
  /\ \A b, c \in Buffers : b # c => painters[b] \cap painters[c] = {}
  /\ painters[back] = {painter} /\ painters[front] = {}

(* The states of a painter and of cairo go together.                       *)
StatesMatch == \A p \in Live : saved[p] = states[p] - 1
=============================================================================
