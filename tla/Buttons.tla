------------------------------ MODULE Buttons ------------------------------
(***************************************************************************)
(* Y/widget/ybutton.c, ytogglebutton.c (and ycheckbox.c, which only paints *)
(* otherwise), yradiobutton.c and yradiogroup.c: buttons under a pointer,  *)
(* while clients set their properties and move them between groups.        *)
(*                                                                         *)
(* What is pressed is kept twice, as the property pressed and as the state *)
(* of struct YButton; which radio button of a group is selected is kept a  *)
(* third time, in the group.                                               *)
(***************************************************************************)
EXTENDS Naturals, FiniteSets

CONSTANTS Plain, Toggle, Radio, Groups, Nil,
          ClientSets,        \* values clients give to the property pressed
          SetsAgain,         \* also the one that it has
          DisablesPressed    \* clients disable a button that holds the pointer

Buttons == Plain \cup Toggle \cup Radio

VARIABLES
  pressed,    \* the property: 0 or 1
  state,      \* of struct YButton: 0 for NORMAL, 1 for PRESSED
  look,       \* state of struct Widget
  group, members, selected,
  grabbed,    \* pointerWidget in pointer.c
  down        \* the button of the mouse is down

vars == <<pressed, state, look, group, members, selected, grabbed, down>>

Init ==
  /\ pressed = [b \in Buttons |-> 0] /\ state = pressed
  /\ look = [b \in Buttons |-> "normal"]
  /\ group = [b \in Radio |-> Nil]
  /\ members = [g \in Groups |-> {}] /\ selected = [g \in Groups |-> Nil]
  /\ grabbed = Nil /\ down = FALSE

-----------------------------------------------------------------------------
(* Setting the property of a radio button, with its hook.  A button that   *)
(* is pressed unsets the selected one of its group, with the same hook,    *)
(* and takes its place; then its own state is set, from the value read     *)
(* before.  The selected one may be the button itself.                     *)
(* Mutation: the button that was selected stays pressed.                   *)
LeftPressed(g) == {}
Unset(g) == {selected[g]} \ {Nil}
SetRadio(b, v) ==
  LET g == group[b]
      cleared == IF v = 1 /\ g # Nil THEN Unset(g) ELSE {}
  IN /\ pressed' = [c \in Buttons |-> IF c \in cleared THEN 0 ELSE IF c = b THEN v ELSE pressed[c]]
     /\ state' = [c \in Buttons |-> IF c = b THEN v ELSE IF c \in cleared THEN 0 ELSE state[c]]
     /\ selected' = IF v = 1 /\ g # Nil THEN [selected EXCEPT ![g] = b] ELSE selected

SetPressed(b, v) ==
  IF b \in Radio THEN SetRadio(b, v)
  ELSE /\ pressed' = [pressed EXCEPT ![b] = v] /\ state' = [state EXCEPT ![b] = v]
       /\ UNCHANGED selected

ClientSetsPressed(b, v) ==
  /\ SetsAgain \/ v # pressed[b]
  /\ SetPressed(b, v)
  /\ UNCHANGED <<look, group, members, grabbed, down>>

(* The property enabled (widget_enabled_set).                              *)
Enable(b, e) ==
  /\ DisablesPressed \/ grabbed # b
  /\ look' = [look EXCEPT ![b] = IF e THEN "normal" ELSE "disabled"]
  /\ UNCHANGED <<pressed, state, group, members, selected, grabbed, down>>

(* yradiobuttonSetRadioGroup: out of the one group, into the other, which  *)
(* takes a pressed button only if none is selected.                        *)
(* Mutation: the old group keeps it selected.                              *)
KeptBy(b) == selected
RemovedFrom(b) ==
  [g \in Groups |-> IF g = group[b] /\ selected[g] = b THEN Nil ELSE selected[g]]
SetRadioGroup(b, g) ==
  LET left == RemovedFrom(b)
      joins == left[g] = Nil /\ pressed[b] = 1
  IN /\ group' = [group EXCEPT ![b] = g]
     /\ members' = [h \in Groups |-> IF h = g THEN members[h] \cup {b} ELSE members[h] \ {b}]
     /\ selected' = IF joins THEN [left EXCEPT ![g] = b] ELSE left
     /\ IF joins THEN UNCHANGED <<pressed, state>>
        ELSE pressed' = [pressed EXCEPT ![b] = 0] /\ state' = [state EXCEPT ![b] = 0]
     /\ UNCHANGED <<look, grabbed, down>>

-----------------------------------------------------------------------------
(* The mouse is pressed or released over b, or over none (Nil); what holds *)
(* the pointer gets it, wherever it is.  over tells what the widget finds. *)
Target(b) == IF grabbed # Nil THEN grabbed ELSE b
Look(b, l) == look' = [look EXCEPT ![b] = l]
Heeds(b) == b # Nil /\ look[b] # "disabled"

Press(b) ==
  LET t == Target(b)
  IN /\ ~down /\ down' = TRUE
     /\ IF ~Heeds(t) THEN UNCHANGED <<pressed, state, look, selected, grabbed>>
        ELSE /\ Look(t, "pressed")
             /\ grabbed' = IF t \in Plain THEN t ELSE grabbed
             /\ CASE t \in Plain -> SetPressed(t, 1)
                  [] t \in Toggle -> SetPressed(t, 1 - state[t])
                  [] t \in Radio -> IF state[t] = 1 THEN UNCHANGED <<pressed, state, selected>>
                                    ELSE SetPressed(t, 1)
     /\ UNCHANGED <<group, members>>

(* Mutation: the pointer is not released.                                  *)
StaysGrabbed(t) == grabbed
Released(t) == IF t \in Plain THEN Nil ELSE grabbed
Release(b, over) ==
  LET t == Target(b)
  IN /\ down /\ down' = FALSE
     /\ IF ~Heeds(t) THEN UNCHANGED <<pressed, state, look, selected, grabbed>>
        ELSE /\ Look(t, IF over THEN "hover" ELSE "normal")
             /\ grabbed' = Released(t)
             /\ IF t \in Plain THEN SetPressed(t, 0) ELSE UNCHANGED <<pressed, state, selected>>
     /\ UNCHANGED <<group, members>>

Motion(b, over) ==
  LET t == Target(b)
  IN /\ t \in Plain
     /\ IF state[t] = 1 /\ ~over THEN Look(t, "cancelling") /\ UNCHANGED <<state>>
        ELSE /\ look[t] = "cancelling" /\ over
             /\ state' = [state EXCEPT ![t] = 1] /\ UNCHANGED <<look>>
     /\ UNCHANGED <<pressed, group, members, selected, grabbed, down>>

PointerEnter(b) ==
  /\ grabbed = Nil /\ Heeds(b) /\ Look(b, "hover")
  /\ UNCHANGED <<pressed, state, group, members, selected, grabbed, down>>
PointerLeave(b) ==
  /\ grabbed = Nil /\ Heeds(b) /\ Look(b, "normal")
  /\ UNCHANGED <<pressed, state, group, members, selected, grabbed, down>>

Next ==
  \/ \E b \in Buttons, v \in ClientSets : ClientSetsPressed(b, v)
  \/ \E b \in Buttons, e \in BOOLEAN : Enable(b, e)
  \/ \E b \in Radio, g \in Groups : SetRadioGroup(b, g)
  \/ \E b \in Buttons \cup {Nil} : Press(b)
  \/ \E b \in Buttons \cup {Nil}, over \in BOOLEAN : Release(b, over) \/ Motion(b, over)
  \/ \E b \in Buttons : PointerEnter(b) \/ PointerLeave(b)

Spec == Init /\ [][Next]_vars

-----------------------------------------------------------------------------
Looks == {"normal", "hover", "pressed", "cancelling", "disabled"}
TypeOK ==
  /\ pressed \in [Buttons -> {0, 1}] /\ state \in [Buttons -> {0, 1}] /\ look \in [Buttons -> Looks]
  /\ group \in [Radio -> Groups \cup {Nil}]
  /\ members \in [Groups -> SUBSET Radio] /\ selected \in [Groups -> Radio \cup {Nil}]
  /\ grabbed \in Buttons \cup {Nil} /\ down \in BOOLEAN

(* However buttons are pressed, set and moved between groups, a button of  *)
(* a group that is pressed is the one the group has selected, by property  *)
(* and by state, so that there is at most one; groups and buttons agree.   *)
OnlySelected ==
  /\ \A g \in Groups : {b \in members[g] : pressed[b] = 1 \/ state[b] = 1} \subseteq {selected[g]}
  /\ \A g \in Groups : members[g] = {b \in Radio : group[b] = g}
  /\ \A g \in Groups : selected[g] # Nil => group[selected[g]] = g

(* A button holds the pointer only while the mouse is down: the rest of    *)
(* the screen gets its clicks back.                                        *)
HeldWhileDown == grabbed # Nil => down

(* yradiogroup.c:103: "this function should make sure that one-and-only-   *)
(* one radiobutton is currently selected".                                 *)
OneSelected ==
  \A g \in Groups : selected[g] # Nil => {b \in members[g] : pressed[b] = 1} = {selected[g]}
=============================================================================
