------------------------------ MODULE Keyboard ------------------------------
(***************************************************************************)
(* Y/input/ykbmap.c and ykb.c: the keymaps and options that are selected   *)
(* are compiled to an automaton, which the strokes of keys drive.  Its     *)
(* edges set modifiers, send strings and events, and select other keymaps  *)
(* and options, after which it is destroyed and compiled anew.             *)
(*                                                                         *)
(* Modifiers are sets of bits, so that | is \cup and & is \cap.  A keymap  *)
(* lists, in the order of their names, its modifiers and keycodes, and its *)
(* sequences.  A modifier list is a set of bits and of names, written      *)
(* [bit |-> ...] or [name |-> ...] in the file, here given apart.          *)
(***************************************************************************)
EXTENDS Integers, Sequences, FiniteSets, SequencesExt, TLC

CONSTANTS Bits,
          Source,       \* what ykmLoad gave: keymaps and options by name, and
                        \* the names of the options in their order
          Layouts,      \* what keymap:layout may be in the configuration
          Keycodes,     \* that the driver sends
          Widgets, Nil

VARIABLES
  active,     \* keymaps and options selected, in order of application
  inhibit, pending,
  map,        \* the automaton
  state, saved,          \* nodes of it, Null, or Stale
  modifiers, sticky,
  focus,
  used        \* a node that was destroyed has been used

vars == <<active, inhibit, pending, map, state, saved, modifiers, sticky, focus, used>>
Null == 0      \* no node
Stale == -1    \* a node that was destroyed
NoMap == [start |-> Null]
NoMask == Bits

-----------------------------------------------------------------------------
(* ykbmapResolveModifier: the union of the values, once all are known.     *)
Resolvable(m, list) == list.names \subseteq DOMAIN m.mods
Resolved(m, list) == list.bits \cup UNION {m.mods[n] : n \in list.names}

(* The passes over what is not resolved yet, until one resolves nothing    *)
(* (ykbmapInsertModifiers, ykbmapInsertKeycodes): a definition that is     *)
(* resolved can be used by the next one in the same pass.                  *)
(* Mutation: one pass only.                                                *)
OnePass(n) == IF n = 0 THEN 0 ELSE 1
PassesFor(n) == n
Settled(m, defs, Ready(_, _), Insert(_, _)) ==
  LET visit(acc, d) ==
        IF Ready(acc.m, d) THEN [acc EXCEPT !.m = Insert(acc.m, d)]
        ELSE [acc EXCEPT !.left = Append(@, d)]
      pass[i \in 0 .. Len(defs)] ==
        IF i = 0 THEN [m |-> m, left |-> defs]
        ELSE FoldLeft(visit, [m |-> pass[i - 1].m, left |-> <<>>], pass[i - 1].left)
  IN pass[PassesFor(Len(defs))].m

WithModifier(m, d) == [m EXCEPT !.mods = (d.name :> Resolved(m, d.value)) @@ @]
InsertModifiers(m, k) ==
  LET explicit == SelectSeq(k.modifiers, LAMBDA d : d.value.names = {})
      ready(mm, d) == Resolvable(mm, d.value)
  IN Settled(FoldLeft(WithModifier, m, explicit),
             SelectSeq(k.modifiers, LAMBDA d : d.value.names # {}), ready, WithModifier)

Keycode(value, mods, mask) == [value |-> value, mods |-> mods, mask |-> mask]
WithKeycode(m, d) == [m EXCEPT !.codes = (d.name :> Keycode(d.value, {}, NoMask)) @@ @]
WithAlias(m, d) ==
  [m EXCEPT !.codes =
     (d.name :> Keycode(m.codes[d.alias].value, Resolved(m, d.mods), Resolved(m, d.mask))) @@ @]
InsertKeycodes(m, k) ==
  LET ready(mm, d) == d.alias \in DOMAIN mm.codes /\ Resolvable(mm, d.mods) /\ Resolvable(mm, d.mask)
  IN Settled(FoldLeft(WithKeycode, m, SelectSeq(k.keycodes, LAMBDA d : d.alias = "")),
             SelectSeq(k.keycodes, LAMBDA d : d.alias # ""), ready, WithAlias)

-----------------------------------------------------------------------------
(* The automaton.  An edge is named by its node, stroke, modifiers and     *)
(* mask; one whose mask is all bits is exact, and the others of a node and *)
(* a stroke are tried in the order in which they were added.               *)
EdgeName(node, down, code, mods, mask) ==
  [node |-> node, down |-> down, code |-> code, mods |-> mods, mask |-> mask]
NoEdge == EdgeName(0, TRUE, 0, {}, {})

(* ykbMapLookup.                                                           *)
(* Mutation: the edges with masks are tried first.                         *)
MasksFirst(exact, masked) == IF masked # <<>> THEN masked[1] ELSE exact
ExactFirst(exact, masked) == IF exact # NoEdge THEN exact
                             ELSE IF masked # <<>> THEN masked[1] ELSE NoEdge
Lookup(m, node, down, code, mods) ==
  LET e == EdgeName(node, down, code, mods, NoMask)
      matches(f) == /\ f.node = node /\ f.down = down /\ f.code = code /\ f.mask # NoMask
                    /\ mods \cap f.mask = f.mods
  IN ExactFirst(IF e \in DOMAIN m.edge THEN e ELSE NoEdge, SelectSeq(m.order, matches))

WithEdge(m, e) ==
  IF e \in DOMAIN m.edge THEN m
  ELSE [m EXCEPT !.edge = (e :> [dest |-> 0, actions |-> <<>>]) @@ @, !.order = Append(@, e)]

(* ykbmapInsertAction: clear empties the edge, none is left out, and the   *)
(* modifiers of an action are resolved, or it is ignored.                  *)
ChangeModifiers == {"setModifiers", "maskModifiers", "toggleModifiers",
                    "setSticky", "maskSticky", "toggleSticky"}
WithAction(m, e, a) ==
  IF a.type = "none" THEN m
  ELSE IF a.type = "clear" THEN [m EXCEPT !.edge[e].actions = <<>>]
  ELSE IF a.type \notin ChangeModifiers
  THEN [m EXCEPT !.edge[e].actions = Append(@, a)]
  ELSE IF ~Resolvable(m, a.mods) THEN m
  ELSE LET v == Resolved(m, a.mods)
       IN [m EXCEPT !.edge[e].actions =
             Append(@, [type |-> a.type, mods |-> IF a.not THEN Bits \ v ELSE v])]

(* ykbmapInsertSequence: from the start, each stroke goes on at the node   *)
(* that the edge before leads to, which is made when there is none; the    *)
(* rest of a sequence with an unknown name is ignored.                     *)
InsertStroke(acc, s) ==
  IF s.code \notin DOMAIN acc.m.codes \/ ~Resolvable(acc.m, s.mods) \/ ~Resolvable(acc.m, s.mask)
  THEN [acc EXCEPT !.stop = TRUE]
  ELSE LET c == acc.m.codes[s.code]
           fresh == acc.m.nodes + 1
           makes == acc.edge # NoEdge /\ acc.m.edge[acc.edge].dest = 0
           m1 == IF makes THEN [acc.m EXCEPT !.nodes = fresh, !.edge[acc.edge].dest = fresh] ELSE acc.m
           node == IF acc.edge = NoEdge THEN m1.start ELSE m1.edge[acc.edge].dest
           e == EdgeName(node, s.down, c.value, Resolved(m1, s.mods) \cup c.mods,
                         Resolved(m1, s.mask) \cap c.mask)
       IN [acc EXCEPT !.m = WithEdge(m1, e), !.edge = e]
InsertMember(acc, member) ==
  IF acc.stop THEN acc
  ELSE IF member.stroke THEN InsertStroke(acc, member)
  ELSE [acc EXCEPT !.m = WithAction(@, acc.edge, member)]
InsertSequence(m, seq) ==
  FoldLeft(InsertMember, [m |-> m, edge |-> NoEdge, stop |-> FALSE], seq).m
InsertSequences(m, k) == FoldLeft(InsertSequence, m, k.sequences)

(* ykbmapIsActiveOption: an option without a parent, or whose parent       *)
(* keymap is selected, or whose parent option is active and set to the     *)
(* parent keymap.  Parents form no cycle.                                  *)
Selected(act, name) == \E i \in DOMAIN act : act[i].option = "" /\ act[i].keymap = name
ChoiceOf(act, o) == {act[i].keymap : i \in {i \in DOMAIN act : act[i].option = o}}
IsActive(act, o) ==
  LET up[i \in 0 .. Cardinality(DOMAIN Source.options), p \in DOMAIN Source.options] ==
        LET parent == Source.options[p].parent
        IN IF parent.keymap = "" THEN TRUE
           ELSE IF parent.option = "" THEN Selected(act, parent.keymap)
           ELSE parent.keymap \in ChoiceOf(act, parent.option) /\ i > 0 /\ up[i - 1, parent.option]
  IN up[Cardinality(DOMAIN Source.options), o]

(* ykbmapRebuild: of all keymaps in use first the modifiers, then the      *)
(* keycodes, and then the sequences.                                       *)
KeymapsInUse(act) ==
  LET used_(a) == IF a.option = "" THEN a.keymap \in DOMAIN Source.keymaps
                  ELSE IsActive(act, a.option)
      keymap(a) == IF a.option = "" THEN Source.keymaps[a.keymap]
                   ELSE Source.options[a.option].keymaps[a.keymap]
      in == SelectSeq(act, used_)
  IN [i \in DOMAIN in |-> keymap(in[i])]
EmptyMap == [start |-> 1, nodes |-> 1, mods |-> <<>>, codes |-> <<>>, edge |-> <<>>, order |-> <<>>]
(* Mutation: a keymap is inserted as a whole before the next.              *)
EachAtOnce(ks) ==
  FoldLeft(LAMBDA m, k : InsertSequences(InsertKeycodes(InsertModifiers(m, k), k), k), EmptyMap, ks)
InPhases(ks) ==
  FoldLeft(InsertSequences, FoldLeft(InsertKeycodes, FoldLeft(InsertModifiers, EmptyMap, ks), ks), ks)
Compile(act) == InPhases(KeymapsInUse(act))

-----------------------------------------------------------------------------
(* The server's handlers, as changes of the record of what they keep.      *)
Kept == [active |-> active, inhibit |-> inhibit, pending |-> pending, map |-> map,
         state |-> state, saved |-> saved, modifiers |-> modifiers, sticky |-> sticky, used |-> used]
Becomes(k) ==
  /\ active' = k.active /\ inhibit' = k.inhibit /\ pending' = k.pending /\ map' = k.map
  /\ state' = k.state /\ saved' = k.saved /\ modifiers' = k.modifiers /\ sticky' = k.sticky
  /\ used' = k.used

Dropped(node) == IF node = Null THEN Null ELSE Stale
Rebuild(k) ==
  IF k.inhibit THEN [k EXCEPT !.pending = TRUE]
  ELSE [k EXCEPT !.map = Compile(k.active), !.pending = FALSE,
                 !.state = Dropped(@), !.saved = Dropped(@)]
(* Mutation: what was put off is forgotten.                                *)
StaysPending(k) == k
RebuildPending(k) == IF k.pending THEN Rebuild(k) ELSE k
InhibitRebuild(k, on) ==
  LET after == [k EXCEPT !.inhibit = on] IN IF on THEN after ELSE RebuildPending(after)

IsFor(a, option, keymap) == a.option = option /\ (option # "" \/ a.keymap = keymap)
Without(act, option, keymap) == SelectSeq(act, LAMBDA a : ~IsFor(a, option, keymap))
Has(act, option, keymap) == \E i \in DOMAIN act : act[i] = [option |-> option, keymap |-> keymap]

FlushKeymap(k) == Rebuild([k EXCEPT !.active = <<>>])
AddKeymap(k, n) ==
  IF Has(k.active, "", n) \/ n \notin DOMAIN Source.keymaps THEN k
  ELSE Rebuild([k EXCEPT !.active = Append(@, [option |-> "", keymap |-> n])])
RemoveKeymap(k, n) ==
  IF ~Has(k.active, "", n) THEN k ELSE Rebuild([k EXCEPT !.active = Without(@, "", n)])
SetOption(k, o, n) ==
  IF Has(k.active, o, n) \/ o \notin DOMAIN Source.options THEN k
  ELSE IF n \notin DOMAIN Source.options[o].keymaps THEN k
  ELSE Rebuild([k EXCEPT !.active = Append(Without(@, o, n), [option |-> o, keymap |-> n])])
UnsetOption(k, o) ==
  IF ChoiceOf(k.active, o) = {} THEN k ELSE Rebuild([k EXCEPT !.active = Without(@, o, "")])

(* ykbSetState and ykbAct.                                                 *)
Toggled(old, mods) == (old \ mods) \cup (mods \ old)
SetState(k, node) == [k EXCEPT !.state = IF node = Null THEN k.map.start ELSE node]
Forgets(k) == [k EXCEPT !.state = Null]
Act(k, a) ==
  CASE a.type = "setModifiers" -> [k EXCEPT !.modifiers = @ \cup a.mods]
    [] a.type = "maskModifiers" -> [k EXCEPT !.modifiers = @ \cap a.mods]
    [] a.type = "toggleModifiers" -> [k EXCEPT !.modifiers = Toggled(@, a.mods)]
    [] a.type = "setSticky" -> [k EXCEPT !.sticky = @ \cup a.mods]
    [] a.type = "maskSticky" -> [k EXCEPT !.sticky = @ \cap a.mods]
    [] a.type = "toggleSticky" -> [k EXCEPT !.sticky = Toggled(@, a.mods)]
    [] a.type = "flushKeymap" -> Forgets(FlushKeymap(k))
    [] a.type = "addKeymap" -> Forgets(AddKeymap(k, a.keymap))
    [] a.type = "removeKeymap" -> Forgets(RemoveKeymap(k, a.keymap))
    [] a.type = "setOption" -> Forgets(SetOption(k, a.option, a.keymap))
    [] a.type = "unsetOption" -> Forgets(UnsetOption(k, a.option))
    [] a.type = "restoreState" -> [SetState(k, k.saved) EXCEPT !.saved = Null]
    [] OTHER -> k     \* string and event, to the widget with the focus

(* ykbTransition: a rebuild waits for the end of the actions, and then a   *)
(* state that was given up becomes the new start.                          *)
Transition(k, e) ==
  LET edge == k.map.edge[e]
      begun == SetState(InhibitRebuild(k, TRUE), IF edge.dest = 0 THEN Null ELSE edge.dest)
      acted == FoldLeft(Act, begun, edge.actions)
      done == InhibitRebuild(acted, k.inhibit)
  IN IF done.state = Null THEN SetState(done, Null) ELSE done

(* ykbKeyStroke: a stroke that does not go on with a sequence may begin    *)
(* one, which may then go back to where the other was left.                *)
EdgeFrom(k, down, code) == Lookup(k.map, k.state, down, code, k.modifiers \cup k.sticky)
Tidied(k) == IF k.state = k.map.start THEN [k EXCEPT !.saved = Null] ELSE k
Struck(k, down, code) ==
  IF k.state = Null THEN k
  ELSE IF k.state = Stale THEN [k EXCEPT !.used = TRUE]
  ELSE LET e == EdgeFrom(k, down, code)
           again == SetState([k EXCEPT !.saved = k.state], Null)
           e2 == EdgeFrom(again, down, code)
       IN IF e # NoEdge THEN Tidied(Transition(k, e))
          ELSE IF k.state = k.map.start \/ e2 = NoEdge THEN [SetState(k, Null) EXCEPT !.saved = Null]
          ELSE Tidied(Transition(again, e2))
KeyStroke(down, code) ==
  /\ Becomes(Struck(Kept, down, code))
  /\ UNCHANGED focus

(* ykbInitialise: the file of the layout is loaded, the options that have  *)
(* defaults are set (ykbmapBuild), its keymap is selected and the map is   *)
(* taken into use; the other words of keymap:layout come after that.       *)
Built ==
  LET defaults == SelectSeq(Source.order, LAMBDA o : Source.options[o].default # "")
  IN FoldLeft(LAMBDA k, o : SetOption(k, o, Source.options[o].default),
              [Kept EXCEPT !.map = EmptyMap], defaults)
WithWord(k, w) == IF w.option = "" THEN AddKeymap(k, w.keymap) ELSE SetOption(k, w.option, w.keymap)
Initialise(words) ==
  /\ map = NoMap
  /\ Becomes(FoldLeft(WithWord, SetState(WithWord(Built, words[1]), Null), Tail(words)))
  /\ UNCHANGED focus

SetFocus(w) == focus' = w /\ UNCHANGED <<active, inhibit, pending, map, state, saved, modifiers, sticky, used>>
UnsetFocus(w) ==
  /\ focus = w /\ focus' = Nil
  /\ UNCHANGED <<active, inhibit, pending, map, state, saved, modifiers, sticky, used>>

Init ==
  /\ active = <<>> /\ inhibit = FALSE /\ pending = FALSE /\ map = NoMap
  /\ state = Null /\ saved = Null /\ modifiers = {} /\ sticky = {} /\ focus = Nil /\ used = FALSE
Next ==
  \/ \E words \in Layouts : Initialise(words)
  \/ \E down \in BOOLEAN, code \in Keycodes : KeyStroke(down, code)
  \/ \E w \in Widgets : SetFocus(w) \/ UnsetFocus(w)

Spec == Init /\ [][Next]_vars

-----------------------------------------------------------------------------
TypeOK ==
  /\ {modifiers, sticky} \subseteq SUBSET Bits
  /\ {state, saved} \subseteq 1 .. 9 \cup {Null, Stale} /\ focus \in Widgets \cup {Nil}
  /\ {inhibit, pending, used} \subseteq BOOLEAN

(* Between strokes, the automaton is that of what is selected, and the     *)
(* keyboard is at a node of it, never at one of an automaton that was      *)
(* destroyed (ykb.c:123-127).                                              *)
MapInUse ==
  /\ ~used /\ ~inhibit /\ ~pending
  /\ map # NoMap => map = Compile(active) /\ state \in 1 .. map.nodes
  /\ saved = Null \/ saved \in 1 .. map.nodes

(* Keycodes bind late (ykbmap.c:1147-1150): whichever keymap in use gives  *)
(* a name its value last, sequences of keymaps before and after it are     *)
(* entered with that value, and from the start it leads to their actions.  *)
LastValue(ks, name) ==
  LET defs == {<<i, j>> \in (1 .. Len(ks)) \X (1 .. 9) : j \in DOMAIN ks[i].keycodes /\ ks[i].keycodes[j].name = name}
      last == {d \in defs : \A x \in defs : x[1] <= d[1]}
  IN {ks[d[1]].keycodes[d[2]].value : d \in {d \in last : ks[d[1]].keycodes[d[2]].alias = ""}}
BindsLate ==
  map # NoMap =>
    LET ks == KeymapsInUse(active)
    IN \A i \in DOMAIN ks : \A j \in DOMAIN ks[i].sequences :
         LET s == ks[i].sequences[j][1]
         IN s.mask.bits = NoMask =>
              \A v \in LastValue(ks, s.code) :
                 LET e == Lookup(map, map.start, s.down, v, Resolved(map, s.mods))
                 IN e # NoEdge /\ e.mask = NoMask

(* The order in which a keymap defines modifiers and aliases in terms of   *)
(* each other does not matter: what has all it refers to is in the map.    *)
OrderFree ==
  map # NoMap =>
    \A k \in ToSet(KeymapsInUse(active)) :
      LET known == {d.name : d \in ToSet(k.modifiers)} \cap DOMAIN map.mods
          codes == {d.name : d \in ToSet(k.keycodes)} \cap DOMAIN map.codes
      IN /\ \A d \in ToSet(k.modifiers) : d.value.names \subseteq known => d.name \in known
         /\ \A d \in ToSet(k.keycodes) :
              d.alias \in codes /\ d.mods.names \cup d.mask.names \subseteq known => d.name \in codes

(* A key whose actions end in restoreState (a modifier) leaves a sequence  *)
(* where it was, unless it changes the map.                                *)
Restores(e) ==
  /\ \E i \in DOMAIN map.edge[e].actions : map.edge[e].actions[i].type = "restoreState"
  /\ \A i \in DOMAIN map.edge[e].actions :
       map.edge[e].actions[i].type \in ChangeModifiers \cup {"restoreState"}
KeepsSequence ==
  [][\A down \in BOOLEAN, code \in Keycodes :
       ( /\ map # NoMap /\ KeyStroke(down, code) /\ state # map.start
         /\ EdgeFrom(Kept, down, code) = NoEdge
         /\ LET e == Lookup(map, map.start, down, code, modifiers \cup sticky)
            IN e # NoEdge /\ Restores(e) )
       => state' = state]_vars
=============================================================================
