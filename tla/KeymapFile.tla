----------------------------- MODULE KeymapFile -----------------------------
(***************************************************************************)
(* Y/input/ykm.c: the keymaps and options that are read from a file.  A    *)
(* keymap stands in the table of all keymaps, or is local to an option, or *)
(* is referred to by options; it counts those that hold it.  ykmUpdate     *)
(* works on a duplicate, which it puts in place when all the data was      *)
(* good; ykmLoad parses into a table that is dropped when it was not.      *)
(* Data that is cut short or invalid ends the work at any point.           *)
(*                                                                         *)
(* What a keymap contains: keycodes, modifiers and names, of which the     *)
(* last definition stands (defs), and sequences and names of modifiers,    *)
(* which are added (seqs).  A sequence is the set of members allocated for *)
(* it, and a duplicate has the same members (ykmSequenceMemberDup).        *)
(***************************************************************************)
EXTENDS Naturals, FiniteSets, Sequences, TLC

CONSTANTS Names,       \* of keymaps
          Options,     \* names of options
          Values,      \* of definitions
          Ids,         \* addresses of keymaps
          Members,     \* addresses of members of sequences
          UpdatesSequences   \* whether a file with sequences is updated

VARIABLES
  keymap,      \* of every keymap allocated: name, refs, local, defs, seqs
  ykm,         \* the tables in use, or None
  work,        \* the tables an update works on, or None
  loaded,      \* the members in existence
  twice        \* something was freed twice

vars == <<keymap, ykm, work, loaded, twice>>
None == [maps |-> <<>>, opts |-> <<>>]
Empty == [maps |-> [n \in Names |-> 0], opts |-> <<>>]
Allocated == DOMAIN keymap
NoOption == [parent |-> "", maps |-> [n \in Names |-> 0]]

Init ==
  /\ keymap = <<>> /\ ykm = None /\ work = None
  /\ loaded = {} /\ twice = FALSE

FreshId(km) == CHOOSE i \in Ids : i \notin DOMAIN km
HasRoom(n) == Cardinality(Ids \ Allocated) >= n

(* How often the tables y hold keymap i.                                   *)
HeldBy(y, i) ==
  Cardinality({n \in DOMAIN y.maps : y.maps[n] = i})
  + Cardinality({on \in (DOMAIN y.opts) \X Names : y.opts[on[1]].maps[on[2]] = i})

(* ykmKeymapDetach of the keymaps that holders let go of, and              *)
(* ykmKeymapDestroy of those that nothing holds any more.                  *)
(* Mutation: a keymap is destroyed whoever holds it.                       *)
ForgetsOthers(k) == 1
RefsLeft(k) == k.refs
Detached(km, drop(_)) ==
  [i \in {i \in DOMAIN km : RefsLeft(km[i]) > drop(i)} |-> [km[i] EXCEPT !.refs = @ - drop(i)]]
MembersOf(km) == UNION {km[i].seqs : i \in DOMAIN km}
(* The members freed with a keymap, or when it is flushed.                 *)
FreedOf(i, old, new) == old[i].seqs \ (IF i \in DOMAIN new THEN new[i].seqs ELSE {})
Gone(old, new) == UNION {FreedOf(i, old, new) : i \in DOMAIN old}
FreedTwice(old, new) ==
  \/ ~(Gone(old, new) \subseteq loaded)
  \/ \E i, j \in DOMAIN old : i # j /\ FreedOf(i, old, new) \cap FreedOf(j, old, new) # {}

(* Everything else a definition of the file does ends here.                *)
Becomes(km, y) ==
  /\ keymap' = km /\ work' = y
  /\ loaded' = loaded \ Gone(keymap, km)
  /\ twice' = (twice \/ FreedTwice(keymap, km))

-----------------------------------------------------------------------------
(* ykmParse begins with nothing, ykmUpdate with a duplicate, in which an   *)
(* option refers to the duplicate of the keymap it referred to; an option  *)
(* loses its parent and its default (ykmOptionDup does not copy them).     *)
BeginLoad ==
  /\ ykm = None /\ work = None
  /\ work' = Empty
  /\ UNCHANGED <<keymap, ykm, loaded, twice>>

Duplicates(copy) ==
  LET source(j) == CHOOSE i \in Allocated : copy[i] = j
  IN [j \in {copy[i] : i \in Allocated} |-> [keymap[source(j)] EXCEPT !.refs = HeldBy(ykm, source(j))]]
CopyOf(copy, i) == IF i = 0 THEN 0 ELSE copy[i]
Injections(S, T) == {f \in [S -> T] : \A a, b \in S : a # b => f[a] # f[b]}
SomeCopy == CHOOSE f \in Injections(Allocated, Ids \ Allocated) : TRUE

BeginUpdate ==
  /\ ykm # None /\ work = None
  /\ HasRoom(Cardinality(Allocated))
  /\ UpdatesSequences \/ MembersOf(keymap) = {}
  /\ LET copy == SomeCopy IN
       /\ keymap' = Duplicates(copy) @@ keymap
       /\ work' = [maps |-> [n \in Names |-> CopyOf(copy, ykm.maps[n])],
                   opts |-> [o \in DOMAIN ykm.opts |->
                     [NoOption EXCEPT !.maps = [n \in Names |-> CopyOf(copy, ykm.opts[o].maps[n])]]]]
  /\ UNCHANGED <<ykm, loaded, twice>>

(* ykmUpdateKeymap in the table of all keymaps or of an option: the keymap *)
(* is found or made, flushed if the file says so, and a definition is      *)
(* replaced or a sequence is added.                                        *)
NewKeymap(n, local) == [name |-> n, refs |-> 1, local |-> local, defs |-> "", seqs |-> {}]
Flushed(k, flush) == IF flush THEN [k EXCEPT !.defs = "", !.seqs = {}] ELSE k

Defined(k, v) == [k EXCEPT !.defs = v]
WithSequence(k, m) == [k EXCEPT !.seqs = @ \cup {m}]

(* The keymap n of a table in which it is i (0: not there), as id and heap.*)
Found(km, i, n, flush, local) ==
  IF i = 0 THEN LET j == FreshId(km) IN [id |-> j, km |-> (j :> NewKeymap(n, local)) @@ km]
  ELSE [id |-> i, km |-> [km EXCEPT ![i] = [Flushed(@, flush) EXCEPT !.local = local]]]

(* What the file defines in the keymap that was found.                     *)
Filled(f, y) ==
  \/ \E v \in Values : Becomes([f.km EXCEPT ![f.id] = Defined(@, v)], y)
  \/ \E m \in Members \ loaded :
       /\ keymap' = [f.km EXCEPT ![f.id] = WithSequence(@, m)] /\ work' = y
       /\ loaded' = (loaded \ Gone(keymap, f.km)) \cup {m}
       /\ twice' = (twice \/ FreedTwice(keymap, f.km))

UpdateKeymap(n, flush) ==
  /\ work # None /\ HasRoom(1)
  /\ LET f == Found(keymap, work.maps[n], n, flush, FALSE)
     IN Filled(f, [work EXCEPT !.maps[n] = f.id])

(* ykmUpdateOption: the option is found, flushed or made, and given its    *)
(* parent (and its default, which goes the same way), ...                  *)
DropsOption(o) ==
  [work EXCEPT !.opts = [p \in DOMAIN @ \ {o} |-> @[p]]]
UpdateOption(o, parent, flush) ==
  /\ work # None
  /\ LET exists == o \in DOMAIN work.opts
         kept == exists /\ ~flush
         maps == IF kept THEN work.opts[o].maps ELSE NoOption.maps
         lost(i) == IF exists /\ flush THEN HeldBy(work, i) - HeldBy(DropsOption(o), i) ELSE 0
     IN Becomes(Detached(keymap, lost),
                [work EXCEPT !.opts = (o :> [parent |-> parent, maps |-> maps]) @@ @])
  /\ UNCHANGED ykm

(* ... a reference replaces what the option has under the name, ...        *)
OptionRefers(o, n) ==
  /\ o \in DOMAIN work.opts
  /\ LET i == work.opts[o].maps[n]
         j == work.maps[n]
         held(k) == IF k = i THEN 1 ELSE 0
         left == Detached(keymap, held)
     IN Becomes(IF j = 0 THEN left
                ELSE (j :> [keymap[j] EXCEPT !.refs = @ + (IF i = j THEN 0 ELSE 1)]) @@ left,
                [work EXCEPT !.opts[o].maps[n] = j])
  /\ UNCHANGED ykm

(* ... and a local definition does not change a keymap it refers to.       *)
(* Mutation: it does.                                                      *)
UpdatesReferred(i) == FALSE
IsReferred(i) == ~keymap[i].local
OptionDefines(o, n, flush) ==
  /\ o \in DOMAIN work.opts /\ HasRoom(1)
  /\ LET i == work.opts[o].maps[n]
         letsGo == i # 0 /\ IsReferred(i)
         held(k) == IF letsGo /\ k = i THEN 1 ELSE 0
         f == Found(Detached(keymap, held), IF letsGo THEN 0 ELSE i, n, flush, TRUE)
     IN Filled(f, [work EXCEPT !.opts[o].maps[n] = f.id])
  /\ UNCHANGED ykm

(* The data was good: the tables in use are destroyed and replaced.        *)
Commit ==
  /\ work # None
  /\ LET dropped(i) == IF ykm = None THEN 0 ELSE HeldBy(ykm, i)
         km == Detached(keymap, dropped)
     IN keymap' = km /\ loaded' = loaded \ Gone(keymap, km) /\ twice' = (twice \/ FreedTwice(keymap, km))
  /\ ykm' = work /\ work' = None

(* It was not: the work is destroyed.                                      *)
Fail ==
  /\ work # None
  /\ LET dropped(i) == HeldBy(work, i)
     IN Becomes(Detached(keymap, dropped), None)
  /\ UNCHANGED ykm

(* ykmDestroy, at the end of the server.                                   *)
Destroy ==
  /\ ykm # None /\ work = None
  /\ LET dropped(i) == HeldBy(ykm, i)
     IN Becomes(Detached(keymap, dropped), None)
  /\ ykm' = None

Next ==
  \/ BeginLoad \/ BeginUpdate \/ Commit \/ Fail \/ Destroy
  \/ \E n \in Names, flush \in BOOLEAN : UpdateKeymap(n, flush) /\ UNCHANGED ykm
  \/ \E o \in Options, p \in {"", "parent"}, flush \in BOOLEAN : UpdateOption(o, p, flush)
  \/ \E o \in Options, n \in Names :
       \/ OptionRefers(o, n)
       \/ \E flush \in BOOLEAN : OptionDefines(o, n, flush)

Spec == Init /\ [][Next]_vars

-----------------------------------------------------------------------------
TypeOK ==
  /\ Allocated \subseteq Ids /\ loaded \subseteq Members /\ twice \in BOOLEAN
  /\ \A i \in Allocated :
       keymap[i] \in [name : Names, refs : Nat, local : BOOLEAN, defs : Values \cup {""}, seqs : SUBSET Members]

(* A keymap counts its holders, and exists as long as it has one; a local  *)
(* one has one, an option's; the members that exist are those of keymaps.  *)
Holders(i) == (IF ykm = None THEN 0 ELSE HeldBy(ykm, i)) + (IF work = None THEN 0 ELSE HeldBy(work, i))
RefsCounted ==
  /\ ~twice
  /\ \A i \in Allocated :
       /\ keymap[i].refs = Holders(i) /\ keymap[i].refs > 0
       /\ keymap[i].local => keymap[i].refs = 1
  /\ loaded = MembersOf(keymap)

(* What the server sees of the tables in use; an update that fails, or is  *)
(* under way, leaves it as it is (ykm.c:1172-1174, "atomically"), and the  *)
(* definition of a local keymap leaves the table of all keymaps as it is   *)
(* (ykm.c:1102-1110).                                                      *)
Seen(y) ==
  IF y = None THEN None
  ELSE LET at(i) == IF i = 0 THEN <<>> ELSE <<keymap[i].defs, keymap[i].seqs>>
       IN [maps |-> [n \in Names |-> at(y.maps[n])],
           opts |-> [o \in DOMAIN y.opts |-> [y.opts[o] EXCEPT !.maps = [n \in Names |-> at(@[n])]]]]
UpdatesAtomically ==
  [][/\ Seen(ykm)' # Seen(ykm) => Commit \/ Destroy
     /\ (\E o \in Options, n \in Names, f \in BOOLEAN : OptionDefines(o, n, f))
          => Seen(work).maps = Seen(work)'.maps]_vars
=============================================================================
