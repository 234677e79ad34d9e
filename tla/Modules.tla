------------------------------ MODULE Modules ------------------------------
(***************************************************************************)
(* Y/modules/module.c, theme.c, windowmanager.c and the initialise and     *)
(* finalise functions of modules/themes/* and modules/wm/default: modules  *)
(* are loaded and unloaded by name, from the configuration and by clients  *)
(* (the methods of class Module); a theme joins the chain of themes, a     *)
(* window manager replaces the one there is and brings its desktop.        *)
(***************************************************************************)
EXTENDS Naturals, Sequences, FiniteSets, SequencesExt

CONSTANTS
  Themes, Managers, Others, Nil,
  Provides,          \* the functions that each theme has
  UnloadsManager     \* clients unload the window manager in use

Names == Themes \cup Managers \cup Others

VARIABLES
  index,      \* moduleIndex: the modules loaded
  chain,      \* topTheme and its nextTheme
  manager,    \* currentWindowManager
  root,       \* the root widget of the screen: the desktop of a manager
  stopped     \* the server ended: by moduleFinalise, by abort, or in memory
              \* that was freed

vars == <<index, chain, manager, root, stopped>>

(* The configuration loads what it lists after this.                       *)
Init == index = {} /\ chain = <<>> /\ manager = Nil /\ root = Nil /\ stopped = FALSE

Running == ~stopped

-----------------------------------------------------------------------------
(* themeRemove: the first of the chain that is t, if any.                  *)
(* Mutation: only the top theme can be removed.                            *)
First(places) == CHOOSE i \in places : \A j \in places : i <= j
WithoutTop(t) == IF chain # <<>> /\ chain[1] = t THEN Tail(chain) ELSE chain
WithoutTheme(t) ==
  LET places == {i \in DOMAIN chain : chain[i] = t}
  IN IF places = {} THEN chain ELSE RemoveAt(chain, First(places))

(* moduleLoad: nothing, if the module is loaded; the server aborts if the  *)
(* file cannot be opened, and forgets a module that does not initialise.   *)
LoadFails(m) ==
  /\ Running /\ m \notin index
  /\ stopped' \in BOOLEAN
  /\ UNCHANGED <<index, chain, manager, root>>

LoadTheme(t) ==
  /\ Running /\ t \in Themes \ index
  /\ index' = index \cup {t} /\ chain' = <<t>> \o chain
  /\ UNCHANGED <<manager, root, stopped>>

(* windowmanagerRegister has the manager in use unload itself, with its    *)
(* desktop; the new one is in the index when initialise has returned.      *)
(* Mutation: it is left as it is.                                          *)
LeftLoaded(m) == index
WithoutManager(m) == index \ {manager}
LoadManager(m) ==
  /\ Running /\ m \in Managers \ index
  /\ stopped' = (manager # Nil /\ manager \notin index)
  /\ index' = WithoutManager(m) \cup {m}
  /\ manager' = m /\ root' = m
  /\ UNCHANGED chain

LoadOther(m) ==
  /\ Running /\ m \in Others \ index
  /\ index' = index \cup {m}
  /\ UNCHANGED <<chain, manager, root, stopped>>

(* moduleUnload; a window manager destroys its desktop and its own record, *)
(* which currentWindowManager and the screen still name.                   *)
Unload(m) ==
  /\ Running /\ m \in index
  /\ UnloadsManager \/ m \notin Managers
  /\ index' = index \ {m}
  /\ chain' = IF m \in Themes THEN WithoutTheme(m) ELSE chain
  /\ UNCHANGED <<manager, root, stopped>>

(* Anything done to a window goes to the manager, if there is one.         *)
CallManager ==
  /\ Running /\ manager # Nil
  /\ stopped' = (manager \notin index)
  /\ UNCHANGED <<index, chain, manager, root>>

(* moduleFinalise: every module is unloaded, in the order of their names.  *)
Finalise ==
  /\ Running /\ stopped' = TRUE
  /\ index' = {} /\ chain' = <<>>
  /\ UNCHANGED <<manager, root>>

(* themeDrawLabel and its kin: the first theme of the chain that can.      *)
Chosen(f) ==
  LET able == {i \in DOMAIN chain : f \in Provides[chain[i]]}
  IN IF able = {} THEN Nil ELSE chain[First(able)]

Next ==
  \/ \E m \in Names : LoadFails(m) \/ LoadOther(m) \/ Unload(m)
  \/ \E t \in Themes : LoadTheme(t)
  \/ \E m \in Managers : LoadManager(m)
  \/ CallManager \/ Finalise

Spec == Init /\ [][Next]_vars

-----------------------------------------------------------------------------
TypeOK ==
  /\ index \subseteq Names /\ chain \in Seq(Themes)
  /\ manager \in Managers \cup {Nil} /\ root \in Managers \cup {Nil} /\ stopped \in BOOLEAN

(* Themes come and go in any order, and what is drawn is drawn by a theme  *)
(* that is loaded, the one loaded last of those that can.                  *)
ThemesLoaded ==
  /\ ToSet(chain) = index \cap Themes /\ IsInjective(chain)
  /\ \A f \in UNION {Provides[t] : t \in Themes} :
       (\E t \in index \cap Themes : f \in Provides[t]) => Chosen(f) \in index

(* There is one window manager at most, it is the one that is called, and  *)
(* the screen shows its desktop.                                           *)
ManagerLoaded ==
  Running => /\ index \cap Managers = {manager} \ {Nil}
             /\ root = manager
=============================================================================
