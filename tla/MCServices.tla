----------------------------- MODULE MCServices ------------------------------
(***************************************************************************)
(* What the server does for its clients and its user, and the library for  *)
(* a client, one part at a time: the file of keymaps, the automaton of the *)
(* keyboard, the modules with themes and window managers, the calls of     *)
(* methods, the console of a terminal, the configuration, and objects      *)
(* whose numbers any client may name; the bytes of messages; the objects,  *)
(* timers and descriptors of a client; and one client, the calculator.     *)
(***************************************************************************)
EXTENDS Integers, Sequences, TLC

CONSTANTS 
  Nil,
  Layouts   \* what the configuration may name, of the words below

(* A keymap file: "base" has a modifier, two keys that change others, a    *)
(* key that is an alias of another under the modifier, and a dead key;     *)
(* "alt" is added and removed by keys, and an option with a sub-option is  *)
(* set and unset by them.                                                  *)
ModBits == {1, 2}
Mods(bits, names) == [bits |-> bits, names |-> names]
NoMods == Mods({}, {})
EveryBit == Mods(ModBits, {})
Value(n, v) == [name |-> n, alias |-> "", value |-> v, mods |-> NoMods, mask |-> NoMods]
Alias(n, a, ms) == [name |-> n, alias |-> a, value |-> 0, mods |-> ms, mask |-> EveryBit]
Down(c, ms, mask) == [stroke |-> TRUE, down |-> TRUE, code |-> c, mods |-> ms, mask |-> mask]
Up(c, ms, mask) == [Down(c, ms, mask) EXCEPT !.down = FALSE]
Do(t) == [stroke |-> FALSE, type |-> t]
Modify(t, ms, not) == [stroke |-> FALSE, type |-> t, mods |-> ms, not |-> not]
Map(n) == [stroke |-> FALSE, type |-> n, keymap |-> "alt"]
Opt(n, k) == [stroke |-> FALSE, type |-> n, option |-> "kana", keymap |-> k]
Shift == Mods({}, {"shift"})
Level2 == Mods({2}, {})
base ==
  [modifiers |-> << [name |-> "half", value |-> Mods({}, {"level"})],
                   [name |-> "level", value |-> Mods({}, {"shift"})], [name |-> "shift", value |-> Mods({1}, {})] >>,
   keycodes |-> << Alias("big", "key", Mods({}, {"half"})), Value("dead", 2), Value("key", 3), Value("mod", 1), Value("lock", 4), Value("flip", 5) >>,
   sequences |->
     << <<Down("mod", NoMods, NoMods), Modify("setModifiers", Shift, FALSE), Do("restoreState")>>,
        <<Up("mod", NoMods, NoMods), Modify("maskModifiers", Shift, TRUE), Do("restoreState")>>,
        <<Down("lock", NoMods, NoMods), Modify("setSticky", Level2, FALSE), Do("restoreState")>>,
        <<Up("lock", NoMods, NoMods), Modify("maskSticky", Level2, TRUE), Do("restoreState")>>,
        <<Down("flip", NoMods, NoMods), Modify("toggleModifiers", Shift, FALSE), Do("restoreState")>>,
        <<Up("flip", NoMods, NoMods), Modify("toggleSticky", Level2, FALSE), Do("restoreState")>>,
        <<Down("key", NoMods, NoMods), Do("string")>>,
        <<Down("big", NoMods, EveryBit), Map("addKeymap")>>,
        <<Down("dead", NoMods, EveryBit), Down("key", NoMods, EveryBit), Do("string")>>,
        <<Down("dead", NoMods, EveryBit), Down("big", NoMods, EveryBit), Opt("setOption", "on")>>,
        <<Down("unknown", NoMods, EveryBit), Do("flushKeymap")>> >>]
alt ==
  [modifiers |-> <<>>, keycodes |-> << Value("dead", 3), Value("key", 2) >>,
   sequences |-> << <<Down("dead", Shift, EveryBit), Map("removeKeymap")>> >>]
on ==
  [modifiers |-> <<>>, keycodes |-> <<>>,
   sequences |-> << <<Down("key", Shift, EveryBit), Do("clear"), Opt("setOption", "off")>>,
                    <<Down("key", NoMods, EveryBit), Do("flushKeymap")>> >>]
off == [on EXCEPT !.sequences = << <<Down("key", NoMods, EveryBit), Opt("unsetOption", "")>> >>]
Source == [order |-> <<"kana", "sub">>, keymaps |-> [base |-> base, alt |-> alt],
           options |-> [kana |-> [parent |-> [option |-> "", keymap |-> "base"], default |-> "off",
                                  keymaps |-> [on |-> on, off |-> off]],
                        sub |-> [parent |-> [option |-> "kana", keymap |-> "on"], default |-> "x",
                                 keymaps |-> [x |-> alt]]]]
Word(o, k) == [option |-> o, keymap |-> k]
OneWord == {<<Word("", "base")>>}
TwoWords == {<<Word("", "base"), Word("", "alt")>>}

(* The modules of a server with three themes, of which one draws labels,   *)
(* one buttons, and one both.                                              *)
Provides ==
  "t1" :> {"label"} @@ "t2" :> {"label", "button"} @@ "t3" :> {"button"}

(* Three classes with methods of one, two and four types of arguments.     *)
Classes == {"Object", "Widget", "Label"}
Supers ==
  "Label" :> <<"Widget">> @@ "Widget" :> <<"Object">> @@ "Object" :> <<>>
Methods ==
  "Object" :> ("setProperty" :> << <<"string", "any">> >> @@ "list" :> << <<"list">> >>) @@
  "Widget" :> ("load" :> << <<"string", "list">> >>) @@
  "Label" :> ("add" :> << <<"object", "uint32">>, <<"string", "int32">>,
                          <<"int32", "list">>, <<"uint32">> >> @@
              "list" :> << <<>> >>)
Properties ==
  "Object" :> ("p" :> "any") @@ "Widget" :> ("p" :> "int32") @@ "Label" :> ("q" :> "uint32")

(* Tuples of messages; a word is two bytes of 32.                          *)
Arg(t, x) == [type |-> t, of |-> x]
Messages == {<<Arg("string", <<7>>), Arg("object", 33)>>,
             <<Arg("int32", -2), Arg("string", <<>>), Arg("uint32", 1)>>}

(* Three objects of two classes, one of which the server does not create.  *)
ClassOfProxy == "o1" :> "A" @@ "o2" :> "A" @@ "o3" :> "B"

(* A file of the configuration: text with what the parser looks for,       *)
(* numbers, and lines that say nothing.                                    *)
Spellings == {<<>>, <<Arg("string", <<>>), Arg("string", <<"a", ":">>)>>,
              <<Arg("string", <<"\"">>), Arg("string", <<"\\">>)>>,
              <<Arg("uint32", <<"1">>), Arg("int32", <<"-", "1">>)>>,
              <<Arg("string", <<"#", " ">>), Arg("uint32", <<"1", "1">>)>>,
              <<Arg("string", <<" ", "b">>), Arg("string", <<"-">>)>>}
NoiseLines == {<<" ", "#", "a", ":">>, <<"a", " ", "\"", "b">>,
               <<"b", " ", "1", "a", " ">>}

VARIABLES
  which,   \* the component at work
  f_keymap, f_ykm, f_work, f_loaded, f_twice,
  k_active, k_inhibit, k_pending, k_map, k_state, k_saved, k_modifiers,
  k_sticky, k_focus, k_used,
  m_index, m_chain, m_manager, m_root, m_stopped,
  c_nextId, c_class, c_props, c_request, c_outcome, c_aborted, c_called,
  t_cols, t_rows, t_contents, t_foreground, t_cursor, t_repainted,
  t_scrolled, t_events, t_tcols, t_trows,
  g_says, g_left, g_groups, g_current,
  w_next, w_sent, w_received, w_stream, w_buffer, w_ended,
  p_classes, p_made, p_dead, p_pending, p_arrived, p_idOf, p_objects,
  p_toServer, p_toClient, p_stack, p_created, p_subscribed, p_events,
  p_undefined,
  e_time, e_timers, e_event, e_alive, e_running, e_now, e_ticking, e_ticked,
  e_setAt, e_undefined,
  u_fds, u_list, u_count, u_working, u_updating, u_polled, u_ready, u_at,
  u_inCall, u_served, u_broken,
  q_operands, q_operators, q_current, q_decimalPlace, q_display, q_aborted,
  q_entered,
  o_live, o_objects, o_nextObject, o_owner, o_cobjects, o_sigs, o_csubs,
  o_asked, o_events, o_undefined

f_vars == <<
  f_keymap, f_ykm, f_work, f_loaded, f_twice>>
k_vars == <<
  k_active, k_inhibit, k_pending, k_map, k_state, k_saved, k_modifiers,
  k_sticky, k_focus, k_used>>
m_vars == <<
  m_index, m_chain, m_manager, m_root, m_stopped>>
c_vars == <<
  c_nextId, c_class, c_props, c_request, c_outcome, c_aborted, c_called>>
t_vars == <<
  t_cols, t_rows, t_contents, t_foreground, t_cursor, t_repainted,
  t_scrolled, t_events, t_tcols, t_trows>>
g_vars == <<
  g_says, g_left, g_groups, g_current>>
w_vars == <<
  w_next, w_sent, w_received, w_stream, w_buffer, w_ended>>
p_vars == <<
  p_classes, p_made, p_dead, p_pending, p_arrived, p_idOf, p_objects,
  p_toServer, p_toClient, p_stack, p_created, p_subscribed, p_events,
  p_undefined>>
e_vars == <<
  e_time, e_timers, e_event, e_alive, e_running, e_now, e_ticking, e_ticked,
  e_setAt, e_undefined>>
u_vars == <<
  u_fds, u_list, u_count, u_working, u_updating, u_polled, u_ready, u_at,
  u_inCall, u_served, u_broken>>
q_vars == <<
  q_operands, q_operators, q_current, q_decimalPlace, q_display, q_aborted,
  q_entered>>
o_vars == <<
  o_live, o_objects, o_nextObject, o_owner, o_cobjects, o_sigs, o_csubs,
  o_asked, o_events, o_undefined>>
vars == <<which, f_vars, k_vars, m_vars, c_vars, t_vars, g_vars, w_vars, p_vars, e_vars, u_vars, q_vars, o_vars>>

File == INSTANCE KeymapFile WITH
  Names <- {"a"}, Options <- {"o"}, Values <- {"v"}, Ids <- 1 .. 4, Members
  <- {"m"}, UpdatesSequences <- FALSE, keymap <- f_keymap, ykm <- f_ykm,
  work <- f_work, loaded <- f_loaded, twice <- f_twice

Keys == INSTANCE Keyboard WITH
  Bits <- ModBits, Source <- Source, Layouts <- Layouts, Keycodes <- 1 .. 5,
  Widgets <- {"w"}, Nil <- Nil, active <- k_active, inhibit <- k_inhibit,
  pending <- k_pending, map <- k_map, state <- k_state, saved <- k_saved,
  modifiers <- k_modifiers, sticky <- k_sticky, focus <- k_focus, used <-
  k_used

Loaded == INSTANCE Modules WITH
  Themes <- {"t1", "t2", "t3"}, Managers <- {"m1", "m2"}, Others <- {"o"},
  Nil <- Nil, Provides <- Provides, UnloadsManager <- FALSE, index <-
  m_index, chain <- m_chain, manager <- m_manager, root <- m_root, stopped
  <- m_stopped

Calls == INSTANCE Methods WITH
  MaxId <- 1, Nil <- Nil, Half <- 2, Spelt <- {5}, MaxLen <- 2, Classes <-
  Classes, Supers <- Supers, Methods <- Methods, Properties <- Properties,
  nextId <- c_nextId, class <- c_class, props <- c_props, request <-
  c_request, outcome <- c_outcome, aborted <- c_aborted, called <- c_called

(* The methods that the lookup finds are declared as sequences of types,   *)
(* as the theorem on arguments asks (MethodsListed in ServicesProofs).     *)
ASSUME MethodsListed ==
  \A c \in Classes, m \in Calls!MethodNames :
    LET finder == Calls!Finder(Methods, m)[c]
    IN  finder # Nil => Methods[finder][m] \in Seq(Seq(STRING))

Terminal == INSTANCE Console WITH
  Chars <- {"a"}, Colours <- {9}, Columns <- {1, 2}, Lines <- {1, 3},
  MaxEvents <- 1, Wraps <- FALSE, cols <- t_cols, rows <- t_rows, contents
  <- t_contents, foreground <- t_foreground, cursor <- t_cursor, repainted
  <- t_repainted, scrolled <- t_scrolled, events <- t_events, tcols <-
  t_tcols, trows <- t_trows

Settings == INSTANCE Config WITH
  Groups <- {<<"a">>, <<"b", " ", "1">>}, KeyNames <- {<<"k">>, <<"1">>},
  Tuples <- Spellings, Noise <- NoiseLines, MaxItems <- 2, End <- <<" ">>,
  says <- g_says, left <- g_left, groups <- g_groups, current <- g_current

Bytes == INSTANCE Wire WITH
  WordSize <- 2, Byte <- 32, Seqs <- 3, Tuples <- Messages, MaxSent <- 2,
  next <- w_next, sent <- w_sent, received <- w_received, stream <-
  w_stream, buffer <- w_buffer, ended <- w_ended

Remote == INSTANCE Proxies WITH
  Names <- {"A", "B"}, Objects <- {"o1", "o2", "o3"}, ClassOf <-
  ClassOfProxy, Failing <- {"o3"}, Nil <- Nil, MaxEvents <- 2, MaxDepth <-
  3, SharesWaits <- FALSE, DeletesNotified <- FALSE, classes <- p_classes,
  made <- p_made, dead <- p_dead, pending <- p_pending, arrived <-
  p_arrived, idOf <- p_idOf, objects <- p_objects, toServer <- p_toServer,
  toClient <- p_toClient, stack <- p_stack, created <- p_created, subscribed
  <- p_subscribed, events <- p_events, undefined <- p_undefined

Ticks == INSTANCE ClientTimers WITH
  Timers <- {"t1", "t2"}, Tickers <- {"t2"}, Interval <- 1, Delays <- {0,
  2}, MaxTime <- 3, Nil <- Nil, UsesCancelled <- FALSE, time <- e_time,
  timers <- e_timers, event <- e_event, alive <- e_alive, running <-
  e_running, now <- e_now, ticking <- e_ticking, ticked <- e_ticked, setAt
  <- e_setAt, undefined <- e_undefined

Polls == INSTANCE Descriptors WITH
  FDs <- {3, 4}, Events <- {"read"}, Server <- 5, Nil <- Nil, WhilePolling
  <- {"change"}, fds <- u_fds, list <- u_list, count <- u_count, working <-
  u_working, updating <- u_updating, polled <- u_polled, ready <- u_ready,
  at <- u_at, inCall <- u_inCall, served <- u_served, broken <- u_broken

Adds == INSTANCE Calculator WITH
  Digits <- {"7"}, MaxClicks <- 5, operands <- q_operands, operators <-
  q_operators, current <- q_current, decimalPlace <- q_decimalPlace, display
  <- q_display, aborted <- q_aborted, entered <- q_entered

Owned == INSTANCE ObjectSystem WITH
  Slots <- {"s1", "s2"}, Server <- "server", MaxObjects <- 2, Signals <-
  {"long"}, ShortNames <- {}, Disciplined <- FALSE, live <- o_live, objects
  <- o_objects, nextObject <- o_nextObject, owner <- o_owner, cobjects <-
  o_cobjects, sigs <- o_sigs, csubs <- o_csubs, asked <- o_asked, events <-
  o_events, undefined <- o_undefined

Init ==
  /\ which \in {"keymaps", "keyboard", "modules", "methods", "console", "settings", "wire", "proxies", "ticks", "polls", "calculator",
                "objects"}
  /\ File!Init
  /\ Keys!Init
  /\ Loaded!Init
  /\ Calls!Init
  /\ Terminal!Init
  /\ Settings!Init
  /\ Bytes!Init
  /\ Remote!Init
  /\ Ticks!Init
  /\ Polls!Init
  /\ Adds!Init
  /\ Owned!Init

Next ==
  /\ UNCHANGED which
  /\ \/ which = "keymaps" /\ File!Next /\ UNCHANGED <<k_vars, m_vars, c_vars, t_vars, g_vars, w_vars, p_vars, e_vars, u_vars, q_vars, o_vars>>
     \/ which = "keyboard" /\ Keys!Next /\ UNCHANGED <<f_vars, m_vars, c_vars, t_vars, g_vars, w_vars, p_vars, e_vars, u_vars, q_vars, o_vars>>
     \/ which = "modules" /\ Loaded!Next /\ UNCHANGED <<f_vars, k_vars, c_vars, t_vars, g_vars, w_vars, p_vars, e_vars, u_vars, q_vars, o_vars>>
     \/ which = "methods" /\ Calls!Next /\ UNCHANGED <<f_vars, k_vars, m_vars, t_vars, g_vars, w_vars, p_vars, e_vars, u_vars, q_vars, o_vars>>
     \/ which = "console" /\ Terminal!Next /\ UNCHANGED <<f_vars, k_vars, m_vars, c_vars, g_vars, w_vars, p_vars, e_vars, u_vars, q_vars, o_vars>>
     \/ which = "settings" /\ Settings!Next /\ UNCHANGED <<f_vars, k_vars, m_vars, c_vars, t_vars, w_vars, p_vars, e_vars, u_vars, q_vars, o_vars>>
     \/ which = "wire" /\ Bytes!Next /\ UNCHANGED <<f_vars, k_vars, m_vars, c_vars, t_vars, g_vars, p_vars, e_vars, u_vars, q_vars, o_vars>>
     \/ which = "proxies" /\ Remote!Next /\ UNCHANGED <<f_vars, k_vars, m_vars, c_vars, t_vars, g_vars, w_vars, e_vars, u_vars, q_vars, o_vars>>
     \/ which = "ticks" /\ Ticks!Next /\ UNCHANGED <<f_vars, k_vars, m_vars, c_vars, t_vars, g_vars, w_vars, p_vars, u_vars, q_vars, o_vars>>
     \/ which = "polls" /\ Polls!Next /\ UNCHANGED <<f_vars, k_vars, m_vars, c_vars, t_vars, g_vars, w_vars, p_vars, e_vars, q_vars, o_vars>>
     \/ which = "calculator" /\ Adds!Next /\ UNCHANGED <<f_vars, k_vars, m_vars, c_vars, t_vars, g_vars, w_vars, p_vars, e_vars, u_vars, o_vars>>
     \/ which = "objects" /\ Owned!Next /\ UNCHANGED <<f_vars, k_vars, m_vars, c_vars, t_vars, g_vars, w_vars, p_vars, e_vars, u_vars, q_vars>>

Spec == Init /\ [][Next]_vars

-----------------------------------------------------------------------------
(* Every variable has its type.                                            *)
TypeOK ==
  CASE which = "keymaps" -> File!TypeOK
    [] which = "keyboard" -> Keys!TypeOK
    [] which = "modules" -> Loaded!TypeOK
    [] which = "methods" -> Calls!TypeOK
    [] which = "console" -> Terminal!TypeOK
    [] which = "settings" -> Settings!TypeOK
    [] which = "wire" -> Bytes!TypeOK
    [] which = "proxies" -> Remote!TypeOK
    [] which = "ticks" -> Ticks!TypeOK
    [] which = "polls" -> Polls!TypeOK
    [] which = "calculator" -> Adds!TypeOK
    [] which = "objects" -> Owned!TypeOK

(* A keymap of a file lives as long as something refers to it, and none is *)
(* freed twice (ykm.c); the keyboard is never in a state of an automaton   *)
(* that was rebuilt since, and what was selected is built before the next  *)
(* key, whatever the order of its definitions (ykbmap.c).                  *)
MapsKept ==
  /\ which = "keymaps" => File!RefsCounted
  /\ which = "keyboard" => Keys!MapInUse /\ Keys!BindsLate /\ Keys!OrderFree

(* The chain of themes and the window manager in use are of modules that   *)
(* are loaded (theme.c, windowmanager.c); a property has a value of the    *)
(* type its class gives it (object.c); a console has the cells of its size *)
(* (console.c); what is read of a configuration is what it says            *)
(* (config.c); and objects, their owners and the records of subscriptions  *)
(* agree, whatever the messages of the clients name (object.c, client.c).  *)
ServerAgrees ==
  /\ which = "modules" => Loaded!ThemesLoaded /\ Loaded!ManagerLoaded
  /\ which = "methods" => Calls!PropertiesTyped
  /\ which = "console" => Terminal!SizesAgree
  /\ which = "settings" => Settings!ReadsWhatIsSaid
  /\ which = "objects" => Owned!OwnershipAgrees /\ Owned!RecordsBacked

(* Messages arrive as they were sent, however their bytes are cut          *)
(* (message.c, message.cc); the objects, timers and descriptors of a       *)
(* client are those its connection knows (connection_objects.cc, timer.cc, *)
(* connection_io.cc); and a calculator has an operand for each operator    *)
(* that waits (calculator.cc).                                             *)
ClientAgrees ==
  /\ which = "wire" => Bytes!ReceivedAsSent /\ Bytes!NothingWaits /\ Bytes!CutIsRefused
  /\ which = "proxies" => Remote!NumbersAgree /\ Remote!EventsFound
  /\ which = "ticks" => Ticks!EventsMatch
  /\ which = "polls" => Polls!ListsAgree
  /\ which = "calculator" => Adds!StacksMatch /\ Adds!PlacesRight

(* A method gets the arguments that were sent, as numbers of the same      *)
(* value, and is called with the one of its types that they match          *)
(* (tuple.c, class.c); an update of a file that fails changes nothing that *)
(* others see (ykm.c); a modifier that is pressed in the middle of a       *)
(* sequence of keys leaves the sequence where it was (ykb.c); a timer      *)
(* of a client ticks once in a pass and not too early (timer.cc); what is  *)
(* found ready is served (connection_io.cc); and a calculator shows what   *)
(* was entered (calculator.cc).                                            *)
CallsRight ==
  /\ Calls!ArgumentsKept /\ Calls!RightType
  /\ File!UpdatesAtomically /\ Keys!KeepsSequence
  /\ Ticks!NeverEarly /\ Ticks!OnceAPass /\ Polls!AllServed /\ Adds!ResultRight

(* A cell of a console that changes is repainted, a scroll keeps the lines *)
(* that it does not vacate, and a console that is resized keeps the cells  *)
(* that still have a place (console.c).                                    *)
CellsKept ==
  Terminal!ChangedIsRepainted /\ Terminal!ScrollKeepsLines /\ Terminal!ResizeKeepsCells

(* "Only send a response if one was requested (but always send errors)"    *)
(* (message.c:306, 348).                                                   *)
ErrorsSent == Calls!ErrorsSent
=============================================================================
