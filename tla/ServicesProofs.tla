--------------------------- MODULE ServicesProofs ---------------------------
(***************************************************************************)
(* Proofs about components that MCServices checks, each for itself: the    *)
(* timers, the descriptors and the objects of a client, and the modules,   *)
(* the console and the calls of methods of the server, for any number of   *)
(* each.                                                                   *)
(***************************************************************************)
EXTENDS Descriptors, Integers, TLAPS, FiniteSetTheorems, SequenceTheorems,
        WellFoundedInduction

CONSTANTS
  Timers, Tickers, Interval, Delays, MaxTime, UsesCancelled,   \* ClientTimers
  Themes, Managers, Others, Provides, UnloadsManager           \* Modules

VARIABLES
  time, timers, event, alive, running, now, ticking, ticked, setAt, undefined,
  index, chain, manager, root, stopped

Ticks == INSTANCE ClientTimers
Loaded == INSTANCE Modules

-----------------------------------------------------------------------------
(* ClientTimers: a timer that was cancelled is not used again.  Nil is no  *)
(* time and no event.                                                      *)
Times == 0 .. MaxTime
TimesAreNumbers ==
  /\ Interval \in Nat /\ Delays \subseteq Nat /\ MaxTime \in Nat
  /\ Nil \notin Nat /\ Nil \notin [due : Nat, freed : BOOLEAN]
  /\ Tickers \subseteq Timers /\ Nil \notin Timers

EventRecords == [due : Times, freed : BOOLEAN]

(* The timers that are set, and their entries in the set of events.        *)
Pending == {t \in alive : event[t] # Nil /\ ~event[t].freed}
EntriesOf(S) == {<<event[t].due, t>> : t \in S}

(* An event is due when its timer was set to, and one that was set in this *)
(* pass is not due in it.                                                  *)
DueAsSet ==
  \A t \in Pending : /\ setAt[t].at \in Nat /\ setAt[t].delay \in Nat
                     /\ event[t].due = setAt[t].at + setAt[t].delay
DueLater == now # Nil => now <= time /\ \A t \in Pending \cap ticked : now <= event[t].due

TimerInv ==
  /\ Ticks!TypeOK /\ Ticks!EventsMatch
  /\ setAt \in [Timers -> [at : Nat, delay : Nat] \cup {Nil}]
  /\ DueAsSet /\ DueLater

LEMMA PendingEvent ==
  ASSUME TimerInv, NEW t \in Pending
  PROVE  t \in Timers /\ event[t] \in EventRecords
BY DEF TimerInv, Ticks!TypeOK, Pending, EventRecords, Times

(* An event that is erased takes the entry of its timer along.             *)
LEMMA Erased ==
  ASSUME TimerInv, NEW t \in Timers
  PROVE  /\ t \in Pending => timers \ {<<event[t].due, t>>} = EntriesOf(Pending \ {t})
         /\ t \notin Pending => timers = EntriesOf(Pending \ {t})
<1>1. timers = EntriesOf(Pending)
  BY DEF TimerInv, Ticks!EventsMatch, EntriesOf, Pending
<1> QED BY <1>1 DEF EntriesOf

LEMMA UnsetIs ==
  ASSUME TimerInv, NEW t \in alive, t \notin Ticks!Cancelled
  PROVE  /\ Ticks!Unset(t).timers = EntriesOf(Pending \ {t})
         /\ Ticks!Unset(t).bad = FALSE
         /\ \/ Ticks!Unset(t).event = Nil
            \/ Ticks!Unset(t).event \in EventRecords /\ Ticks!Unset(t).event.freed
<1>1. t \in Timers /\ event[t] \in EventRecords \cup {Nil}
  BY DEF TimerInv, Ticks!TypeOK, EventRecords, Times
<1>2. CASE event[t] = Nil
  <2>1. t \notin Pending
    BY <1>2 DEF Pending
  <2> QED BY <1>1, <1>2, <2>1, Erased DEF Ticks!Unset
<1>3. CASE event[t] # Nil
  <2>1. ~event[t].freed /\ event[t] \in EventRecords
    BY <1>1, <1>3 DEF Ticks!Cancelled, EventRecords
  <2>2. t \in Pending
    BY <1>3, <2>1 DEF Pending
  <2>3. [event[t] EXCEPT !.freed = TRUE] \in EventRecords
        /\ [event[t] EXCEPT !.freed = TRUE].freed
    BY <2>1 DEF EventRecords
  <2>4. event[t].freed = FALSE
    BY <2>1 DEF EventRecords
  <2> QED BY <1>1, <1>3, <2>2, <2>3, <2>4, Erased DEF Ticks!Unset
<1> QED BY <1>2, <1>3

(* A timer that is set has an event and an entry again.                    *)
LEMMA SetGood ==
  ASSUME TimesAreNumbers, TimerInv, NEW t \in alive, NEW delay \in Nat,
         time + delay <= MaxTime, NEW after,
         after.timers = EntriesOf(Pending \ {t}), after.bad = FALSE,
         Ticks!SetTo(t, delay, after),
         alive' = alive, time' = time, now' = now, running' \subseteq Tickers,
         ticking' \in Timers \cup {Nil}, ticked' \in {ticked, ticked \cup {t}}
  PROVE  TimerInv'
<1> DEFINE e == [due |-> time + delay, freed |-> FALSE]
<1>1. /\ time \in Nat /\ time + delay \in Times /\ t \in Timers /\ alive \subseteq Timers
      /\ event \in [Timers -> EventRecords \cup {Nil}]
  BY DEF TimerInv, Ticks!TypeOK, EventRecords, Times, TimesAreNumbers
<1>2. /\ event' = [event EXCEPT ![t] = e]
      /\ setAt' = [setAt EXCEPT ![t] = [at |-> time, delay |-> delay]]
      /\ timers' = EntriesOf(Pending \ {t}) \cup {<<time + delay, t>>}
      /\ undefined' = FALSE
  BY DEF Ticks!SetTo, Ticks!Due
<1>3. e \in EventRecords /\ e # Nil /\ ~e.freed /\ e.due = time + delay
  <2>1. time + delay \in Nat
    BY <1>1
  <2>2. e \in [due : Nat, freed : BOOLEAN]
    BY <2>1
  <2>3. e # Nil
    BY <2>2 DEF TimesAreNumbers
  <2> QED BY <1>1, <2>3 DEF EventRecords
<1> HIDE DEF e
<1>4. /\ event' \in [Timers -> EventRecords \cup {Nil}]
      /\ event'[t] = e /\ \A u \in Timers \ {t} : event'[u] = event[u]
  BY <1>1, <1>2, <1>3
<1>5. Pending' = Pending \cup {t}
  BY <1>1, <1>3, <1>4 DEF Pending
<1>6. timers' = EntriesOf(Pending)'
  BY <1>1, <1>2, <1>3, <1>4, <1>5 DEF EntriesOf, Pending
<1>7. Ticks!EventsMatch'
  BY <1>2, <1>6 DEF Ticks!EventsMatch, EntriesOf, Pending
<1>8. Ticks!TypeOK'
  <2>1. timers \subseteq Times \X Timers
    BY DEF TimerInv, Ticks!TypeOK, Times
  <2>2. EntriesOf(Pending \ {t}) \subseteq timers
    BY <1>1, Erased
  <2>3. <<time + delay, t>> \in Times \X Timers
    BY <1>1
  <2>4. timers' \subseteq Times \X Timers
    BY <1>2, <2>1, <2>2, <2>3
  <2> QED BY <1>4, <2>4 DEF TimerInv, Ticks!TypeOK, Times, EventRecords
<1>9. /\ setAt' \in [Timers -> [at : Nat, delay : Nat] \cup {Nil}]
      /\ setAt'[t] = [at |-> time, delay |-> delay]
      /\ \A u \in Timers \ {t} : setAt'[u] = setAt[u]
  BY <1>1, <1>2 DEF TimerInv
<1>10. DueAsSet'
  BY <1>1, <1>3, <1>4, <1>5, <1>9 DEF TimerInv, DueAsSet, Pending
<1>11. DueLater'
  <2>1. SUFFICES ASSUME now # Nil
                 PROVE  now <= time /\ \A u \in Pending' \cap ticked' : now <= event'[u].due
    BY DEF DueLater
  <2>2. now \in Nat /\ now <= time /\ \A u \in Pending \cap ticked : now <= event[u].due
    BY <2>1 DEF TimerInv, DueLater, Ticks!TypeOK, TimesAreNumbers
  <2>3. now <= time + delay
    BY <1>1, <2>2
  <2>4. ASSUME NEW u \in Pending' \cap ticked'  PROVE now <= event'[u].due
    <3>1. CASE u = t
      BY <1>3, <1>4, <2>3, <3>1
    <3>2. CASE u # t
      BY <1>1, <1>4, <1>5, <2>2, <2>4, <3>2 DEF Pending
    <3> QED BY <3>1, <3>2
  <2> QED BY <2>2, <2>4
<1> QED BY <1>7, <1>8, <1>9, <1>10, <1>11 DEF TimerInv

(* A timer whose event is gone has no entry.                               *)
LEMMA DropGood ==
  ASSUME TimesAreNumbers, TimerInv, NEW t \in Timers, NEW e,
         e = Nil \/ (e \in EventRecords /\ e.freed),
         event' = [event EXCEPT ![t] = e],
         timers' = EntriesOf(Pending \ {t}), undefined' = FALSE,
         alive' \in {alive, alive \ {t}}, time' = time, now' = now,
         setAt' = setAt, running' \subseteq Tickers,
         ticking' \in Timers \cup {Nil}, ticked' \in {ticked, ticked \cup {t}}
  PROVE  TimerInv'
<1>1. alive \subseteq Timers /\ event \in [Timers -> EventRecords \cup {Nil}]
  BY DEF TimerInv, Ticks!TypeOK, EventRecords, Times
<1>2. /\ event' \in [Timers -> EventRecords \cup {Nil}]
      /\ event'[t] = e /\ \A u \in Timers \ {t} : event'[u] = event[u]
  BY <1>1
<1>3. Pending' = Pending \ {t}
  BY <1>1, <1>2 DEF Pending
<1>4. timers' = EntriesOf(Pending)'
  BY <1>1, <1>2, <1>3 DEF EntriesOf, Pending
<1>5. Ticks!EventsMatch'
  BY <1>4 DEF Ticks!EventsMatch, EntriesOf, Pending
<1>6. Ticks!TypeOK'
  <2>1. timers' \subseteq timers
    BY Erased
  <2>2. alive' \subseteq Timers
    BY <1>1
  <2> QED BY <1>2, <2>1, <2>2 DEF TimerInv, Ticks!TypeOK, Times, EventRecords
<1>7. DueAsSet'
  BY <1>1, <1>2, <1>3 DEF TimerInv, DueAsSet, Pending
<1>8. DueLater'
  BY <1>1, <1>2, <1>3 DEF TimerInv, DueLater, Pending
<1> QED BY <1>5, <1>6, <1>7, <1>8 DEF TimerInv

LEMMA MayUseIs ==
  ASSUME ~UsesCancelled, TimerInv, NEW t, Ticks!MayUse(t)
  PROVE  t \in alive /\ t \in Timers /\ t \notin Ticks!Cancelled /\ undefined = FALSE
BY DEF Ticks!MayUse, TimerInv, Ticks!TypeOK, Ticks!EventsMatch

LEMMA SetOrStartGood ==
  ASSUME TimesAreNumbers, ~UsesCancelled, TimerInv, NEW t,
         Ticks!Start(t) \/ \E d \in Delays : Ticks!Set(t, d)
  PROVE  TimerInv'
<1>1. PICK d \in Nat :
        /\ Ticks!MayUse(t) /\ time + d <= MaxTime /\ Ticks!SetTo(t, d, Ticks!Unset(t))
        /\ running' \in {running, running \cup {t}} /\ (running' # running => t \in Tickers)
        /\ UNCHANGED <<time, alive, now, ticking, ticked>>
  BY DEF Ticks!Start, Ticks!Set, Ticks!Due, TimesAreNumbers
<1>2. t \in alive /\ t \notin Ticks!Cancelled
  BY <1>1, MayUseIs
<1>3. Ticks!Unset(t).timers = EntriesOf(Pending \ {t}) /\ Ticks!Unset(t).bad = FALSE
  BY <1>2, UnsetIs
<1>4. running' \subseteq Tickers /\ ticking' \in Timers \cup {Nil}
  BY <1>1 DEF TimerInv, Ticks!TypeOK
<1> QED BY <1>1, <1>2, <1>3, <1>4, SetGood

LEMMA CancelOrDeleteGood ==
  ASSUME TimesAreNumbers, ~UsesCancelled, TimerInv, NEW t, Ticks!Cancel(t) \/ Ticks!Delete(t)
  PROVE  TimerInv'
<1>1. /\ Ticks!MayUse(t) /\ Ticks!Drop(t)
      /\ alive' \in {alive, alive \ {t}} /\ running' \in {running, running \ {t}}
      /\ UNCHANGED <<time, now, ticking, ticked, setAt>>
  BY DEF Ticks!Cancel, Ticks!Delete
<1>2. t \in alive /\ t \in Timers /\ t \notin Ticks!Cancelled
  BY <1>1, MayUseIs
<1> DEFINE e == Ticks!Unset(t).event
<1>3. /\ timers' = EntriesOf(Pending \ {t}) /\ undefined' = FALSE
      /\ event' = [event EXCEPT ![t] = e]
      /\ e = Nil \/ (e \in EventRecords /\ e.freed)
  BY <1>1, <1>2, UnsetIs DEF Ticks!Drop
<1>4. running' \subseteq Tickers /\ ticking' \in Timers \cup {Nil}
  BY <1>1 DEF TimerInv, Ticks!TypeOK
<1> HIDE DEF e
<1> QED BY <1>1, <1>2, <1>3, <1>4, DropGood

(* The first event of the set, when it is due.                             *)
LEMMA TickIs ==
  ASSUME TimerInv, NEW t, NEW p \in Ticks!Earliest, p[2] = t
  PROVE  /\ t \in Pending /\ t \in alive /\ t \in Timers /\ p = <<event[t].due, t>>
         /\ timers \ {p} = EntriesOf(Pending \ {t})
         /\ event[t] # Nil /\ ~event[t].freed
<1>1. timers = EntriesOf(Pending)
  BY DEF TimerInv, Ticks!EventsMatch, EntriesOf, Pending
<1>2. PICK u \in Pending : p = <<event[u].due, u>>
  BY <1>1 DEF Ticks!Earliest, EntriesOf
<1>3. u = t
  BY <1>2
<1> QED BY <1>2, <1>3, PendingEvent, Erased DEF Pending

LEMMA TickGood ==
  ASSUME TimesAreNumbers, TimerInv, NEW t, Ticks!Tick(t)
  PROVE  TimerInv'
<1>1. PICK p \in Ticks!Earliest :
        /\ p[2] = t /\ ticking' = t /\ ticked' = ticked \cup {t}
        /\ LET left == [timers |-> timers \ {p}, bad |-> t \notin alive \/ event[t] = Nil \/ event[t].freed]
           IN IF t \in running
              THEN Ticks!Due(Interval) <= MaxTime /\ Ticks!SetTo(t, Interval, left)
              ELSE /\ timers' = left.timers /\ undefined' = left.bad
                   /\ event' = [event EXCEPT ![t] = Nil] /\ UNCHANGED setAt
        /\ UNCHANGED <<time, alive, running, now>>
  BY DEF Ticks!Tick
<1>2. /\ t \in alive /\ t \in Timers /\ timers \ {p} = EntriesOf(Pending \ {t})
      /\ event[t] # Nil /\ ~event[t].freed
  BY <1>1, TickIs
<1>3. (t \notin alive \/ event[t] = Nil \/ event[t].freed) = FALSE
  BY <1>2
<1>4. running' \subseteq Tickers /\ ticking' \in Timers \cup {Nil}
  BY <1>1, <1>2 DEF TimerInv, Ticks!TypeOK
<1> DEFINE left == [timers |-> timers \ {p}, bad |-> t \notin alive \/ event[t] = Nil \/ event[t].freed]
<1>5. left.timers = EntriesOf(Pending \ {t}) /\ left.bad = FALSE
  BY <1>2, <1>3
<1>6. CASE t \in running
  <2>1. time + Interval <= MaxTime /\ Ticks!SetTo(t, Interval, left) /\ Interval \in Nat
    BY <1>1, <1>6 DEF Ticks!Due, TimesAreNumbers
  <2> HIDE DEF left
  <2> QED BY <1>1, <1>2, <1>4, <1>5, <2>1, SetGood
<1>7. CASE t \notin running
  <2>1. /\ timers' = EntriesOf(Pending \ {t}) /\ undefined' = FALSE
        /\ event' = [event EXCEPT ![t] = Nil] /\ setAt' = setAt
    BY <1>1, <1>5, <1>7
  <2> HIDE DEF left
  <2> QED BY <1>1, <1>2, <1>4, <2>1, DropGood
<1> QED BY <1>6, <1>7

(* The clock, and the beginning and end of a pass and of a function.       *)
LEMMA RestGood ==
  ASSUME TimesAreNumbers, TimerInv,
         \/ Ticks!Advance \/ Ticks!BeginPass \/ Ticks!FunctionReturns \/ Ticks!EndPass
         \/ UNCHANGED Ticks!vars
  PROVE  TimerInv'
<1>1. /\ UNCHANGED <<timers, event, alive, running, setAt, undefined>>
      /\ time' \in {time, time + 1} /\ (time' = time \/ time < MaxTime)
      /\ \/ now' = now /\ ticked' = ticked
         \/ now' = time /\ time' = time /\ ticked' = {}
         \/ now' = Nil
      /\ ticking' \in {ticking, Nil}
  BY DEF Ticks!Advance, Ticks!BeginPass, Ticks!FunctionReturns, Ticks!EndPass, Ticks!vars
<1>2. time \in Nat /\ time' \in Times /\ time <= time' /\ time \in Times
  BY <1>1 DEF TimerInv, Ticks!TypeOK, Times, TimesAreNumbers
<1>3. now' \in Times \cup {Nil}
  BY <1>1, <1>2 DEF TimerInv, Ticks!TypeOK, Times
<1>4. Ticks!TypeOK'
  BY <1>1, <1>2, <1>3 DEF TimerInv, Ticks!TypeOK, Times
<1>5. Ticks!EventsMatch' /\ DueAsSet' /\ Pending' = Pending
  BY <1>1 DEF TimerInv, Ticks!EventsMatch, DueAsSet, Pending
<1>6. DueLater'
  <2>1. CASE now' = now /\ ticked' = ticked
    <3>1. now # Nil => now \in Nat /\ now <= time
      BY DEF TimerInv, DueLater, Ticks!TypeOK
    <3>2. now # Nil => now <= time'
      BY <1>1, <1>2, <3>1
    <3> QED BY <1>1, <1>5, <2>1, <3>2 DEF TimerInv, DueLater
  <2>2. CASE now' = time /\ time' = time /\ ticked' = {}
    BY <1>2, <2>2 DEF DueLater
  <2>3. CASE now' = Nil
    BY <2>3 DEF DueLater
  <2> QED BY <1>1, <2>1, <2>2, <2>3
<1> QED BY <1>1, <1>4, <1>5, <1>6 DEF TimerInv

LEMMA TimerInit ==
  ASSUME TimesAreNumbers, Ticks!Init
  PROVE  TimerInv
<1>1. Pending = {}
  BY DEF Ticks!Init, Pending
<1> QED BY <1>1 DEF Ticks!Init, TimerInv, Ticks!TypeOK, Ticks!EventsMatch, TimesAreNumbers,
             DueAsSet, DueLater, Pending

LEMMA TimerStep ==
  ASSUME TimesAreNumbers, ~UsesCancelled, TimerInv, [Ticks!Next]_Ticks!vars
  PROVE  TimerInv'
BY SetOrStartGood, CancelOrDeleteGood, TickGood, RestGood DEF Ticks!Next

LEMMA TimerInductive ==
  ASSUME TimesAreNumbers, ~UsesCancelled
  PROVE  Ticks!Spec => []TimerInv
BY TimerInit, TimerStep, PTL DEF Ticks!Spec

(* The function of a timer is called when its event is due.                *)
LEMMA Called ==
  ASSUME TimesAreNumbers, TimerInv, [Ticks!Next]_Ticks!vars,
         NEW t \in Timers, ticking # t, ticking' = t
  PROVE  /\ ticking = Nil /\ t \in Pending
         /\ event[t].due < now /\ now <= time
         /\ event[t].due \in Nat /\ now \in Nat /\ time \in Nat /\ now # Nil
<1>1. Ticks!Tick(t)
  <2>1. ASSUME NEW u, Ticks!Tick(u)  PROVE u = t
    BY <2>1 DEF Ticks!Tick
  <2>2. t # Nil
    BY DEF TimesAreNumbers
  <2>3. ~UNCHANGED Ticks!vars
    BY DEF Ticks!vars
  <2> QED BY <2>1, <2>2, <2>3 DEF Ticks!Next, Ticks!Set, Ticks!Start, Ticks!Cancel, Ticks!Delete,
             Ticks!Advance, Ticks!BeginPass, Ticks!FunctionReturns, Ticks!EndPass
<1>2. PICK p \in Ticks!Earliest : p[2] = t /\ p[1] < now
  BY <1>1 DEF Ticks!Tick, Ticks!Ready
<1>3. t \in Pending /\ p = <<event[t].due, t>>
  BY <1>2, TickIs
<1>4. event[t] \in EventRecords
  BY <1>3, PendingEvent
<1>5. now # Nil /\ ticking = Nil
  BY <1>1 DEF Ticks!Tick
<1>6. now <= time /\ now \in Nat /\ time \in Nat
  BY <1>5 DEF TimerInv, DueLater, Ticks!TypeOK, TimesAreNumbers
<1>7. p[1] = event[t].due
  BY <1>3
<1> QED BY <1>2, <1>3, <1>4, <1>5, <1>6, <1>7 DEF EventRecords, Times

(* The timers that are set and the set of their events agree, and no event *)
(* is used after it was deleted, however the functions of timers set,      *)
(* cancel and delete each other (timer.cc, connection_nothreads.cc).       *)
THEOREM TimerEvents ==
  ASSUME TimesAreNumbers, ~UsesCancelled
  PROVE  Ticks!Spec => [](Ticks!TypeOK /\ Ticks!EventsMatch)
<1>1. TimerInv => Ticks!TypeOK /\ Ticks!EventsMatch
  BY DEF TimerInv
<1> QED BY <1>1, TimerInductive, PTL

(* No timer of a client ticks before its time (connection.h:84-118).       *)
THEOREM TimersPunctual ==
  ASSUME TimesAreNumbers, ~UsesCancelled
  PROVE  Ticks!Spec => Ticks!NeverEarly
<1>1. ASSUME TimerInv, [Ticks!Next]_Ticks!vars,
             NEW t \in Timers, ticking # t, ticking' = t
      PROVE  time >= setAt[t].at + setAt[t].delay
  <2>1. t \in Pending /\ event[t].due < now /\ now <= time
        /\ event[t].due \in Nat /\ now \in Nat /\ time \in Nat
    BY <1>1, Called
  <2>2. event[t].due = setAt[t].at + setAt[t].delay
    BY <1>1, <2>1 DEF TimerInv, DueAsSet
  <2> QED BY <2>1, <2>2
<1>2. TimerInv /\ [Ticks!Next]_Ticks!vars =>
        [\A t \in Timers : ticking # t /\ ticking' = t /\ setAt[t] # Nil =>
           time >= setAt[t].at + setAt[t].delay]_Ticks!vars
  BY <1>1
<1> QED BY <1>2, TimerInductive, PTL DEF Ticks!Spec, Ticks!NeverEarly

(* A timer ticks once in a pass, although its function may set it to 0 and *)
(* a ticker sets itself: the pass ends (doDispatch).                       *)
THEOREM TimersOnce ==
  ASSUME TimesAreNumbers, ~UsesCancelled
  PROVE  Ticks!Spec => Ticks!OnceAPass
<1>1. ASSUME TimerInv, [Ticks!Next]_Ticks!vars,
             NEW t \in Timers, ticking = Nil, ticking' = t
      PROVE  t \notin ticked
  <2>1. ticking # t
    BY <1>1 DEF TimesAreNumbers
  <2>2. t \in Pending /\ event[t].due < now /\ now # Nil
        /\ event[t].due \in Nat /\ now \in Nat
    BY <1>1, <2>1, Called
  <2>3. t \in ticked => now <= event[t].due
    BY <1>1, <2>2 DEF TimerInv, DueLater
  <2> QED BY <2>2, <2>3
<1>2. TimerInv /\ [Ticks!Next]_Ticks!vars =>
        [\A t \in Timers : ticking = Nil /\ ticking' = t => t \notin ticked]_Ticks!vars
  BY <1>1
<1> QED BY <1>2, TimerInductive, PTL DEF Ticks!Spec, Ticks!OnceAPass

-----------------------------------------------------------------------------
(* Descriptors: descriptors are numbers, and while the connection polls    *)
(* the masks of some may be changed, but none registered or taken away.    *)
DescriptorsAreNumbers ==
  /\ FDs \subseteq Nat /\ IsFiniteSet(FDs) /\ Server \notin FDs
  /\ Nil \notin Masks /\ Nil \notin {"register", "unregister", "change"}

OnlyChanges == WhilePolling \subseteq {"change"}

(* Every number but the last n - 1 has its place among n: the list of poll *)
(* has an entry for each descriptor that is registered.                    *)
LEMMA EveryPlace ==
  ASSUME NEW S, S \subseteq Nat, IsFiniteSet(S), NEW i \in 1 .. Cardinality(S)
  PROVE  \E d \in S : Cardinality({e \in S : e < d}) = i - 1
<1> PICK n \in Nat : n = Cardinality(S)
  BY FS_CardinalityType
<1> DEFINE below(d) == {e \in S : e < d}
           k == i - 1
           f == [d \in S |-> Cardinality(below(d))]
           others == (0 .. n - 1) \ {k}
<1>1. ASSUME NEW d \in S
      PROVE  IsFiniteSet(below(d)) /\ Cardinality(below(d)) \in 0 .. n - 1
  <2>1. below(d) \in SUBSET (S \ {d})
    BY <1>1
  <2>2. IsFiniteSet(S \ {d}) /\ Cardinality(S \ {d}) = n - 1
    BY FS_RemoveElement
  <2>3. IsFiniteSet(below(d)) /\ Cardinality(below(d)) <= n - 1
    <3> HIDE DEF below
    <3> QED BY <2>1, <2>2, FS_Subset
  <2>4. Cardinality(below(d)) \in Nat
    <3> HIDE DEF below
    <3> QED BY <2>3, FS_CardinalityType
  <2> HIDE DEF below
  <2> QED BY <2>3, <2>4
<1>2. ASSUME NEW c \in S, NEW d \in S, c < d
      PROVE  Cardinality(below(c)) # Cardinality(below(d))
  <2>1. below(c) \in SUBSET below(d)
    <3>1. ASSUME NEW e \in S, e < c  PROVE e < d
      <4>1. c \in Nat /\ d \in Nat /\ e \in Nat
        BY <1>2, <3>1
      <4> QED BY <1>2, <3>1, <4>1
    <3> QED BY <3>1
  <2>2. c \in below(d) /\ c \notin below(c)
    BY <1>2
  <2>3. IsFiniteSet(below(d))
    BY <1>1
  <2> HIDE DEF below
  <2> QED BY <2>1, <2>2, <2>3, FS_Subset
<1>3. SUFFICES ASSUME \A d \in S : Cardinality(below(d)) # k  PROVE FALSE
  OBVIOUS
<1>4. f \in [S -> others]
  <2> HIDE DEF below
  <2> QED BY <1>1, <1>3
<1>5. IsFiniteSet(others) /\ Cardinality(others) = n - 1
  <2>1. 0 \in Int /\ n - 1 \in Int /\ 0 <= n - 1 /\ n - 1 - 0 + 1 = n
    OBVIOUS
  <2> DEFINE I == 0 .. n - 1
  <2>2. IsFiniteSet(I) /\ Cardinality(I) = n
    BY <2>1, FS_Interval
  <2>3. k \in I
    OBVIOUS
  <2> HIDE DEF I, k
  <2>4. IsFiniteSet(I \ {k}) /\ Cardinality(I \ {k}) = n - 1
    BY <2>2, <2>3, FS_RemoveElement
  <2> QED BY <2>4 DEF I
<1>6. Cardinality(others) < Cardinality(S)
  BY <1>5
<1>7. PICK x \in S, y \in S : x # y /\ f[x] = f[y]
  <2> HIDE DEF f, others
  <2> QED BY <1>4, <1>5, <1>6, FS_PigeonHole
<1>8. x < y \/ y < x
  BY <1>7
<1>9. Cardinality(below(x)) = Cardinality(below(y))
  <2> HIDE DEF below
  <2> QED BY <1>7
<1> HIDE DEF below
<1> QED BY <1>2, <1>7, <1>8, <1>9

(* A list that poll can be given: what is registered, and the server.      *)
Registered == Cardinality(registered)
Masked == Masks \cup {{"read"}}
PollEntries == [fd : FDs \cup {Server}, events : Masked]
Watched(l) ==
  /\ l \in Seq(PollEntries) /\ Len(l) = Registered + 1
  /\ \A i \in 1 .. Len(l) : l[i].fd \in registered \cup {Server}

LEMMA RegisteredIs ==
  ASSUME DescriptorsAreNumbers
  PROVE  /\ IsFiniteSet(registered) /\ registered \subseteq FDs
         /\ Registered \in Nat /\ Registered <= Cardinality(FDs)
         /\ Cardinality(FDs) \in Nat
<1>1. registered \in SUBSET FDs
  BY DEF registered
<1> QED BY <1>1, FS_Subset, FS_CardinalityType DEF DescriptorsAreNumbers, Registered

LEMMA EntriesAreWatched ==
  ASSUME DescriptorsAreNumbers, fds \in [FDs -> Masks \cup {Nil}]
  PROVE  Watched(Entries) /\ Len(Entries) = Registered + 1
<1> DEFINE R == registered
           O == Ordered
           place(i) == CHOOSE d \in R : Cardinality(Below(d)) = i - 1
<1> PICK n \in Nat : n = Registered
  BY RegisteredIs
<1>1. IsFiniteSet(R) /\ R \subseteq FDs /\ R \subseteq Nat
  BY RegisteredIs DEF DescriptorsAreNumbers
<1>2. n = Cardinality(R)
  BY DEF Registered
<1>3. O = [i \in 1 .. Cardinality(R) |-> place(i)]
  BY DEF Ordered
<1>a. \A d \in R : fds[d] \in Masks
  BY DEF registered
<1>b. ASSUME NEW i \in 1 .. n  PROVE place(i) \in R
  <2>1. i \in 1 .. Cardinality(R)
    BY <1>2
  <2>2. \E d \in R : Cardinality({e \in R : e < d}) = i - 1
    <3> HIDE DEF R
    <3> QED BY <1>1, <2>1, EveryPlace
  <2>3. \E d \in R : Cardinality(Below(d)) = i - 1
    BY <2>2 DEF Below
  <2> HIDE DEF R
  <2> QED BY <2>3
<1> HIDE DEF R, O, place
<1>4. O \in [1 .. n -> R]
  BY <1>2, <1>3, <1>b
<1>5. O \in Seq(R) /\ Len(O) = n
  BY <1>4
<1> DEFINE a == [i \in 1 .. n |-> [fd |-> O[i], events |-> fds[O[i]]]]
           b == <<[fd |-> Server, events |-> {"read"}]>>
<1>6. ASSUME NEW i \in 1 .. n
      PROVE  a[i] \in PollEntries /\ a[i].fd \in R
  <2>1. O[i] \in R /\ O[i] \in FDs /\ fds[O[i]] \in Masks
    BY <1>1, <1>4, <1>a
  <2>2. a[i] = [fd |-> O[i], events |-> fds[O[i]]]
    OBVIOUS
  <2>3. fds[O[i]] \in Masked
    BY <2>1 DEF Masked
  <2> HIDE DEF a
  <2> QED BY <2>1, <2>2, <2>3 DEF PollEntries
<1>7. a \in Seq(PollEntries) /\ Len(a) = n
  <2>1. a \in [1 .. n -> PollEntries]
    BY <1>6
  <2> HIDE DEF a
  <2> QED BY <2>1
<1>8. b \in Seq(PollEntries) /\ Len(b) = 1 /\ b[1].fd = Server
  <2>1. {"read"} \in Masked
    BY DEF Masked
  <2>2. [fd |-> Server, events |-> {"read"}] \in PollEntries
    BY <2>1 DEF PollEntries
  <2> QED BY <2>2
<1>9. Entries = a \o b
  <2>1. Entries = [i \in 1 .. Len(O) |-> [fd |-> O[i], events |-> fds[O[i]]]] \o b
    BY DEF Entries, O
  <2> QED BY <1>5, <2>1
<1> HIDE DEF a, b
<1> DEFINE E == Entries
<1>10. E \in Seq(PollEntries) /\ Len(E) = n + 1 /\ DOMAIN E = 1 .. n + 1
  <2>1. a \o b \in Seq(PollEntries) /\ Len(a \o b) = n + 1
    <3>1. a \in Seq(PollEntries) /\ b \in Seq(PollEntries)
      BY <1>7, <1>8
    <3>2. a \o b \in Seq(PollEntries) /\ Len(a \o b) = Len(a) + Len(b)
      BY <3>1, ConcatProperties
    <3> QED BY <1>7, <1>8, <3>2
  <2> QED BY <1>9, <2>1
<1>11. ASSUME NEW i \in 1 .. n + 1
       PROVE  E[i].fd \in R \cup {Server}
  <2>1. CASE i \in 1 .. n
    <3>1. E[i] = a[i]
      BY <1>7, <1>8, <1>9, <2>1
    <3> QED BY <1>6, <2>1, <3>1
  <2>2. CASE i = n + 1
    <3>1. (a \o b)[n + 1] = b[1]
      <4>1. /\ n + 1 \in 1 .. Len(a) + Len(b) /\ ~(n + 1 <= Len(a))
            /\ n + 1 - Len(a) = 1
        BY <1>7, <1>8
      <4> QED BY <1>7, <1>8, <4>1, ConcatProperties
    <3> QED BY <1>8, <1>9, <2>2, <3>1
  <2> QED BY <2>1, <2>2
<1> HIDE DEF E
<1>12. Len(E) = Registered + 1 /\ \A i \in 1 .. Len(E) : E[i].fd \in R \cup {Server}
  BY <1>10, <1>11
<1> QED BY <1>10, <1>12 DEF Watched, E, R

(* The lists are those that updateFDList made from what is registered, but *)
(* for an operation that has still to call it; and while the connection    *)
(* polls it has a list with as many entries, each of which has its handler.*)
Lists ==
  /\ fds \in [FDs -> Masks \cup {Nil}]
  /\ updating \in {"register", "unregister", "change", Nil}
  /\ list \in Seq(PollEntries) /\ count = Len(list) /\ count \in 1 .. Cardinality(FDs) + 1
  /\ updating = Nil => list = Entries
  /\ updating \in {Nil, "change"} => Watched(list)

(* Those of the first i entries that poll found ready.                     *)
ReadyUpTo(i) == {j \in 1 .. Len(polled) : j <= i /\ polled[j].fd # Server /\ ready[j] # {}}

Passing ==
  /\ {working, inCall} \subseteq BOOLEAN /\ broken = FALSE
  /\ polled = Nil => at = 0
  /\ polled # Nil => /\ updating \in {Nil, "change"} /\ Watched(polled)
                     /\ at \in 0 .. count + 1
                     /\ ready = Nil => at \in {0, 1} /\ served = {}
  /\ inCall => polled # Nil /\ ready # Nil /\ at <= count
  /\ polled # Nil /\ ready # Nil =>
       /\ at >= 1
       /\ inCall => served = ReadyUpTo(at)
       /\ ~inCall => served = ReadyUpTo(at - 1)

PollInv == Lists /\ Passing

LEMMA Lengths ==
  ASSUME DescriptorsAreNumbers, PollInv, polled # Nil
  PROVE  /\ count = Registered + 1 /\ Len(polled) = count /\ count \in Nat \ {0}
         /\ Watched(polled) /\ Watched(list)
BY RegisteredIs DEF PollInv, Lists, Passing, Watched

(* An operation that is begun while the connection polls changes a mask.   *)
LEMMA PutGood ==
  ASSUME DescriptorsAreNumbers, OnlyChanges, PollInv, NEW d \in FDs,
         unregisterFD(d) \/ \E m \in Masks : registerFD(d, m) \/ changeFD(d, m)
  PROVE  PollInv'
<1>1. PICK op \in {"register", "unregister", "change"}, m \in Masks \cup {Nil} :
        /\ May(op) /\ Put(op, d, m) /\ (op = "change" => d \in registered /\ m \in Masks)
  BY DEF registerFD, unregisterFD, changeFD, Put
<1>2. /\ updating = Nil /\ updating' = op /\ fds' = [fds EXCEPT ![d] = m]
      /\ UNCHANGED <<list, count, working, polled, ready, at, inCall, served, broken>>
      /\ (op # "change" => polled = Nil)
  BY <1>1 DEF Put, May, OnlyChanges, pollVars
<1>3. fds \in [FDs -> Masks \cup {Nil}] /\ fds' \in [FDs -> Masks \cup {Nil}]
  BY <1>2 DEF PollInv, Lists
<1>4. ASSUME op = "change"  PROVE registered' = registered
  <2>1. m # Nil /\ fds[d] # Nil
    BY <1>1, <1>4 DEF registered, DescriptorsAreNumbers
  <2>2. fds'[d] # Nil /\ \A e \in FDs \ {d} : fds'[e] = fds[e]
    BY <1>2, <1>3, <2>1
  <2> QED BY <2>1, <2>2 DEF registered
<1>5. op # Nil
  BY DEF DescriptorsAreNumbers
<1>6. Lists'
  <2>1. op = "change" => Watched(list)'
    BY <1>2, <1>4 DEF PollInv, Lists, Watched, Registered
  <2> QED BY <1>2, <1>3, <1>5, <2>1 DEF PollInv, Lists
<1>7. Passing'
  <2>1. polled # Nil => op = "change" /\ Watched(polled)'
    BY <1>2, <1>4 DEF PollInv, Passing, Watched, Registered
  <2> QED BY <1>2, <2>1 DEF PollInv, Passing, ReadyUpTo
<1> QED BY <1>6, <1>7 DEF PollInv

(* The new list is as long as the old one while the connection polls.      *)
LEMMA UpdateGood ==
  ASSUME DescriptorsAreNumbers, PollInv, updateFDList
  PROVE  PollInv'
<1>1. /\ updating' = Nil /\ list' = Entries /\ count' = Len(Entries) /\ working' = TRUE
      /\ UNCHANGED <<fds, polled, ready, at, inCall, served, broken>>
  BY DEF updateFDList, Count, pollVars
<1>2. /\ fds \in [FDs -> Masks \cup {Nil}]
      /\ Watched(Entries) /\ Len(Entries) = Registered + 1
  BY EntriesAreWatched DEF PollInv, Lists
<1>3. Entries' = Entries /\ registered' = registered /\ Registered' = Registered
  BY <1>1 DEF Entries, Ordered, Below, registered, Registered
<1>4. Watched(list)' /\ list' \in Seq(PollEntries)
  BY <1>1, <1>2, <1>3 DEF Watched
<1>5. count' \in 1 .. Cardinality(FDs) + 1
  BY <1>1, <1>2, RegisteredIs
<1>6. Lists'
  BY <1>1, <1>2, <1>3, <1>4, <1>5 DEF Lists
<1>7. polled # Nil => count' = count /\ Watched(polled)'
  BY <1>1, <1>2, <1>3, Lengths DEF Watched
<1>8. Passing'
  BY <1>1, <1>7 DEF PollInv, Passing, ReadyUpTo
<1> QED BY <1>6, <1>8 DEF PollInv

(* What goes on in a pass leaves the lists alone.                          *)
LEMMA ListsStay ==
  ASSUME Lists, UNCHANGED <<fds, list, count, updating>>
  PROVE  Lists' /\ \A l : Watched(l) => Watched(l)'
<1>1. registered' = registered
  BY DEF registered
<1>2. Registered' = Registered
  BY <1>1 DEF Registered
<1>3. Entries' = Entries
  BY <1>1 DEF Entries, Ordered, Below
<1>4. ASSUME NEW l  PROVE Watched(l) => Watched(l)'
  BY <1>1, <1>2 DEF Watched
<1>5. Watched(list) => Watched(list)'
  BY <1>1, <1>2 DEF Watched
<1>6. Lists'
  BY <1>3, <1>5 DEF Lists
<1> QED BY <1>4, <1>6

LEMMA ClaimGood ==
  ASSUME DescriptorsAreNumbers, OnlyChanges, PollInv, Claim
  PROVE  PollInv'
<1>1. /\ polled = Nil /\ updating \in {Nil, "change"} /\ working' = FALSE
      /\ polled' = SubSeq(list, 1, count) /\ ready' = Nil /\ at' = 0 /\ served' = {}
      /\ UNCHANGED <<fds, list, count, updating, inCall, broken>>
  BY DEF Claim, OnlyChanges
<1>2. Watched(list) /\ count = Len(list) /\ list \in Seq(PollEntries)
      /\ count \in 1 .. Cardinality(FDs) + 1 /\ count \in Nat
  BY <1>1, RegisteredIs DEF PollInv, Lists
<1>3. polled' = list
  BY <1>1, <1>2, SubSeqFull
<1>4. Lists'
  BY <1>1, ListsStay DEF PollInv
<1>5. Watched(polled)'
  BY <1>1, <1>2, <1>3 DEF Watched, Registered, registered
<1>6. inCall = FALSE
  BY <1>1 DEF PollInv, Passing
<1>7. at' \in 0 .. count' + 1 /\ at' \in {0, 1}
  BY <1>1, <1>2
<1>8. inCall' = FALSE /\ working' = FALSE /\ broken' = FALSE
  BY <1>1, <1>6 DEF PollInv, Passing
<1>9. updating' \in {Nil, "change"} /\ ready' = Nil /\ served' = {} /\ at' = 0
  BY <1>1
<1>10. Passing'
  BY <1>5, <1>7, <1>8, <1>9 DEF Passing
<1> QED BY <1>4, <1>10 DEF PollInv

LEMMA PollGood ==
  ASSUME DescriptorsAreNumbers, PollInv, Poll
  PROVE  PollInv'
<1>1. /\ polled # Nil /\ ready = Nil /\ at' = 1
      /\ UNCHANGED <<fds, list, count, working, updating, polled, inCall, served, broken>>
  BY DEF Poll
<1>2. Lists' /\ Watched(polled)'
  BY <1>1, ListsStay, Lengths DEF PollInv
<1>3. served = {} /\ inCall = FALSE
  BY <1>1 DEF PollInv, Passing
<1>4. ReadyUpTo(0)' = {}
  BY DEF ReadyUpTo
<1>5. count \in Nat \ {0}
  BY <1>1, Lengths
<1>6. at' - 1 = 0
  BY <1>1
<1>7. Passing'
  BY <1>1, <1>2, <1>3, <1>4, <1>5, <1>6 DEF PollInv, Passing
<1> QED BY <1>2, <1>7 DEF PollInv

(* The loop of doPollIO stays within the list it has, and the function of  *)
(* an entry is that of a descriptor that is registered still.              *)
LEMMA VisitGood ==
  ASSUME DescriptorsAreNumbers, PollInv, Visit
  PROVE  PollInv'
<1>1. /\ polled # Nil /\ ready # Nil /\ inCall = FALSE /\ at <= count
      /\ UNCHANGED <<fds, list, count, working, updating, polled, ready>>
  BY DEF Visit, Looping, PollInv, Passing
<1>2. /\ at \in 1 .. Len(polled) /\ at \in Nat /\ at >= 1 /\ served = ReadyUpTo(at - 1)
      /\ count = Len(polled) /\ broken = FALSE /\ count \in Nat
  <2>1. count = Len(polled) /\ count \in Nat
    BY <1>1, Lengths
  <2>2. at \in 0 .. count + 1 /\ at >= 1 /\ served = ReadyUpTo(at - 1) /\ broken = FALSE
    BY <1>1 DEF PollInv, Passing
  <2> QED BY <1>1, <2>1, <2>2
<1>3. ~(at > Len(polled)) /\ Watched(polled)
  BY <1>1, <1>2, Lengths
<1>4. Lists' /\ Watched(polled)'
  BY <1>1, <1>3, ListsStay DEF PollInv
<1>5. ReadyUpTo(at) = IF polled[at].fd = Server \/ ready[at] = {} THEN ReadyUpTo(at - 1)
                      ELSE ReadyUpTo(at - 1) \cup {at}
  <2>1. \A j \in 1 .. Len(polled) : j <= at <=> (j <= at - 1 \/ j = at)
    BY <1>2
  <2> QED BY <1>2, <2>1 DEF ReadyUpTo
<1>6. \A i : ReadyUpTo(i)' = {j \in 1 .. Len(polled) : j <= i' /\ polled[j].fd # Server /\ ready[j] # {}}
  BY <1>1 DEF ReadyUpTo
<1>7. CASE polled[at].fd = Server \/ ready[at] = {}
  <2>1. at' = at + 1 /\ UNCHANGED <<broken, inCall, served>>
    BY <1>3, <1>7 DEF Visit
  <2>2. at' - 1 = at /\ at' >= 1 /\ at' \in 0 .. count + 1
    BY <1>1, <1>2, <2>1
  <2>3. served' = ReadyUpTo(at' - 1)
    BY <1>2, <1>5, <1>7, <2>1, <2>2
  <2>4. ReadyUpTo(at - 1)' = ReadyUpTo(at' - 1)
    BY <1>1 DEF ReadyUpTo
  <2> QED BY <1>1, <1>2, <1>4, <2>1, <2>2, <2>3, <2>4 DEF PollInv, Passing
<1>8. CASE ~(polled[at].fd = Server \/ ready[at] = {})
  <2>1. /\ broken' = (fds[polled[at].fd] = Nil) /\ inCall' = ~broken'
        /\ served' = served \cup {at} /\ at' = at
    BY <1>3, <1>8 DEF Visit
  <2>2. polled[at].fd \in registered
    BY <1>2, <1>3, <1>8 DEF Watched
  <2>3. (fds[polled[at].fd] = Nil) = FALSE
    BY <2>2 DEF registered
  <2>4. broken' = FALSE /\ inCall' = TRUE
    BY <2>1, <2>3
  <2>5. served' = ReadyUpTo(at)
    BY <1>2, <1>5, <1>8, <2>1
  <2>6. ReadyUpTo(at)' = ReadyUpTo(at)
    BY <1>1, <2>1 DEF ReadyUpTo
  <2> QED BY <1>1, <1>2, <1>4, <2>1, <2>4, <2>5, <2>6 DEF PollInv, Passing
<1> QED BY <1>7, <1>8

LEMMA ReturnGood ==
  ASSUME DescriptorsAreNumbers, PollInv, CallReturns
  PROVE  PollInv'
<1>1. /\ inCall = TRUE /\ inCall' = FALSE /\ at' = at + 1
      /\ polled # Nil /\ ready # Nil /\ at <= count
      /\ UNCHANGED <<fds, list, count, working, updating, polled, ready, served, broken>>
  BY DEF CallReturns, PollInv, Passing
<1>2. /\ Watched(polled) /\ served = ReadyUpTo(at) /\ at \in 0 .. count + 1 /\ count \in Nat
  BY <1>1, Lengths DEF PollInv, Passing
<1>3. Lists' /\ Watched(polled)'
  BY <1>1, <1>2, ListsStay DEF PollInv
<1>4. at' - 1 = at /\ at' >= 1 /\ at' \in 0 .. count + 1
  BY <1>1, <1>2
<1>5. ReadyUpTo(at - 1)' = ReadyUpTo(at)
  BY <1>1, <1>4 DEF ReadyUpTo
<1> QED BY <1>1, <1>2, <1>3, <1>4, <1>5 DEF PollInv, Passing

LEMMA ReleaseGood ==
  ASSUME DescriptorsAreNumbers, PollInv, Release
  PROVE  PollInv'
<1>1. /\ polled' = Nil /\ ready' = Nil /\ at' = 0 /\ working' = TRUE /\ inCall = FALSE
      /\ UNCHANGED <<fds, list, count, updating, inCall, served, broken>>
  BY DEF Release, Looping, PollInv, Passing
<1>2. Lists'
  BY <1>1, ListsStay DEF PollInv
<1> QED BY <1>1, <1>2 DEF PollInv, Passing

LEMMA PollStutter ==
  ASSUME PollInv, UNCHANGED vars
  PROVE  PollInv'
<1>1. Lists' /\ \A l : Watched(l) => Watched(l)'
  BY ListsStay DEF PollInv, vars, pollVars
<1> QED BY <1>1 DEF PollInv, Passing, ReadyUpTo, vars, pollVars, Watched, Registered, registered

LEMMA PollInit ==
  ASSUME DescriptorsAreNumbers, Init
  PROVE  PollInv
<1>1. fds \in [FDs -> Masks \cup {Nil}] /\ registered = {}
  BY DEF Init, registered
<1>2. Registered = 0
  BY <1>1, FS_EmptySet DEF Registered
<1>3. Watched(Entries) /\ Len(Entries) = 1
  BY <1>1, <1>2, EntriesAreWatched
<1>4. Cardinality(FDs) \in Nat
  BY RegisteredIs
<1>5. list = Entries /\ count = 1 /\ updating = Nil
  BY DEF Init
<1>6. count \in 1 .. Cardinality(FDs) + 1
  BY <1>4, <1>5
<1>7. Lists
  BY <1>1, <1>3, <1>5, <1>6 DEF Lists, Watched
<1>8. Passing
  BY DEF Init, Passing
<1> QED BY <1>7, <1>8 DEF PollInv

LEMMA PollStep ==
  ASSUME DescriptorsAreNumbers, OnlyChanges, PollInv, [Next]_vars
  PROVE  PollInv'
BY PutGood, UpdateGood, ClaimGood, PollGood, VisitGood, ReturnGood, ReleaseGood, PollStutter DEF Next

LEMMA PollInductive ==
  ASSUME DescriptorsAreNumbers, OnlyChanges
  PROVE  Spec => []PollInv
BY PollInit, PollStep, PTL DEF Spec

(* Between two operations poll is given what is registered and the server, *)
(* and the length of that list, and a pass in which masks are changed, by  *)
(* a function or another thread, reads nothing beyond its list and calls   *)
(* no function that was taken away (connection_io.cc).                     *)
THEOREM PollLists ==
  ASSUME DescriptorsAreNumbers, OnlyChanges
  PROVE  Spec => [](TypeOK /\ ListsAgree)
<1>1. ASSUME PollInv  PROVE TypeOK
  <2>1. count \in 1 .. Cardinality(FDs) + 1 /\ Cardinality(FDs) \in Nat
    BY <1>1, RegisteredIs DEF PollInv, Lists
  <2>2. at \in 0 .. Cardinality(FDs) + 2
    <3>1. at \in 0 .. count + 1
      BY <1>1, <2>1 DEF PollInv, Passing
    <3> QED BY <2>1, <3>1
  <2>3. \A i \in 1 .. Len(list) : list[i].fd \in FDs \cup {Server}
    <3>1. \A i \in 1 .. Len(list) : list[i] \in PollEntries
      BY <1>1 DEF PollInv, Lists
    <3> QED BY <3>1 DEF PollEntries
  <2> QED BY <1>1, <2>1, <2>2, <2>3 DEF PollInv, Lists, Passing, TypeOK
<1>2. PollInv => ListsAgree
  BY DEF PollInv, Lists, Passing, ListsAgree
<1> QED BY <1>1, <1>2, PollInductive, PTL

(* A pass calls the function of everything that poll found ready, although *)
(* masks change and lists are made anew while it goes on.                  *)
THEOREM PollServes ==
  ASSUME DescriptorsAreNumbers, OnlyChanges
  PROVE  Spec => AllServed
<1>1. ASSUME PollInv, [Next]_vars, polled # Nil, polled' = Nil
      PROVE  served = {i \in 1 .. Len(polled) : polled[i].fd # Server /\ ready[i] # {}}
  <2>1. Release
    BY <1>1 DEF Next, registerFD, unregisterFD, changeFD, Put, updateFDList, Claim, Poll, Visit,
             CallReturns, vars, pollVars
  <2>2. ready # Nil /\ inCall = FALSE /\ at > count
    BY <1>1, <2>1 DEF Release, Looping, PollInv, Passing
  <2>3. count = Len(polled) /\ count \in Nat
    BY <1>1, Lengths
  <2>4. at \in 0 .. count + 1 /\ served = ReadyUpTo(at - 1)
    BY <1>1, <2>2 DEF PollInv, Passing
  <2>5. at - 1 = Len(polled)
    BY <2>2, <2>3, <2>4
  <2>6. served = ReadyUpTo(Len(polled))
    BY <2>4, <2>5
  <2>7. \A j \in 1 .. Len(polled) : j <= Len(polled)
    BY <2>3
  <2> QED BY <2>6, <2>7 DEF ReadyUpTo
<1>2. PollInv /\ [Next]_vars =>
        [polled # Nil /\ polled' = Nil =>
           served = {i \in 1 .. Len(polled) : polled[i].fd # Server /\ ready[i] # {}}]_vars
  BY <1>1
<1> QED BY <1>2, PollInductive, PTL DEF Spec, AllServed

-----------------------------------------------------------------------------
(* Modules: a module is of one kind.                                       *)
Kinds ==
  /\ Themes \cap Managers = {} /\ Themes \cap Others = {} /\ Managers \cap Others = {}
  /\ Nil \notin Themes \cup Managers

(* A sequence without its place i, and one with x before it.               *)
LEMMA Cut ==
  ASSUME NEW S, NEW s \in Seq(S), NEW i \in 1 .. Len(s)
  PROVE  LET c == SubSeq(s, 1, i - 1) \o SubSeq(s, i + 1, Len(s))
         IN /\ c \in Seq(S) /\ Len(c) = Len(s) - 1
            /\ \A j \in 1 .. Len(s) - 1 : c[j] = IF j < i THEN s[j] ELSE s[j + 1]
<1> PICK n \in Nat : n = Len(s)
  OBVIOUS
<1> DEFINE a == SubSeq(s, 1, i - 1)
           b == SubSeq(s, i + 1, n)
<1>1. /\ a \in Seq(S) /\ Len(a) = i - 1 /\ \A j \in 1 .. i - 1 : a[j] = s[j]
  OBVIOUS
<1>2. /\ b \in Seq(S) /\ Len(b) = n - i /\ \A j \in 1 .. n - i : b[j] = s[i + j]
  OBVIOUS
<1> HIDE DEF a, b
<1>3. a \o b \in Seq(S) /\ Len(a \o b) = n - 1
  BY <1>1, <1>2
<1>4. ASSUME NEW j \in 1 .. n - 1
      PROVE  (a \o b)[j] = IF j < i THEN s[j] ELSE s[j + 1]
  <2>1. CASE j < i
    BY <1>1, <1>2, <2>1
  <2>2. CASE ~(j < i)
    <3>1. (a \o b)[j] = b[j - (i - 1)]
      BY <1>1, <1>2, <2>2
    <3>2. j - (i - 1) \in 1 .. n - i /\ i + (j - (i - 1)) = j + 1
      BY <2>2
    <3> QED BY <1>2, <2>2, <3>1, <3>2
  <2> QED BY <2>1, <2>2
<1> QED BY <1>3, <1>4 DEF a, b

LEMMA Prefixed ==
  ASSUME NEW S, NEW s \in Seq(S), NEW x \in S
  PROVE  LET c == <<x>> \o s
         IN /\ c \in Seq(S) /\ Len(c) = Len(s) + 1
            /\ c[1] = x /\ \A i \in 1 .. Len(s) : c[i + 1] = s[i]
OBVIOUS

(* A set of places has a first one.                                        *)
LEMMA FirstIs ==
  ASSUME NEW S, S \subseteq Nat, S # {}
  PROVE  Loaded!First(S) \in S
<1> DEFINE R == StrictSubsetOrdering(Nat)
           F == FiniteSubsetsOf(Nat)
           T == {0 .. x : x \in S}
<1>1. IsWellFoundedOn(R, F)
  BY FS_StrictSubsetOrderingWellFounded
<1>2. T \subseteq F
  <2>1. SUFFICES ASSUME NEW x \in S  PROVE 0 .. x \in F
    OBVIOUS
  <2>2. 0 .. x \in SUBSET Nat
    OBVIOUS
  <2>3. IsFiniteSet(0 .. x)
    BY FS_Interval
  <2> QED BY <2>2, <2>3 DEF FiniteSubsetsOf
<1>3. T # {}
  OBVIOUS
<1>4. PICK t \in T : \A u \in T : ~(<<u, t>> \in R)
  <2> HIDE DEF R, F, T
  <2> QED BY <1>1, <1>2, <1>3, WFMin
<1>5. PICK x \in S : t = 0 .. x
  BY <1>4
<1>6. \A y \in S : x <= y
  <2>1. TAKE y \in S
  <2>2. SUFFICES ASSUME y < x  PROVE FALSE
    OBVIOUS
  <2>3. 0 .. y \subseteq 0 .. x /\ x \in 0 .. x /\ x \notin 0 .. y
    BY <2>2
  <2>4. <<0 .. y, t>> \in R
    BY <1>5, <2>3 DEF StrictSubsetOrdering
  <2> QED BY <1>4, <2>4
<1> QED BY <1>6 DEF Loaded!First

(* The chain has each theme that is loaded once.                           *)
ChainKept ==
  /\ index \subseteq Loaded!Names /\ chain \in Seq(Themes)
  /\ {chain[i] : i \in DOMAIN chain} = index \cap Themes
  /\ \A i, j \in DOMAIN chain : chain[i] = chain[j] => i = j

ManagerIs ==
  manager \in Managers \cup {Nil} /\ root \in Managers \cup {Nil} /\ stopped \in BOOLEAN

(* themeRemove takes a theme that is in the chain out of it.               *)
LEMMA TakenOut ==
  ASSUME ChainKept, NEW t \in index \cap Themes
  PROVE  LET c == Loaded!WithoutTheme(t)
         IN /\ c \in Seq(Themes)
            /\ {c[i] : i \in DOMAIN c} = (index \cap Themes) \ {t}
            /\ \A i, j \in DOMAIN c : c[i] = c[j] => i = j
<1> PICK n \in Nat : n = Len(chain)
  BY DEF ChainKept
<1> DEFINE places == {i \in DOMAIN chain : chain[i] = t}
<1> PICK k : k = Loaded!First(places)
  OBVIOUS
<1> PICK c : c = Loaded!WithoutTheme(t)
  OBVIOUS
<1>1. /\ chain \in Seq(Themes) /\ DOMAIN chain = 1 .. n
      /\ {chain[i] : i \in 1 .. n} = index \cap Themes
      /\ \A i, j \in 1 .. n : chain[i] = chain[j] => i = j
  BY DEF ChainKept
<1>2. k \in 1 .. n /\ chain[k] = t /\ places # {}
  <2>1. places \subseteq Nat /\ places # {}
    BY <1>1
  <2>2. k \in places
    <3> HIDE DEF places
    <3> QED BY <2>1, FirstIs
  <2> QED BY <1>1, <2>1, <2>2
<1>3. c = SubSeq(chain, 1, k - 1) \o SubSeq(chain, k + 1, Len(chain))
  BY <1>2 DEF Loaded!WithoutTheme, Loaded!RemoveAt
<1> HIDE DEF places
<1>4. k \in 1 .. Len(chain) /\ chain \in Seq(Themes)
  BY <1>1, <1>2
<1>5. /\ c \in Seq(Themes) /\ Len(c) = n - 1
      /\ \A j \in 1 .. n - 1 : c[j] = IF j < k THEN chain[j] ELSE chain[j + 1]
  BY <1>3, <1>4, Cut
<1>6. c \in Seq(Themes) /\ DOMAIN c = 1 .. n - 1
  BY <1>5
<1>7. \A j \in 1 .. n - 1 : c[j] = IF j < k THEN chain[j] ELSE chain[j + 1]
  BY <1>5
<1>8. ASSUME NEW j \in 1 .. n - 1
      PROVE  \E i \in 1 .. n : i # k /\ c[j] = chain[i] /\ i = IF j < k THEN j ELSE j + 1
  BY <1>2, <1>7
<1>9. ASSUME NEW i \in 1 .. n, i # k
      PROVE  \E j \in 1 .. n - 1 : c[j] = chain[i]
  <2>1. CASE i < k
    <3>1. i \in 1 .. n - 1
      BY <1>2, <2>1
    <3> QED BY <1>7, <2>1, <3>1
  <2>2. CASE i > k
    <3>1. i - 1 \in 1 .. n - 1 /\ ~(i - 1 < k) /\ i - 1 + 1 = i
      BY <1>2, <2>2
    <3>2. c[i - 1] = chain[i]
      BY <1>7, <3>1
    <3> QED BY <3>1, <3>2
  <2> QED BY <1>2, <1>9, <2>1, <2>2
<1>10. {c[j] : j \in 1 .. n - 1} = (index \cap Themes) \ {t}
  <2>1. ASSUME NEW j \in 1 .. n - 1  PROVE c[j] \in (index \cap Themes) \ {t}
    <3>1. PICK i \in 1 .. n : i # k /\ c[j] = chain[i]
      BY <1>8
    <3> QED BY <1>1, <1>2, <3>1
  <2>2. ASSUME NEW u \in (index \cap Themes) \ {t}
        PROVE  \E j \in 1 .. n - 1 : c[j] = u
    <3>1. PICK i \in 1 .. n : chain[i] = u
      BY <1>1
    <3>2. i # k
      BY <1>2, <3>1
    <3> QED BY <1>9, <3>1, <3>2
  <2> QED BY <2>1, <2>2
<1>11. ASSUME NEW i \in 1 .. n - 1, NEW j \in 1 .. n - 1, c[i] = c[j]
       PROVE  i = j
  <2>1. PICK x \in 1 .. n : c[i] = chain[x] /\ x = IF i < k THEN i ELSE i + 1
    BY <1>8
  <2>2. PICK y \in 1 .. n : c[j] = chain[y] /\ y = IF j < k THEN j ELSE j + 1
    BY <1>8
  <2>3. x = y
    BY <1>1, <1>11, <2>1, <2>2
  <2> QED BY <1>2, <2>1, <2>2, <2>3
<1> QED BY <1>6, <1>10, <1>11

(* themeAdd puts a theme that is not in the chain before it.               *)
LEMMA PutFirst ==
  ASSUME ChainKept, NEW t \in Themes \ index
  PROVE  LET c == <<t>> \o chain
         IN /\ c \in Seq(Themes)
            /\ {c[i] : i \in DOMAIN c} = (index \cup {t}) \cap Themes
            /\ \A i, j \in DOMAIN c : c[i] = c[j] => i = j
<1> PICK n \in Nat : n = Len(chain)
  BY DEF ChainKept
<1>1. /\ chain \in Seq(Themes) /\ Len(chain) = n /\ DOMAIN chain = 1 .. n
      /\ {chain[i] : i \in 1 .. n} = index \cap Themes
      /\ \A i, j \in 1 .. n : chain[i] = chain[j] => i = j
  BY DEF ChainKept
<1> DEFINE c == <<t>> \o chain
<1>2. c \in Seq(Themes) /\ Len(c) = n + 1 /\ c[1] = t /\ \A i \in 1 .. n : c[i + 1] = chain[i]
  BY <1>1, Prefixed
<1> HIDE DEF c
<1>3. c \in Seq(Themes) /\ DOMAIN c = 1 .. n + 1
  BY <1>2
<1>4. c[1] = t /\ \A i \in 1 .. n : c[i + 1] = chain[i]
  BY <1>2
<1>5. \A i \in 1 .. n + 1 : i = 1 \/ \E j \in 1 .. n : i = j + 1
  <2>1. ASSUME NEW i \in 1 .. n + 1, i # 1  PROVE i - 1 \in 1 .. n /\ i = (i - 1) + 1
    BY <2>1
  <2> QED BY <2>1
<1>6. t \notin {chain[i] : i \in 1 .. n}
  BY <1>1
<1>7. {c[i] : i \in 1 .. n + 1} = (index \cup {t}) \cap Themes
  <2>1. ASSUME NEW i \in 1 .. n + 1  PROVE c[i] \in {t} \cup (index \cap Themes)
    BY <1>1, <1>4, <1>5
  <2>2. 1 \in 1 .. n + 1
    OBVIOUS
  <2>3. ASSUME NEW u \in index \cap Themes  PROVE \E i \in 1 .. n + 1 : c[i] = u
    <3>1. PICK j \in 1 .. n : chain[j] = u
      BY <1>1
    <3>2. j + 1 \in 1 .. n + 1 /\ c[j + 1] = u
      BY <1>4, <3>1
    <3> QED BY <3>2
  <2> QED BY <1>4, <2>1, <2>2, <2>3
<1>8. ASSUME NEW i \in 1 .. n + 1, NEW j \in 1 .. n + 1, c[i] = c[j]
      PROVE  i = j
  BY <1>1, <1>4, <1>5, <1>6, <1>8
<1> QED BY <1>3, <1>7, <1>8 DEF c

LEMMA ChainStays ==
  ASSUME ChainKept, chain' = chain,
         index' \subseteq Loaded!Names, index' \cap Themes = index \cap Themes
  PROVE  ChainKept'
BY DEF ChainKept

LEMMA ChainStep ==
  ASSUME Kinds, ChainKept, ManagerIs, [Loaded!Next]_(Loaded!vars)
  PROVE  ChainKept'
<1>1. CASE UNCHANGED Loaded!vars
  BY <1>1, ChainStays DEF Loaded!vars, ChainKept
<1>2. ASSUME NEW m, Loaded!LoadFails(m)  PROVE ChainKept'
  BY <1>2, ChainStays DEF Loaded!LoadFails, ChainKept
<1>3. ASSUME NEW m, Loaded!LoadOther(m)  PROVE ChainKept'
  <2>1. /\ m \in Others /\ m \notin Themes
        /\ index' = index \cup {m} /\ chain' = chain
    BY <1>3 DEF Loaded!LoadOther, Kinds
  <2>2. index' \subseteq Loaded!Names
    BY <2>1 DEF ChainKept, Loaded!Names
  <2> QED BY <2>1, <2>2, ChainStays
<1>4. ASSUME NEW m, Loaded!Unload(m)  PROVE ChainKept'
  <2>1. /\ m \in index /\ index' = index \ {m}
        /\ chain' = IF m \in Themes THEN Loaded!WithoutTheme(m) ELSE chain
    BY <1>4 DEF Loaded!Unload
  <2>2. index' \subseteq Loaded!Names
    BY <2>1 DEF ChainKept
  <2>3. CASE m \in Themes
    <3>1. PICK c : c = Loaded!WithoutTheme(m)
      OBVIOUS
    <3>2. /\ c \in Seq(Themes)
          /\ {c[i] : i \in DOMAIN c} = (index \cap Themes) \ {m}
          /\ \A i, j \in DOMAIN c : c[i] = c[j] => i = j
      BY <2>1, <2>3, <3>1, TakenOut
    <3>3. chain' = c /\ index' \cap Themes = (index \cap Themes) \ {m}
      BY <2>1, <2>3, <3>1
    <3> QED BY <2>2, <3>2, <3>3 DEF ChainKept
  <2>4. CASE m \notin Themes
    BY <2>1, <2>2, <2>4, ChainStays
  <2> QED BY <2>3, <2>4
<1>5. ASSUME NEW t \in Themes, Loaded!LoadTheme(t)  PROVE ChainKept'
  <2>1. t \in Themes \ index /\ index' = index \cup {t} /\ chain' = <<t>> \o chain
    BY <1>5 DEF Loaded!LoadTheme
  <2>2. index' \subseteq Loaded!Names
    BY <2>1 DEF ChainKept, Loaded!Names
  <2>3. PICK c : c = <<t>> \o chain
    OBVIOUS
  <2>4. /\ c \in Seq(Themes)
        /\ {c[i] : i \in DOMAIN c} = (index \cup {t}) \cap Themes
        /\ \A i, j \in DOMAIN c : c[i] = c[j] => i = j
    BY <2>1, <2>3, PutFirst
  <2> QED BY <2>1, <2>2, <2>3, <2>4 DEF ChainKept
<1>6. ASSUME NEW m \in Managers, Loaded!LoadManager(m)  PROVE ChainKept'
  <2>1. m \notin Themes /\ index' = (index \ {manager}) \cup {m} /\ chain' = chain
    BY <1>6 DEF Loaded!LoadManager, Loaded!WithoutManager, Kinds
  <2>2. index' \subseteq Loaded!Names /\ index' \cap Themes = index \cap Themes
    BY <2>1 DEF ChainKept, ManagerIs, Kinds, Loaded!Names
  <2> QED BY <2>1, <2>2, ChainStays
<1>7. CASE Loaded!CallManager
  BY <1>7, ChainStays DEF Loaded!CallManager, ChainKept
<1>8. CASE Loaded!Finalise
  <2>1. index' = {} /\ chain' = <<>>
    BY <1>8 DEF Loaded!Finalise
  <2> QED BY <2>1 DEF ChainKept
<1> QED BY <1>1, <1>2, <1>3, <1>4, <1>5, <1>6, <1>7, <1>8 DEF Loaded!Next

LEMMA ManagerStep ==
  ASSUME Kinds, ManagerIs, [Loaded!Next]_(Loaded!vars)
  PROVE  /\ ManagerIs'
         /\ ~UnloadsManager /\ Loaded!ManagerLoaded => Loaded!ManagerLoaded'
<1> DEFINE Goal == /\ ManagerIs'
                   /\ ~UnloadsManager /\ Loaded!ManagerLoaded => Loaded!ManagerLoaded'
<1>1. CASE UNCHANGED Loaded!vars
  BY <1>1 DEF Loaded!vars, ManagerIs, Loaded!ManagerLoaded, Loaded!Running
<1>2. ASSUME NEW m, Loaded!LoadFails(m)  PROVE Goal
  BY <1>2 DEF Loaded!LoadFails, ManagerIs, Loaded!ManagerLoaded, Loaded!Running
<1>3. ASSUME NEW m, Loaded!LoadOther(m)  PROVE Goal
  BY <1>3 DEF Loaded!LoadOther, Kinds, ManagerIs, Loaded!ManagerLoaded, Loaded!Running
<1>4. ASSUME NEW m, Loaded!Unload(m)  PROVE Goal
  BY <1>4 DEF Loaded!Unload, ManagerIs, Loaded!ManagerLoaded, Loaded!Running
<1>5. ASSUME NEW t \in Themes, Loaded!LoadTheme(t)  PROVE Goal
  BY <1>5 DEF Loaded!LoadTheme, Kinds, ManagerIs, Loaded!ManagerLoaded, Loaded!Running
<1>6. ASSUME NEW m \in Managers, Loaded!LoadManager(m)  PROVE Goal
  <2>1. /\ ~stopped /\ stopped' = (manager # Nil /\ manager \notin index)
        /\ index' = (index \ {manager}) \cup {m} /\ manager' = m /\ root' = m
    BY <1>6 DEF Loaded!LoadManager, Loaded!WithoutManager, Loaded!Running
  <2>2. ManagerIs'
    BY <2>1 DEF ManagerIs
  <2>3. ASSUME Loaded!ManagerLoaded  PROVE Loaded!ManagerLoaded'
    <3>1. index \cap Managers = {manager} \ {Nil}
      BY <2>1, <2>3 DEF Loaded!ManagerLoaded, Loaded!Running
    <3>2. index' \cap Managers = {m} /\ m # Nil
      BY <2>1, <3>1 DEF Kinds
    <3> QED BY <2>1, <3>2 DEF Loaded!ManagerLoaded, Loaded!Running
  <2> QED BY <2>2, <2>3
<1>7. CASE Loaded!CallManager
  BY <1>7 DEF Loaded!CallManager, ManagerIs, Loaded!ManagerLoaded, Loaded!Running
<1>8. CASE Loaded!Finalise
  BY <1>8 DEF Loaded!Finalise, ManagerIs, Loaded!ManagerLoaded, Loaded!Running
<1> QED BY <1>1, <1>2, <1>3, <1>4, <1>5, <1>6, <1>7, <1>8 DEF Loaded!Next

(* What draws a label is the first theme of the chain that can.            *)
LEMMA ChosenLoaded ==
  ASSUME ChainKept, NEW f, NEW t \in index \cap Themes, f \in Provides[t]
  PROVE  Loaded!Chosen(f) \in index
<1> PICK n \in Nat : n = Len(chain)
  BY DEF ChainKept
<1> DEFINE able == {i \in DOMAIN chain : f \in Provides[chain[i]]}
<1>1. DOMAIN chain = 1 .. n /\ {chain[i] : i \in 1 .. n} = index \cap Themes
  BY DEF ChainKept
<1>2. able \subseteq Nat /\ able \subseteq 1 .. n
  BY <1>1
<1>3. able # {}
  BY <1>1
<1>4. Loaded!Chosen(f) = chain[Loaded!First(able)]
  BY <1>3 DEF Loaded!Chosen
<1>5. Loaded!First(able) \in 1 .. n
  <2> HIDE DEF able
  <2> QED BY <1>2, <1>3, FirstIs
<1> QED BY <1>1, <1>4, <1>5

LEMMA ThemesAre == ChainKept => Loaded!ThemesLoaded
<1> SUFFICES ASSUME ChainKept  PROVE Loaded!ThemesLoaded
  OBVIOUS
<1>1. Loaded!ToSet(chain) = index \cap Themes
  BY DEF ChainKept, Loaded!ToSet
<1>2. Loaded!IsInjective(chain)
  BY DEF ChainKept, Loaded!IsInjective
<1>3. \A f \in UNION {Provides[t] : t \in Themes} :
        (\E t \in index \cap Themes : f \in Provides[t]) => Loaded!Chosen(f) \in index
  BY ChosenLoaded
<1> QED BY <1>1, <1>2, <1>3 DEF Loaded!ThemesLoaded

(* Themes that are loaded and unloaded in any order: the chain has each    *)
(* theme that is loaded once, and what is drawn is drawn by a theme that   *)
(* is loaded.                                                              *)
THEOREM ThemeChain == Kinds => (Loaded!Spec => [](Loaded!TypeOK /\ Loaded!ThemesLoaded))
<1> SUFFICES ASSUME Kinds  PROVE Loaded!Spec => [](Loaded!TypeOK /\ Loaded!ThemesLoaded)
  OBVIOUS
<1>1. Loaded!Init => ChainKept /\ ManagerIs
  <2>1. ASSUME index = {}, chain = <<>>  PROVE ChainKept
    BY <2>1 DEF ChainKept
  <2> QED BY <2>1 DEF Loaded!Init, ManagerIs
<1>2. (ChainKept /\ ManagerIs) /\ [Loaded!Next]_(Loaded!vars) => (ChainKept /\ ManagerIs)'
  BY ChainStep, ManagerStep
<1>3. ChainKept /\ ManagerIs => Loaded!TypeOK /\ Loaded!ThemesLoaded
  BY ThemesAre DEF Loaded!TypeOK, ChainKept, ManagerIs
<1> QED BY <1>1, <1>2, <1>3, PTL DEF Loaded!Spec

(* A window manager that replaces another: the one that is called is the   *)
(* one that is loaded, and the screen shows its desktop - as long as no    *)
(* client unloads the one in use.                                          *)
THEOREM ManagerInUse ==
  Kinds /\ ~UnloadsManager => (Loaded!Spec => []Loaded!ManagerLoaded)
<1> SUFFICES ASSUME Kinds, ~UnloadsManager  PROVE Loaded!Spec => []Loaded!ManagerLoaded
  OBVIOUS
<1>1. Loaded!Init => Loaded!ManagerLoaded /\ ManagerIs
  BY DEF Loaded!Init, ManagerIs, Loaded!ManagerLoaded
<1>2. /\ Loaded!ManagerLoaded /\ ManagerIs
      /\ [Loaded!Next]_(Loaded!vars)
      => (Loaded!ManagerLoaded /\ ManagerIs)'
  BY ManagerStep
<1> QED BY <1>1, <1>2, PTL DEF Loaded!Spec
-----------------------------------------------------------------------------
CONSTANTS
  Names, Objects, ClassOf, Failing, MaxEvents, MaxDepth, SharesWaits,
  DeletesNotified                                              \* Proxies

VARIABLES
  classes, made, dead, pending, arrived, idOf, objects, toServer, toClient, stack, created,
  subscribed, events

Remote == INSTANCE Proxies

-----------------------------------------------------------------------------
(* Proxies: objects are no classes, and Nil is neither and no number.      *)
ProxyNames ==
  /\ Names \cap Objects = {} /\ Nil \notin Names \cup Objects \cup Int
  /\ ClassOf \in [Objects -> Names]

Elems(q) == {q[i] : i \in DOMAIN q}

LEMMA Appended ==
  ASSUME NEW S, NEW q \in Seq(S), NEW e
  PROVE  /\ Elems(Append(q, e)) = Elems(q) \cup {e}
         /\ DOMAIN Append(q, e) = DOMAIN q \cup {Len(q) + 1}
         /\ Append(q, e)[Len(q) + 1] = e /\ \A i \in DOMAIN q : Append(q, e)[i] = q[i]
<1> PICK n \in Nat : n = Len(q)
  OBVIOUS
<1> PICK a : a = Append(q, e)
  OBVIOUS
<1>1. DOMAIN q = 1 .. n /\ DOMAIN a = 1 .. n + 1 /\ a[n + 1] = e /\ \A i \in 1 .. n : a[i] = q[i]
  OBVIOUS
<1>2. 1 .. n + 1 = (1 .. n) \cup {n + 1}
  OBVIOUS
<1>3. Elems(a) = Elems(q) \cup {e}
  BY <1>1, <1>2 DEF Elems
<1> QED BY <1>1, <1>2, <1>3

LEMMA Taken ==
  ASSUME NEW S, NEW q \in Seq(S), q # <<>>
  PROVE  /\ Head(q) \in Elems(q) /\ Elems(Tail(q)) \subseteq Elems(q)
         /\ Elems(Tail(q)) \cup {Head(q)} = Elems(q)
<1> PICK n \in Nat : n = Len(q)
  OBVIOUS
<1> PICK t : t = Tail(q)
  OBVIOUS
<1>1. /\ DOMAIN q = 1 .. n /\ 1 \in 1 .. n /\ Head(q) = q[1]
      /\ DOMAIN t = 1 .. n - 1 /\ \A i \in 1 .. n - 1 : t[i] = q[i + 1]
  OBVIOUS
<1>2. \A i \in 1 .. n - 1 : i + 1 \in 1 .. n
  OBVIOUS
<1>3. \A i \in 1 .. n : i = 1 \/ (i - 1 \in 1 .. n - 1 /\ (i - 1) + 1 = i)
  OBVIOUS
<1>4. Elems(t) \subseteq Elems(q) /\ Head(q) \in Elems(q)
  BY <1>1, <1>2 DEF Elems
<1>5. ASSUME NEW i \in 1 .. n  PROVE q[i] \in Elems(t) \cup {Head(q)}
  <2>1. CASE i = 1
    BY <1>1, <2>1
  <2>2. CASE i # 1
    <3>1. PICK j \in 1 .. n - 1 : j + 1 = i
      BY <1>3, <2>2
    <3>2. t[j] = q[i]
      BY <1>1, <3>1
    <3> QED BY <1>1, <3>1, <3>2 DEF Elems
  <2> QED BY <2>1, <2>2
<1> QED BY <1>1, <1>4, <1>5 DEF Elems

LEMMA Popped ==
  ASSUME NEW S, NEW q \in Seq(S), q # <<>>
  PROVE  LET r == Remote!Front(q)
             n == Len(q)
         IN /\ r \in Seq(S) /\ n \in Nat \ {0} /\ DOMAIN q = 1 .. n
            /\ Len(r) = n - 1 /\ DOMAIN r = 1 .. n - 1
            /\ \A i \in 1 .. n - 1 : r[i] = q[i]
            /\ Remote!Last(q) = q[n]
<1> PICK n \in Nat : n = Len(q)
  OBVIOUS
<1>1. Remote!Front(q) = SubSeq(q, 1, n - 1) /\ Remote!Last(q) = q[n]
  BY DEF Remote!Front, Remote!Last
<1>2. n # 0
  OBVIOUS
<1>3. SubSeq(q, 1, n - 1) \in Seq(S) /\ Len(SubSeq(q, 1, n - 1)) = n - 1
  BY <1>2
<1>4. \A i \in 1 .. n - 1 : SubSeq(q, 1, n - 1)[i] = q[i]
  BY <1>2
<1> QED BY <1>1, <1>2, <1>3, <1>4

(* The frames, and the messages.                                           *)
Frames ==
  [waitsFor : Names \cup Objects \cup {Nil}, then : {"instantiate", "subscribe", "delete", "return"},
   of : Objects, held : BOOLEAN]

Requests ==
  [op : {"find"}, of : Names] \cup [op : {"create"}, of : Objects]
    \cup [op : {"subscribe"}, of : Objects, is : Nat]

Answers == [op : {"reply"}, of : Names \cup Objects, is : Int] \cup [op : {"event"}, of : Nat]

ProxyTypes ==
  /\ classes \subseteq Names /\ dead \subseteq made /\ made \subseteq Objects
  /\ pending \subseteq classes \cup made /\ ~undefined
  /\ idOf \in [Objects -> Nat] /\ created \in Seq(Objects) /\ subscribed \subseteq Nat
  /\ stack \in Seq(Frames) /\ toServer \in Seq(Requests) /\ toClient \in Seq(Answers)
  /\ arrived \in [Names \cup Objects -> Int \cup {Nil}]

(* The number n is that of the object o.                                   *)
Number(n, o) == n \in 1 .. Len(created) /\ created[n] = o

(* Objects have their numbers once the reply was seen, and are in the map. *)
Numbered ==
  /\ DOMAIN objects = {idOf[o] : o \in Objects} \ {0}
  /\ \A o \in Objects : idOf[o] # 0 => Number(idOf[o], o) /\ objects[idOf[o]] = o
  /\ \A o \in Objects : idOf[o] # 0 <=> o \in made \ pending

(* No two calls wait for the same, or construct the same.                  *)
Alike(f, g) ==
  /\ f.waitsFor # Nil
  /\ \/ f.waitsFor = g.waitsFor
     \/ f.then = "instantiate" /\ g.then = "instantiate" /\ f.of = g.of

Apart == \A i, j \in DOMAIN stack : Alike(stack[i], stack[j]) => i = j

(* What a call waits for is still pending if it holds the reply; what is   *)
(* used is there, and what is about to be deleted gets no events.          *)
Waits(f) ==
  /\ f.held => f.waitsFor \in pending
  /\ f.then = "return" <=> f.waitsFor = Nil
  /\ f.then = "instantiate" => f.waitsFor = ClassOf[f.of] /\ f.of \notin made
  /\ f.then \in {"subscribe", "delete"} =>
       f.waitsFor = f.of /\ f.of \in made \ dead /\ (~f.held => f.of \notin pending)

Quiet(o) ==
  idOf[o] \notin subscribed /\ \A m \in Elems(toServer) : m.op = "subscribe" => m.of # o

Waiting == \A f \in Elems(stack) : Waits(f) /\ (f.then = "delete" => Quiet(f.of))

(* Who subscribes, or has subscribed, lives and has its number.            *)
Subscribing ==
  /\ \A m \in Elems(toServer) :
       m.op = "subscribe" => m.of \notin dead /\ m.is = idOf[m.of] /\ m.is # 0
  /\ \A n \in subscribed : n # 0 /\ \E o \in Objects \ dead : idOf[o] = n

(* Replies tell the number that the server gave the object.                *)
Replied ==
  /\ \A m \in Elems(toClient) :
       /\ m.op = "reply" /\ m.of \in Objects => m.is = Remote!Failure \/ Number(m.is, m.of)
       /\ m.op = "event" => m.of \in subscribed
  /\ \A o \in Objects : arrived[o] \in {Nil, Remote!Failure} \/ Number(arrived[o], o)

ProxyInv == ProxyTypes /\ Numbered /\ Apart /\ Waiting /\ Subscribing /\ Replied

LEMMA Pushed ==
  ASSUME stack \in Seq(Frames), Apart, NEW frame \in Frames, Remote!Push(frame),
         \A g \in Elems(stack) : ~Alike(frame, g) /\ ~Alike(g, frame)
  PROVE  stack' \in Seq(Frames) /\ Elems(stack') = Elems(stack) \cup {frame} /\ Apart'
<1> PICK n \in Nat : n = Len(stack)
  OBVIOUS
<1> PICK s : s = Append(stack, frame)
  OBVIOUS
<1>3. s \in Seq(Frames)
  OBVIOUS
<1>1. /\ stack' = s /\ Elems(s) = Elems(stack) \cup {frame} /\ DOMAIN s = DOMAIN stack \cup {n + 1}
      /\ s[n + 1] = frame /\ \A i \in DOMAIN stack : s[i] = stack[i]
  BY Appended DEF Remote!Push
<1>2. ASSUME NEW i \in DOMAIN s, NEW j \in DOMAIN s, Alike(s[i], s[j])  PROVE i = j
  <2>1. CASE i \in DOMAIN stack /\ j \in DOMAIN stack
    BY <1>1, <1>2, <2>1 DEF Apart
  <2>2. CASE i \in DOMAIN stack /\ j = n + 1
    BY <1>1, <1>2, <2>2 DEF Elems
  <2>3. CASE i = n + 1 /\ j \in DOMAIN stack
    BY <1>1, <1>2, <2>3 DEF Elems
  <2> QED BY <1>1, <2>1, <2>2, <2>3
<1> QED BY <1>1, <1>2, <1>3 DEF Apart

LEMMA PoppedIs ==
  ASSUME stack \in Seq(Frames), Apart, stack # <<>>, stack' = Remote!Front(stack)
  PROVE  /\ stack' \in Seq(Frames) /\ Elems(stack') \subseteq Elems(stack) /\ Apart'
         /\ Remote!Top \in Elems(stack)
         /\ \A g \in Elems(stack') : ~Alike(Remote!Top, g) /\ ~Alike(g, Remote!Top)
<1> PICK n \in Nat : n = Len(stack)
  OBVIOUS
<1> PICK r : r = Remote!Front(stack)
  OBVIOUS
<1> PICK f : f = Remote!Top
  OBVIOUS
<1>1. /\ stack' = r /\ r \in Seq(Frames) /\ n \in Nat \ {0} /\ DOMAIN stack = 1 .. n
      /\ DOMAIN r = 1 .. n - 1 /\ \A i \in 1 .. n - 1 : r[i] = stack[i]
      /\ f = stack[n]
  BY Popped DEF Remote!Top
<1>2. n \in 1 .. n /\ \A i \in 1 .. n - 1 : i \in 1 .. n /\ i # n
  BY <1>1
<1>3. Elems(r) \subseteq Elems(stack) /\ f \in Elems(stack)
  BY <1>1, <1>2 DEF Elems
<1>4. \A i, j \in 1 .. n - 1 : Alike(r[i], r[j]) => i = j
  BY <1>1, <1>2 DEF Apart
<1>5. ASSUME NEW i \in 1 .. n - 1  PROVE ~Alike(f, r[i]) /\ ~Alike(r[i], f)
  <2>1. n \in DOMAIN stack /\ i \in DOMAIN stack /\ n # i /\ r[i] = stack[i] /\ f = stack[n]
    BY <1>1, <1>2
  <2> QED BY <2>1 DEF Apart
<1> QED BY <1>1, <1>3, <1>4, <1>5 DEF Apart, Elems

LEMMA ConstructKeeps ==
  ASSUME ProxyNames, ~SharesWaits, ProxyInv, NEW o \in Objects, Remote!Construct(o)
  PROVE  ProxyInv'
<1> PICK c : c = ClassOf[o]
  OBVIOUS
<1>0. c \in Names /\ c \notin Objects /\ c # Nil
  BY DEF ProxyNames
<1>1. /\ \A i \in 1 .. Len(stack) :
           stack[i].waitsFor # c /\ ~(stack[i].of = o /\ stack[i].then = "instantiate")
      /\ o \notin made
      /\ Remote!FindClass(c) /\ Remote!Push(Remote!Call(c, "instantiate", o, c \in pending'))
      /\ UNCHANGED <<made, dead, arrived, idOf, objects, toClient, created, subscribed, events,
                     undefined>>
  BY DEF Remote!Construct, Remote!May, Remote!InCall, Remote!Building, Remote!serverVars, ProxyInv,
         ProxyTypes, Remote!Top, Remote!Call, Remote!Handler
<1> PICK frame : frame = Remote!Call(c, "instantiate", o, c \in pending')
  OBVIOUS
<1>2. /\ frame \in Frames /\ frame.waitsFor = c /\ frame.then = "instantiate" /\ frame.of = o
      /\ frame.held = (c \in pending')
  BY <1>0 DEF Frames, Remote!Call
<1>3. \A g \in Elems(stack) : ~Alike(frame, g) /\ ~Alike(g, frame)
  <2>1. DOMAIN stack = 1 .. Len(stack)
    BY DEF ProxyInv, ProxyTypes
  <2> QED BY <1>1, <1>2, <2>1 DEF Elems, Alike
<1>4. stack' \in Seq(Frames) /\ Elems(stack') = Elems(stack) \cup {frame} /\ Apart'
  BY <1>1, <1>2, <1>3, Pushed DEF ProxyInv, ProxyTypes
<1>5. /\ classes' = classes \cup {c}
      /\ pending \subseteq pending' /\ pending' \subseteq pending \cup {c}
      /\ pending' \subseteq pending \cup classes' 
      /\ toServer' = toServer \/ toServer' = Append(toServer, [op |-> "find", of |-> c])
  BY <1>1 DEF Remote!FindClass
<1>6. /\ toServer' \in Seq(Requests)
      /\ \A m \in Elems(toServer') : m \in Elems(toServer) \/ m.op = "find"
  <2>1. [op |-> "find", of |-> c] \in Requests
    BY <1>0 DEF Requests
  <2>2. toServer \in Seq(Requests)
    BY DEF ProxyInv, ProxyTypes
  <2>3. CASE toServer' = Append(toServer, [op |-> "find", of |-> c])
    BY <2>1, <2>2, <2>3, Appended
  <2> QED BY <1>5, <2>2, <2>3
<1>7. ProxyTypes'
  BY <1>0, <1>1, <1>4, <1>5, <1>6 DEF ProxyInv, ProxyTypes
<1>8. \A p \in Objects : p \in pending' <=> p \in pending
  BY <1>0, <1>5
<1>9. Numbered'
  BY <1>1, <1>8 DEF ProxyInv, Numbered, Number
<1>10. Subscribing' /\ Replied'
  <2>1. Subscribing'
    BY <1>1, <1>6 DEF ProxyInv, Subscribing
  <2>2. Replied'
    BY <1>1 DEF ProxyInv, Replied, Number
  <2> QED BY <2>1, <2>2
<1>11. Waits(frame)'
  BY <1>0, <1>1, <1>2 DEF Waits
<1>12. ASSUME NEW f \in Elems(stack)  PROVE Waits(f)' /\ (f.then = "delete" => Quiet(f.of)')
  <2>1. Waits(f) /\ (f.then = "delete" => Quiet(f.of)) /\ made \subseteq Objects
    BY <1>12 DEF ProxyInv, ProxyTypes, Waiting
  <2>2. Waits(f)'
    BY <1>1, <1>5, <1>8, <2>1 DEF Waits
  <2>3. Quiet(f.of) => Quiet(f.of)'
    BY <1>1, <1>6 DEF Quiet
  <2> QED BY <2>1, <2>2, <2>3
<1>13. Waiting'
  <2>1. frame.then # "delete"
    BY <1>2
  <2> QED BY <1>4, <1>11, <1>12, <2>1 DEF Waiting
<1> QED BY <1>4, <1>7, <1>9, <1>10, <1>13 DEF ProxyInv

LEMMA UseKeeps ==
  ASSUME ProxyNames, ~SharesWaits, ~DeletesNotified, ProxyInv, NEW o \in Objects,
         NEW then \in {"subscribe", "delete"}, Remote!Use(o, then)
  PROVE  ProxyInv'
<1>0. o \notin Names /\ o # Nil
  BY DEF ProxyNames
<1>1. /\ \A i \in 1 .. Len(stack) : stack[i].waitsFor # o
      /\ o \in made \ dead /\ (then = "delete" => ~Remote!Notified(o))
      /\ Remote!Push(Remote!Call(o, then, o, o \in pending))
      /\ UNCHANGED <<classes, made, dead, pending, arrived, idOf, objects, toServer, toClient,
                     created, subscribed, events, undefined>>
  BY DEF Remote!Use, Remote!May, Remote!InCall, Remote!serverVars
<1> PICK frame : frame = Remote!Call(o, then, o, o \in pending)
  OBVIOUS
<1>2. /\ frame \in Frames /\ frame.waitsFor = o /\ frame.then = then /\ frame.of = o
      /\ frame.held = (o \in pending)
  BY DEF Frames, Remote!Call
<1>3. \A g \in Elems(stack) : ~Alike(frame, g) /\ ~Alike(g, frame)
  <2>1. DOMAIN stack = 1 .. Len(stack)
    BY DEF ProxyInv, ProxyTypes
  <2> QED BY <1>1, <1>2, <2>1 DEF Elems, Alike
<1>4. stack' \in Seq(Frames) /\ Elems(stack') = Elems(stack) \cup {frame} /\ Apart'
  BY <1>1, <1>2, <1>3, Pushed DEF ProxyInv, ProxyTypes
<1>5. ProxyTypes'
  BY <1>1, <1>4 DEF ProxyInv, ProxyTypes
<1>6. Numbered' /\ Subscribing' /\ Replied'
  BY <1>1 DEF ProxyInv, Numbered, Subscribing, Replied, Number
<1>7. Waits(frame)'
  BY <1>0, <1>1, <1>2 DEF Waits
<1>8. frame.then = "delete" => Quiet(o)'
  <2>1. DOMAIN toServer = 1 .. Len(toServer)
    BY DEF ProxyInv, ProxyTypes
  <2> QED BY <1>1, <1>2, <2>1 DEF Remote!Notified, Quiet, Elems
<1>9. \A f \in Elems(stack) : Waits(f)' /\ (f.then = "delete" => Quiet(f.of)')
  BY <1>1 DEF ProxyInv, Waiting, Waits, Quiet
<1> QED BY <1>2, <1>4, <1>5, <1>6, <1>7, <1>8, <1>9 DEF ProxyInv, Waiting

(* The call on top goes on: the number x waits for is that of an object    *)
(* that had none, if it was held.                                          *)
LEMMA ContinueKeeps ==
  ASSUME ProxyNames, ProxyInv, Remote!Continue
  PROVE  ProxyInv'
<1> PICK f : f = Remote!Top
  OBVIOUS
<1> PICK x : x = f.waitsFor
  OBVIOUS
<1>0. x # Nil /\ stack # <<>> /\ stack' = Remote!Front(stack)
  BY DEF Remote!Continue, Remote!Top, Remote!Handler, Remote!Call
<1>1. /\ stack' \in Seq(Frames) /\ Elems(stack') \subseteq Elems(stack) /\ Apart'
      /\ f \in Elems(stack)
      /\ \A g \in Elems(stack') : ~Alike(f, g) /\ ~Alike(g, f)
  BY <1>0, PoppedIs DEF ProxyInv, ProxyTypes
<1>2. Waits(f) /\ (f.then = "delete" => Quiet(f.of))
  BY <1>1 DEF ProxyInv, Waiting
<1>3. f \in Frames
  BY <1>1 DEF ProxyInv, ProxyTypes, Elems
<1>4. /\ x \in Names \cup Objects /\ f.of \in Objects /\ f.held \in BOOLEAN
      /\ f.then \in {"instantiate", "subscribe", "delete"}
  BY <1>0, <1>2, <1>3 DEF Frames, Waits
<1>5. UNCHANGED <<classes, arrived, toClient, created, subscribed, events>>
  BY DEF Remote!Continue, Remote!serverVars
<1>6. ASSUME NEW g \in Elems(stack')
      PROVE  /\ Waits(g) /\ (g.then = "delete" => Quiet(g.of)) /\ g \in Frames
             /\ g.waitsFor # x
             /\ ~(f.then = "instantiate" /\ g.then = "instantiate" /\ f.of = g.of)
  <2>1. Waits(g) /\ (g.then = "delete" => Quiet(g.of))
    BY <1>1, <1>6 DEF ProxyInv, Waiting
  <2>2. g \in Frames
    BY <1>1, <1>6 DEF ProxyInv, ProxyTypes, Elems
  <2>3. ~Alike(f, g)
    BY <1>1, <1>6
  <2> QED BY <1>0, <2>1, <2>2, <2>3 DEF Alike
<1>7. CASE UNCHANGED <<made, dead, pending, idOf, objects, toServer, undefined>>
  <2>1. ProxyTypes'
    BY <1>1, <1>5, <1>7 DEF ProxyInv, ProxyTypes
  <2>2. Numbered' /\ Subscribing' /\ Replied'
    BY <1>5, <1>7 DEF ProxyInv, Numbered, Subscribing, Replied, Number
  <2>3. Waiting'
    BY <1>5, <1>6, <1>7 DEF Waiting, Waits, Quiet
  <2> QED BY <1>1, <2>1, <2>2, <2>3 DEF ProxyInv
<1>8. CASE f.held /\ x \notin pending
  BY <1>2, <1>8 DEF Waits
(* What is the same whether the reply was held or not.                     *)
<1>9. ASSUME NEW n, NEW left, Remote!Then(f, n, left), UNCHANGED undefined,
             left \subseteq pending, pending \subseteq left \cup {x}, x \in Objects => x \notin left,
             x \in Objects => n \in Nat \ {0} /\ Number(n, x) /\ idOf[x] \in {0, n},
             x \in Objects => /\ idOf' = [idOf EXCEPT ![x] = n]
                              /\ DOMAIN objects' = DOMAIN objects \cup {n}
                              /\ objects'[n] = x
                              /\ \A m \in DOMAIN objects \ {n} : objects'[m] = objects[m],
             x \notin Objects => UNCHANGED <<idOf, objects>>
      PROVE  ProxyInv'
  <2>1. /\ made \subseteq Objects /\ dead \subseteq made /\ classes \subseteq Names
        /\ pending \subseteq classes \cup made /\ toServer \in Seq(Requests)
        /\ idOf \in [Objects -> Nat]
    BY DEF ProxyInv, ProxyTypes
  <2>2. idOf' \in [Objects -> Nat] /\ \A o \in Objects : o # x => idOf'[o] = idOf[o]
    BY <1>9, <2>1
  <2>3. x \in Objects => x \in made /\ x = f.of /\ f.then \in {"subscribe", "delete"} /\ idOf'[x] = n
    BY <1>2, <1>4, <1>9, <2>1 DEF Waits, ProxyNames
  <2>4. x \notin Objects => f.then = "instantiate" /\ x \in Names
    BY <1>2, <1>4, <2>1 DEF Waits
  <2>5. /\ DOMAIN objects = {idOf[o] : o \in Objects} \ {0}
        /\ \A o \in Objects : idOf[o] # 0 => Number(idOf[o], o) /\ objects[idOf[o]] = o
        /\ \A o \in Objects : idOf[o] # 0 <=> o \in made \ pending
    BY DEF ProxyInv, Numbered
  <2>6. /\ DOMAIN objects' = {idOf'[o] : o \in Objects} \ {0}
        /\ \A o \in Objects : idOf'[o] # 0 => Number(idOf'[o], o) /\ objects'[idOf'[o]] = o
    <3>1. CASE x \notin Objects
      BY <1>9, <2>5, <3>1
    <3>2. CASE x \in Objects
      <4>1. {idOf'[o] : o \in Objects} = {idOf[o] : o \in Objects \ {x}} \cup {n}
        BY <2>2, <2>3, <3>2
      <4>2. {idOf[o] : o \in Objects} = {idOf[o] : o \in Objects \ {x}} \cup {idOf[x]}
        BY <3>2
      <4>3. DOMAIN objects' = {idOf'[o] : o \in Objects} \ {0}
        BY <1>9, <2>5, <3>2, <4>1, <4>2
      <4>4. ASSUME NEW o \in Objects, idOf'[o] # 0
            PROVE  Number(idOf'[o], o) /\ objects'[idOf'[o]] = o
        <5>1. CASE o = x
          BY <1>9, <2>3, <3>2, <5>1
        <5>2. CASE o # x
          <6>1. idOf'[o] = idOf[o] /\ Number(idOf[o], o) /\ objects[idOf[o]] = o
            BY <2>2, <2>5, <4>4, <5>2
          <6>2. idOf[o] # n
            BY <1>9, <3>2, <5>2, <6>1 DEF Number
          <6>3. idOf[o] \in DOMAIN objects
            BY <2>5, <4>4, <6>1
          <6> QED BY <1>9, <3>2, <6>1, <6>2, <6>3
        <5> QED BY <5>1, <5>2
      <4> QED BY <4>3, <4>4
    <3> QED BY <3>1, <3>2
  <2>7. Replied'
    BY <1>5 DEF ProxyInv, Replied, Number
  <2>8. CASE f.then = "instantiate"
    <3>1. /\ made' = made \cup {f.of} /\ pending' = left \cup {f.of} /\ UNCHANGED dead
          /\ toServer' = Append(toServer, [op |-> "create", of |-> f.of])
      BY <1>9, <2>8 DEF Remote!Then
    <3>2. x \notin Objects /\ f.of \notin made /\ x # f.of
      BY <1>2, <1>4, <2>3, <2>8 DEF Waits
    <3>3. UNCHANGED <<idOf, objects>> /\ f.of \notin pending
      BY <1>4, <1>9, <2>1, <3>2 DEF ProxyNames
    <3>4. /\ toServer' \in Seq(Requests)
          /\ \A m \in Elems(toServer') : m.op = "subscribe" => m \in Elems(toServer)
      <4>1. [op |-> "create", of |-> f.of] \in Requests
        BY <1>4 DEF Requests
      <4> QED BY <2>1, <3>1, <4>1, Appended
    <3>5. ProxyTypes'
      BY <1>1, <1>4, <1>5, <1>9, <3>1, <3>3, <3>4 DEF ProxyInv, ProxyTypes
    <3>6. \A o \in Objects : o \in made' \ pending' <=> o \in made \ pending
      BY <1>9, <3>1, <3>2
    <3>7. Numbered'
      BY <1>5, <2>5, <3>3, <3>6 DEF Numbered, Number
    <3>8. Subscribing'
      BY <1>5, <3>1, <3>3, <3>4 DEF ProxyInv, Subscribing
    <3>9. ASSUME NEW g \in Elems(stack')  PROVE Waits(g)' /\ (g.then = "delete" => Quiet(g.of)')
      <4>1. Waits(g)'
        BY <1>6, <1>9, <2>1, <3>1, <3>2, <2>8 DEF Waits
      <4>2. Quiet(g.of) => Quiet(g.of)'
        BY <1>5, <3>3, <3>4 DEF Quiet
      <4> QED BY <1>6, <4>1, <4>2
    <3> QED BY <1>1, <2>7, <3>5, <3>7, <3>8, <3>9 DEF ProxyInv, Waiting
  <2>9. CASE f.then \in {"subscribe", "delete"}
    <3>1. x \in Objects /\ x = f.of /\ x \in made \ dead
      BY <1>2, <2>3, <2>4, <2>9 DEF Waits
    <3>2. pending' = left /\ UNCHANGED made
      BY <1>9, <2>9 DEF Remote!Then
    <3>3. \A o \in Objects : idOf'[o] # 0 <=> o \in made' \ pending'
      BY <1>9, <2>1, <2>2, <2>3, <2>5, <3>1, <3>2
    <3>4. Numbered'
      BY <1>5, <2>6, <3>3 DEF Numbered, Number
    <3>5. \A k \in subscribed : k # 0 /\ \E o \in Objects \ dead : idOf'[o] = k
      <4>1. ASSUME NEW k \in subscribed, NEW o \in Objects \ dead, idOf[o] = k, k # 0
            PROVE  idOf'[o] = k
        BY <1>9, <2>2, <2>3, <3>1, <4>1
      <4> QED BY <4>1 DEF ProxyInv, Subscribing
    <3>6. \A m \in Elems(toServer) :
            m.op = "subscribe" => m.of \notin dead /\ m.is = idOf'[m.of] /\ m.is # 0
      <4>1. ASSUME NEW m \in Elems(toServer), m.op = "subscribe"
            PROVE  m.of \notin dead /\ m.is = idOf'[m.of] /\ m.is # 0
        <5>1. m.of \notin dead /\ m.is = idOf[m.of] /\ m.is # 0
          BY <4>1 DEF ProxyInv, Subscribing
        <5>2. m.of \in Objects
          BY <4>1, <2>1 DEF Requests, Elems
        <5> QED BY <1>9, <2>2, <2>3, <3>1, <5>1, <5>2
      <4> QED BY <4>1
    <3>7. ASSUME NEW g \in Elems(stack')
          PROVE  /\ g.then \in {"subscribe", "delete"} => g.of # x
                 /\ g.held => g.waitsFor \in pending'
      BY <1>6, <1>9, <3>2 DEF Waits
    <3>8. \A g \in Elems(stack') : Quiet(g.of) /\ g.of # x => idOf'[g.of] \notin subscribed
      BY <1>6, <2>2 DEF Quiet, Frames
    <3>10. CASE f.then = "subscribe"
      <4>1. UNCHANGED dead /\ toServer' = Append(toServer, [op |-> "subscribe", of |-> x, is |-> n])
        BY <1>9, <3>1, <3>10 DEF Remote!Then
      <4>2. [op |-> "subscribe", of |-> x, is |-> n] \in Requests
        BY <1>9, <3>1 DEF Requests
      <4>3. /\ toServer' \in Seq(Requests)
            /\ Elems(toServer') = Elems(toServer) \cup {[op |-> "subscribe", of |-> x, is |-> n]}
        BY <2>1, <4>1, <4>2, Appended
      <4>4. ProxyTypes'
        BY <1>1, <1>5, <1>9, <2>2, <3>2, <4>1, <4>3 DEF ProxyInv, ProxyTypes
      <4>5. Subscribing'
        BY <1>5, <1>9, <2>3, <3>1, <3>5, <3>6, <4>1, <4>3 DEF Subscribing
      <4>6. ASSUME NEW g \in Elems(stack')  PROVE Waits(g)' /\ (g.then = "delete" => Quiet(g.of)')
        <5>1. Waits(g)'
          BY <1>6, <1>9, <3>2, <3>7, <4>1 DEF Waits
        <5>2. g.then = "delete" => Quiet(g.of)'
          BY <1>5, <1>6, <3>7, <3>8, <4>3 DEF Quiet
        <5> QED BY <5>1, <5>2
      <4> QED BY <1>1, <2>7, <3>4, <4>4, <4>5, <4>6 DEF ProxyInv, Waiting
    <3>11. CASE f.then = "delete"
      <4>1. UNCHANGED toServer /\ dead' = dead \cup {x}
        BY <1>9, <3>1, <3>11 DEF Remote!Then
      <4>2. Quiet(x)
        BY <1>2, <3>1, <3>11
      <4>3. ProxyTypes'
        BY <1>1, <1>5, <1>9, <2>2, <3>1, <3>2, <4>1 DEF ProxyInv, ProxyTypes
      <4>4. \A k \in subscribed : \E o \in Objects \ dead' : idOf'[o] = k
        <5>1. ASSUME NEW k \in subscribed  PROVE \E o \in Objects \ dead' : idOf'[o] = k
          <6>1. PICK o \in Objects \ dead : idOf[o] = k
            BY DEF ProxyInv, Subscribing
          <6>2. o # x
            BY <4>2, <6>1 DEF Quiet
          <6> QED BY <2>2, <4>1, <6>1, <6>2
        <5> QED BY <5>1
      <4>5. Subscribing'
        BY <1>5, <3>5, <3>6, <4>1, <4>2, <4>4 DEF Subscribing, Quiet
      <4>6. ASSUME NEW g \in Elems(stack')  PROVE Waits(g)' /\ (g.then = "delete" => Quiet(g.of)')
        <5>1. Waits(g)'
          BY <1>6, <1>9, <3>2, <3>7, <4>1 DEF Waits
        <5>2. g.then = "delete" => Quiet(g.of)'
          BY <1>5, <1>6, <3>7, <3>8, <4>1 DEF Quiet
        <5> QED BY <5>1, <5>2
      <4> QED BY <1>1, <2>7, <3>4, <4>3, <4>5, <4>6 DEF ProxyInv, Waiting
    <3> QED BY <2>9, <3>10, <3>11
  <2> QED BY <1>4, <2>8, <2>9
<1>10. /\ x \in Objects => x = f.of /\ f.then \in {"subscribe", "delete"} /\ x \in made
       /\ idOf \in [Objects -> Nat] /\ made \subseteq Objects
  BY <1>2, <1>4 DEF Waits, ProxyNames, ProxyInv, ProxyTypes
<1>11. CASE /\ ~f.held /\ Remote!Then(f, IF x \in Objects THEN idOf[x] ELSE 0, pending)
            /\ UNCHANGED <<idOf, objects, undefined>>
  <2> PICK n : n = IF x \in Objects THEN idOf[x] ELSE 0
    OBVIOUS
  <2>1. x \in Objects => x \notin pending /\ n = idOf[x]
    BY <1>2, <1>10, <1>11 DEF Waits
  <2>2. x \in Objects => n \in Nat \ {0} /\ Number(n, x) /\ objects[n] = x /\ n \in DOMAIN objects
    BY <1>10, <2>1 DEF ProxyInv, Numbered
  <2>3. x \in Objects => idOf' = [idOf EXCEPT ![x] = n]
    BY <1>10, <1>11, <2>1
  <2> PICK left : left = pending
    OBVIOUS
  <2>4. Remote!Then(f, n, left) /\ left \subseteq pending /\ pending \subseteq left \cup {x}
        /\ (x \in Objects => x \notin left)
    BY <1>11, <2>1
  <2>5. x \in Objects => /\ DOMAIN objects' = DOMAIN objects \cup {n} /\ objects'[n] = x
                         /\ \A m \in DOMAIN objects \ {n} : objects'[m] = objects[m]
                         /\ idOf[x] \in {0, n}
    BY <1>11, <2>1, <2>2
  <2> QED BY <1>9, <1>11, <2>2, <2>3, <2>4, <2>5
<1>12. CASE /\ f.held /\ x \in pending /\ arrived[x] \notin {Nil, Remote!Failure}
            /\ IF x \in Objects THEN Remote!CreatedObject(x, arrived[x])
               ELSE UNCHANGED <<idOf, objects>>
            /\ Remote!Then(f, arrived[x], pending \ {x}) /\ UNCHANGED undefined
  <2> PICK n : n = arrived[x]
    OBVIOUS
  <2>1. x \in Objects => Number(n, x) /\ n \in Nat \ {0} /\ idOf[x] = 0
    <3>1. x \in Objects => Number(n, x)
      BY <1>12 DEF ProxyInv, Replied
    <3>2. Len(created) \in Nat
      BY DEF ProxyInv, ProxyTypes
    <3>3. x \in Objects => idOf[x] = 0
      BY <1>12 DEF ProxyInv, Numbered
    <3> QED BY <3>1, <3>2, <3>3 DEF Number
  <2>2. x \in Objects => /\ idOf' = [idOf EXCEPT ![x] = n]
                         /\ DOMAIN objects' = DOMAIN objects \cup {n}
                         /\ objects'[n] = x
                         /\ \A m \in DOMAIN objects \ {n} : objects'[m] = objects[m]
    BY <1>12 DEF Remote!CreatedObject
  <2> PICK left : left = pending \ {x}
    OBVIOUS
  <2>3. Remote!Then(f, n, left) /\ left \subseteq pending /\ pending \subseteq left \cup {x}
        /\ x \notin left
    BY <1>12
  <2> QED BY <1>9, <1>12, <2>1, <2>2, <2>3
<1> QED BY <1>7, <1>8, <1>11, <1>12 DEF Remote!Continue

LEMMA DispatchKeeps ==
  ASSUME ProxyNames, ProxyInv, Remote!Dispatch
  PROVE  ProxyInv'
<1> PICK m : m = Head(toClient)
  OBVIOUS
<1>1. /\ toClient # <<>> /\ toClient' = Tail(toClient)
      /\ UNCHANGED <<classes, made, dead, pending, idOf, objects, toServer, created, subscribed>>
  BY DEF Remote!Dispatch, Remote!serverVars
<1>2. toClient \in Seq(Answers)
  BY DEF ProxyInv, ProxyTypes
<1>3. /\ m \in Elems(toClient) /\ Elems(toClient') \subseteq Elems(toClient)
      /\ toClient' \in Seq(Answers)
  BY <1>1, <1>2, Taken
<1>4. m \in Answers
  BY <1>2, <1>3 DEF Elems
<1>5. Numbered' /\ Subscribing'
  BY <1>1 DEF ProxyInv, Numbered, Subscribing, Number
<1>6. CASE m.op = "reply"
  <2>1. arrived' = [arrived EXCEPT ![m.of] = m.is] /\ UNCHANGED <<stack, undefined>>
    BY <1>6 DEF Remote!Dispatch
  <2>2. m.of \in Names \cup Objects /\ m.is \in Int
    BY <1>4, <1>6 DEF Answers
  <2>3. ProxyTypes' /\ Apart' /\ Waiting'
    BY <1>1, <1>3, <2>1, <2>2 DEF ProxyInv, ProxyTypes, Apart, Waiting, Waits, Quiet
  <2>4. m.of \in Objects => m.is = Remote!Failure \/ Number(m.is, m.of)
    BY <1>3, <1>6 DEF ProxyInv, Replied
  <2>5. Replied'
    BY <1>1, <1>3, <2>1, <2>2, <2>4 DEF ProxyInv, ProxyTypes, Replied, Number
  <2> QED BY <1>5, <2>3, <2>5 DEF ProxyInv
<1>7. CASE m.op # "reply"
  <2>1. /\ UNCHANGED arrived
        /\ IF m.of \in DOMAIN objects
           THEN /\ undefined' = (objects[m.of] \in dead)
                /\ Remote!Push(Remote!Handler(objects[m.of]))
           ELSE UNCHANGED <<stack, undefined>>
    BY <1>7 DEF Remote!Dispatch
  <2>2. m.op = "event" /\ m.of \in subscribed
    BY <1>3, <1>4, <1>7 DEF ProxyInv, Replied, Answers
  <2>3. PICK o \in Objects \ dead : idOf[o] = m.of /\ m.of # 0
    BY <2>2 DEF ProxyInv, Subscribing
  <2>4. objects[m.of] = o /\ m.of \in DOMAIN objects
    BY <2>3 DEF ProxyInv, Numbered
  <2> PICK frame : frame = Remote!Handler(o)
    OBVIOUS
  <2>5. /\ frame \in Frames /\ frame.waitsFor = Nil /\ frame.then = "return" /\ frame.of = o
        /\ ~frame.held
    BY DEF Frames, Remote!Handler, Remote!Call
  <2>6. Remote!Push(frame) /\ ~undefined'
    BY <2>1, <2>3, <2>4
  <2>7. \A g \in Elems(stack) : ~Alike(frame, g) /\ ~Alike(g, frame)
    BY <2>5 DEF Alike
  <2>8. stack' \in Seq(Frames) /\ Elems(stack') = Elems(stack) \cup {frame} /\ Apart'
    BY <2>5, <2>6, <2>7, Pushed DEF ProxyInv, ProxyTypes
  <2>9. ProxyTypes'
    BY <1>1, <1>3, <2>1, <2>6, <2>8 DEF ProxyInv, ProxyTypes
  <2>10. Replied'
    BY <1>1, <1>3, <2>1 DEF ProxyInv, Replied, Number
  <2>11. Waits(frame)' /\ \A g \in Elems(stack) : Waits(g)' /\ (g.then = "delete" => Quiet(g.of)')
    BY <1>1, <2>5 DEF ProxyInv, Waiting, Waits, Quiet
  <2>12. Waiting'
    BY <2>5, <2>8, <2>11 DEF Waiting
  <2> QED BY <1>5, <2>8, <2>9, <2>10, <2>12 DEF ProxyInv
<1> QED BY <1>6, <1>7

LEMMA ServeKeeps ==
  ASSUME ProxyNames, ProxyInv, Remote!Serve
  PROVE  ProxyInv'
<1> PICK m : m = Head(toServer)
  OBVIOUS
<1>1. /\ toServer # <<>> /\ toServer' = Tail(toServer)
      /\ UNCHANGED <<classes, made, dead, pending, arrived, idOf, objects, stack, undefined>>
  BY DEF Remote!Serve
<1>2. toServer \in Seq(Requests) /\ toClient \in Seq(Answers) /\ created \in Seq(Objects)
      /\ made \subseteq Objects
  BY DEF ProxyInv, ProxyTypes
<1>3. /\ m \in Elems(toServer) /\ Elems(toServer') \subseteq Elems(toServer)
      /\ toServer' \in Seq(Requests)
  BY <1>1, <1>2, Taken
<1>4. m \in Requests
  BY <1>2, <1>3 DEF Elems
<1>5. Apart'
  BY <1>1 DEF ProxyInv, Apart
<1>6. \A n, o : Number(n, o) => Number(n, o)'
  <2>1. created' = created \/ \E e : created' = Append(created, e)
    BY DEF Remote!Serve, Remote!serverVars
  <2>2. CASE created' = created
    BY <2>2 DEF Number
  <2>3. ASSUME NEW e, created' = Append(created, e)  PROVE \A n, o : Number(n, o) => Number(n, o)'
    <3> PICK k \in Nat : k = Len(created)
      BY <1>2
    <3>1. DOMAIN created = 1 .. k /\ DOMAIN created' = 1 .. k + 1 /\ Len(created') = k + 1
          /\ \A i \in 1 .. k : created'[i] = created[i]
      BY <1>2, <2>3
    <3> QED BY <3>1 DEF Number
  <2> QED BY <2>1, <2>2, <2>3
<1>7. Numbered'
  BY <1>1, <1>6 DEF ProxyInv, Numbered
<1>8. ASSUME NEW v \in Int, m.op \in {"find", "create"}, UNCHANGED subscribed,
             toClient' = Append(toClient, [op |-> "reply", of |-> m.of, is |-> v]),
             m.op = "create" => v = Remote!Failure \/ Number(v, m.of)',
             created' \in Seq(Objects)
      PROVE  ProxyInv'
  <2>1. m.of \in Names \cup Objects /\ (m.op = "find" => m.of \in Names)
    BY <1>4, <1>8 DEF Requests
  <2> PICK e : e = [op |-> "reply", of |-> m.of, is |-> v]
    OBVIOUS
  <2>2. e \in Answers /\ e.op = "reply" /\ e.of = m.of /\ e.is = v
    BY <2>1 DEF Answers
  <2>3. toClient' \in Seq(Answers) /\ Elems(toClient') = Elems(toClient) \cup {e}
    BY <1>2, <1>8, <2>2, Appended
  <2>4. ProxyTypes'
    BY <1>1, <1>3, <1>8, <2>3 DEF ProxyInv, ProxyTypes
  <2>5. Waiting' /\ Subscribing'
    BY <1>1, <1>3, <1>8 DEF ProxyInv, Waiting, Waits, Quiet, Subscribing
  <2>6. e.of \in Objects => e.is = Remote!Failure \/ Number(e.is, e.of)'
    BY <1>8, <2>1, <2>2 DEF ProxyNames
  <2>7. Replied'
    BY <1>1, <1>6, <1>8, <2>2, <2>3, <2>6 DEF ProxyInv, Replied
  <2> QED BY <1>5, <1>7, <2>4, <2>5, <2>7 DEF ProxyInv
<1>9. ASSUME m.op = "subscribe", subscribed' = subscribed \cup {m.is}, UNCHANGED <<toClient, created>>
      PROVE  ProxyInv'
  <2>1. m.of \in Objects \ dead /\ m.is = idOf[m.of] /\ m.is # 0 /\ m.is \in Nat
    BY <1>3, <1>4, <1>9 DEF ProxyInv, Subscribing, Requests
  <2>2. ProxyTypes'
    BY <1>1, <1>3, <1>9, <2>1 DEF ProxyInv, ProxyTypes
  <2>3. Subscribing'
    BY <1>1, <1>3, <1>9, <2>1 DEF ProxyInv, Subscribing
  <2>4. Replied'
    BY <1>1, <1>9 DEF ProxyInv, Replied, Number
  <2>5. ASSUME NEW f \in Elems(stack)  PROVE Waits(f)' /\ (f.then = "delete" => Quiet(f.of)')
    <3>1. Waits(f) /\ (f.then = "delete" => Quiet(f.of))
      BY <2>5 DEF ProxyInv, Waiting
    <3>2. ASSUME f.then = "delete"  PROVE Quiet(f.of)'
      <4>1. f.of # m.of /\ f.of \in Objects
        BY <1>2, <1>3, <1>9, <3>1, <3>2 DEF Quiet, Waits
      <4>2. Number(idOf[m.of], m.of)
        BY <2>1 DEF ProxyInv, Numbered
      <4>3. idOf[f.of] # 0 => Number(idOf[f.of], f.of)
        BY <4>1 DEF ProxyInv, Numbered
      <4>4. idOf[f.of] # m.is
        BY <2>1, <4>1, <4>2, <4>3 DEF Number
      <4> QED BY <1>1, <1>3, <1>9, <3>1, <3>2, <4>4 DEF Quiet
    <3> QED BY <1>1, <3>1, <3>2 DEF Waits
  <2>6. Waiting'
    BY <1>1, <2>5 DEF Waiting
  <2> QED BY <1>5, <1>7, <2>2, <2>3, <2>4, <2>6 DEF ProxyInv
<1>10. CASE /\ m.op = "find" /\ UNCHANGED <<created, subscribed>>
            /\ toClient' = Append(toClient, [op |-> "reply", of |-> m.of, is |-> 1])
  BY <1>2, <1>8, <1>10
<1>11. CASE /\ m.op = "create" /\ UNCHANGED <<created, subscribed>>
            /\ toClient' = Append(toClient, [op |-> "reply", of |-> m.of, is |-> Remote!Failure])
  <2>1. Remote!Failure \in Int
    BY DEF Remote!Failure
  <2> QED BY <1>2, <1>8, <1>11, <2>1
<1>12. CASE /\ m.op = "create" /\ created' = Append(created, m.of) /\ UNCHANGED subscribed
            /\ toClient' = Append(toClient, [op |-> "reply", of |-> m.of, is |-> Len(created) + 1])
  <2>1. m.of \in Objects
    BY <1>4, <1>12 DEF Requests
  <2> PICK k \in Nat : k = Len(created)
    BY <1>2
  <2>2. created' \in Seq(Objects) /\ Len(created') = k + 1 /\ created'[k + 1] = m.of
    BY <1>2, <1>12, <2>1
  <2>3. k + 1 \in 1 .. k + 1 /\ k + 1 \in Int
    OBVIOUS
  <2>4. Number(k + 1, m.of)'
    BY <2>2, <2>3 DEF Number
  <2> QED BY <1>8, <1>12, <2>2, <2>3, <2>4
<1> QED BY <1>9, <1>10, <1>11, <1>12 DEF Remote!Serve, Remote!serverVars

LEMMA ProxyStep ==
  ASSUME ProxyNames, ~SharesWaits, ~DeletesNotified, ProxyInv, [Remote!Next]_(Remote!vars)
  PROVE  ProxyInv'
<1>1. CASE Remote!Return
  <2>1. /\ stack # <<>> /\ stack' = Remote!Front(stack)
        /\ UNCHANGED <<classes, made, dead, pending, arrived, idOf, objects, toServer, toClient,
                       created, subscribed, undefined>>
    BY <1>1 DEF Remote!Return, Remote!serverVars
  <2>2. stack' \in Seq(Frames) /\ Elems(stack') \subseteq Elems(stack) /\ Apart'
    BY <2>1, PoppedIs DEF ProxyInv, ProxyTypes
  <2>3. ProxyTypes'
    BY <2>1, <2>2 DEF ProxyInv, ProxyTypes
  <2>4. Numbered' /\ Subscribing' /\ Replied'
    BY <2>1 DEF ProxyInv, Numbered, Subscribing, Replied, Number
  <2>5. Waiting'
    BY <2>1, <2>2 DEF ProxyInv, Waiting, Waits, Quiet
  <2> QED BY <2>2, <2>3, <2>4, <2>5 DEF ProxyInv
<1>2. ASSUME NEW n \in subscribed, Remote!SendEvent(n)  PROVE ProxyInv'
  <2> PICK e : e = [op |-> "event", of |-> n]
    OBVIOUS
  <2>1. /\ toClient' = Append(toClient, e)
        /\ UNCHANGED <<classes, made, dead, pending, arrived, idOf, objects, toServer, stack,
                       created, subscribed, undefined>>
    BY <1>2 DEF Remote!SendEvent, Remote!serverVars
  <2>2. e \in Answers /\ e.op = "event" /\ e.of = n /\ toClient \in Seq(Answers)
    BY DEF Answers, ProxyInv, ProxyTypes
  <2>3. toClient' \in Seq(Answers) /\ Elems(toClient') = Elems(toClient) \cup {e}
    BY <2>1, <2>2, Appended
  <2>4. ProxyTypes'
    BY <2>1, <2>3 DEF ProxyInv, ProxyTypes
  <2>5. Numbered' /\ Subscribing' /\ Apart' /\ Waiting'
    BY <2>1 DEF ProxyInv, Numbered, Subscribing, Apart, Waiting, Waits, Quiet, Number
  <2>6. Replied'
    BY <2>1, <2>2, <2>3 DEF ProxyInv, Replied, Number
  <2> QED BY <2>4, <2>5, <2>6 DEF ProxyInv
<1>3. CASE UNCHANGED Remote!vars
  BY <1>3 DEF Remote!vars, ProxyInv, ProxyTypes, Numbered, Number, Apart, Waiting, Waits, Quiet,
              Subscribing, Replied
<1> QED BY <1>1, <1>2, <1>3, ConstructKeeps, UseKeeps, ContinueKeeps, DispatchKeeps, ServeKeeps
        DEF Remote!Next

(* However calls wait within handlers, and whatever arrives meanwhile, an  *)
(* object has the number of what the server made for it, the map leads     *)
(* back to it, and nothing that was deleted is used (object.cc, class.cc,  *)
(* connection_objects.cc), if handlers do not wait for what is waited for  *)
(* and no object that gets events is deleted.                              *)
THEOREM NumbersKept ==
  ASSUME ProxyNames, ~SharesWaits, ~DeletesNotified
  PROVE  Remote!Spec => []Remote!NumbersAgree
<1>1. ASSUME Remote!Init  PROVE ProxyInv
  <2>1. /\ classes = {} /\ made = {} /\ dead = {} /\ pending = {}
        /\ arrived = [x \in Names \cup Objects |-> Nil]
        /\ idOf = [o \in Objects |-> 0] /\ objects = [n \in {} |-> Nil]
        /\ toServer = <<>> /\ toClient = <<>> /\ stack = <<>>
        /\ created = <<>> /\ subscribed = {} /\ undefined = FALSE
    BY <1>1 DEF Remote!Init
  <2>2. Elems(toServer) = {} /\ Elems(toClient) = {} /\ Elems(stack) = {} /\ DOMAIN stack = {}
    BY <2>1 DEF Elems
  <2>3. ProxyTypes
    BY <2>1 DEF ProxyTypes
  <2>4. Numbered /\ Replied
    BY <2>1, <2>2 DEF Numbered, Replied
  <2> QED BY <2>1, <2>2, <2>3, <2>4 DEF ProxyInv, Apart, Waiting, Subscribing
<1>2. ProxyInv /\ [Remote!Next]_(Remote!vars) => ProxyInv'
  BY ProxyStep
<1>3. ProxyInv => Remote!NumbersAgree
  BY DEF ProxyInv, ProxyTypes, Numbered, Number, Remote!NumbersAgree
<1> QED BY <1>1, <1>2, <1>3, PTL DEF Remote!Spec
-----------------------------------------------------------------------------
(* Console.  A terminal whose text passes the end of a row is left out:    *)
(* then cells are written and others repainted.                            *)
CONSTANTS Chars, Colours, Columns, Lines, Wraps    \* Console; and MaxEvents

VARIABLES
  v_cols, v_rows, v_contents, v_foreground, v_cursor, v_repainted, v_scrolled, v_events,
  v_tcols, v_trows

Terminal == INSTANCE Console WITH
  cols <- v_cols, rows <- v_rows, contents <- v_contents, foreground <- v_foreground,
  cursor <- v_cursor, repainted <- v_repainted, scrolled <- v_scrolled, events <- v_events,
  tcols <- v_tcols, trows <- v_trows

ConsoleNumbers ==
  Columns \subseteq Int /\ Lines \subseteq Int /\ MaxEvents \in Int /\ ~Wraps

Positive == Nat \ {0}
Glyphs == {Terminal!Empty} \cup (Chars \X (-1 .. 7))
Cells(w, h) == 0 .. w * h - 1

(* The number of a cell, and the column and the row that it stands for.    *)
LEMMA CellIs ==
  ASSUME NEW w \in Positive, NEW h \in Nat, NEW k \in Cells(w, h)
  PROVE  k % w \in 0 .. w - 1 /\ k \div w \in 0 .. h - 1 /\ k = w * (k \div w) + (k % w)
<1>1. w \in Nat \ {0} /\ k \in Nat /\ k < w * h
  BY DEF Positive, Cells
<1>2. k \div w \in Nat /\ k % w \in 0 .. w - 1 /\ k = w * (k \div w) + (k % w)
  BY <1>1
<1>3. k \div w < h
  BY <1>1, <1>2
<1> QED BY <1>2, <1>3

LEMMA PlaceIs ==
  ASSUME NEW w \in Positive, NEW r \in Nat, NEW i \in 0 .. w - 1
  PROVE  (w * r + i) \div w = r /\ (w * r + i) % w = i
BY DEF Positive

LEMMA InCells ==
  ASSUME NEW w \in Positive, NEW h \in Nat, NEW r \in 0 .. h - 1, NEW i \in 0 .. w - 1
  PROVE  w * r + i \in Cells(w, h)
BY DEF Positive, Cells

(* The terminal has the size of the last event, or of all it has handled.  *)
ConsoleInv ==
  /\ v_cols \in Positive /\ v_rows \in Positive
  /\ v_cols \in Columns \cup {1, 2} /\ v_rows \in Lines \cup {1, 2}
  /\ v_contents \in [Cells(v_cols, v_rows) -> Glyphs]
  /\ v_foreground \in -1 .. 7 /\ v_repainted \subseteq Cells(v_cols, v_rows)
  /\ v_tcols \in Positive /\ v_trows \in Positive
  /\ v_events \in Seq(Positive \X Positive)
  /\ v_events = <<>> => v_tcols = v_cols /\ v_trows = v_rows
  /\ v_events # <<>> => v_events[Len(v_events)] = <<v_cols, v_rows>>

(* A cell of a rectangle, as long as the rectangle is within the console.  *)
LEMMA WithinIs ==
  ASSUME NEW a, NEW c, NEW b, NEW d
  PROVE  /\ Terminal!Within(a, c, b, d) \subseteq Cells(v_cols, v_rows)
         /\ \A k : k \in Terminal!Within(a, c, b, d) <=>
              /\ k \in Cells(v_cols, v_rows)
              /\ k % v_cols \in a .. b - 1 /\ k \div v_cols \in c .. d - 1
BY DEF Terminal!Within, Cells

LEMMA ClearedIs ==
  ASSUME NEW a, NEW c, NEW b, NEW d
  PROVE  Terminal!Cleared(a, c, b, d) \subseteq Cells(v_cols, v_rows)
BY WithinIs DEF Terminal!Cleared

LEMMA CopiedIs ==
  ASSUME ConsoleInv, NEW c \in Positive, NEW r \in Positive
  PROVE  /\ Terminal!Copied(c, r) \in [Cells(c, r) -> Glyphs]
         /\ \A j \in 0 .. r - 1, i \in 0 .. c - 1 :
              j < v_rows /\ i < v_cols => Terminal!Copied(c, r)[c * j + i] = v_contents[v_cols * j + i]
<1>1. ASSUME NEW k \in Cells(c, r), k % c < v_cols, k \div c < v_rows
      PROVE  v_contents[v_cols * (k \div c) + (k % c)] \in Glyphs
  <2>1. k % c \in 0 .. c - 1 /\ k \div c \in 0 .. r - 1 /\ r \in Nat
    BY CellIs DEF Positive
  <2>2. v_cols \in Positive /\ v_rows \in Nat /\ k \div c \in 0 .. v_rows - 1 /\ k % c \in 0 .. v_cols - 1
    BY <1>1, <2>1 DEF ConsoleInv, Positive
  <2>3. v_cols * (k \div c) + (k % c) \in Cells(v_cols, v_rows)
    BY <2>2, InCells
  <2> QED BY <2>3 DEF ConsoleInv
<1>2. Terminal!Copied(c, r) = [k \in Cells(c, r) |->
        IF k % c < v_cols /\ k \div c < v_rows
        THEN v_contents[v_cols * (k \div c) + (k % c)] ELSE Terminal!Empty]
  BY DEF Terminal!Copied, Cells
<1>3. Terminal!Empty \in Glyphs
  BY DEF Glyphs
<1>4. Terminal!Copied(c, r) \in [Cells(c, r) -> Glyphs]
  BY <1>1, <1>2, <1>3
<1>5. ASSUME NEW j \in 0 .. r - 1, NEW i \in 0 .. c - 1, j < v_rows, i < v_cols
      PROVE  Terminal!Copied(c, r)[c * j + i] = v_contents[v_cols * j + i]
  <2>1. c * j + i \in Cells(c, r) /\ (c * j + i) \div c = j /\ (c * j + i) % c = i
    <3>1. r \in Nat /\ j \in Nat
      BY DEF Positive
    <3> QED BY <3>1, InCells, PlaceIs
  <2> QED BY <1>2, <1>5, <2>1
<1> QED BY <1>4, <1>5

(* Where a text that ends within its row goes.                             *)
LEMMA TextGoes ==
  ASSUME ConsoleInv, NEW col \in Nat, NEW row \in Nat, NEW n \in Nat, NEW k \in 0 .. n - 1,
         col + n <= v_cols
  PROVE  /\ Terminal!Target(col, row, k) = v_cols * row + (col + k)
         /\ (col + k) \div v_cols = 0 /\ col + k \in 0 .. v_cols - 1
<1>1. v_cols \in Positive /\ col + k \in 0 .. v_cols - 1
  BY DEF ConsoleInv, Positive
<1>2. v_cols * 0 + (col + k) = col + k
  BY <1>1 DEF Positive
<1>3. (col + k) \div v_cols = 0
  BY <1>1, <1>2, PlaceIs
<1>4. v_cols * row + col + k = v_cols * row + (col + k)
  BY <1>1 DEF Positive
<1> QED BY <1>1, <1>3, <1>4 DEF Terminal!Target

-----------------------------------------------------------------------------
(* What each request does to the cells, and what it has repainted.         *)
Repaints ==
  \A k \in DOMAIN v_contents' :
    k \notin DOMAIN v_contents \/ v_contents'[k] # v_contents[k] => k \in v_repainted'
SameSize == UNCHANGED <<v_cols, v_rows>>
Draws == /\ v_contents' \in [Cells(v_cols, v_rows) -> Glyphs]
         /\ v_repainted' \subseteq Cells(v_cols, v_rows)

LEMMA TextDrawn ==
  ASSUME ConsoleNumbers, ConsoleInv, NEW col \in Nat, NEW row \in Nat, NEW n \in Nat,
         NEW text \in [1 .. n -> Chars], Terminal!DrawText(col, row, text)
  PROVE  Draws /\ Repaints
<1>1. v_cols \in Positive /\ v_rows \in Positive /\ v_contents \in [Cells(v_cols, v_rows) -> Glyphs]
      /\ DOMAIN v_contents = Cells(v_cols, v_rows) /\ v_foreground \in -1 .. 7
  BY DEF ConsoleInv
<1>2. Len(text) = n /\ col + n <= v_cols
  <2>1. Len(text) = n
    OBVIOUS
  <2> QED BY <2>1 DEF Terminal!DrawText, ConsoleNumbers
<1> DEFINE taken == {k \in 0 .. n - 1 : row + (col + k) \div v_cols < v_rows}
           writes(t) == {k \in taken : Terminal!Target(col, row, k) = t}
           lastOf(t) == CHOOSE k \in writes(t) : \A l \in writes(t) : l <= k
           new == [t \in DOMAIN v_contents |->
                     IF writes(t) = {} THEN v_contents[t]
                     ELSE <<text[lastOf(t) + 1], v_foreground>>]
<1>3. CASE col >= v_cols \/ row >= v_rows
  <2>1. v_contents' = v_contents /\ v_repainted' = {}
    BY <1>3 DEF Terminal!DrawText
  <2> QED BY <1>1, <2>1 DEF Draws, Repaints
<1>4. CASE ~(col >= v_cols \/ row >= v_rows)
  <2>1. v_contents' = new /\ v_repainted' = Terminal!Drawn(col, row, n)
    BY <1>2, <1>4 DEF Terminal!DrawText
  <2>2. ASSUME NEW t \in Cells(v_cols, v_rows), writes(t) # {}
        PROVE  t \in Terminal!Drawn(col, row, n) /\ new[t] \in Glyphs
    <3>1. PICK k \in 0 .. n - 1 : Terminal!Target(col, row, k) = t
      BY <2>2
    <3>2. t = v_cols * row + (col + k) /\ col + k \in 0 .. v_cols - 1
      BY <1>2, <3>1, TextGoes
    <3>3. t \div v_cols = row /\ t % v_cols = col + k
      BY <1>1, <3>2, PlaceIs
    <3>4. t \in Terminal!Within(col, row, col + n, row + 1)
      BY <3>1, <3>3, WithinIs
    <3>5. \A j \in writes(t) : j = k
      <4>1. ASSUME NEW j \in 0 .. n - 1, Terminal!Target(col, row, j) = t PROVE j = k
        <5>1. t = v_cols * row + (col + j) /\ col + j \in 0 .. v_cols - 1
          BY <1>2, <4>1, TextGoes
        <5>2. t % v_cols = col + j
          BY <1>1, <5>1, PlaceIs
        <5> QED BY <3>3, <5>2
      <4> QED BY <4>1
    <3>6. lastOf(t) = k
      <4>1. writes(t) = {k}
        BY <2>2, <3>5
      <4> HIDE DEF writes
      <4> QED BY <4>1
    <3>7. new[t] = <<text[k + 1], v_foreground>>
      <4> HIDE DEF writes, lastOf
      <4> QED BY <1>1, <2>2, <3>6
    <3>8. text[k + 1] \in Chars
      BY <3>1
    <3>9. t \in Terminal!Drawn(col, row, n)
      BY <3>4 DEF Terminal!Drawn
    <3>10. <<text[k + 1], v_foreground>> \in Glyphs
      BY <1>1, <3>8 DEF Glyphs
    <3> QED
      <4> HIDE DEF new
      <4> QED BY <3>7, <3>9, <3>10
  <2>3. ASSUME NEW t \in Cells(v_cols, v_rows), writes(t) = {}
        PROVE  new[t] = v_contents[t]
    <3> HIDE DEF writes
    <3> QED BY <1>1, <2>3
  <2>4. new = [t \in Cells(v_cols, v_rows) |-> new[t]]
    BY <1>1
  <2>5. \A t \in Cells(v_cols, v_rows) : new[t] \in Glyphs
    <3> HIDE DEF new, writes
    <3> QED BY <1>1, <2>2, <2>3
  <2>6. Terminal!Drawn(col, row, n) \subseteq Cells(v_cols, v_rows)
    BY WithinIs DEF Terminal!Drawn
  <2>7. Draws
    <3> HIDE DEF new
    <3> QED BY <2>1, <2>4, <2>5, <2>6 DEF Draws
  <2>8. Repaints
    <3> HIDE DEF new, writes
    <3> QED BY <1>1, <2>1, <2>2, <2>3, <2>7 DEF Draws, Repaints
  <2> QED BY <2>7, <2>8
<1> QED BY <1>3, <1>4

LEMMA RectCleared ==
  ASSUME ConsoleInv, NEW a, NEW c, NEW b, NEW d, Terminal!ClearRect(a, c, b, d)
  PROVE  Draws /\ Repaints
<1>1. v_contents \in [Cells(v_cols, v_rows) -> Glyphs] /\ DOMAIN v_contents = Cells(v_cols, v_rows)
  BY DEF ConsoleInv
<1> QED BY <1>1, ClearedIs DEF Terminal!ClearRect, Draws, Repaints, Glyphs

(* The lines that scroll: where they go to, where they come from.          *)
ScrollsRight(dest, src, m) ==
  \A r \in 0 .. v_rows - 1, i \in 0 .. v_cols - 1 :
    /\ r \in dest .. dest + m - 1 => v_contents'[v_cols * r + i] = v_contents[v_cols * (r + src - dest) + i]
    /\ r \notin (dest .. dest + m - 1) \cup (src .. src + m - 1) =>
         v_contents'[v_cols * r + i] = v_contents[v_cols * r + i]

LEMMA ViewScrolled ==
  ASSUME ConsoleInv, NEW dest \in Nat, NEW src \in Nat, NEW n \in Nat,
         Terminal!ScrollView(dest, src, n)
  PROVE  /\ Draws /\ Repaints
         /\ v_scrolled' # Terminal!Unscrolled =>
              \E m \in Nat : v_scrolled' = <<dest, src, m>> /\ ScrollsRight(dest, src, m)
<1>1. v_cols \in Positive /\ v_rows \in Positive /\ v_contents \in [Cells(v_cols, v_rows) -> Glyphs]
      /\ DOMAIN v_contents = Cells(v_cols, v_rows)
  BY DEF ConsoleInv
<1>2. CASE dest >= v_rows \/ src >= v_rows
  BY <1>1, <1>2 DEF Terminal!ScrollView, Draws, Repaints
<1>3. CASE dest < v_rows /\ src < v_rows
  <2> PICK m : m = Terminal!Least(n, Terminal!Least(v_rows - dest, v_rows - src))
    OBVIOUS
  <2>1. m \in Nat /\ dest + m <= v_rows /\ src + m <= v_rows
    BY <1>1, <1>3 DEF Terminal!Least, Positive
  <2> DEFINE moved == Terminal!Within(0, dest, v_cols, dest + m)
             vacated == Terminal!Vacated(dest, src, m)
  <2>2. ~(dest >= v_rows \/ src >= v_rows)
    BY <1>1, <1>3 DEF Positive
  <2>3. /\ v_contents' = [k \in DOMAIN v_contents |->
             IF k \in vacated THEN Terminal!Empty
             ELSE IF k \in moved THEN v_contents[k + (src - dest) * v_cols] ELSE v_contents[k]]
        /\ v_repainted' = moved \cup vacated /\ v_scrolled' = <<dest, src, m>>
    BY <2>2 DEF Terminal!ScrollView
  <2>4. moved \subseteq Cells(v_cols, v_rows) /\ vacated \subseteq Cells(v_cols, v_rows)
    BY WithinIs, ClearedIs DEF Terminal!Vacated
  <2>5. ASSUME NEW r \in 0 .. v_rows - 1, NEW i \in 0 .. v_cols - 1
        PROVE  /\ v_cols * r + i \in Cells(v_cols, v_rows)
               /\ v_cols * r + i \in moved <=> r \in dest .. dest + m - 1
               /\ v_cols * r + i \in vacated =>
                    r \notin dest .. dest + m - 1 /\ r \in src .. src + m - 1
    <3> HIDE DEF moved, vacated
    <3>0. v_cols \in Nat /\ v_rows \in Nat /\ r \in Nat
      BY <1>1 DEF Positive
    <3>1. /\ v_cols * r + i \in Cells(v_cols, v_rows) /\ v_cols \in Nat /\ v_rows \in Nat
          /\ (v_cols * r + i) \div v_cols = r /\ (v_cols * r + i) % v_cols = i
      BY <1>1, <3>0, InCells, PlaceIs
    <3>2. v_cols * r + i \in moved <=> r \in dest .. dest + m - 1
      BY <3>1, <2>1, WithinIs DEF moved
    <3>3. ASSUME NEW c \in Nat, NEW d \in Nat, v_cols * r + i \in Terminal!Cleared(0, c, v_cols, d)
          PROVE  r \in c .. d - 1
      <4>1. v_cols * r + i \in Terminal!Within(0, c, Terminal!Least(v_cols, v_cols), Terminal!Least(d, v_rows))
        BY <3>3 DEF Terminal!Cleared
      <4>2. r \in c .. Terminal!Least(d, v_rows) - 1
        BY <3>1, <4>1, WithinIs
      <4> QED BY <3>1, <4>2 DEF Terminal!Least
    <3>4. CASE dest < src
      <4>1. vacated = Terminal!Cleared(0, Terminal!Most(src, dest + m), v_cols, src + m)
        BY <3>4 DEF vacated, Terminal!Vacated
      <4>2. Terminal!Most(src, dest + m) \in Nat /\ Terminal!Most(src, dest + m) >= src
            /\ Terminal!Most(src, dest + m) >= dest + m
        BY <2>1 DEF Terminal!Most
      <4>3. v_cols * r + i \in vacated => r \in Terminal!Most(src, dest + m) .. src + m - 1
        BY <2>1, <3>3, <4>1, <4>2
      <4> QED BY <2>1, <3>1, <3>2, <4>2, <4>3
    <3>5. CASE src < dest
      <4>1. vacated = Terminal!Cleared(0, src, v_cols, Terminal!Least(m, dest - src))
        BY <3>5 DEF vacated, Terminal!Vacated
      <4>2. Terminal!Least(m, dest - src) \in Nat /\ Terminal!Least(m, dest - src) <= m
            /\ Terminal!Least(m, dest - src) <= dest
        BY <2>1, <3>5 DEF Terminal!Least
      <4>3. v_cols * r + i \in vacated => r \in src .. Terminal!Least(m, dest - src) - 1
        BY <3>3, <4>1, <4>2
      <4> QED BY <2>1, <3>1, <3>2, <4>2, <4>3
    <3>6. CASE src = dest
      <4>1. vacated = {}
        BY <3>6 DEF vacated, Terminal!Vacated
      <4> QED BY <3>1, <3>2, <4>1
    <3> QED BY <3>4, <3>5, <3>6
  <2>6. ASSUME NEW k \in moved
        PROVE  k + (src - dest) * v_cols \in Cells(v_cols, v_rows)
    <3>1. k \in Cells(v_cols, v_rows) /\ k \div v_cols \in dest .. dest + m - 1
      BY <1>1, <2>1, WithinIs DEF Positive
    <3>2. PICK r \in Nat, i \in 0 .. v_cols - 1 : k = v_cols * r + i /\ r \in dest .. dest + m - 1
      BY <1>1, <2>1, <3>1, CellIs DEF Positive
    <3>3. r + src - dest \in 0 .. v_rows - 1 /\ v_cols \in Nat /\ v_rows \in Nat
      BY <1>1, <2>1, <3>2 DEF Positive
    <3>4. k + (src - dest) * v_cols = v_cols * (r + src - dest) + i
      BY <3>2, <3>3
    <3> QED BY <1>1, <3>3, <3>4, InCells
  <2>7. Draws
    <3> HIDE DEF moved, vacated
    <3>1. Terminal!Empty \in Glyphs
      BY DEF Glyphs
    <3> QED BY <1>1, <2>3, <2>4, <2>6, <3>1 DEF Draws
  <2>8. Repaints
    <3> HIDE DEF moved, vacated
    <3> QED BY <1>1, <2>3 DEF Repaints
  <2>9. ScrollsRight(dest, src, m)
    <3> SUFFICES ASSUME NEW r \in 0 .. v_rows - 1, NEW i \in 0 .. v_cols - 1
                 PROVE  /\ r \in dest .. dest + m - 1 =>
                             v_contents'[v_cols * r + i] = v_contents[v_cols * (r + src - dest) + i]
                        /\ r \notin (dest .. dest + m - 1) \cup (src .. src + m - 1) =>
                             v_contents'[v_cols * r + i] = v_contents[v_cols * r + i]
      BY DEF ScrollsRight
    <3>1. v_cols * r + i + (src - dest) * v_cols = v_cols * (r + src - dest) + i
      BY <1>1 DEF Positive
    <3> HIDE DEF moved, vacated
    <3>2. CASE r \in dest .. dest + m - 1
      BY <1>1, <2>3, <2>5, <3>1, <3>2
    <3>3. CASE r \notin dest .. dest + m - 1
      BY <1>1, <2>3, <2>5, <3>3
    <3> QED BY <3>2, <3>3
  <2> QED BY <2>1, <2>3, <2>7, <2>8, <2>9
<1> QED BY <1>1, <1>2, <1>3 DEF Positive

-----------------------------------------------------------------------------
(* Requests come from a terminal that may believe in another size.         *)
LEMMA ConsoleSteps ==
  ASSUME ConsoleNumbers, ConsoleInv, Terminal!Next
  PROVE  \/ \E w \in Columns, h \in Lines : Terminal!Resize(w, h)
         \/ Terminal!Resized
         \/ \E n \in Colours : Terminal!SetRendition(n)
         \/ \E col, row \in Nat : Terminal!UpdateCursorPos(col, row)
         \/ \E dest, src, n \in Nat : Terminal!ScrollView(dest, src, n)
         \/ /\ \/ \E col, row \in Nat, n \in Nat : \E text \in [1 .. n -> Chars] :
                   Terminal!DrawText(col, row, text)
               \/ \E a, c, b, d \in Nat : Terminal!ClearRect(a, c, b, d)
            /\ Draws /\ Repaints
<1>1. v_tcols \in Nat /\ v_trows \in Nat
  BY DEF ConsoleInv, Positive
<1>2. ASSUME NEW col \in 0 .. v_tcols - 1, NEW row \in 0 .. v_trows - 1,
             NEW text \in Terminal!Texts, Terminal!DrawText(col, row, text)
      PROVE  \E n \in Nat : text \in [1 .. n -> Chars] /\ Draws /\ Repaints
  <2>1. PICK n \in 1 .. v_tcols : text \in [1 .. n -> Chars]
    BY DEF Terminal!Texts
  <2>2. n \in Nat /\ col \in Nat /\ row \in Nat
    BY <1>1
  <2> QED BY <1>2, <2>1, <2>2, TextDrawn
<1> QED BY <1>1, <1>2, RectCleared DEF Terminal!Next

LEMMA ResizeIs ==
  ASSUME ConsoleNumbers, ConsoleInv, NEW w \in Columns, NEW h \in Lines, Terminal!Resize(w, h)
  PROVE  /\ ConsoleInv' /\ Repaints
         /\ \A j \in 0 .. Terminal!Least(v_rows, v_rows') - 1,
               i \in 0 .. Terminal!Least(v_cols, v_cols') - 1 :
              v_contents'[v_cols' * j + i] = v_contents[v_cols * j + i]
<1> PICK c, r : c = Terminal!Most(w, 1) /\ r = Terminal!Most(h, 1)
  OBVIOUS
<1>1. c \in Positive /\ r \in Positive /\ c \in Columns \cup {1} /\ r \in Lines \cup {1}
  BY DEF ConsoleNumbers, Terminal!Most, Positive
<1>2. /\ v_cols' = c /\ v_rows' = r /\ v_contents' = Terminal!Copied(c, r)
      /\ v_repainted' = Cells(c, r) /\ v_events' = Append(v_events, <<c, r>>)
      /\ UNCHANGED <<v_foreground, v_cursor, v_tcols, v_trows>>
  BY DEF Terminal!Resize, Cells
<1>3. v_contents' \in [Cells(c, r) -> Glyphs]
  BY <1>1, <1>2, CopiedIs
<1>4. /\ v_events' \in Seq(Positive \X Positive) /\ v_events' # <<>>
      /\ v_events'[Len(v_events')] = <<c, r>>
  BY <1>1, <1>2 DEF ConsoleInv
<1>5. ConsoleInv'
  BY <1>1, <1>2, <1>3, <1>4 DEF ConsoleInv
<1>6. Repaints
  BY <1>2, <1>3 DEF Repaints
<1>7. v_cols \in Positive /\ v_rows \in Positive
  BY DEF ConsoleInv
<1>8. ASSUME NEW j \in 0 .. Terminal!Least(v_rows, r) - 1, NEW i \in 0 .. Terminal!Least(v_cols, c) - 1
      PROVE  v_contents'[c * j + i] = v_contents[v_cols * j + i]
  <2>1. j \in 0 .. r - 1 /\ i \in 0 .. c - 1 /\ j < v_rows /\ i < v_cols
    BY <1>1, <1>7 DEF Terminal!Least, Positive
  <2> QED BY <1>1, <1>2, <2>1, CopiedIs
<1> QED BY <1>2, <1>5, <1>6, <1>8

LEMMA ConsoleStep ==
  ASSUME ConsoleNumbers, ConsoleInv, [Terminal!Next]_(Terminal!vars)
  PROVE  ConsoleInv'
<1>0. ASSUME SameSize, Draws, UNCHANGED <<v_events, v_tcols, v_trows>>, v_foreground' \in -1 .. 7
      PROVE  ConsoleInv'
  BY <1>0 DEF SameSize, Draws, ConsoleInv
<1>1. ASSUME NEW w \in Columns, NEW h \in Lines, Terminal!Resize(w, h) PROVE ConsoleInv'
  BY <1>1, ResizeIs
<1>2. CASE Terminal!Resized
  <2>1. v_events # <<>> /\ v_tcols' = Head(v_events)[1] /\ v_trows' = Head(v_events)[2]
        /\ v_events' = Tail(v_events) /\ v_repainted' = {}
        /\ UNCHANGED <<v_cols, v_rows, v_contents, v_foreground>>
    BY <1>2 DEF Terminal!Resized
  <2>2. v_events \in Seq(Positive \X Positive) /\ Len(v_events) \in Nat \ {0}
        /\ Head(v_events) = v_events[1] /\ v_events[1] \in Positive \X Positive
        /\ Tail(v_events) \in Seq(Positive \X Positive) /\ Len(Tail(v_events)) = Len(v_events) - 1
    BY <2>1 DEF ConsoleInv
  <2>3. v_tcols' \in Positive /\ v_trows' \in Positive
    BY <2>1, <2>2
  <2>4. CASE Len(v_events) = 1
    <3>1. Tail(v_events) = <<>> /\ v_events[1] = <<v_cols, v_rows>>
      BY <2>1, <2>2, <2>4 DEF ConsoleInv
    <3> QED BY <2>1, <2>2, <2>3, <3>1 DEF ConsoleInv
  <2>5. CASE Len(v_events) # 1
    <3>1. Tail(v_events) # <<>> /\ Tail(v_events)[Len(Tail(v_events))] = v_events[Len(v_events)]
      <4>1. \A i \in 1 .. Len(v_events) - 1 : Tail(v_events)[i] = v_events[i + 1]
        BY <2>2
      <4>2. Len(v_events) - 1 \in 1 .. Len(v_events) - 1 /\ Len(v_events) - 1 + 1 = Len(v_events)
        BY <2>2, <2>5
      <4>3. Tail(v_events)[Len(v_events) - 1] = v_events[Len(v_events)]
        BY <4>1, <4>2
      <4>4. Tail(v_events) # <<>>
        BY <2>2, <2>5, EmptySeq
      <4> QED BY <2>2, <4>3, <4>4
    <3> QED BY <2>1, <2>2, <2>3, <3>1 DEF ConsoleInv
  <2> QED BY <2>4, <2>5
<1>3. ASSUME NEW n \in Colours, Terminal!SetRendition(n) PROVE ConsoleInv'
  <2>1. Terminal!Colour(n) \in -1 .. 7
    BY DEF Terminal!Colour
  <2> QED BY <1>3, <2>1 DEF Terminal!SetRendition, Terminal!terminal, ConsoleInv
<1>4. ASSUME NEW col \in Nat, NEW row \in Nat, Terminal!UpdateCursorPos(col, row) PROVE ConsoleInv'
  <2>1. v_repainted' \subseteq Cells(v_cols, v_rows) /\ v_contents' = v_contents
    BY <1>4, WithinIs DEF Terminal!UpdateCursorPos
  <2> QED BY <1>4, <2>1 DEF Terminal!UpdateCursorPos, Terminal!terminal, ConsoleInv
<1>5. ASSUME NEW dest \in Nat, NEW src \in Nat, NEW n \in Nat, Terminal!ScrollView(dest, src, n)
      PROVE  ConsoleInv'
  <2>1. Draws
    BY <1>5, ViewScrolled
  <2> QED BY <1>0, <1>5, <2>1 DEF Terminal!ScrollView, Terminal!terminal, SameSize, ConsoleInv
<1>6. ASSUME NEW col, NEW row, NEW text, Terminal!DrawText(col, row, text), Draws PROVE ConsoleInv'
  <2>1. SameSize /\ UNCHANGED <<v_events, v_tcols, v_trows>> /\ v_foreground' = v_foreground
    BY <1>6 DEF Terminal!DrawText, Terminal!terminal, SameSize
  <2> QED BY <1>0, <1>6, <2>1 DEF ConsoleInv
<1>7. ASSUME NEW a, NEW c, NEW b, NEW d, Terminal!ClearRect(a, c, b, d), Draws PROVE ConsoleInv'
  <2>1. SameSize /\ UNCHANGED <<v_events, v_tcols, v_trows>> /\ v_foreground' = v_foreground
    BY <1>7 DEF Terminal!ClearRect, Terminal!terminal, SameSize
  <2> QED BY <1>0, <1>7, <2>1 DEF ConsoleInv
<1>8. CASE UNCHANGED Terminal!vars
  BY <1>8 DEF Terminal!vars, ConsoleInv
<1> QED BY <1>1, <1>2, <1>3, <1>4, <1>5, <1>6, <1>7, <1>8, ConsoleSteps

LEMMA ConsoleInductive == ASSUME ConsoleNumbers PROVE Terminal!Spec => []ConsoleInv
<1>1. Terminal!Init => ConsoleInv
  <2>1. Cells(2, 2) = 0 .. 3
    BY DEF Cells
  <2> QED BY <2>1 DEF Terminal!Init, ConsoleInv, Positive, Glyphs
<1>2. ConsoleInv /\ [Terminal!Next]_(Terminal!vars) => ConsoleInv'
  BY ConsoleStep
<1> QED BY <1>1, <1>2, PTL DEF Terminal!Spec

(* A console has the cells of its size, and when the terminal has handled  *)
(* the events it knows that size (consoleResize, Terminal::resize).        *)
THEOREM ConsoleSize ==
  ASSUME ConsoleNumbers
  PROVE  Terminal!Spec => [](Terminal!TypeOK /\ Terminal!SizesAgree)
<1>1. ConsoleInv => Terminal!TypeOK /\ Terminal!SizesAgree
  BY DEF ConsoleInv, Terminal!TypeOK, Terminal!SizesAgree, Cells, Glyphs
<1> QED BY <1>1, ConsoleInductive, PTL

(* What a request changed is painted again, scrolling moves whole lines    *)
(* and touches no others, and a resize keeps the cells that still have a   *)
(* place (consoleDrawText, consoleScrollView, consoleResizeContents).      *)
THEOREM ConsoleCells ==
  ASSUME ConsoleNumbers
  PROVE  Terminal!Spec => /\ Terminal!ChangedIsRepainted /\ Terminal!ScrollKeepsLines
                          /\ Terminal!ResizeKeepsCells
<1> DEFINE Kept ==
      <<v_cols, v_rows>>' # <<v_cols, v_rows>> =>
        \A r \in 0 .. Terminal!Least(v_rows, v_rows') - 1,
           i \in 0 .. Terminal!Least(v_cols, v_cols') - 1 :
          v_contents'[v_cols' * r + i] = v_contents[v_cols * r + i]
           Moved ==
      v_scrolled' # Terminal!Unscrolled =>
        LET dest == v_scrolled'[1]  src == v_scrolled'[2]  m == v_scrolled'[3]
        IN \A r \in 0 .. v_rows - 1 :
             /\ r \in dest .. dest + m - 1 =>
                  Terminal!Line(v_contents', r, v_cols) = Terminal!Line(v_contents, r + src - dest, v_cols)
             /\ r \notin (dest .. dest + m - 1) \cup (src .. src + m - 1) =>
                  Terminal!Line(v_contents', r, v_cols) = Terminal!Line(v_contents, r, v_cols)
           All == Repaints /\ Moved /\ Kept
<1>1. ASSUME ConsoleInv, Terminal!Next PROVE All
  <2>1. ASSUME NEW w \in Columns, NEW h \in Lines, Terminal!Resize(w, h) PROVE All
    <3>1. v_scrolled' = Terminal!Unscrolled
      BY <2>1 DEF Terminal!Resize
    <3>2. Repaints /\ Kept
      BY <1>1, <2>1, ResizeIs
    <3> QED BY <3>1, <3>2
  <2>2. ASSUME SameSize, v_contents' = v_contents, v_scrolled' = Terminal!Unscrolled PROVE All
    BY <2>2 DEF SameSize, Repaints
  <2>3. ASSUME NEW dest \in Nat, NEW src \in Nat, NEW n \in Nat, Terminal!ScrollView(dest, src, n)
        PROVE  All
    <3>1. Kept
      BY <2>3 DEF Terminal!ScrollView
    <3>2. ASSUME v_scrolled' # Terminal!Unscrolled PROVE Moved
      <4>1. PICK m \in Nat : v_scrolled' = <<dest, src, m>> /\ ScrollsRight(dest, src, m)
        BY <1>1, <2>3, <3>2, ViewScrolled
      <4>2. v_scrolled'[1] = dest /\ v_scrolled'[2] = src /\ v_scrolled'[3] = m
        BY <4>1
      <4>3. ASSUME NEW r \in 0 .. v_rows - 1
            PROVE  /\ r \in dest .. dest + m - 1 =>
                        Terminal!Line(v_contents', r, v_cols) = Terminal!Line(v_contents, r + src - dest, v_cols)
                   /\ r \notin (dest .. dest + m - 1) \cup (src .. src + m - 1) =>
                        Terminal!Line(v_contents', r, v_cols) = Terminal!Line(v_contents, r, v_cols)
        BY <4>1 DEF ScrollsRight, Terminal!Line
      <4> QED BY <4>2, <4>3
    <3>3. Repaints
      BY <1>1, <2>3, ViewScrolled
    <3>4. Moved
      BY <3>2
    <3> QED BY <3>1, <3>3, <3>4
  <2>4. ASSUME SameSize, Repaints, v_scrolled' = Terminal!Unscrolled PROVE All
    BY <2>4 DEF SameSize
  <2> HIDE DEF All
  <2>5. Terminal!Resized => All
    BY <2>2 DEF Terminal!Resized, SameSize
  <2>6. (\E n \in Colours : Terminal!SetRendition(n)) => All
    BY <2>2 DEF Terminal!SetRendition, SameSize
  <2>7. (\E col, row \in Nat : Terminal!UpdateCursorPos(col, row)) => All
    BY <2>2 DEF Terminal!UpdateCursorPos, SameSize
  <2>8. ASSUME NEW col, NEW row, NEW text, Terminal!DrawText(col, row, text), Repaints PROVE All
    <3>1. SameSize /\ v_scrolled' = Terminal!Unscrolled
      BY <2>8 DEF Terminal!DrawText, SameSize
    <3> QED BY <2>4, <2>8, <3>1
  <2>9. ASSUME NEW a, NEW c, NEW b, NEW d, Terminal!ClearRect(a, c, b, d), Repaints PROVE All
    <3>1. SameSize /\ v_scrolled' = Terminal!Unscrolled
      BY <2>9 DEF Terminal!ClearRect, SameSize
    <3> QED BY <2>4, <2>9, <3>1
  <2> QED BY <1>1, <2>1, <2>3, <2>5, <2>6, <2>7, <2>8, <2>9, ConsoleSteps
<1>2. ConsoleInv /\ [Terminal!Next]_(Terminal!vars) =>
        [Repaints]_(Terminal!vars) /\ [Moved]_(Terminal!vars) /\ [Kept]_(Terminal!vars)
  BY <1>1
<1>3. Terminal!Spec => [][Repaints]_(Terminal!vars) /\ [][Moved]_(Terminal!vars) /\ [][Kept]_(Terminal!vars)
  <2> HIDE DEF Moved, Kept
  <2> QED BY <1>2, ConsoleInductive, PTL DEF Terminal!Spec
<1> QED BY <1>3 DEF Repaints, Terminal!ChangedIsRepainted, Terminal!ScrollKeepsLines, Terminal!ResizeKeepsCells
-----------------------------------------------------------------------------
(* A set of numbers has a least one.                                       *)
LEMMA LeastNumber ==
  ASSUME NEW S, S \subseteq Nat, S # {}
  PROVE  \E m \in S : \A y \in S : m <= y
<1> DEFINE R == StrictSubsetOrdering(Nat)
           F == FiniteSubsetsOf(Nat)
           T == {0 .. x : x \in S}
<1>1. IsWellFoundedOn(R, F)
  BY FS_StrictSubsetOrderingWellFounded
<1>2. T \subseteq F
  <2>1. SUFFICES ASSUME NEW x \in S  PROVE 0 .. x \in F
    OBVIOUS
  <2>2. 0 .. x \in SUBSET Nat
    OBVIOUS
  <2>3. IsFiniteSet(0 .. x)
    BY FS_Interval
  <2> QED BY <2>2, <2>3 DEF FiniteSubsetsOf
<1>3. T # {}
  OBVIOUS
<1>4. PICK t \in T : \A u \in T : ~(<<u, t>> \in R)
  <2> HIDE DEF R, F, T
  <2> QED BY <1>1, <1>2, <1>3, WFMin
<1>5. PICK x \in S : t = 0 .. x
  BY <1>4
<1>6. \A y \in S : x <= y
  <2>1. TAKE y \in S
  <2>2. SUFFICES ASSUME y < x  PROVE FALSE
    OBVIOUS
  <2>3. 0 .. y \subseteq 0 .. x /\ x \in 0 .. x /\ x \notin 0 .. y
    BY <2>2
  <2>4. <<0 .. y, t>> \in R
    BY <1>5, <2>3 DEF StrictSubsetOrdering
  <2> QED BY <1>4, <2>4
<1> QED BY <1>6

(* Recursive functions on 0 .. n: f[0] is z, f[i] is g[<<i, f[i - 1]>>].   *)
Runs(f, V, z, g, n) ==
  f \in [0 .. n -> V] /\ f[0] = z /\ \A i \in 1 .. n : f[i] = g[<<i, f[i - 1]>>]
Unfolds(f, V, z, g, n) ==
  /\ f = [i \in 0 .. n |-> f[i]] /\ f[0] = z
  /\ \A i \in 1 .. n : f[i - 1] \in V => f[i] = g[<<i, f[i - 1]>>]

(* There is such a function.                                               *)
LEMMA Recursion ==
  ASSUME NEW V, NEW z \in V, NEW n \in Nat, NEW g \in [(1 .. n) \X V -> V]
  PROVE  \E f : Runs(f, V, z, g, n)
<1> DEFINE Exists(m) == \E f \in [0 .. m -> V] :
                          f[0] = z /\ \A i \in 1 .. m : f[i] = g[<<i, f[i - 1]>>]
           Wrong == {m \in Nat : m <= n /\ ~Exists(m)}
<1> SUFFICES ASSUME ~Exists(n) PROVE FALSE
  BY DEF Runs
<1>1. PICK m \in Wrong : \A j \in Wrong : m <= j
  <2>1. Wrong \subseteq Nat /\ n \in Wrong
    OBVIOUS
  <2> HIDE DEF Wrong
  <2> QED BY <2>1, LeastNumber
<1>2. Exists(0)
  <2> DEFINE f == [i \in 0 .. 0 |-> z]
  <2>1. f \in [0 .. 0 -> V] /\ f[0] = z /\ 1 .. 0 = {}
    OBVIOUS
  <2> HIDE DEF f
  <2> QED BY <2>1
<1>3. m \in Nat /\ m <= n /\ m # 0 /\ ~Exists(m)
  BY <1>1, <1>2
<1>4. Exists(m - 1)
  <2>1. m - 1 \in Nat /\ m - 1 <= n /\ ~(m <= m - 1)
    BY <1>3
  <2> HIDE DEF Exists
  <2> QED BY <1>1, <2>1
<1>5. PICK f \in [0 .. m - 1 -> V] :
        f[0] = z /\ \A i \in 1 .. m - 1 : f[i] = g[<<i, f[i - 1]>>]
  BY <1>4
<1> DEFINE h == [i \in 0 .. m |-> IF i = m THEN g[<<m, f[m - 1]>>] ELSE f[i]]
<1>6. g[<<m, f[m - 1]>>] \in V
  <2>1. f[m - 1] \in V /\ m \in 1 .. n
    BY <1>3, <1>5
  <2> QED BY <2>1
<1>7. h \in [0 .. m -> V]
  <2>1. \A i \in 0 .. m : i # m => f[i] \in V
    BY <1>3, <1>5
  <2> QED BY <1>6, <2>1
<1>8. h[0] = z
  BY <1>3, <1>5
<1>9. ASSUME NEW i \in 1 .. m PROVE h[i] = g[<<i, h[i - 1]>>]
  <2>1. i - 1 \in 0 .. m /\ i - 1 # m /\ h[i - 1] = f[i - 1]
    BY <1>3
  <2>2. CASE i = m
    BY <2>1, <2>2
  <2>3. CASE i # m
    <3>1. i \in 1 .. m - 1 /\ h[i] = f[i]
      BY <1>3, <2>3
    <3> QED BY <1>5, <2>1, <3>1
  <2> QED BY <2>2, <2>3
<1> HIDE DEF h
<1> QED BY <1>3, <1>7, <1>8, <1>9

(* What unfolds as such a function is one.                                 *)
LEMMA Unfolded ==
  ASSUME NEW V, NEW z \in V, NEW n \in Nat, NEW g \in [(1 .. n) \X V -> V], NEW f,
         Unfolds(f, V, z, g, n)
  PROVE  Runs(f, V, z, g, n)
<1>1. f[0] = z /\ \A i \in 1 .. n : f[i - 1] \in V => f[i] = g[<<i, f[i - 1]>>]
  BY DEF Unfolds
<1>2. ASSUME NEW i \in 0 .. n, f[i] \notin V PROVE FALSE
  <2> DEFINE Wrong == {m \in Nat : m <= n /\ f[m] \notin V}
  <2>1. PICK m \in Wrong : \A j \in Wrong : m <= j
    <3>1. Wrong \subseteq Nat /\ i \in Wrong
      BY <1>2
    <3> HIDE DEF Wrong
    <3> QED BY <3>1, LeastNumber
  <2>2. m \in 1 .. n /\ f[m] \notin V
    BY <1>1, <2>1
  <2>3. f[m - 1] \in V
    BY <2>1, <2>2
  <2>4. <<m, f[m - 1]>> \in (1 .. n) \X V
    BY <2>2, <2>3
  <2> QED BY <1>1, <2>2, <2>3, <2>4
<1>3. \A i \in 1 .. n : i - 1 \in 0 .. n
  OBVIOUS
<1>4. \A i \in 1 .. n : f[i] = g[<<i, f[i - 1]>>]
  BY <1>1, <1>2, <1>3
<1>5. f \in [0 .. n -> V]
  <2>1. f = [i \in 0 .. n |-> f[i]]
    BY Zenon DEF Unfolds
  <2> PICK h : h = [i \in 0 .. n |-> f[i]]
    OBVIOUS
  <2>2. h \in [0 .. n -> V]
    BY <1>2
  <2> QED BY <2>1, <2>2
<1> QED BY <1>1, <1>4, <1>5 DEF Runs
-----------------------------------------------------------------------------
(* Methods: a word holds numbers, and Nil is no record.                    *)
CONSTANTS MaxId, Half, Spelt, MaxLen, Classes, Supers, Methods, Properties \* Methods

VARIABLES c_nextId, c_class, c_props, c_request, c_outcome, c_aborted, c_called

Calls == INSTANCE Methods WITH
  nextId <- c_nextId, class <- c_class, props <- c_props, request <- c_request,
  outcome <- c_outcome, aborted <- c_aborted, called <- c_called

MethodNumbers ==
  /\ MaxId \in Nat /\ Half \in Nat \ {0} /\ Spelt \subseteq Int /\ MaxLen \in Nat
  /\ Nil \notin Classes /\ Nil \notin [error : BOOLEAN, replied : BOOLEAN]

(* Numbers that differ by a multiple of what a word holds.                 *)
LEMMA WordsDiffer ==
  ASSUME MethodNumbers, NEW n \in Int
  PROVE  /\ Calls!Unsigned(n) \in 0 .. 2 * Half - 1 /\ (n - Calls!Unsigned(n)) % (2 * Half) = 0
         /\ n \in 0 .. 2 * Half - 1 => Calls!Unsigned(n) = n
         /\ Calls!Signed(n) \in -Half .. Half - 1 /\ (n - Calls!Signed(n)) % (2 * Half) = 0
         /\ n \in -Half .. Half - 1 => Calls!Signed(n) = n
<1> PICK d \in Nat \ {0} : d = 2 * Half
  BY DEF MethodNumbers
<1>0. Half \in Nat \ {0}
  BY DEF MethodNumbers
<1>1. ASSUME NEW x \in Int
      PROVE  /\ x % d \in 0 .. d - 1 /\ (x - (x % d)) % d = 0
             /\ x \in 0 .. d - 1 => x % d = x
  <2>1. x % d \in 0 .. d - 1 /\ x = d * (x \div d) + (x % d) /\ x \div d \in Int
    OBVIOUS
  <2>2. x - (x % d) = d * (x \div d)
    BY <2>1
  <2>3. ASSUME NEW q \in Int PROVE (d * q) % d = 0
    OBVIOUS
  <2>4. x \in 0 .. d - 1 => x % d = x
    OBVIOUS
  <2> QED BY <2>1, <2>2, <2>3, <2>4
<1>2. Calls!Unsigned(n) = n % d /\ Calls!Signed(n) = ((n + Half) % d) - Half
  BY DEF Calls!Unsigned, Calls!Signed
<1>3. n - (((n + Half) % d) - Half) = (n + Half) - ((n + Half) % d)
  BY <1>0, <1>1
<1>4. n + Half \in Int
  BY <1>0
<1>5. (n + Half) % d \in 0 .. d - 1 /\ ((n + Half) - ((n + Half) % d)) % d = 0
      /\ (n + Half \in 0 .. d - 1 => (n + Half) % d = n + Half)
  BY <1>1, <1>4
<1>6. Calls!Unsigned(n) \in 0 .. d - 1 /\ (n - Calls!Unsigned(n)) % d = 0
      /\ (n \in 0 .. d - 1 => Calls!Unsigned(n) = n)
  BY <1>1, <1>2
<1>7. (n - Calls!Signed(n)) % d = 0
  BY <1>2, <1>3, <1>5
<1>8. Calls!Signed(n) \in -Half .. Half - 1
  BY <1>0, <1>2, <1>5
<1>9. n \in -Half .. Half - 1 => Calls!Signed(n) = n
  BY <1>0, <1>2, <1>5
<1> QED BY <1>6, <1>7, <1>8, <1>9

LEMMA SentIs ==
  ASSUME NEW v \in Calls!Sent
  PROVE  /\ v = [kind |-> v.kind, n |-> v.n] /\ v.kind \in {"string", "uint32", "int32"}
         /\ v.kind = "string" => v.n \in Spelt
         /\ v.kind = "uint32" => v.n \in 0 .. 2 * Half - 1
         /\ v.kind = "int32" => v.n \in -Half .. Half - 1
BY DEF Calls!Sent, Calls!Value

(* What can be cast fits the type it is cast to, and says the same.        *)
LEMMA CastIs ==
  ASSUME MethodNumbers, NEW v \in Calls!Sent, NEW t, Calls!CanCast(v, t)
  PROVE  /\ Calls!Fits(Calls!Cast(v, t), t) /\ Calls!SameNumber(v, Calls!Cast(v, t))
         /\ Calls!Cast(v, t).kind = "object" => Calls!Cast(v, t).n \in Calls!objects
<1>1. v.n \in Int /\ Half \in Nat \ {0}
  BY SentIs DEF MethodNumbers
<1>2. CASE t \in {"any", v.kind}
  <2>1. Calls!Cast(v, t) = v /\ v.kind # "object"
    BY <1>2, SentIs DEF Calls!Cast
  <2> QED BY <1>2, <2>1, SentIs DEF Calls!Fits, Calls!SameNumber
<1>3. CASE t \notin {"any", v.kind} /\ t = "int32"
  <2>1. Calls!Cast(v, t) = [kind |-> t, n |-> Calls!Signed(v.n)]
    BY <1>3 DEF Calls!Cast, Calls!Value
  <2>2. v.kind = "string" \/ (v.kind = "uint32" /\ v.n \in -Half .. Half - 1)
    BY <1>1, <1>3, SentIs DEF Calls!CanCast
  <2>3. /\ Calls!Signed(v.n) \in -Half .. Half - 1
        /\ v.kind = "string" => (v.n - Calls!Signed(v.n)) % (2 * Half) = 0
        /\ v.kind # "string" => Calls!Signed(v.n) = v.n
    BY <1>1, <2>2, WordsDiffer
  <2>4. Calls!Cast(v, t).kind = "int32" /\ Calls!Cast(v, t).n = Calls!Signed(v.n)
    BY <1>3, <2>1
  <2> QED BY <1>3, <2>3, <2>4 DEF Calls!Fits, Calls!SameNumber
<1>4. CASE t \notin {"any", v.kind} /\ t # "int32"
  <2>1. Calls!Cast(v, t) = [kind |-> t, n |-> Calls!Unsigned(v.n)]
    BY <1>4 DEF Calls!Cast, Calls!Value
  <2>2. \/ t = "uint32" /\ v.kind = "string"
        \/ t = "uint32" /\ v.kind = "int32" /\ v.n \in 0 .. 2 * Half - 1
        \/ t = "object" /\ v.kind = "uint32" /\ v.n \in Calls!objects /\ v.n \in 0 .. 2 * Half - 1
    BY <1>1, <1>4, SentIs DEF Calls!CanCast
  <2>3. /\ Calls!Unsigned(v.n) \in 0 .. 2 * Half - 1
        /\ v.kind = "string" => (v.n - Calls!Unsigned(v.n)) % (2 * Half) = 0
        /\ v.kind # "string" => Calls!Unsigned(v.n) = v.n
    BY <1>1, <2>2, WordsDiffer
  <2>4. Calls!Cast(v, t).kind = t /\ Calls!Cast(v, t).n = Calls!Unsigned(v.n)
    BY <2>1
  <2> QED BY <1>4, <2>2, <2>3, <2>4 DEF Calls!Fits, Calls!SameNumber
<1> QED BY <1>2, <1>3, <1>4

-----------------------------------------------------------------------------
(* An object that is not there has no properties, and numbers that are not *)
(* given yet name none.  What a request carries can be sent, and none is   *)
(* on its way while the outcome of the last is known.                      *)
CallRequests == [object : Calls!Ids, method : Calls!MethodNames, args : Calls!Tuples, meta : BOOLEAN]

Absent ==
  \A o \in Calls!Ids :
    /\ o >= c_nextId => c_class[o] = Nil
    /\ c_class[o] = Nil => \A p \in Calls!PropertyNames : c_props[o][p] = Nil

Settled == (c_outcome # Nil => c_request = Nil) /\ (c_called # Nil => c_outcome # Nil)

CallInv ==
  /\ Calls!TypeOK /\ c_request \in CallRequests \cup {Nil}
  /\ c_props = [o \in Calls!Ids |-> [p \in Calls!PropertyNames |-> c_props[o][p]]]
  /\ Absent /\ Settled /\ Calls!PropertiesTyped

(* A despatch makes a call that its request can be cast to, or none.       *)
LEMMA DespatchIs ==
  ASSUME CallInv, Calls!Despatch
  PROVE  /\ c_request \in CallRequests /\ c_request' = Nil
         /\ c_outcome' \in [error : BOOLEAN, replied : BOOLEAN] \cup {Nil} /\ c_aborted' \in BOOLEAN
         /\ c_called' # Nil =>
              /\ c_outcome' \in [error : BOOLEAN, replied : BOOLEAN]
              /\ c_class[c_request.object] # Nil
              /\ \E lucky \in BOOLEAN : \E i :
                   /\ i = Calls!MatchType(c_request.args, Calls!Asked, lucky) /\ i # 0
                   /\ Calls!CanCastTuple(c_request.args, Calls!Asked[i])
                   /\ c_called' = [type |-> Calls!Asked[i], sent |-> c_request.args,
                                   got |-> Calls!CastTuple(c_request.args, Calls!Asked[i])]
<1>1. c_request \in CallRequests /\ c_request' = Nil /\ c_aborted \in BOOLEAN
  BY DEF Calls!Despatch, CallInv, Calls!TypeOK
<1>2. \A e \in BOOLEAN : Calls!Answer(e) \in [error : BOOLEAN, replied : BOOLEAN]
  BY <1>1 DEF CallRequests, Calls!Answer
<1>3. Calls!Refused \in [error : BOOLEAN, replied : BOOLEAN]
  BY DEF Calls!Refused
<1>4. CASE /\ c_outcome' = Calls!Refused /\ c_called' = Nil /\ UNCHANGED c_aborted
  BY <1>1, <1>3, <1>4
<1>5. CASE c_aborted' = TRUE /\ c_outcome' = Nil /\ c_called' = Nil
  BY <1>1, <1>5
<1>6. ASSUME UNCHANGED c_aborted, NEW lucky \in BOOLEAN,
             LET i == Calls!MatchType(c_request.args, Calls!Asked, lucky)
             IN IF i = 0 \/ ~Calls!CanCastTuple(c_request.args, Calls!Asked[i])
                THEN c_outcome' = Calls!Answer(TRUE) /\ c_called' = Nil
                ELSE \E error \in BOOLEAN :
                       /\ c_outcome' = Calls!Answer(error)
                       /\ c_called' = [type |-> Calls!Asked[i], sent |-> c_request.args,
                                       got |-> Calls!CastTuple(c_request.args, Calls!Asked[i])]
      PROVE  /\ c_outcome' \in [error : BOOLEAN, replied : BOOLEAN] /\ c_aborted' \in BOOLEAN
             /\ c_called' # Nil =>
                  \E i :
                   /\ i = Calls!MatchType(c_request.args, Calls!Asked, lucky) /\ i # 0
                   /\ Calls!CanCastTuple(c_request.args, Calls!Asked[i])
                   /\ c_called' = [type |-> Calls!Asked[i], sent |-> c_request.args,
                                   got |-> Calls!CastTuple(c_request.args, Calls!Asked[i])]
  <2> PICK i : i = Calls!MatchType(c_request.args, Calls!Asked, lucky)
    OBVIOUS
  <2>1. CASE i = 0 \/ ~Calls!CanCastTuple(c_request.args, Calls!Asked[i])
    BY <1>1, <1>2, <1>6, <2>1
  <2>2. CASE ~(i = 0 \/ ~Calls!CanCastTuple(c_request.args, Calls!Asked[i]))
    BY <1>1, <1>2, <1>6, <2>2
  <2> QED BY <2>1, <2>2
<1> QED BY <1>1, <1>4, <1>5, <1>6 DEF Calls!Despatch

LEMMA CallStep ==
  ASSUME MethodNumbers, CallInv, [Calls!Next]_(Calls!vars)
  PROVE  CallInv'
<1>1. /\ c_nextId \in 1 .. MaxId + 1 /\ c_class \in [Calls!Ids -> Classes \cup {Nil}]
      /\ c_props = [o \in Calls!Ids |-> [p \in Calls!PropertyNames |-> c_props[o][p]]]
      /\ Calls!Ids = 1 .. MaxId /\ MaxId \in Nat /\ Nil \notin Classes
  BY DEF CallInv, Calls!TypeOK, Calls!Ids, MethodNumbers
<1>2. ASSUME UNCHANGED <<c_nextId, c_class, c_props>>,
             c_request' \in CallRequests \cup {Nil}, Settled',
             c_outcome' \in [error : BOOLEAN, replied : BOOLEAN] \cup {Nil}, c_aborted' \in BOOLEAN
      PROVE  CallInv'
  BY <1>2 DEF CallInv, Calls!TypeOK, Absent, Calls!PropertiesTyped, Calls!TypeOf, CallRequests
<1>3. ASSUME NEW c \in Classes, Calls!Create(c) PROVE CallInv'
  <2>1. /\ c_nextId <= MaxId /\ c_class' = [c_class EXCEPT ![c_nextId] = c]
        /\ c_nextId' = c_nextId + 1 /\ c_class[c_nextId] = Nil /\ c_nextId \in Calls!Ids
        /\ UNCHANGED <<c_props, c_request, c_outcome, c_aborted, c_called>>
    BY <1>1, <1>3 DEF Calls!Create, CallInv, Absent
  <2>2. \A p \in Calls!PropertyNames : c_props[c_nextId][p] = Nil
    BY <2>1 DEF CallInv, Absent
  <2>3. \A o \in Calls!Ids : o # c_nextId => c_class'[o] = c_class[o]
    BY <1>1, <2>1
  <2>4. Calls!TypeOK' /\ Absent' /\ Settled'
    BY <1>1, <2>1, <2>2, <2>3 DEF CallInv, Calls!TypeOK, Absent, Settled
  <2>5. Calls!PropertiesTyped'
    BY <2>1, <2>2, <2>3 DEF CallInv, Calls!PropertiesTyped, Calls!TypeOf
  <2> QED BY <2>1, <2>4, <2>5 DEF CallInv
<1>4. ASSUME NEW o \in Calls!Ids, Calls!Destroy(o) PROVE CallInv'
  <2>1. /\ c_class' = [c_class EXCEPT ![o] = Nil] /\ c_class[o] # Nil
        /\ c_props' = [c_props EXCEPT ![o] = [p \in Calls!PropertyNames |-> Nil]]
        /\ UNCHANGED <<c_nextId, c_request, c_outcome, c_aborted, c_called>>
    BY <1>4 DEF Calls!Destroy
  <2>2. \A x \in Calls!Ids : x # o => c_class'[x] = c_class[x] /\ c_props'[x] = c_props[x]
    BY <1>1, <2>1
  <2>3. c_class'[o] = Nil /\ c_props'[o] = [p \in Calls!PropertyNames |-> Nil]
    BY <1>1, <2>1
  <2>4. c_props' = [x \in Calls!Ids |-> [p \in Calls!PropertyNames |-> c_props'[x][p]]]
    BY <1>1, <2>1
  <2>5. Calls!TypeOK' /\ Absent' /\ Settled'
    BY <1>1, <2>1, <2>2, <2>3 DEF CallInv, Calls!TypeOK, Absent, Settled
  <2>6. Calls!PropertiesTyped'
    BY <2>1, <2>2, <2>3 DEF CallInv, Calls!PropertiesTyped, Calls!TypeOf
  <2> QED BY <2>1, <2>4, <2>5, <2>6 DEF CallInv
<1>5. ASSUME NEW o \in Calls!Ids, NEW m \in Calls!MethodNames, NEW t \in Calls!Tuples,
             NEW meta \in BOOLEAN, Calls!Send(o, m, t, meta)
      PROVE  CallInv'
  <2>1. c_request' \in CallRequests /\ c_outcome = Nil
        /\ UNCHANGED <<c_nextId, c_class, c_props, c_outcome, c_aborted, c_called>>
    BY <1>5 DEF Calls!Send, CallRequests
  <2>2. Settled'
    BY <2>1 DEF CallInv, Settled
  <2> QED BY <1>2, <2>1, <2>2 DEF CallInv, Calls!TypeOK
<1>6. CASE Calls!Despatch
  <2>1. Nil \notin [error : BOOLEAN, replied : BOOLEAN]
    BY DEF MethodNumbers
  <2>2. Settled' /\ c_request' = Nil
    BY <1>6, <2>1, DespatchIs DEF Settled
  <2> QED BY <1>2, <1>6, <2>2, DespatchIs DEF Calls!Despatch
<1>7. CASE Calls!Forget
  <2>1. c_outcome' = Nil /\ c_called' = Nil /\ UNCHANGED <<c_nextId, c_class, c_props, c_request, c_aborted>>
    BY <1>7 DEF Calls!Forget
  <2> QED BY <1>2, <2>1 DEF CallInv, Settled, Calls!TypeOK
<1>8. ASSUME NEW o \in Calls!Ids, NEW p \in Calls!PropertyNames, NEW v \in Calls!Sent,
             Calls!SetProperty(o, p, v)
      PROVE  CallInv'
  <2> DEFINE w == Calls!Cast(v, Calls!TypeOf(o, p))
  <2>1. /\ c_class[o] # Nil /\ Calls!CanCast(v, Calls!TypeOf(o, p))
        /\ c_props' = [c_props EXCEPT ![o][p] = w]
        /\ UNCHANGED <<c_nextId, c_class, c_request, c_outcome, c_aborted, c_called>>
    BY <1>8 DEF Calls!SetProperty
  <2>2. Calls!Fits(w, Calls!TypeOf(o, p))
    BY <2>1, CastIs
  <2>3. \A x \in Calls!Ids, q \in Calls!PropertyNames :
          c_props'[x][q] = IF x = o /\ q = p THEN w ELSE c_props[x][q]
    BY <1>1, <2>1
  <2>4. c_props' = [x \in Calls!Ids |-> [q \in Calls!PropertyNames |-> c_props'[x][q]]]
    BY <1>1, <2>1
  <2> HIDE DEF w
  <2>5. Calls!PropertiesTyped'
    BY <2>1, <2>2, <2>3 DEF CallInv, Calls!PropertiesTyped, Calls!TypeOf
  <2>6. Calls!TypeOK' /\ Absent' /\ Settled'
    BY <1>1, <2>1, <2>3 DEF CallInv, Calls!TypeOK, Absent, Settled
  <2> QED BY <2>1, <2>4, <2>5, <2>6 DEF CallInv
<1>9. CASE UNCHANGED Calls!vars
  BY <1>2, <1>9 DEF Calls!vars, CallInv, Calls!TypeOK, Settled
<1> QED BY <1>3, <1>4, <1>5, <1>6, <1>7, <1>8, <1>9 DEF Calls!Next

LEMMA CallInductive == ASSUME MethodNumbers PROVE Calls!Spec => []CallInv
<1>1. Calls!Init => CallInv
  <2>1. 1 \in 1 .. MaxId + 1
    BY DEF MethodNumbers
  <2>2. ASSUME Calls!Init PROVE Calls!TypeOK /\ Absent /\ Settled /\ Calls!PropertiesTyped
    BY <2>1, <2>2 DEF Calls!Init, Calls!TypeOK, Absent, Settled, Calls!PropertiesTyped
  <2> QED BY <2>2 DEF Calls!Init, CallInv
<1>2. CallInv /\ [Calls!Next]_(Calls!vars) => CallInv'
  BY CallStep
<1> QED BY <1>1, <1>2, PTL DEF Calls!Spec

(* A property that is set has the type its class declares, and a number    *)
(* that fits it (objectCSetProperty, valueStaticCast), also after objects  *)
(* were destroyed and others made.                                         *)
THEOREM PropertyTypes ==
  ASSUME MethodNumbers
  PROVE  Calls!Spec => [](Calls!TypeOK /\ Calls!PropertiesTyped)
<1>1. CallInv => Calls!TypeOK /\ Calls!PropertiesTyped
  BY DEF CallInv
<1> QED BY <1>1, CallInductive, PTL

-----------------------------------------------------------------------------
(* The type that is chosen is one of the method's, or none: each round     *)
(* leaves some of those of the round before.                               *)
Narrowed(t, types, S, p) ==
  LET left == {i \in S : Len(types[i]) >= p}
      same == {i \in left : types[i][p] = t[p].kind}
      near == {i \in left : types[i][p] # "list" /\ Calls!CanCast(t[p], types[i][p])}
      lists == {i \in left : types[i][p] = "list"}
  IN IF Calls!Cardinality(S) <= 1 THEN S
     ELSE IF same # {} THEN same ELSE IF near # {} THEN near
     ELSE IF Calls!Cardinality(lists) = 1 THEN lists
     ELSE IF lists = {} THEN {} ELSE {0}

LEMMA NarrowedIs ==
  ASSUME NEW t, NEW types, NEW n \in Nat, NEW S \in SUBSET (0 .. n), NEW p
  PROVE  Narrowed(t, types, S, p) \in SUBSET (0 .. n)
<1>1. {0} \subseteq 0 .. n /\ {} \subseteq 0 .. n /\ S \subseteq 0 .. n
  OBVIOUS
<1> DEFINE left == {i \in S : Len(types[i]) >= p}
           same == {i \in left : types[i][p] = t[p].kind}
           near == {i \in left : types[i][p] # "list" /\ Calls!CanCast(t[p], types[i][p])}
           lists == {i \in left : types[i][p] = "list"}
<1>2. same \subseteq S /\ near \subseteq S /\ lists \subseteq S
  OBVIOUS
<1>3. Narrowed(t, types, S, p) \in {S, same, near, lists, {}, {0}}
  BY DEF Narrowed
<1> HIDE DEF same, near, lists
<1> QED BY <1>1, <1>2, <1>3

LEMMA SingleIs ==
  ASSUME NEW S, Cardinality(S) = 1, NEW n, S \subseteq 0 .. n, n \in Nat
  PROVE  (CHOOSE i \in S : TRUE) \in 0 .. n
<1>1. S # {}
  BY FS_EmptySet
<1> QED BY <1>1

LEMMA CardinalitySame ==
  \A S : Calls!Cardinality(S) = Cardinality(S)
BY DEF Calls!Cardinality, Cardinality

LEMMA LeastIn ==
  ASSUME NEW n \in Nat, NEW S, S \subseteq 1 .. n, S # {}
  PROVE  Calls!Least(S) \in 0 .. n
<1>1. S \subseteq Nat
  OBVIOUS
<1>2. \E m \in S : \A y \in S : m <= y
  BY <1>1, LeastNumber
<1>3. Calls!Least(S) \in S
  BY <1>2 DEF Calls!Least
<1>4. 1 .. n \subseteq 0 .. n
  OBVIOUS
<1> QED BY <1>3, <1>4

LEMMA MatchIs ==
  ASSUME NEW t, Len(t) \in Nat, NEW types, Len(types) \in Nat, NEW lucky
  PROVE  Calls!MatchType(t, types, lucky) \in 0 .. Len(types)
<1> PICK n \in Nat : n = Len(types)
  OBVIOUS
<1> PICK l \in Nat : l = Len(t)
  OBVIOUS
<1> DEFINE exact == {i \in 1 .. Len(types) : Calls!Verdict(t, types[i], TRUE, lucky)}
           single == {i \in 1 .. Len(types) : types[i] = <<"list">>}
           fallback == IF single = {} THEN 0 ELSE Calls!Least(single)
           candidates == {i \in 1 .. Len(types) : Calls!Verdict(t, types[i], FALSE, lucky)}
           Following(h) == [p \in 0 .. Len(t) |->
                              IF p = 0 THEN candidates ELSE Narrowed(t, types, h[p - 1], p)]
           narrowed == CHOOSE h : h = Following(h)
           left == narrowed[Len(t)]
<1>1. Calls!MatchType(t, types, lucky) =
        IF exact # {} THEN Calls!Least(exact)
        ELSE IF Calls!Cardinality(single) > 1 THEN 0
        ELSE IF Calls!Cardinality(left) = 1 THEN CHOOSE i \in left : TRUE ELSE fallback
  BY Zenon DEF Calls!MatchType, Narrowed
<1>2. exact \subseteq 1 .. n /\ single \subseteq 1 .. n /\ candidates \in SUBSET (0 .. n)
  <2>1. exact \subseteq 1 .. Len(types)
    BY Zenon
  <2>2. single \subseteq 1 .. Len(types)
    BY Zenon
  <2>3. candidates \subseteq 1 .. Len(types)
    BY Zenon
  <2> HIDE DEF exact, single, candidates
  <2>4. 1 .. n \subseteq 0 .. n
    OBVIOUS
  <2> QED BY <2>1, <2>2, <2>3, <2>4
<1> PICK start : start = candidates
  OBVIOUS
<1> PICK V : V = SUBSET (0 .. n)
  OBVIOUS
<1> PICK g : g = [q \in (1 .. l) \X V |-> Narrowed(t, types, q[2], q[1])]
  OBVIOUS
<1> HIDE DEF exact, single, candidates
<1>3. g \in [(1 .. l) \X V -> V] /\ start \in V
  <2>1. ASSUME NEW q \in (1 .. l) \X V PROVE Narrowed(t, types, q[2], q[1]) \in V
    <3>1. q[2] \in SUBSET (0 .. n)
      BY <2>1
    <3> QED BY <3>1, NarrowedIs
  <2> QED BY <1>2, <2>1
<1>4. \A p \in 1 .. l : \A S \in V : g[<<p, S>>] = Narrowed(t, types, S, p)
  BY ONLY g = [q \in (1 .. l) \X V |-> Narrowed(t, types, q[2], q[1])]
<1>5. \A h : Following(h) =
        [p \in 0 .. l |-> IF p = 0 THEN start ELSE Narrowed(t, types, h[p - 1], p)]
  OBVIOUS
<1> HIDE DEF Following
<1>6. PICK f : Runs(f, V, start, g, l)
  BY <1>3, Recursion, Zenon
<1>7. f = Following(f)
  <2>1. f \in [0 .. l -> V] /\ f[0] = start /\ \A p \in 1 .. l : f[p] = g[<<p, f[p - 1]>>]
    BY <1>6, Zenon DEF Runs
  <2>2. ASSUME NEW p \in 0 .. l
        PROVE  f[p] = IF p = 0 THEN start ELSE Narrowed(t, types, f[p - 1], p)
    <3>1. CASE p = 0
      BY <2>1, <3>1
    <3>2. CASE p # 0
      <4>1. p \in 1 .. l /\ p - 1 \in 0 .. l
        BY <3>2
      <4>2. f[p - 1] \in V
        BY ONLY <2>1, <4>1
      <4> QED BY ONLY <1>4, <2>1, <4>1, <4>2, <3>2
    <3> QED BY <3>1, <3>2
  <2>3. f = [p \in 0 .. l |-> f[p]]
    BY ONLY <2>1
  <2> QED BY ONLY <1>5, <2>2, <2>3
<1>8. narrowed = Following(narrowed)
  BY <1>7
<1> HIDE DEF narrowed
<1>9. narrowed = [p \in 0 .. l |-> IF p = 0 THEN start ELSE Narrowed(t, types, narrowed[p - 1], p)]
  BY ONLY <1>5, <1>8
<1>10. Runs(narrowed, V, start, g, l)
  <2>1. narrowed[0] = start /\ narrowed = [p \in 0 .. l |-> narrowed[p]]
    BY ONLY <1>9, l \in Nat
  <2>2. \A p \in 1 .. l : narrowed[p] = Narrowed(t, types, narrowed[p - 1], p)
    BY ONLY <1>9, l \in Nat
  <2>3. \A p \in 1 .. l : narrowed[p - 1] \in V => narrowed[p] = g[<<p, narrowed[p - 1]>>]
    BY ONLY <1>4, <2>2
  <2>4. Unfolds(narrowed, V, start, g, l)
    BY ONLY <2>1, <2>3 DEF Unfolds
  <2> QED BY <1>3, <2>4, Unfolded, Zenon
<1>11. left \in SUBSET (0 .. n)
  <2>1. narrowed \in [0 .. l -> V]
    BY <1>10, Zenon DEF Runs
  <2> QED BY <2>1
<1> HIDE DEF left
<1>12. exact # {} => Calls!Least(exact) \in 0 .. n
  BY <1>2, LeastIn
<1>13. fallback \in 0 .. n
  <2>1. CASE single = {}
    BY <2>1
  <2>2. CASE single # {}
    <3>1. fallback = Calls!Least(single)
      BY <2>2
    <3> HIDE DEF fallback
    <3> QED BY <1>2, <2>2, <3>1, LeastIn
  <2> QED BY <2>1, <2>2
<1>14. Calls!Cardinality(left) = 1 => (CHOOSE i \in left : TRUE) \in 0 .. n
  BY <1>11, CardinalitySame, SingleIs
<1> HIDE DEF fallback
<1> QED BY <1>1, <1>12, <1>13, <1>14

(* A call that was cast to a list of types, from what can be sent.         *)
LEMMA CallIs ==
  ASSUME MethodNumbers, NEW t \in Calls!Tuples, NEW type \in Seq(STRING), NEW got,
         Calls!CanCastTuple(t, type), got = Calls!CastTuple(t, type)
  PROVE  /\ Len(got) = Len(t) /\ Len(got) >= Calls!Fixed(type)
         /\ Calls!Fixed(type) = Len(type) => Len(got) = Len(type)
         /\ \A i \in 1 .. Len(got) :
              /\ i <= Calls!Fixed(type) => Calls!Fits(got[i], type[i])
              /\ got[i].kind = "object" => got[i].n \in Calls!objects
              /\ Calls!SameNumber(t[i], got[i])
<1>1. PICK n \in 0 .. MaxLen : t \in [1 .. n -> Calls!Sent]
  BY DEF Calls!Tuples
<1>2. n \in Nat /\ Len(t) = n
  BY <1>1 DEF MethodNumbers
<1>3. Calls!Fixed(type) \in Int
  BY DEF Calls!Fixed
<1> PICK k \in Int : k = Calls!Fixed(type)
  BY <1>3
<1>4. got = [i \in 1 .. n |-> IF i <= k THEN Calls!Cast(t[i], type[i]) ELSE t[i]]
  BY <1>2 DEF Calls!CastTuple
<1>5. Len(got) = n
  BY <1>2, <1>4
<1>6. Len(t) >= k /\ (k = Len(type) => Len(t) = Len(type)) /\ \A i \in 1 .. k : Calls!CanCast(t[i], type[i])
  BY DEF Calls!CanCastTuple
<1>7. ASSUME NEW i \in 1 .. n
      PROVE  /\ i <= k => Calls!Fits(got[i], type[i])
             /\ got[i].kind = "object" => got[i].n \in Calls!objects
             /\ Calls!SameNumber(t[i], got[i])
  <2>1. t[i] \in Calls!Sent
    BY <1>1
  <2>2. CASE i <= k
    <3>1. Calls!CanCast(t[i], type[i]) /\ got[i] = Calls!Cast(t[i], type[i])
      BY <1>2, <1>4, <1>6, <2>2
    <3> QED BY <2>1, <3>1, CastIs
  <2>3. CASE ~(i <= k)
    <3>1. got[i] = t[i]
      BY <1>4, <2>3
    <3> QED BY <2>1, <2>3, <3>1, SentIs DEF Calls!SameNumber
  <2> QED BY <2>2, <2>3
<1> QED BY <1>2, <1>5, <1>6, <1>7

(* What the lookup finds is what a class says of a method.                 *)
MethodsListed ==
  \A c \in Classes, m \in Calls!MethodNames :
    Calls!Finder(Methods, m)[c] # Nil => Methods[Calls!Finder(Methods, m)[c]][m] \in Seq(Seq(STRING))

(* A method gets as many arguments as it declares, of the types it         *)
(* declares, each the value that was sent; objects exist when it is called *)
(* (messageDespatchInvokeInstanceMethod, tupleStaticCast).                 *)
THEOREM ArgumentsArrive ==
  ASSUME MethodNumbers, MethodsListed
  PROVE  Calls!Spec => Calls!ArgumentsKept
<1> DEFINE Kept ==
      c_called' # Nil /\ c_request # Nil =>
        LET type == c_called'.type  got == c_called'.got  sent == c_called'.sent
        IN /\ Len(got) = Len(sent) /\ Len(got) >= Calls!Fixed(type)
           /\ Calls!Fixed(type) = Len(type) => Len(got) = Len(type)
           /\ \A i \in 1 .. Len(got) :
                /\ i <= Calls!Fixed(type) => Calls!Fits(got[i], type[i])
                /\ got[i].kind = "object" => got[i].n \in Calls!objects
                /\ Calls!SameNumber(sent[i], got[i])
<1>1. ASSUME CallInv, Calls!Next, c_called' # Nil, c_request # Nil PROVE Kept
  <2>1. c_called = Nil \/ c_outcome # Nil
    BY <1>1 DEF CallInv, Settled
  <2>2. c_called = Nil
    BY <1>1, <2>1 DEF CallInv, Settled
  <2>3. Calls!Despatch
    BY <1>1, <2>2 DEF Calls!Next, Calls!Create, Calls!Destroy, Calls!Send, Calls!Forget, Calls!SetProperty
  <2>4. c_request \in CallRequests /\ c_class[c_request.object] # Nil
    BY <1>1, <2>3, DespatchIs
  <2>5. PICK lucky \in BOOLEAN : \E i :
           /\ i = Calls!MatchType(c_request.args, Calls!Asked, lucky) /\ i # 0
           /\ Calls!CanCastTuple(c_request.args, Calls!Asked[i])
           /\ c_called' = [type |-> Calls!Asked[i], sent |-> c_request.args,
                           got |-> Calls!CastTuple(c_request.args, Calls!Asked[i])]
    BY <1>1, <2>3, DespatchIs
  <2>6. PICK i :
           /\ i = Calls!MatchType(c_request.args, Calls!Asked, lucky) /\ i # 0
           /\ Calls!CanCastTuple(c_request.args, Calls!Asked[i])
           /\ c_called' = [type |-> Calls!Asked[i], sent |-> c_request.args,
                           got |-> Calls!CastTuple(c_request.args, Calls!Asked[i])]
    BY <2>5
  <2>7. Calls!Asked \in Seq(Seq(STRING))
    <3>1. c_request.method \in Calls!MethodNames /\ c_class[c_request.object] \in Classes
      BY <1>1, <2>4 DEF CallRequests, CallInv, Calls!TypeOK
    <3> PICK m \in Calls!MethodNames, c \in Classes : m = c_request.method /\ c = c_class[c_request.object]
      BY <3>1
    <3> PICK d : d = Calls!Finder(Methods, m)[c]
      OBVIOUS
    <3>2. Calls!Asked = IF d = Nil THEN <<>> ELSE Methods[d][m]
      BY DEF Calls!Asked
    <3>3. d # Nil => Methods[d][m] \in Seq(Seq(STRING))
      BY Zenon DEF MethodsListed
    <3>4. <<>> \in Seq(Seq(STRING))
      OBVIOUS
    <3> QED BY <3>2, <3>3, <3>4
  <2>8. c_request.args \in Calls!Tuples /\ Len(c_request.args) \in Nat
    <3>1. c_request.args \in Calls!Tuples
      BY <2>4 DEF CallRequests
    <3>2. PICK n \in 0 .. MaxLen : c_request.args \in [1 .. n -> Calls!Sent]
      BY <3>1 DEF Calls!Tuples
    <3>3. n \in Nat
      BY DEF MethodNumbers
    <3> QED BY <3>1, <3>2, <3>3
  <2>9. i \in 0 .. Len(Calls!Asked) /\ Len(Calls!Asked) \in Nat
    BY <2>6, <2>7, <2>8, MatchIs
  <2>10. Calls!Asked[i] \in Seq(STRING)
    BY <2>6, <2>7, <2>9
  <2> PICK type \in Seq(STRING) : type = Calls!Asked[i]
    BY <2>10
  <2> PICK got : got = Calls!CastTuple(c_request.args, type)
    OBVIOUS
  <2>11. c_called'.type = type /\ c_called'.got = got /\ c_called'.sent = c_request.args
    BY <2>6
  <2> QED BY <2>6, <2>8, <2>11, CallIs
<1>2. CallInv /\ [Calls!Next]_(Calls!vars) => [Kept]_(Calls!vars)
  BY <1>1
<1>3. Calls!Spec => [][Kept]_(Calls!vars)
  <2> HIDE DEF Kept
  <2> QED BY <1>2, CallInductive, PTL DEF Calls!Spec
<1> QED BY <1>3 DEF Calls!ArgumentsKept
=============================================================================
