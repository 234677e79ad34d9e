---------------------------- MODULE TimersProofs ----------------------------
(***************************************************************************)
(* Proofs about Timers, for all keycodes, all parts of a second, all       *)
(* intervals of at most a second and all bounds.  Exact says what the time *)
(* of an event stands for; with it nothing expires early.                  *)
(***************************************************************************)
EXTENDS Timers, TLAPS

Amount(t) == Parts * t.sec + t.usec

Exact ==
  /\ \A e \in queue : e.due = Amount(e.time)
  /\ now <= clock

IInv == TypeOK /\ FreshIds /\ OneRepeat /\ UpdateOnItsWay /\ Exact

Intervals == {RepeatDelay, RepeatRate, UpdateDelay, PollInterval}

-----------------------------------------------------------------------------
(* Arithmetic.                                                             *)

(* A time is split into seconds and parts of a second.                     *)
LEMMA Split ==
  ASSUME NEW t \in Nat
  PROVE  /\ t \div Parts \in Nat /\ t % Parts \in 0 .. Parts - 1
         /\ t = Parts * (t \div Parts) + (t % Parts)
<1>1. Parts \in Nat /\ Parts > 0
  BY PartsAssumption
<1>2. QED
  BY <1>1, SMT

(* Adding one to the number of seconds adds Parts.                         *)
LEMMA OneSecond ==
  ASSUME NEW s \in Nat
  PROVE  Parts * (s + 1) = Parts * s + Parts /\ Parts * s \in Nat
BY PartsAssumption, SMT

(* More whole seconds are more time, whatever the parts are.               *)
LEMMA MoreSeconds ==
  ASSUME NEW s \in Nat, NEW r \in Nat, s > r
  PROVE  Parts * s >= Parts * r + Parts
<1>1. PICK d \in Nat : s = (r + 1) + d
  BY s - (r + 1) \in Nat, SMT
<1>2. Parts * s = Parts * (r + 1) + Parts * d /\ Parts * d \in Nat
  BY <1>1, PartsAssumption, SMT
<1>3. QED
  BY <1>2, OneSecond, PartsAssumption, SMT

(* controlTimerDelay normalises the time for every interval in use.        *)
LEMMA DelayIsExact ==
  ASSUME clock \in Nat, NEW i \in Intervals
  PROVE  DelayTime(i) \in Times /\ Amount(DelayTime(i)) = clock + i
<1> DEFINE s == clock \div Parts
           u == clock % Parts
<1>1. s \in Nat /\ u \in 0 .. Parts - 1 /\ clock = Parts * s + u
  BY Split
<1>2. i \in 1 .. Parts /\ Parts \in Nat \ {0}
  BY IntervalsAssumption, PartsAssumption DEF Intervals
<1> HIDE DEF s, u
<1>3. Carried(s, u + i) \in Times /\ Amount(Carried(s, u + i)) = clock + i
  <2>1. CASE u + i >= Parts
    <3>1. Carried(s, u + i) = [sec |-> s + 1, usec |-> u + i - Parts]
      BY <1>1, <1>2, <2>1 DEF Carried
    <3>2. u + i - Parts \in 0 .. Parts - 1
      BY <1>1, <1>2, <2>1
    <3>3. Parts * (s + 1) + (u + i - Parts) = clock + i
      BY <1>1, <1>2, OneSecond
    <3>4. QED
      BY <3>1, <3>2, <3>3, <1>1 DEF Times, Amount
  <2>2. CASE ~(u + i >= Parts)
    <3>1. Carried(s, u + i) = [sec |-> s, usec |-> u + i]
      BY <2>2 DEF Carried
    <3>2. u + i \in 0 .. Parts - 1
      BY <1>1, <1>2, <2>2
    <3>3. Parts * s + (u + i) = clock + i
      BY <1>1, <1>2, OneSecond
    <3>4. QED
      BY <3>1, <3>2, <3>3, <1>1 DEF Times, Amount
  <2>3. QED
    BY <2>1, <2>2
<1>4. QED
  BY <1>3 DEF DelayTime, s, u

(* The comparison of the loop is that of the amounts of time.              *)
LEMMA LaterIsMore ==
  ASSUME NEW s \in Times, NEW t \in Times, Later(s, t)
  PROVE  Amount(s) > Amount(t)
<1>1. /\ s.sec \in Nat /\ s.usec \in 0 .. Parts - 1
      /\ t.sec \in Nat /\ t.usec \in 0 .. Parts - 1
  BY DEF Times
<1>2. Parts * s.sec \in Nat /\ Parts * t.sec \in Nat
  BY <1>1, OneSecond
<1>3. CASE s.sec > t.sec
  BY <1>1, <1>2, <1>3, MoreSeconds, PartsAssumption DEF Amount
<1>4. CASE s.sec = t.sec /\ s.usec > t.usec
  BY <1>1, <1>2, <1>4, PartsAssumption DEF Amount
<1>5. QED
  BY <1>3, <1>4 DEF Later

(* What a new timer is.                                                    *)
LEMMA NewTimer ==
  ASSUME clock \in Nat, nextId \in Nat \ {0}, NEW i \in Intervals, NEW kind \in Kinds
  PROVE  /\ TimerDelay(i, kind) \in Events
         /\ TimerDelay(i, kind).due = Amount(TimerDelay(i, kind).time)
         /\ TimerDelay(i, kind).id = nextId
         /\ TimerDelay(i, kind).kind = kind
<1>1. clock + i \in Nat
  BY IntervalsAssumption, PartsAssumption DEF Intervals
<1>2. QED
  BY <1>1, DelayIsExact DEF TimerDelay, Events

-----------------------------------------------------------------------------
(* The inductive invariant.                                                *)

LEMMA InitInv == Init => IInv
<1> SUFFICES ASSUME Init PROVE IInv
  OBVIOUS
<1>1. 0 \div Parts = 0 /\ 0 % Parts = 0 /\ PollInterval \in Intervals
  BY Split, PartsAssumption DEF Intervals
<1>2. /\ DelayTime(PollInterval) \in Times
      /\ Amount(DelayTime(PollInterval)) = PollInterval
      /\ DelayTime(PollInterval) = Carried(0, PollInterval)
  <2>1. clock = 0 /\ PollInterval \in Nat
    BY IntervalsAssumption, PartsAssumption DEF Init
  <2>2. QED
    BY <1>1, <2>1, DelayIsExact DEF DelayTime
<1>3. PollInterval \in Nat
  BY IntervalsAssumption, PartsAssumption
<1> DEFINE first == [id |-> 1, kind |-> "probe", due |-> PollInterval,
                     time |-> Carried(0, PollInterval)]
<1>4. first \in Events /\ first.due = Amount(first.time)
  BY <1>2, <1>3 DEF Events, Kinds
<1>5. first.id = 1 /\ first.kind = "probe"
  OBVIOUS
<1>6. queue = {first}
  BY DEF Init
<1> HIDE DEF first
<1>7. TypeOK
  <2>1. invalid \in BOOLEAN
    BY DEF Init
  <2>2. QED
    BY <1>4, <1>6, <2>1 DEF Init, TypeOK, None
<1>8. FreshIds /\ Exact
  BY <1>4, <1>5, <1>6 DEF Init, FreshIds, Exact
<1>9. OneRepeat
  BY <1>5, <1>6 DEF Init, OneRepeat
<1>10. UpdateOnItsWay
  <2>1. ~invalid /\ updateEvent = None
    BY DEF Init
  <2>2. QED
    BY <1>5, <1>6, <2>1 DEF UpdateOnItsWay
<1>11. QED
  BY <1>7, <1>8, <1>9, <1>10 DEF IInv

(* The actions that leave the queue and its users alone.                   *)
LEMMA QuietStep ==
  ASSUME IInv, Tick \/ Select \/ BeginTimers \/ EndTimers
  PROVE  IInv'
<1>1. CASE Tick
  BY <1>1 DEF Tick, IInv, TypeOK, FreshIds, OneRepeat, UpdateOnItsWay, Exact,
              keyVars, viewVars, Amount
<1>2. CASE Select
  BY <1>2 DEF Select, IInv, TypeOK, FreshIds, OneRepeat, UpdateOnItsWay, Exact,
              keyVars, viewVars, Amount
<1>3. CASE BeginTimers
  BY <1>3 DEF BeginTimers, IInv, TypeOK, FreshIds, OneRepeat, UpdateOnItsWay,
              Exact, keyVars, viewVars, Amount
<1>4. CASE EndTimers
  BY <1>4 DEF EndTimers, IInv, TypeOK, FreshIds, OneRepeat, UpdateOnItsWay,
              Exact, keyVars, viewVars, Amount
<1>5. QED
  BY <1>1, <1>2, <1>3, <1>4

(* The repeat that fires is the one repeat there is; a new one follows.    *)
LEMMA RepeatStep ==
  ASSUME IInv, NEW e \in queue, Repeat(e)
  PROVE  IInv'
<1> DEFINE n == TimerDelay(RepeatRate, "repeat")
<1>1. /\ n \in Events /\ n.due = Amount(n.time)
      /\ n.id = nextId /\ n.kind = "repeat"
  BY NewTimer DEF IInv, TypeOK, Intervals, Kinds
<1> HIDE DEF n
<1>2. /\ queue' = (queue \ {e}) \cup {n} /\ repeatTimer' = nextId
      /\ nextId' = nextId + 1 /\ e.kind = "repeat"
      /\ UNCHANGED <<clock, pc, now, repeatKey, held, invalid, updateEvent>>
  BY DEF Repeat, Expiring, n, viewVars
<1>3. e.id = repeatTimer /\ repeatTimer # None
  BY <1>2 DEF IInv, OneRepeat, TypeOK, Events, None
<1>4. TypeOK'
  BY <1>1, <1>2 DEF IInv, TypeOK
<1>5. FreshIds'
  BY <1>1, <1>2 DEF IInv, TypeOK, FreshIds, Events
<1>6. OneRepeat'
  <2>1. \A f \in queue \ {e} : f.kind # "repeat"
    BY <1>2, <1>3 DEF IInv, OneRepeat, FreshIds
  <2>2. QED
    BY <1>1, <1>2, <1>3, <2>1 DEF IInv, OneRepeat
<1>7. UpdateOnItsWay'
  BY <1>1, <1>2 DEF IInv, UpdateOnItsWay
<1>8. Exact'
  BY <1>1, <1>2 DEF IInv, Exact, Amount
<1>9. QED
  BY <1>4, <1>5, <1>6, <1>7, <1>8 DEF IInv

(* The update that fires is the one on its way.                            *)
LEMMA UpdateStep ==
  ASSUME IInv, NEW e \in queue, Update(e)
  PROVE  IInv'
<1>1. /\ queue' = queue \ {e} /\ e.kind = "update"
      /\ invalid' = FALSE /\ updateEvent' = UpdateDone
      /\ UNCHANGED <<clock, nextId, pc, now, repeatTimer, repeatKey, held>>
  BY DEF Update, Expiring, keyVars
<1>2. e.id = updateEvent /\ updateEvent # None /\ invalid
  BY <1>1 DEF IInv, UpdateOnItsWay, TypeOK, Events, None
<1>3. updateEvent' = None
  BY <1>1, <1>2 DEF UpdateDone
<1>4. TypeOK'
  <2>1. invalid' \in BOOLEAN
    BY <1>1
  <2>2. updateEvent' \in Nat
    BY <1>3 DEF None
  <2>3. QED
    BY <1>1, <2>1, <2>2 DEF IInv, TypeOK
<1>5. FreshIds'
  BY <1>1 DEF IInv, FreshIds
<1>6. OneRepeat'
  BY <1>1 DEF IInv, OneRepeat
<1>7. UpdateOnItsWay'
  <2>1. \A f \in queue \ {e} : f.kind # "update"
    BY <1>2 DEF IInv, UpdateOnItsWay, FreshIds
  <2>2. QED
    BY <1>1, <1>3, <2>1 DEF UpdateOnItsWay
<1>8. Exact'
  BY <1>1 DEF IInv, Exact, Amount
<1>9. QED
  BY <1>4, <1>5, <1>6, <1>7, <1>8 DEF IInv

(* The probe is taken out of the queue and put back; input may come between.*)
LEMMA ProbeStep ==
  ASSUME IInv, EndProbe \/ \E e \in queue : BeginProbe(e)
  PROVE  IInv'
<1>1. ASSUME NEW e \in queue, BeginProbe(e) PROVE IInv'
  <2>1. /\ queue' = queue \ {e} /\ e.kind = "probe" /\ pc' = "probe"
        /\ UNCHANGED <<clock, nextId, now, repeatTimer, repeatKey, held,
                       invalid, updateEvent>>
    BY <1>1 DEF BeginProbe, Expiring, keyVars, viewVars
  <2>2. TypeOK' /\ FreshIds' /\ Exact'
    BY <2>1 DEF IInv, TypeOK, FreshIds, Exact, Amount
  <2>3. OneRepeat' /\ UpdateOnItsWay'
    BY <2>1 DEF IInv, OneRepeat, UpdateOnItsWay
  <2>4. QED
    BY <2>2, <2>3 DEF IInv
<1>2. CASE EndProbe
  <2> DEFINE n == TimerDelay(PollInterval, "probe")
  <2>1. /\ n \in Events /\ n.due = Amount(n.time)
        /\ n.id = nextId /\ n.kind = "probe"
    BY NewTimer DEF IInv, TypeOK, Intervals, Kinds
  <2>2. /\ queue' = queue \cup {n} /\ nextId' = nextId + 1 /\ pc' = "timers"
        /\ UNCHANGED <<clock, now, repeatTimer, repeatKey, held, invalid,
                       updateEvent>>
    BY <1>2 DEF EndProbe, keyVars, viewVars
  <2> HIDE DEF n
  <2>3. TypeOK' /\ Exact'
    BY <2>1, <2>2 DEF IInv, TypeOK, Exact, Amount
  <2>4. FreshIds'
    BY <2>1, <2>2 DEF IInv, TypeOK, FreshIds, Events
  <2>5. OneRepeat' /\ UpdateOnItsWay'
    BY <2>1, <2>2 DEF IInv, OneRepeat, UpdateOnItsWay
  <2>6. QED
    BY <2>3, <2>4, <2>5 DEF IInv
<1>3. QED
  BY <1>1, <1>2

(* Whichever key repeated, its timer is gone when the new one is made.     *)
LEMMA KeyDownStep ==
  ASSUME IInv, NEW k \in Keys, KeyDown(k)
  PROVE  IInv'
<1> DEFINE n == TimerDelay(RepeatDelay, "repeat")
           rest == Cancelled(queue, repeatTimer)
<1>1. /\ n \in Events /\ n.due = Amount(n.time)
      /\ n.id = nextId /\ n.kind = "repeat"
  BY NewTimer DEF IInv, TypeOK, Intervals, Kinds
<1>2. /\ queue' = rest \cup {n} /\ nextId' = nextId + 1
      /\ repeatTimer' = nextId /\ repeatKey' = k /\ held' = held \cup {k}
      /\ UNCHANGED <<clock, pc, now, invalid, updateEvent>>
  BY DEF KeyDown, RepeatCancelled, viewVars
<1>3. /\ rest \subseteq queue
      /\ \A e \in rest : e.kind # "repeat"
      /\ \A e \in queue : e.kind = "update" => e \in rest
  <2>1. \A e \in queue : e.kind = "update" => e.id # repeatTimer
    BY DEF IInv, OneRepeat, FreshIds, TypeOK, Events, None
  <2>2. QED
    BY <2>1 DEF IInv, OneRepeat, Cancelled
<1> HIDE DEF n, rest
<1>4. TypeOK' /\ Exact'
  BY <1>1, <1>2, <1>3 DEF IInv, TypeOK, Exact, Amount
<1>5. FreshIds'
  BY <1>1, <1>2, <1>3 DEF IInv, TypeOK, FreshIds, Events
<1>6. OneRepeat'
  BY <1>1, <1>2, <1>3 DEF IInv, OneRepeat
<1>7. UpdateOnItsWay'
  BY <1>1, <1>2, <1>3 DEF IInv, UpdateOnItsWay
<1>8. QED
  BY <1>4, <1>5, <1>6, <1>7 DEF IInv

(* The key that goes up takes its own repeat with it, and no other.        *)
LEMMA KeyUpStep ==
  ASSUME IInv, NEW k \in Keys, KeyUp(k)
  PROVE  IInv'
<1>1. UNCHANGED <<clock, nextId, pc, now, invalid, updateEvent>> /\ held' = held \ {k}
  BY DEF KeyUp, viewVars
<1>2. CASE Repeats(k)
  <2>1. /\ queue' = Cancelled(queue, repeatTimer)
        /\ repeatTimer' = None /\ repeatKey' = None
    BY <1>2 DEF KeyUp
  <2>2. /\ queue' \subseteq queue
        /\ \A e \in queue' : e.kind # "repeat"
        /\ \A e \in queue : e.kind = "update" => e \in queue'
    <3>1. \A e \in queue : e.kind = "update" => e.id # repeatTimer
      BY <1>2 DEF IInv, OneRepeat, FreshIds, Repeats
    <3>2. QED
      BY <2>1, <3>1 DEF IInv, OneRepeat, Cancelled
  <2>3. TypeOK' /\ Exact' /\ FreshIds'
    BY <1>1, <2>1, <2>2 DEF IInv, TypeOK, Exact, FreshIds, Amount, None
  <2>4. OneRepeat' /\ UpdateOnItsWay'
    BY <1>1, <2>1, <2>2 DEF IInv, OneRepeat, UpdateOnItsWay
  <2>5. QED
    BY <2>3, <2>4 DEF IInv
<1>3. CASE ~Repeats(k)
  <2>1. UNCHANGED <<queue, repeatTimer, repeatKey>>
    BY <1>3 DEF KeyUp
  <2>2. TypeOK' /\ Exact' /\ FreshIds' /\ UpdateOnItsWay'
    BY <1>1, <2>1 DEF IInv, TypeOK, Exact, FreshIds, UpdateOnItsWay, Amount
  <2>3. OneRepeat'
    BY <1>1, <1>3, <2>1 DEF IInv, OneRepeat, Repeats
  <2>4. QED
    BY <2>2, <2>3 DEF IInv
<1>4. QED
  BY <1>2, <1>3

(* An update is set on its way when none is.                               *)
LEMMA InvalidateStep ==
  ASSUME IInv, Invalidate
  PROVE  IInv'
<1>1. UNCHANGED <<clock, pc, now, repeatTimer, repeatKey, held>> /\ invalid' = TRUE
  BY DEF Invalidate, keyVars
<1>2. invalid' \in BOOLEAN
  BY <1>1
<1>3. CASE updateEvent = None
  <2> DEFINE n == TimerDelay(UpdateDelay, "update")
  <2>1. /\ n \in Events /\ n.due = Amount(n.time)
        /\ n.id = nextId /\ n.kind = "update"
    BY NewTimer DEF IInv, TypeOK, Intervals, Kinds
  <2>2. /\ queue' = queue \cup {n} /\ nextId' = nextId + 1
        /\ updateEvent' = nextId
    BY <1>3 DEF Invalidate
  <2> HIDE DEF n
  <2>3. \A e \in queue : e.kind # "update"
    BY <1>3 DEF IInv, UpdateOnItsWay, TypeOK, Events, None
  <2>4. TypeOK' /\ Exact'
    BY <1>1, <1>2, <2>1, <2>2 DEF IInv, TypeOK, Exact, Amount
  <2>5. FreshIds'
    BY <2>1, <2>2 DEF IInv, TypeOK, FreshIds, Events
  <2>6. OneRepeat'
    BY <1>1, <2>1, <2>2 DEF IInv, OneRepeat
  <2>7. UpdateOnItsWay'
    <3>1. updateEvent' # None
      BY <2>2 DEF IInv, TypeOK, None
    <3>2. QED
      BY <1>1, <2>1, <2>2, <2>3, <3>1 DEF UpdateOnItsWay
  <2>8. QED
    BY <2>4, <2>5, <2>6, <2>7 DEF IInv
<1>4. CASE updateEvent # None
  <2>1. UNCHANGED <<queue, updateEvent, nextId>>
    BY <1>4 DEF Invalidate
  <2>2. TypeOK' /\ Exact' /\ FreshIds' /\ OneRepeat'
    BY <1>1, <1>2, <2>1 DEF IInv, TypeOK, Exact, FreshIds, OneRepeat, Amount
  <2>3. UpdateOnItsWay'
    BY <1>1, <1>4, <2>1 DEF IInv, UpdateOnItsWay
  <2>4. QED
    BY <2>2, <2>3 DEF IInv
<1>5. QED
  BY <1>3, <1>4

LEMMA Inductive == IInv /\ [Next]_vars => IInv'
<1> SUFFICES ASSUME IInv, [Next]_vars PROVE IInv'
  OBVIOUS
<1>1. CASE Tick \/ Select \/ BeginTimers \/ EndTimers
  BY <1>1, QuietStep
<1>2. ASSUME NEW e \in queue, Timer(e) PROVE IInv'
  BY <1>2, RepeatStep, UpdateStep, ProbeStep DEF Timer
<1>3. CASE EndProbe
  BY <1>3, ProbeStep
<1>4. CASE Invalidate
  BY <1>4, InvalidateStep
<1>5. ASSUME NEW k \in Keys, KeyDown(k) \/ KeyUp(k) PROVE IInv'
  BY <1>5, KeyDownStep, KeyUpStep
<1>6. CASE UNCHANGED vars
  BY <1>6 DEF vars, keyVars, viewVars, IInv, TypeOK, FreshIds, OneRepeat,
              UpdateOnItsWay, Exact, Amount
<1>7. QED
  BY <1>1, <1>2, <1>3, <1>4, <1>5, <1>6 DEF Next, Loop

-----------------------------------------------------------------------------
(* The values are of their types; in particular every time in the queue is *)
(* normalised, as the comparison of two times supposes.                    *)
THEOREM TypeCorrect == Spec => []TypeOK
<1>1. IInv => TypeOK
  BY DEF IInv
<1>2. QED
  BY InitInv, Inductive, <1>1, PTL DEF Spec

(* At any time at most one timer repeats a key, it is the one that         *)
(* repeat_timer_id names, and the key is held.                             *)
THEOREM RepeatTimer == Spec => []OneRepeat
<1>1. IInv => OneRepeat
  BY DEF IInv
<1>2. QED
  BY InitInv, Inductive, <1>1, PTL DEF Spec

(* Something is invalid exactly when one update is on its way.             *)
THEOREM ViewportUpdate == Spec => []UpdateOnItsWay
<1>1. IInv => UpdateOnItsWay
  BY DEF IInv
<1>2. QED
  BY InitInv, Inductive, <1>1, PTL DEF Spec

(* No callback is called before its interval has gone by, for intervals of *)
(* at most a second.                                                       *)
THEOREM Punctual == Spec => NeverEarly
<1>1. ASSUME IInv, NEW e \in queue, Timer(e) PROVE clock > e.due
  <2>1. e \in Events /\ now \in Nat /\ clock \in Nat /\ now <= clock
    BY <1>1 DEF IInv, TypeOK, Exact
  <2>2. Later(TimeOf(now), e.time)
    BY <1>1 DEF Timer, Repeat, Update, BeginProbe, Expiring
  <2>3. TimeOf(now) \in Times /\ Amount(TimeOf(now)) = now
    BY <2>1, Split DEF TimeOf, Times, Amount
  <2>4. now > Amount(e.time)
    BY <2>1, <2>2, <2>3, LaterIsMore DEF Events
  <2>5. QED
    BY <1>1, <2>1, <2>4 DEF IInv, Exact, Events
<1>2. IInv => \A e \in queue : Timer(e) => clock > e.due
  BY <1>1
<1>3. IInv => [\A e \in queue : Timer(e) => clock > e.due]_vars
  BY <1>2
<1>4. QED
  BY InitInv, Inductive, <1>3, PTL DEF Spec, NeverEarly
=============================================================================
