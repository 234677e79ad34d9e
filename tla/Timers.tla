------------------------------- MODULE Timers -------------------------------
(***************************************************************************)
(* The timers of the server's loop (Y/main/control.c) and their users: the *)
(* repeat of a held key (Y/input/ykb.c), the update of a viewport          *)
(* (Y/screen/viewport.c), and the probe with which a driver polls its      *)
(* display for input (modules/drivers/video/xlib).  Input arrives in the   *)
(* callback of a descriptor or in the probe, that is inside a timer; there *)
(* timers are cancelled and made while the loop goes through those that    *)
(* have expired.  The queue is the set TimedQueue speaks of.  Time is      *)
(* counted in parts of a second, of which there are Parts.                 *)
(***************************************************************************)
EXTENDS Naturals, FiniteSets

CONSTANTS
  Keys,          \* keycodes
  Parts,         \* parts of a second (1000000)
  RepeatDelay,   \* repeat_delay
  RepeatRate,    \* repeat_rate
  UpdateDelay,   \* between an invalidation and the update
  PollInterval,  \* XLIB_EVENT_POLL_INTERVAL
  MaxClock,      \* bound on time
  MaxId          \* bound on the timers made because of input

ASSUME KeysAssumption == Keys \subseteq Nat \ {0}
ASSUME PartsAssumption == Parts \in Nat \ {0}
(* No caller waits for a second or more; see controlTimerDelay.            *)
ASSUME IntervalsAssumption ==
  \A i \in {RepeatDelay, RepeatRate, UpdateDelay, PollInterval} : i \in 1 .. Parts
ASSUME BoundsAssumption == MaxClock \in Nat /\ MaxId \in Nat

VARIABLES
  clock,         \* gettimeofday, in parts
  queue,         \* timedEvents
  nextId,        \* nextTimedEventID
  pc,            \* where controlIteration is
  now,           \* the time at which the loop over expired timers began
  repeatTimer,   \* repeat_timer_id
  repeatKey,     \* repeat_keycode
  held,          \* keys that are down
  invalid,       \* the viewport has invalidRectangles
  updateEvent    \* updateEventID

keyVars == <<repeatTimer, repeatKey, held>>
viewVars == <<invalid, updateEvent>>
vars == <<clock, queue, nextId, pc, now, keyVars, viewVars>>

None == 0
Kinds == {"repeat", "update", "probe"}

TimeOf(t) == [sec |-> t \div Parts, usec |-> t % Parts]

(* Mutation: seconds and parts are compared separately.                    *)
BothLater(s, t) == s.sec > t.sec /\ s.usec > t.usec
Later(s, t) == s.sec > t.sec \/ (s.sec = t.sec /\ s.usec > t.usec)

(* The event pqueuePeekNext returns.                                       *)
IsNext(e) ==
  /\ e \in queue
  /\ \A f \in queue \ {e} :
       Later(f.time, e.time) \/ (f.time = e.time /\ e.id < f.id)

-----------------------------------------------------------------------------
(* controlTimerDelay carries one second.  `due' is not in the code: it is  *)
(* the time before which the callback must not be called.                  *)
Carried(s, u) ==
  IF u >= Parts THEN [sec |-> s + 1, usec |-> u - Parts]
                ELSE [sec |-> s, usec |-> u]

(* Mutation: the parts are not normalised.                                 *)
NotCarried(i) == [sec |-> clock \div Parts, usec |-> (clock % Parts) + i]

(* Mutation: the second is lost.                                           *)
CarryLost(i) ==
  [sec |-> clock \div Parts, usec |-> ((clock % Parts) + i) % Parts]
DelayTime(i) == Carried(clock \div Parts, (clock % Parts) + i)

TimerDelay(i, kind) ==
  [id |-> nextId, kind |-> kind, time |-> DelayTime(i), due |-> clock + i]

(* controlCancelTimerDelay.                                                *)
Cancelled(q, id) == {e \in q : e.id # id}

Init ==
  /\ clock = 0
  /\ queue = {[id |-> 1, kind |-> "probe", due |-> PollInterval,
               time |-> Carried(0, PollInterval)]}
  /\ nextId = 2
  /\ pc = "select" /\ now = 0
  /\ repeatTimer = None /\ repeatKey = None /\ held = {}
  /\ invalid = FALSE /\ updateEvent = None

-----------------------------------------------------------------------------
(* controlIteration.                                                       *)

(* Time goes on, whatever the server does.                                 *)
Tick ==
  /\ clock < MaxClock
  /\ clock' = clock + 1
  /\ UNCHANGED <<queue, nextId, pc, now, keyVars, viewVars>>

(* select returns: a timer has expired, a descriptor is ready or 5 seconds *)
(* have gone by; callbacks of descriptors come first.                      *)
Select ==
  /\ pc = "select" /\ pc' = "despatch"
  /\ UNCHANGED <<clock, queue, nextId, now, keyVars, viewVars>>

BeginTimers ==
  /\ pc = "despatch" /\ pc' = "timers"
  /\ now' = clock
  /\ UNCHANGED <<clock, queue, nextId, keyVars, viewVars>>

EndTimers ==
  /\ pc = "timers"
  /\ \A e \in queue : ~Later(TimeOf(now), e.time)
  /\ pc' = "select"
  /\ UNCHANGED <<clock, queue, nextId, now, keyVars, viewVars>>

(* The first event, when it has expired, is taken and its callback called. *)
Expiring(e) ==
  /\ pc = "timers"
  /\ IsNext(e) /\ Later(TimeOf(now), e.time)

(* ykbRepeat: the key is struck again.                                     *)
Repeat(e) ==
  /\ Expiring(e) /\ e.kind = "repeat"
  /\ queue' = (queue \ {e}) \cup {TimerDelay(RepeatRate, "repeat")}
  /\ repeatTimer' = nextId
  /\ nextId' = nextId + 1
  /\ UNCHANGED <<clock, pc, now, repeatKey, held, viewVars>>

(* viewportUpdate.                                                         *)
(* Mutation: the identity of the timer is kept.                            *)
UpdateKept == updateEvent
UpdateDone == IF invalid THEN None ELSE updateEvent

Update(e) ==
  /\ Expiring(e) /\ e.kind = "update"
  /\ queue' = queue \ {e}
  /\ updateEvent' = UpdateDone
  /\ invalid' = FALSE
  /\ UNCHANGED <<clock, nextId, pc, now, keyVars>>

(* xlib_event_probe handles what input there is and sets its timer again.  *)
BeginProbe(e) ==
  /\ Expiring(e) /\ e.kind = "probe"
  /\ queue' = queue \ {e}
  /\ pc' = "probe"
  /\ UNCHANGED <<clock, nextId, now, keyVars, viewVars>>

EndProbe ==
  /\ pc = "probe" /\ pc' = "timers"
  /\ queue' = queue \cup {TimerDelay(PollInterval, "probe")}
  /\ nextId' = nextId + 1
  /\ UNCHANGED <<clock, now, keyVars, viewVars>>

-----------------------------------------------------------------------------
(* Input, from a descriptor or from the display.                           *)
Input == pc \in {"despatch", "probe"}

(* Mutation: the timer of another key is left.                             *)
OtherKeyLeft(k) == IF k = repeatKey THEN Cancelled(queue, repeatTimer) ELSE queue
RepeatCancelled(k) == Cancelled(queue, repeatTimer)

(* ykbKeyDown; a driver that repeats keys itself calls it for a held key.  *)
KeyDown(k) ==
  /\ Input /\ nextId <= MaxId
  /\ held' = held \cup {k}
  /\ queue' = RepeatCancelled(k) \cup {TimerDelay(RepeatDelay, "repeat")}
  /\ repeatTimer' = nextId /\ nextId' = nextId + 1
  /\ repeatKey' = k
  /\ UNCHANGED <<clock, pc, now, viewVars>>

(* ykbKeyUp.                                                               *)
Repeats(k) == repeatTimer # None /\ repeatKey = k

KeyUp(k) ==
  /\ Input /\ k \in held
  /\ held' = held \ {k}
  /\ IF Repeats(k)
     THEN /\ queue' = Cancelled(queue, repeatTimer)
          /\ repeatTimer' = None /\ repeatKey' = None
     ELSE UNCHANGED <<queue, repeatTimer, repeatKey>>
  /\ UNCHANGED <<clock, nextId, pc, now, viewVars>>

(* viewportInvalidateRectangle, because of a client or the pointer.        *)
Invalidate ==
  /\ Input /\ nextId <= MaxId
  /\ invalid' = TRUE
  /\ IF updateEvent = None
     THEN /\ queue' = queue \cup {TimerDelay(UpdateDelay, "update")}
          /\ updateEvent' = nextId /\ nextId' = nextId + 1
     ELSE UNCHANGED <<queue, updateEvent, nextId>>
  /\ UNCHANGED <<clock, pc, now, keyVars>>

Timer(e) == Repeat(e) \/ Update(e) \/ BeginProbe(e)

Loop ==
  \/ Select \/ BeginTimers \/ EndTimers \/ EndProbe
  \/ \E e \in queue : Timer(e)

Next ==
  \/ Tick \/ Loop \/ Invalidate
  \/ \E k \in Keys : KeyDown(k) \/ KeyUp(k)

Spec == Init /\ [][Next]_vars

-----------------------------------------------------------------------------
Times == [sec : Nat, usec : 0 .. Parts - 1]
Events == [id : Nat \ {0}, kind : Kinds, time : Times, due : Nat]

TypeOK ==
  /\ clock \in Nat /\ now \in Nat /\ nextId \in Nat \ {0}
  /\ queue \subseteq Events
  /\ pc \in {"select", "despatch", "timers", "probe"}
  /\ repeatTimer \in Nat /\ repeatKey \in Keys \cup {None} /\ held \subseteq Keys
  /\ invalid \in BOOLEAN /\ updateEvent \in Nat

(* Identities are of one event each, and not given out again.  (For the    *)
(* proofs.)                                                                *)
FreshIds ==
  /\ \A e \in queue : e.id < nextId
  /\ \A e, f \in queue : e.id = f.id => e = f

(* A key repeats only while it is held, and by one timer, whatever keys    *)
(* are pressed and released in whatever order, and whether the timer of    *)
(* the last repeat is waiting, has just expired or is next in the loop     *)
(* (ykb.c:248-279): the timer that repeat_timer_id names is in the queue   *)
(* and no other is.                                                        *)
OneRepeat ==
  /\ \A e \in queue : e.kind = "repeat" => e.id = repeatTimer
  /\ repeatTimer # None =>
       /\ repeatKey \in held
       /\ \E e \in queue : e.kind = "repeat" /\ e.id = repeatTimer

(* Something is invalid exactly when one update is on its way and          *)
(* updateEventID names it; so that no invalidation is left without an      *)
(* update, and the early return of viewportUpdate, which leaves            *)
(* updateEventID as it is, is never taken (viewport.c:91-101, 148-187).    *)
UpdateOnItsWay ==
  /\ invalid <=> updateEvent # None
  /\ \A e \in queue : e.kind = "update" => e.id = updateEvent
  /\ invalid => \E e \in queue : e.kind = "update" /\ e.id = updateEvent

(* No callback is called before its interval has gone by, on whatever side *)
(* of a second it falls (control.c:297-326, 433-445).                      *)
NeverEarly == [][\A e \in queue : Timer(e) => clock > e.due]_vars
=============================================================================
