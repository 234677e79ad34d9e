---------------------------- MODULE ClientTimers ----------------------------
(***************************************************************************)
(* The timers of a client, libYc++/Y/c++/timer.cc and ticker.cc, in the    *)
(* loop of one thread (the end of doDispatch, connection_nothreads.cc): a  *)
(* timer has at most one event, which the connection keeps a copy of in a  *)
(* set, sorted by time.  The function of an elapsed timer may set, cancel  *)
(* or delete any timer.                                                    *)
(***************************************************************************)
EXTENDS Integers, FiniteSets

CONSTANTS
  Timers, Tickers,   \* Timer objects; those that are Ticker objects
  Interval,          \* what the tickers are started with
  Delays,            \* what timers are set to
  MaxTime,           \* bound: the clock
  Nil,
  UsesCancelled      \* whether a timer is used again, or deleted, once it was cancelled

VARIABLES
  time,      \* what gettimeofday says
  timers,    \* Connection::timers: pairs of a time and a timer
  event,     \* of each timer, e: Nil, or when it is due and whether it was freed
  alive,     \* timers that are not deleted
  running,   \* Ticker::running
  now,       \* the time at which doDispatch took to its timers, or Nil
  ticking,   \* the timer whose function runs, or Nil
  ticked,    \* history: the timers that ticked since
  setAt,     \* history: when each timer was set, and to what
  undefined  \* freed memory was used

vars == <<time, timers, event, alive, running, now, ticking, ticked, setAt, undefined>>

Init ==
  /\ time = 0 /\ timers = {} /\ alive = Timers /\ running = {}
  /\ event = [t \in Timers |-> Nil]
  /\ now = Nil /\ ticking = Nil /\ ticked = {}
  /\ setAt = [t \in Timers |-> Nil]
  /\ undefined = FALSE

(* The application runs between two passes, and in the function of a timer.*)
Cancelled == {t \in Timers : event[t] # Nil /\ event[t].freed}
MayUse(t) ==
  /\ ~undefined /\ (now = Nil \/ ticking # Nil)
  /\ t \in IF UsesCancelled THEN alive ELSE alive \ Cancelled

(* cancel, and unsetTimer: the event is erased from the set and deleted,   *)
(* and e still points to it.                                               *)
Unset(t) ==
  IF event[t] = Nil THEN [timers |-> timers, event |-> Nil, bad |-> FALSE]
  ELSE [timers |-> timers \ {<<event[t].due, t>>},
        event |-> [event[t] EXCEPT !.freed = TRUE], bad |-> event[t].freed]

(* set, and setTimer: cancels the last event, and makes another.           *)
Due(delay) == time + delay
SetTo(t, delay, after) ==
  /\ timers' = after.timers \cup {<<Due(delay), t>>}
  /\ event' = [event EXCEPT ![t] = [due |-> Due(delay), freed |-> FALSE]]
  /\ setAt' = [setAt EXCEPT ![t] = [at |-> time, delay |-> delay]]
  /\ undefined' = after.bad

Set(t, delay) ==
  /\ MayUse(t) /\ Due(delay) <= MaxTime
  /\ SetTo(t, delay, Unset(t))
  /\ UNCHANGED <<time, alive, running, now, ticking, ticked>>

Start(t) ==
  /\ MayUse(t) /\ t \in Tickers \ running /\ Due(Interval) <= MaxTime
  /\ running' = running \cup {t}
  /\ SetTo(t, Interval, Unset(t))
  /\ UNCHANGED <<time, alive, now, ticking, ticked>>

Drop(t) ==
  /\ timers' = Unset(t).timers
  /\ event' = [event EXCEPT ![t] = Unset(t).event]
  /\ undefined' = Unset(t).bad

(* cancel, and Ticker::stop.                                               *)
Cancel(t) ==
  /\ MayUse(t)
  /\ Drop(t)
  /\ running' \in {running, running \ {t}}
  /\ UNCHANGED <<time, alive, now, ticking, ticked, setAt>>

(* ~Timer; not in the function of the timer itself, which is not over.     *)
Delete(t) ==
  /\ MayUse(t) /\ t # ticking
  /\ Drop(t)
  /\ alive' = alive \ {t} /\ running' = running \ {t}
  /\ UNCHANGED <<time, now, ticking, ticked, setAt>>

(* The time goes on, in a function too.                                    *)
Advance ==
  /\ ~undefined /\ time < MaxTime /\ time' = time + 1
  /\ UNCHANGED <<timers, event, alive, running, now, ticking, ticked, setAt, undefined>>

-----------------------------------------------------------------------------
(* doDispatch comes to its timers, after the messages.                     *)
BeginPass ==
  /\ ~undefined /\ now = Nil /\ now' = time /\ ticked' = {}
  /\ UNCHANGED <<time, timers, event, alive, running, ticking, setAt, undefined>>

(* ready: what is due now is not.                                          *)
(* Mutation: it is.                                                        *)
ReadyAtOnce(due) == due <= now
Ready(due) == due < now

(* TimeEvent::operator<: by time, then by timer, in no known order.        *)
Earliest == {p \in timers : \A q \in timers : p[1] <= q[1]}

(* The first event is due: it leaves the set, doTick deletes it and calls  *)
(* onTick, which sets a ticker again; then the function runs.              *)
Tick(t) ==
  /\ ~undefined /\ now # Nil /\ ticking = Nil
  /\ \E p \in Earliest :
       /\ p[2] = t /\ Ready(p[1])
       /\ ticking' = t /\ ticked' = ticked \cup {t}
       /\ LET left == [timers |-> timers \ {p}, bad |-> t \notin alive \/ event[t] = Nil \/ event[t].freed]
          IN IF t \in running
             THEN Due(Interval) <= MaxTime /\ SetTo(t, Interval, left)
             ELSE /\ timers' = left.timers /\ undefined' = left.bad
                  /\ event' = [event EXCEPT ![t] = Nil] /\ UNCHANGED setAt
  /\ UNCHANGED <<time, alive, running, now>>

FunctionReturns ==
  /\ ~undefined /\ ticking # Nil /\ ticking' = Nil
  /\ UNCHANGED <<time, timers, event, alive, running, now, ticked, setAt, undefined>>

EndPass ==
  /\ ~undefined /\ now # Nil /\ ticking = Nil
  /\ \A p \in Earliest : ~Ready(p[1])
  /\ now' = Nil
  /\ UNCHANGED <<time, timers, event, alive, running, ticking, ticked, setAt, undefined>>

Next ==
  \/ \E t \in Timers : \/ \E d \in Delays : Set(t, d)
                       \/ Start(t) \/ Cancel(t) \/ Delete(t) \/ Tick(t)
  \/ Advance \/ BeginPass \/ FunctionReturns \/ EndPass

Spec == Init /\ [][Next]_vars

-----------------------------------------------------------------------------
TypeOK ==
  /\ time \in 0 .. MaxTime /\ now \in (0 .. MaxTime) \cup {Nil}
  /\ timers \subseteq (0 .. MaxTime) \X Timers
  /\ event \in [Timers -> [due : 0 .. MaxTime, freed : BOOLEAN] \cup {Nil}]
  /\ alive \subseteq Timers /\ running \subseteq Tickers /\ ticking \in Timers \cup {Nil}

(* The events of the set are those of the timers that are set, one each.   *)
EventsMatch ==
  /\ timers = {<<event[t].due, t>> : t \in {u \in alive : event[u] # Nil /\ ~event[u].freed}}
  /\ ~undefined

(* A timer does not tick before its time.                                  *)
NeverEarly ==
  [][\A t \in Timers : ticking # t /\ ticking' = t /\ setAt[t] # Nil =>
       time >= setAt[t].at + setAt[t].delay]_vars

(* In one pass a timer ticks once, even if its function sets it to 0 or it *)
(* is a ticker: the loop over the elapsed timers ends.                     *)
OnceAPass == [][\A t \in Timers : ticking = Nil /\ ticking' = t => t \notin ticked]_vars
=============================================================================
