------------------------------ MODULE MCControl ------------------------------
(***************************************************************************)
(* What the loop of the server (Y/main/control.c) owes to those who wait   *)
(* for it, one at a time: the timers of Timers, and a client of Transport  *)
(* that stays, with room for all it asks, and sends three messages.        *)
(***************************************************************************)
EXTENDS Timers, Sequences

VARIABLES
  which,   \* "timers" or "client"
  u_fds, u_reg, u_conn, u_backlog, u_sock, u_peer, u_pc, u_ready, u_cur,
  u_written, u_sigpipe, u_crashed, u_undefined

u_vars == <<u_fds, u_reg, u_conn, u_backlog, u_sock, u_peer, u_pc, u_ready,
            u_cur, u_written, u_sigpipe, u_crashed, u_undefined>>
allVars == <<which, vars, u_vars>>

Stay == INSTANCE Transport WITH
  Clients <- {"c1"}, Leavers <- {}, Quitters <- {},
  MaxFd <- 7, Capacity <- 3, Chunk <- 3, MaxMessages <- 3,
  fds <- u_fds, reg <- u_reg, conn <- u_conn, backlog <- u_backlog, sock <-
  u_sock, peer <- u_peer, pc <- u_pc, ready <- u_ready, cur <- u_cur,
  written <- u_written, sigpipe <- u_sigpipe, crashed <- u_crashed,
  undefined <- u_undefined

Start == which \in {"timers", "client"} /\ Init /\ Stay!Init

Timing == which = "timers"
Staying == which = "client"
Step ==
  /\ UNCHANGED which
  /\ \/ Timing /\ Next /\ UNCHANGED u_vars
     \/ Staying /\ Stay!Next /\ UNCHANGED vars

(* The server runs and time goes on, and the client is scheduled.          *)
Fairness ==
  /\ WF_allVars(Timing /\ Loop /\ UNCHANGED <<which, u_vars>>)
  /\ WF_allVars(Timing /\ Tick /\ UNCHANGED <<which, u_vars>>)
  /\ WF_allVars(Staying /\ Stay!ServerStep /\ UNCHANGED <<which, vars>>)
  /\ WF_allVars(Staying /\ Stay!ClientStep("c1") /\ UNCHANGED <<which, vars>>)
  /\ WF_allVars(Staying /\ Stay!ReceiveUnit("c1") /\ UNCHANGED <<which, vars>>)

ControlSpec == Start /\ [][Step]_allVars /\ Fairness

-----------------------------------------------------------------------------
(* A timer is called or cancelled, not forgotten (control.c).              *)
EveryTimerEnds ==
  \A i \in 1 .. MaxId :
    (Timing /\ \E e \in queue : e.id = i /\ e.due < MaxClock)
      ~> (\A e \in queue : e.id # i)

(* A client that stays gets its channel, and to every message the reply,   *)
(* complete and in order (unix.c, client.c).                               *)
Answered(m) ==
  /\ Len(u_peer["c1"].got) >= 2 * m
  /\ SubSeq(u_peer["c1"].got, 1, 2 * m) = Stay!RepliesTo([i \in 1 .. m |-> i])

EveryoneServed ==
  /\ (Staying /\ u_peer["c1"].state = "connected") ~> (u_peer["c1"].state = "ready")
  /\ \A m \in 1 .. 3 : (Staying /\ u_peer["c1"].sent >= 2 * m) ~> Answered(m)
=============================================================================
