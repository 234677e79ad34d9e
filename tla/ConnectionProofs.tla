-------------------------- MODULE ConnectionProofs --------------------------
(***************************************************************************)
(* Proofs about Connection, for any threads and any number of requests,    *)
(* events and handlers that make requests themselves: the types, that      *)
(* messages are handled once and in the order the server sent them, that   *)
(* nothing goes wrong with the shared lists, and that the connection keeps *)
(* the contract of RequestReply.  The inductive invariant says which calls *)
(* each thread's stack can hold and what they hold of the shared state.    *)
(* Order and faults are proved while one thread at a time can poll and one *)
(* dispatch (OneDrives), which is how the library is used; for others      *)
(* README names what fails.                                                *)
(***************************************************************************)
EXTENDS Connection, TLAPS, FiniteSetTheorems, SequenceTheorems

-----------------------------------------------------------------------------
PollPcs == {"claim", "poll", "read", "write", "check", "clear", "release"}
DispatchPcs == {"unbuffer", "empty", "pop", "process"}

(* Where a call of each kind can be.                                       *)
KindPcs ==
  [app        |-> {"idle", "relock"},
   handler    |-> {"idle", "relock"},
   request    |-> PollPcs \cup DispatchPcs \cup
                    {"store", "serialise", "pollout", "register", "wait",
                     "blocked", "again", "leave"},
   run        |-> PollPcs \cup DispatchPcs \cup {"loop", "reset", "finish"},
   poller     |-> PollPcs \cup {"create", "loop", "signal", "wake", "reset",
                                "join", "finish"},
   dispatcher |-> DispatchPcs \cup {"loop", "cond", "asleep"}]

Proper(f) ==
  /\ f.pc \in KindPcs[f.kind]
  /\ f.kind = "request" => f.req \in Requests

(* Which calls call which: application code is at the bottom of each stack *)
(* but the dispatcher's, loops are entered from it by Main alone, and what *)
(* a caller of another call will do next is harmless.                      *)
Placed(t, i) ==
  LET f == stack[t][i] IN
    /\ i = 1 <=> f.kind \in {"app", "dispatcher"}
    /\ f.kind = "dispatcher" <=> t = Dispatcher /\ i = 1
    /\ f.kind \in {"run", "poller"} => t = Main /\ i = 2
    /\ f.kind = "poller" => i = Len(stack[t])
    /\ f.kind = "handler" => i # 2 \/ t = Dispatcher
    /\ i < Len(stack[t]) => f.pc \in {"idle", "empty"}

StackOK(t) ==
  /\ t # Dispatcher => stack[t] # <<>>
  /\ \A i \in DOMAIN stack[t] : Proper(stack[t][i]) /\ Placed(t, i)

Stacked == \A t \in Threads : StackOK(t)

TypeInv == TypeOK /\ Stacked

-----------------------------------------------------------------------------
(* What a step does to the stacks: t goes on in its call, ...              *)
Others(t) == \A u \in Threads \ {t} : stack'[u] = stack[u]

NewTop(t, g) ==
  /\ Len(stack'[t]) = Len(stack[t])
  /\ \A i \in 1 .. Len(stack[t]) :
       stack'[t][i] = IF i = Len(stack[t]) THEN g ELSE stack[t][i]

Moved(t, g) ==
  stack' \in [Threads -> Seq(Frames)] /\ Others(t) /\ NewTop(t, g)

(* ... enters another, ...                                                 *)
Called(t, pc, f) ==
  /\ stack' \in [Threads -> Seq(Frames)]
  /\ Others(t)
  /\ Len(stack'[t]) = Len(stack[t]) + 1
  /\ \A i \in 1 .. Len(stack[t]) + 1 :
       stack'[t][i] = IF i = Len(stack[t]) + 1 THEN f
                      ELSE IF i = Len(stack[t])
                      THEN [Top(t) EXCEPT !.pc = pc] ELSE stack[t][i]

(* ... or returns.                                                         *)
Returned(t) ==
  /\ stack' \in [Threads -> Seq(Frames)]
  /\ Others(t)
  /\ Len(stack'[t]) = Len(stack[t]) - 1
  /\ \A i \in 1 .. Len(stack[t]) - 1 : stack'[t][i] = stack[t][i]

LEMMA TopFrame ==
  ASSUME TypeOK, NEW t \in Threads, stack[t] # <<>>
  PROVE  /\ stack[t] \in Seq(Frames)
         /\ Len(stack[t]) \in Nat \ {0}
         /\ Top(t) = stack[t][Len(stack[t])]
         /\ Top(t) \in Frames
<1>1. stack[t] \in Seq(Frames)
  BY DEF TypeOK
<1>2. Len(stack[t]) \in Nat \ {0}
  BY <1>1, EmptySeq
<1>3. Top(t) = stack[t][Len(stack[t])]
  BY DEF Top, Last
<1>4. Top(t) \in Frames
  BY <1>1, <1>2, <1>3, ElementOfSeq
<1> QED BY <1>1, <1>2, <1>3, <1>4

LEMMA Moving ==
  ASSUME TypeOK, NEW t \in Threads, stack[t] # <<>>, NEW g \in Frames,
         stack' = [stack EXCEPT ![t] = [stack[t] EXCEPT ![Len(stack[t])] = g]]
  PROVE  Moved(t, g)
<1>1. stack[t] \in Seq(Frames) /\ Len(stack[t]) \in 1 .. Len(stack[t])
  BY TopFrame
<1>2. stack'[t] = [stack[t] EXCEPT ![Len(stack[t])] = g]
  BY DEF TypeOK
<1>3. /\ stack'[t] \in Seq(Frames)
      /\ Len(stack'[t]) = Len(stack[t])
      /\ \A i \in 1 .. Len(stack[t]) :
           stack'[t][i] = IF i = Len(stack[t]) THEN g ELSE stack[t][i]
  BY <1>1, <1>2, ExceptSeq
<1>4. stack' \in [Threads -> Seq(Frames)] /\ Others(t)
  BY <1>2, <1>3 DEF TypeOK, Others
<1> QED BY <1>3, <1>4 DEF Moved, NewTop

LEMMA GotoMoves ==
  ASSUME TypeOK, NEW t \in Threads, stack[t] # <<>>, NEW pc \in Pcs,
         Goto(t, pc)
  PROVE  Moved(t, [Top(t) EXCEPT !.pc = pc])
<1>1. /\ Top(t) \in Frames /\ Top(t) = stack[t][Len(stack[t])]
      /\ stack[t] \in Seq(Frames) /\ Len(stack[t]) \in 1 .. Len(stack[t])
  BY TopFrame
<1>2. [Top(t) EXCEPT !.pc = pc] \in Frames
  BY <1>1 DEF Frames
<1>3. stack' = [stack EXCEPT ![t] =
                  [stack[t] EXCEPT ![Len(stack[t])] =
                     [Top(t) EXCEPT !.pc = pc]]]
  BY <1>1 DEF Goto
<1> QED BY <1>2, <1>3, Moving

LEMMA CallCalls ==
  ASSUME TypeOK, NEW t \in Threads, stack[t] # <<>>, NEW pc \in Pcs,
         NEW f \in Frames, Call(t, pc, f)
  PROVE  Called(t, pc, f)
<1> DEFINE g == [Top(t) EXCEPT !.pc = pc]
           s == [stack[t] EXCEPT ![Len(stack[t])] = g]
<1>1. /\ Top(t) \in Frames /\ Top(t) = stack[t][Len(stack[t])]
      /\ stack[t] \in Seq(Frames) /\ Len(stack[t]) \in 1 .. Len(stack[t])
  BY TopFrame
<1>2. g \in Frames
  BY <1>1 DEF Frames
<1>3. /\ s \in Seq(Frames) /\ Len(s) = Len(stack[t])
      /\ \A i \in 1 .. Len(stack[t]) :
           s[i] = IF i = Len(stack[t]) THEN g ELSE stack[t][i]
  BY <1>1, <1>2, ExceptSeq
<1>4. stack' = [stack EXCEPT ![t] = Append(s, f)]
  BY <1>1 DEF Call
<1> HIDE DEF g, s
<1>5. /\ Append(s, f) \in Seq(Frames)
      /\ Len(Append(s, f)) = Len(s) + 1
      /\ \A i \in 1 .. Len(s) : Append(s, f)[i] = s[i]
      /\ Append(s, f)[Len(s) + 1] = f
  BY <1>3, AppendProperties
<1>6. stack'[t] = Append(s, f)
  BY <1>4 DEF TypeOK
<1>7. stack' \in [Threads -> Seq(Frames)] /\ Others(t)
  BY <1>4, <1>5 DEF TypeOK, Others
<1>8. \A i \in 1 .. Len(stack[t]) + 1 :
        stack'[t][i] = IF i = Len(stack[t]) + 1 THEN f
                       ELSE IF i = Len(stack[t]) THEN g ELSE stack[t][i]
  BY <1>1, <1>3, <1>5, <1>6
<1> QED BY <1>3, <1>5, <1>6, <1>7, <1>8 DEF Called, g

LEMMA ReturnReturns ==
  ASSUME TypeOK, NEW t \in Threads, stack[t] # <<>>, Return(t)
  PROVE  Returned(t)
<1>1. /\ stack[t] \in Seq(Frames)
      /\ Len(stack[t]) \in Nat \ {0}
  BY TopFrame
<1>2. \A i \in 1 .. Len(stack[t]) - 1 : stack[t][i] \in Frames
  BY <1>1, ElementOfSeq
<1>3. /\ Front(stack[t]) \in Seq(Frames)
      /\ Len(Front(stack[t])) = Len(stack[t]) - 1
      /\ \A i \in 1 .. Len(stack[t]) - 1 : Front(stack[t])[i] = stack[t][i]
  BY <1>1, <1>2, SubSeqProperties DEF Front
<1>4. stack'[t] = Front(stack[t])
  BY DEF Return, TypeOK
<1>5. stack' \in [Threads -> Seq(Frames)] /\ Others(t)
  BY <1>3 DEF Return, TypeOK, Others
<1> QED BY <1>3, <1>4, <1>5 DEF Returned

-----------------------------------------------------------------------------
(* What each of these leaves of the invariant of the stacks.               *)
LEMMA SameStacked ==
  ASSUME Stacked, NEW t \in Threads, stack'[t] = stack[t]
  PROVE  StackOK(t)'
BY DEF Stacked, StackOK, Placed

LEMMA NewTopStacked ==
  ASSUME TypeInv, NEW t \in Threads, stack[t] # <<>>, NEW g \in Frames,
         stack'[t] \in Seq(Frames), NewTop(t, g), g.kind = Top(t).kind,
         Proper(g)
  PROVE  StackOK(t)'
<1> USE DEF TypeInv
<1>1. /\ Len(stack[t]) \in Nat \ {0} /\ Top(t) = stack[t][Len(stack[t])]
      /\ DOMAIN stack[t] = 1 .. Len(stack[t])
  BY TopFrame
<1>2. DOMAIN stack'[t] = 1 .. Len(stack[t])
  BY DEF NewTop
<1>3. ASSUME NEW i \in 1 .. Len(stack[t])
      PROVE  Proper(stack'[t][i]) /\ Placed(t, i)'
  <2>1. /\ stack'[t][i] = IF i = Len(stack[t]) THEN g ELSE stack[t][i]
        /\ Len(stack'[t]) = Len(stack[t])
    BY DEF NewTop
  <2>2. stack'[t][i].kind = stack[t][i].kind
    BY <1>1, <2>1
  <2>3. Proper(stack[t][i]) /\ Placed(t, i)
    BY <1>1 DEF Stacked, StackOK
  <2>4. Placed(t, i)'
    BY <1>1, <2>1, <2>2, <2>3 DEF Placed
  <2> QED BY <2>1, <2>3, <2>4
<1>4. stack'[t] # <<>>
  BY <1>1, EmptySeq DEF NewTop
<1> QED BY <1>2, <1>3, <1>4 DEF StackOK

LEMMA MovedStacked ==
  ASSUME TypeInv, NEW t \in Threads, stack[t] # <<>>, NEW g \in Frames,
         Moved(t, g), g.kind = Top(t).kind, Proper(g)
  PROVE  Stacked'
<1>1. \A u \in Threads \ {t} : StackOK(u)'
  BY SameStacked DEF TypeInv, Moved, Others
<1>2. StackOK(t)'
  BY NewTopStacked DEF Moved
<1> QED BY <1>1, <1>2 DEF Stacked

LEMMA CalledStacked ==
  ASSUME TypeInv, NEW t \in Threads, stack[t] # <<>>,
         NEW pc \in {"idle", "empty"}, NEW f \in Frames, Called(t, pc, f),
         Proper([Top(t) EXCEPT !.pc = pc]), Top(t).kind # "poller",
         Proper(f), f.kind \notin {"app", "dispatcher"},
         f.kind \in {"run", "poller"} => t = Main /\ Top(t).kind = "app",
         f.kind = "handler" => Top(t).kind # "app"
  PROVE  Stacked'
<1> USE DEF TypeInv
<1>0. PICK n \in Nat \ {0} : n = Len(stack[t])
  BY TopFrame
<1>1. /\ n \in Nat \ {0} /\ Top(t) = stack[t][n] /\ Top(t) \in Frames
      /\ DOMAIN stack[t] = 1 .. n
  BY <1>0, TopFrame
<1>2. /\ DOMAIN stack'[t] = 1 .. n + 1 /\ Len(stack'[t]) = n + 1
      /\ \A i \in 1 .. n - 1 : stack'[t][i] = stack[t][i]
      /\ stack'[t][n] = [Top(t) EXCEPT !.pc = pc]
      /\ stack'[t][n + 1] = f
  <2>1. stack'[t] \in Seq(Frames) /\ Len(stack'[t]) = n + 1
    BY <1>0 DEF Called
  <2>2. \A i \in 1 .. n + 1 :
          stack'[t][i] = IF i = n + 1 THEN f ELSE IF i = n
                         THEN [Top(t) EXCEPT !.pc = pc] ELSE stack[t][i]
    BY <1>0 DEF Called
  <2>3. DOMAIN stack'[t] = 1 .. n + 1
    BY <2>1, LenProperties
  <2>4. \A i \in 1 .. n - 1 : stack'[t][i] = stack[t][i]
    BY <2>2
  <2>5. stack'[t][n] = [Top(t) EXCEPT !.pc = pc]
    BY <2>2
  <2>6. stack'[t][n + 1] = f
    BY <2>2
  <2> QED BY <2>1, <2>3, <2>4, <2>5, <2>6
<1>3. /\ stack'[t][n].kind = stack[t][n].kind
      /\ stack'[t][n].pc = pc
  BY <1>1, <1>2 DEF Frames
<1>4. \A i \in 1 .. n : Proper(stack[t][i]) /\ Placed(t, i)
  BY <1>1 DEF Stacked, StackOK
<1>5. ASSUME NEW i \in 1 .. n - 1
      PROVE  Proper(stack'[t][i]) /\ Placed(t, i)'
  BY <1>0, <1>1, <1>2, <1>4 DEF Placed
<1>6. Proper(Top(t)) /\ Placed(t, n)
  BY <1>1, <1>4
<1>7. Proper(stack'[t][n]) /\ Placed(t, n)'
  <2>1. stack'[t][n] = [Top(t) EXCEPT !.pc = pc]
    BY <1>2
  <2>2. /\ stack'[t][n].kind = Top(t).kind
        /\ stack[t][n].kind = Top(t).kind
        /\ stack'[t][n].pc = pc /\ ~(n < n)
    BY <1>1, <1>3
  <2>3. Placed(t, n)'
    BY <1>0, <1>2, <1>6, <2>2 DEF Placed
  <2> QED BY <2>1, <2>3
<1>8. n = 1 <=> Top(t).kind \in {"app", "dispatcher"}
  BY <1>1, <1>6 DEF Placed
<1>9. Main # Dispatcher
  BY ThreadsAssumption
<1>10. Top(t).kind = "dispatcher" => t = Dispatcher
  BY <1>1, <1>6 DEF Placed
<1>11. Placed(t, n + 1)'
  <2>1. n + 1 # 1 /\ n \in Nat /\ (n + 1 = 2 => n = 1)
    BY <1>1
  <2>2. f.kind \in {"run", "poller"} => t = Main /\ n + 1 = 2
    BY <1>8, <2>1
  <2>3. f.kind = "handler" => n + 1 # 2 \/ t = Dispatcher
    BY <1>8, <1>10, <2>1
  <2>4. stack'[t][n + 1] = f /\ ~(n + 1 < Len(stack'[t]))
    BY <1>2, <2>1
  <2> QED BY <1>2, <2>1, <2>2, <2>3, <2>4 DEF Placed
<1>12. \A u \in Threads \ {t} : StackOK(u)'
  BY SameStacked DEF Called, Others
<1>13. stack'[t] # <<>>
  BY <1>1, <1>2, EmptySeq
<1>14. ASSUME NEW i \in DOMAIN stack'[t]
       PROVE  Proper(stack'[t][i]) /\ Placed(t, i)'
  <2>1. i \in 1 .. n + 1
    BY <1>2
  <2>2. i \in 1 .. n - 1 \/ i = n \/ i = n + 1
    BY <1>1, <2>1
  <2>3. CASE i \in 1 .. n - 1
    BY <1>5, <2>3
  <2>4. CASE i = n
    BY <1>7, <2>4
  <2>5. CASE i = n + 1
    BY <1>2, <1>11, <2>5
  <2> QED BY <2>2, <2>3, <2>4, <2>5
<1> QED BY <1>12, <1>13, <1>14 DEF Stacked, StackOK

LEMMA ReturnedStacked ==
  ASSUME TypeInv, NEW t \in Threads, stack[t] # <<>>, Returned(t),
         Top(t).kind # "app"
  PROVE  Stacked'
<1> USE DEF TypeInv
<1>0. PICK n \in Nat \ {0} : n = Len(stack[t])
  BY TopFrame
<1>1. /\ n \in Nat \ {0} /\ Top(t) = stack[t][n] /\ Top(t) \in Frames
      /\ DOMAIN stack[t] = 1 .. n
  BY <1>0, TopFrame
<1>2. /\ DOMAIN stack'[t] = 1 .. n - 1 /\ Len(stack'[t]) = n - 1
      /\ \A i \in 1 .. n - 1 : stack'[t][i] = stack[t][i]
  BY <1>0, LenProperties DEF Returned
<1>3. \A i \in 1 .. n : Proper(stack[t][i]) /\ Placed(t, i)
  BY <1>1 DEF Stacked, StackOK
<1>4. ASSUME NEW i \in 1 .. n - 1
      PROVE  Proper(stack'[t][i]) /\ Placed(t, i)'
  <2>1. stack'[t][i] = stack[t][i]
    BY <1>2
  <2>2. Proper(stack[t][i]) /\ Placed(t, i)
    BY <1>1, <1>3
  <2>3. stack[t][i].kind # "poller" /\ i < n
    BY <1>0, <1>1, <2>2 DEF Placed
  <2> QED BY <1>0, <1>1, <1>2, <2>1, <2>2, <2>3 DEF Placed
<1>5. \A u \in Threads \ {t} : StackOK(u)'
  BY SameStacked DEF Returned, Others
<1>6. t # Dispatcher => n >= 2
  <2>1. n = 1 => Top(t).kind = "dispatcher"
    BY <1>0, <1>1, <1>3 DEF Placed
  <2>2. Top(t).kind = "dispatcher" => t = Dispatcher
    BY <1>0, <1>1, <1>3 DEF Placed
  <2> QED BY <1>1, <2>1, <2>2
<1>7. t # Dispatcher => stack'[t] # <<>>
  BY <1>2, <1>6
<1> QED BY <1>2, <1>4, <1>5, <1>7 DEF Stacked, StackOK

-----------------------------------------------------------------------------
LEMMA KindsHavePcs ==
  \A k \in DOMAIN KindPcs : KindPcs[k] \subseteq Pcs
BY DEF KindPcs, Pcs, PollPcs, DispatchPcs

LEMMA TopProper ==
  ASSUME TypeInv, NEW t \in Threads, stack[t] # <<>>
  PROVE  /\ Top(t) \in Frames /\ Proper(Top(t))
         /\ Placed(t, Len(stack[t]))
<1>1. /\ stack[t] \in Seq(Frames) /\ Len(stack[t]) \in Nat \ {0}
      /\ Top(t) = stack[t][Len(stack[t])] /\ Top(t) \in Frames
  BY TopFrame DEF TypeInv
<1>2. Len(stack[t]) \in DOMAIN stack[t]
  BY <1>1
<1> QED BY <1>1, <1>2 DEF TypeInv, Stacked, StackOK

LEMMA GoesOn ==
  ASSUME TypeInv, NEW t \in Threads, stack[t] # <<>>,
         NEW k, Top(t).kind = k, NEW to \in KindPcs[k], Goto(t, to)
  PROVE  /\ Moved(t, [Top(t) EXCEPT !.pc = to])
         /\ stack' \in [Threads -> Seq(Frames)] /\ Stacked'
<1>1. Top(t) \in Frames /\ Proper(Top(t))
  BY TopProper
<1>2. to \in Pcs
  BY <1>1, KindsHavePcs DEF Frames, KindPcs
<1> DEFINE g == [Top(t) EXCEPT !.pc = to]
<1>3. g \in Frames /\ g.kind = Top(t).kind
  BY <1>1, <1>2 DEF Frames
<1>4. Proper(g)
  BY <1>1, <1>3 DEF Proper, Frames
<1>5. Moved(t, g)
  BY <1>2, GotoMoves DEF TypeInv
<1> HIDE DEF g
<1>6. Stacked'
  BY <1>3, <1>4, <1>5, MovedStacked
<1> QED BY <1>5, <1>6 DEF Moved, g

(* Both parts of a sequence cut in two.                                    *)
LEMMA Cut ==
  ASSUME NEW S, NEW s \in Seq(S), NEW k \in 0 .. Len(s)
  PROVE  /\ SubSeq(s, 1, k) \in Seq(S) /\ SubSeq(s, k + 1, Len(s)) \in Seq(S)
         /\ SubSeq(s, 1, k) \o SubSeq(s, k + 1, Len(s)) = s
<1>1. \A i \in 1 .. Len(s) : s[i] \in S
  BY ElementOfSeq
<1>2. SubSeq(s, 1, k) \in Seq(S)
  BY <1>1, SubSeqProperties
<1>3. SubSeq(s, k + 1, Len(s)) \in Seq(S)
  BY <1>1, SubSeqProperties
<1>4. SubSeq(s, 1, k) \o SubSeq(s, k + 1, Len(s)) = SubSeq(s, 1, Len(s))
  <2>1. /\ 1 \in 1 .. Len(s) + 1 /\ k \in 1 - 1 .. Len(s)
        /\ Len(s) \in k .. Len(s)
    OBVIOUS
  <2> QED BY <2>1, ConcatAdjacentSubSeq
<1> QED BY <1>2, <1>3, <1>4, SubSeqFull

LEMMA Standing ==
  ASSUME TypeInv, UNCHANGED stack
  PROVE  stack' \in [Threads -> Seq(Frames)] /\ Stacked'
<1>1. Stacked'
  BY SameStacked DEF TypeInv, Stacked
<1> QED BY <1>1 DEF TypeInv, TypeOK

(* Steps of the stacks alone.                                              *)
LEMMA StackStep ==
  ASSUME TypeOK, stack' \in [Threads -> Seq(Frames)],
         UNCHANGED <<stateVars, seqVars, outbound, pollVars, inVars,
                     replyVars, netVars, fault>>
  PROVE  TypeOK'
BY DEF TypeOK, stateVars, seqVars, pollVars, inVars, replyVars, netVars

LEMMA RequestTypes ==
  ASSUME TypeInv, NEW t \in Threads, RequestStep(t)
  PROVE  TypeInv'
<1> USE DEF TypeInv
<1>0. {"serialise", "pollout", "register", "wait", "blocked", "again",
       "claim"} \subseteq KindPcs["request"]
  BY DEF KindPcs, PollPcs
<1>1. CASE StoreSeq(t)
  <2>0. stack[t] # <<>> /\ Top(t).kind = "request" /\ Goto(t, "serialise")
    BY <1>1 DEF StoreSeq, At
  <2>1. stack' \in [Threads -> Seq(Frames)] /\ Stacked'
    BY <1>0, <2>0, GoesOn
  <2>2. Top(t).req \in Requests
    BY <1>1, TopProper DEF StoreSeq, At, Proper
  <2>3. nextSeq' \in Nat
    BY <1>1, <2>2 DEF StoreSeq, TypeOK
  <2> QED BY <1>1, <2>1, <2>3
        DEF StoreSeq, TypeOK, stateVars, pollVars, inVars, replyVars, netVars
<1>2. CASE Serialise(t)
  <2>0. stack[t] # <<>> /\ Top(t).kind = "request" /\ Goto(t, "pollout")
    BY <1>2 DEF Serialise, At
  <2>1. stack' \in [Threads -> Seq(Frames)] /\ Stacked'
    BY <1>0, <2>0, GoesOn
  <2>2. Top(t).req \in Requests
    BY <1>2, TopProper DEF Serialise, At, Proper
  <2>3. outbound' \in Seq(Requests)
    BY <1>2, <2>2, AppendProperties DEF Serialise, TypeOK
  <2> QED BY <1>2, <2>1, <2>3
        DEF Serialise, TypeOK, stateVars, seqVars, pollVars, inVars,
            replyVars, netVars
<1>3. CASE SetPollout(t)
  <2>0. stack[t] # <<>> /\ Top(t).kind = "request" /\ Goto(t, "register")
    BY <1>3 DEF SetPollout, At
  <2>1. stack' \in [Threads -> Seq(Frames)] /\ Stacked'
    BY <1>0, <2>0, GoesOn
  <2> QED BY <1>3, <2>1
        DEF SetPollout, PolloutRequested, TypeOK, stateVars, seqVars,
            inVars, replyVars, netVars
<1>4. CASE RegisterReply(t)
  <2>0. stack[t] # <<>> /\ Top(t).kind = "request" /\ Goto(t, "wait")
    BY <1>4 DEF RegisterReply, At
  <2>1. stack' \in [Threads -> Seq(Frames)] /\ Stacked'
    BY <1>0, <2>0, GoesOn
  <2>2. Top(t).req \in Requests
    BY <1>4, TopProper DEF RegisterReply, At, Proper
  <2>3. LET r == Top(t).req IN
          replies' = [s \in DOMAIN replies \cup {seqOf[r]} |->
                        IF s = seqOf[r] THEN r ELSE replies[s]]
    BY <1>4 DEF RegisterReply, Registered
  <2>4. DOMAIN replies' \subseteq Nat /\ Range(replies') \subseteq Requests
    BY <2>2, <2>3 DEF TypeOK, Range
  <2> QED BY <1>4, <2>1, <2>4
        DEF RegisterReply, TypeOK, stateVars, seqVars, pollVars, inVars,
            netVars
<1>5. CASE WaitReturn(t)
  <2>1. stack[t] # <<>> /\ Top(t).kind = "request"
    BY <1>5 DEF WaitReturn, At
  <2>2. Returned(t) /\ Stacked'
    BY <1>5, <2>1, ReturnReturns, ReturnedStacked DEF WaitReturn
  <2>3. Top(t).req \in Requests
    BY <2>1, TopProper DEF Proper
  <2>4. DOMAIN replies' \subseteq Nat /\ Range(replies') \subseteq Requests
    BY <1>5, <2>3 DEF WaitReturn, DetachReply, TypeOK, Range
  <2>5. returned' \subseteq Requests
    BY <1>5, <2>3 DEF WaitReturn, TypeOK
  <2> QED BY <1>5, <2>2, <2>4, <2>5
        DEF WaitReturn, Returned, TypeOK, stateVars, seqVars, pollVars,
            inVars, netVars
<1>6. CASE ChooseWait(t)
  <2>0. stack[t] # <<>> /\ Top(t).kind = "request"
    BY <1>6 DEF ChooseWait, At
  <2>1. PICK to \in {"blocked", "again"} : Goto(t, to)
    BY <1>6 DEF ChooseWait
  <2>2. stack' \in [Threads -> Seq(Frames)] /\ Stacked'
    BY <1>0, <2>0, <2>1, GoesOn
  <2> QED BY <1>6, <2>2, StackStep DEF ChooseWait
<1>7. CASE EnterPoll(t)
  <2> DEFINE g == [Top(t) EXCEPT !.pc = "claim",
                                 !.wasNone = (state = "none")]
  <2>1. stack[t] # <<>> /\ Top(t).kind = "request"
    BY <1>7 DEF EnterPoll, At
  <2>2. /\ Top(t) \in Frames /\ Proper(Top(t))
        /\ Top(t) = stack[t][Len(stack[t])]
    BY <2>1, TopProper, TopFrame
  <2>3. g \in Frames /\ g.kind = Top(t).kind
    BY <2>2 DEF Frames, Pcs
  <2>a. Proper(g)
    BY <1>0, <2>1, <2>2 DEF Frames, Proper
  <2>4. stack' = [stack EXCEPT ![t] =
                    [stack[t] EXCEPT ![Len(stack[t])] = g]]
    BY <1>7, <2>2 DEF EnterPoll
  <2> HIDE DEF g
  <2>5. Moved(t, g) /\ Stacked'
    BY <2>1, <2>3, <2>a, <2>4, Moving, MovedStacked
  <2> QED BY <1>7, <2>5
        DEF EnterPoll, Moved, TypeOK, seqVars, pollVars, inVars, replyVars,
            netVars
<1>8. CASE LeavePoll(t)
  <2>0. stack[t] # <<>> /\ Top(t).kind = "request" /\ Goto(t, "again")
    BY <1>8 DEF LeavePoll, At
  <2>1. stack' \in [Threads -> Seq(Frames)] /\ Stacked'
    BY <1>0, <2>0, GoesOn
  <2> QED BY <1>8, <2>1
        DEF LeavePoll, TypeOK, seqVars, pollVars, inVars, replyVars, netVars
<1> QED BY <1>1, <1>2, <1>3, <1>4, <1>5, <1>6, <1>7, <1>8 DEF RequestStep

LEMMA PollTypes ==
  ASSUME TypeInv, NEW t \in Threads, PollStep(t)
  PROVE  TypeInv'
<1> USE DEF TypeInv
<1>0. \A k \in Polling :
        /\ PollPcs \subseteq KindPcs[k]
        /\ {"poll", "read", "write", "release", "check", "clear"}
             \subseteq KindPcs[k]
        /\ "signal" \in KindPcs["poller"]
        /\ k # "poller" => "unbuffer" \in KindPcs[k]
  BY DEF Polling, KindPcs, PollPcs, DispatchPcs
<1>1. CASE ClaimList(t)
  <2>1. /\ stack[t] # <<>> /\ Top(t).kind \in Polling
        /\ Goto(t, "poll")
    BY <1>1 DEF ClaimList, At
  <2>2. stack' \in [Threads -> Seq(Frames)] /\ Stacked'
    BY <1>0, <2>1, GoesOn
  <2> QED BY <1>1, <2>2
        DEF ClaimList, TypeOK, stateVars, seqVars, inVars, replyVars, netVars
<1>2. CASE PollSocket(t)
  <2>1. /\ stack[t] # <<>> /\ Top(t).kind \in Polling
        /\ Goto(t, "read")
    BY <1>2 DEF PollSocket, At
  <2>2. stack' \in [Threads -> Seq(Frames)] /\ Stacked'
    BY <1>0, <2>1, GoesOn
  <2>3. revents' \in [Threads -> [in : BOOLEAN, out : BOOLEAN]]
    BY <1>2 DEF PollSocket, TypeOK
  <2> QED BY <1>2, <2>2, <2>3
        DEF PollSocket, TypeOK, stateVars, seqVars, inVars, replyVars, netVars
<1>3. CASE ReadServer(t)
  <2>1. /\ stack[t] # <<>> /\ Top(t).kind \in Polling
        /\ Goto(t, "write")
    BY <1>3 DEF ReadServer, At
  <2>2. stack' \in [Threads -> Seq(Frames)] /\ Stacked'
    BY <1>0, <2>1, GoesOn
  <2>3. inbound' \in Seq(Message) /\ toClient' \in Seq(Message)
    <3>1. CASE UNCHANGED <<inbound, toClient>>
      BY <3>1 DEF TypeOK
    <3>2. ASSUME NEW k \in 1 .. Len(toClient),
                 inbound' = inbound \o SubSeq(toClient, 1, k),
                 toClient' = SubSeq(toClient, k + 1, Len(toClient))
          PROVE  inbound' \in Seq(Message) /\ toClient' \in Seq(Message)
      <4>1. inbound \in Seq(Message) /\ toClient \in Seq(Message)
        BY DEF TypeOK
      <4> k \in 0 .. Len(toClient)
        BY <4>1
      <4>2. /\ SubSeq(toClient, 1, k) \in Seq(Message)
            /\ SubSeq(toClient, k + 1, Len(toClient)) \in Seq(Message)
        BY <4>1, Cut
      <4> QED BY <3>2, <4>1, <4>2, ConcatProperties
    <3> QED BY <1>3, <3>1, <3>2 DEF ReadServer
  <2>4. fault' \in {fault, "would block"}
    BY <1>3 DEF ReadServer
  <2> QED BY <1>3, <2>2, <2>3, <2>4
        DEF ReadServer, TypeOK, stateVars, seqVars, pollVars, replyVars
<1>4. CASE WriteServer(t)
  <2>1. /\ stack[t] # <<>> /\ Top(t).kind \in Polling
        /\ \/ UNCHANGED stack
           \/ \E to \in {"release", "check"} : Goto(t, to)
    BY <1>4 DEF WriteServer, At
  <2>2. stack' \in [Threads -> Seq(Frames)] /\ Stacked'
    <3>1. CASE UNCHANGED stack
      BY <3>1, Standing
    <3>2. ASSUME NEW to \in {"release", "check"}, Goto(t, to)
          PROVE  stack' \in [Threads -> Seq(Frames)] /\ Stacked'
      BY <1>0, <2>1, <3>2, GoesOn
    <3> QED BY <2>1, <3>1, <3>2
  <2>3. outbound' \in Seq(Requests) /\ toServer' \in Seq(Requests)
    <3>1. CASE UNCHANGED <<outbound, toServer>>
      BY <3>1 DEF TypeOK
    <3>2. ASSUME NEW k \in 0 .. SocketSize - Len(toServer),
                 k <= Len(outbound),
                 toServer' = toServer \o SubSeq(outbound, 1, k),
                 outbound' = SubSeq(outbound, k + 1, Len(outbound))
          PROVE  outbound' \in Seq(Requests) /\ toServer' \in Seq(Requests)
      <4>1. outbound \in Seq(Requests) /\ toServer \in Seq(Requests)
        BY DEF TypeOK
      <4> k \in 0 .. Len(outbound)
        BY <3>2, <4>1, BoundsAssumption
      <4>2. /\ SubSeq(outbound, 1, k) \in Seq(Requests)
            /\ SubSeq(outbound, k + 1, Len(outbound)) \in Seq(Requests)
        BY <4>1, Cut
      <4> QED BY <3>2, <4>1, <4>2, ConcatProperties
    <3> QED BY <1>4, <3>1, <3>2 DEF WriteServer
  <2>4. fault' \in {fault, "would block"}
    BY <1>4 DEF WriteServer
  <2> QED BY <1>4, <2>2, <2>3, <2>4
        DEF WriteServer, TypeOK, stateVars, seqVars, pollVars, inVars,
            replyVars
<1>5. CASE CheckOutbound(t)
  <2>1. stack[t] # <<>> /\ Top(t).kind \in Polling
    BY <1>5 DEF CheckOutbound, At
  <2>2. PICK to \in {"clear", "release"} : Goto(t, to)
    BY <1>5 DEF CheckOutbound
  <2>3. stack' \in [Threads -> Seq(Frames)] /\ Stacked'
    BY <1>0, <2>1, <2>2, GoesOn
  <2> QED BY <1>5, <2>3, StackStep DEF CheckOutbound
<1>6. CASE ClearPollout(t)
  <2>1. /\ stack[t] # <<>> /\ Top(t).kind \in Polling
        /\ Goto(t, "release")
    BY <1>6 DEF ClearPollout, At
  <2>2. stack' \in [Threads -> Seq(Frames)] /\ Stacked'
    BY <1>0, <2>1, GoesOn
  <2> QED BY <1>6, <2>2
        DEF ClearPollout, TypeOK, stateVars, seqVars, inVars, replyVars,
            netVars
<1>7. CASE ReleaseList(t)
  <2>1. stack[t] # <<>> /\ Top(t).kind \in Polling
    BY <1>7 DEF ReleaseList, At
  <2>2. Goto(t, IF Top(t).kind = "poller" THEN "signal" ELSE "unbuffer")
    BY <1>7 DEF ReleaseList
  <2>3. stack' \in [Threads -> Seq(Frames)] /\ Stacked'
    <3>1. CASE Top(t).kind = "poller"
      BY <1>0, <2>1, <2>2, <3>1, GoesOn
    <3>2. CASE Top(t).kind # "poller"
      BY <1>0, <2>1, <2>2, <3>2, GoesOn
    <3> QED BY <3>1, <3>2
  <2> QED BY <1>7, <2>3
        DEF ReleaseList, ListPutBack, TypeOK, stateVars, seqVars, inVars,
            replyVars, netVars
<1> QED BY <1>1, <1>2, <1>3, <1>4, <1>5, <1>6, <1>7 DEF PollStep

LEMMA DispatchTypes ==
  ASSUME TypeInv, NEW t \in Threads, DispatchStep(t)
  PROVE  TypeInv'
<1> USE DEF TypeInv
<1>0. /\ \A k \in Dispatching :
           {"unbuffer", "empty", "pop", "process"} \subseteq KindPcs[k]
      /\ "loop" \in KindPcs["run"] /\ "leave" \in KindPcs["request"]
      /\ "cond" \in KindPcs["dispatcher"] /\ "idle" \in KindPcs["handler"]
  BY DEF Dispatching, KindPcs, DispatchPcs
<1>1. CASE Unbuffer(t)
  <2>1. /\ stack[t] # <<>> /\ Top(t).kind \in Dispatching
        /\ Goto(t, "empty")
    BY <1>1 DEF Unbuffer, At, Dispatching
  <2>2. stack' \in [Threads -> Seq(Frames)] /\ Stacked'
    BY <1>0, <2>1, GoesOn
  <2>3. messages' \in Seq(Message) /\ inbound' \in Seq(Message)
    BY <1>1, ConcatProperties, EmptySeq DEF Unbuffer, Unbuffered, TypeOK
  <2> QED BY <1>1, <2>2, <2>3
        DEF Unbuffer, TypeOK, stateVars, seqVars, pollVars, replyVars, netVars
<1>2. CASE ParseOne(t)
  <2>1. stack[t] # <<>> /\ Top(t).kind \in Dispatching
    BY <1>2 DEF ParseOne, At, Dispatching
  <2>2. CASE inbound = <<>>
    <3>1. stack' \in [Threads -> Seq(Frames)] /\ Stacked'
      BY <1>0, <1>2, <2>1, <2>2, GoesOn DEF ParseOne
    <3> QED BY <1>2, <2>2, <3>1, StackStep DEF ParseOne, inVars
  <2>3. CASE inbound # <<>>
    <3>1. stack' \in [Threads -> Seq(Frames)] /\ Stacked'
      BY <1>2, <2>3, Standing DEF ParseOne
    <3>2. inbound \in Seq(Message) /\ messages \in Seq(Message)
      BY DEF TypeOK
    <3>3. Head(inbound) \in Message /\ Tail(inbound) \in Seq(Message)
      BY <2>3, <3>2, HeadTailProperties
    <3>4. /\ messages' = Append(messages, Head(inbound))
          /\ inbound' = Tail(inbound)
      BY <1>2, <2>3 DEF ParseOne, Pushed
    <3>5. messages' \in Seq(Message) /\ inbound' \in Seq(Message)
      BY <3>2, <3>3, <3>4, AppendProperties
    <3> QED BY <1>2, <3>1, <3>5
          DEF ParseOne, TypeOK, stateVars, seqVars, pollVars, replyVars,
              netVars
  <2> QED BY <2>2, <2>3
<1>3. CASE TestEmpty(t)
  <2>1. stack[t] # <<>> /\ Top(t).kind \in {"run", "request", "dispatcher"}
    BY <1>3 DEF TestEmpty, At, Dispatching
  <2>2. PICK to \in KindPcs[Top(t).kind] : Goto(t, to)
    <3>1. CASE messages # <<>>
      BY <1>0, <1>3, <2>1, <3>1 DEF TestEmpty, Dispatching
    <3>2. CASE messages = <<>> /\ Top(t).kind = "run"
      BY <1>0, <1>3, <3>2 DEF TestEmpty
    <3>3. CASE messages = <<>> /\ Top(t).kind = "request"
      BY <1>0, <1>3, <3>3 DEF TestEmpty
    <3>4. CASE messages = <<>> /\ Top(t).kind = "dispatcher"
      BY <1>0, <1>3, <3>4 DEF TestEmpty
    <3> QED BY <2>1, <3>1, <3>2, <3>3, <3>4
  <2>3. stack' \in [Threads -> Seq(Frames)] /\ Stacked'
    BY <2>1, <2>2, GoesOn
  <2> QED BY <1>3, <2>3, StackStep DEF TestEmpty
<1>4. CASE PopMessage(t)
  <2>1. /\ stack[t] # <<>> /\ Top(t).kind \in Dispatching
        /\ Goto(t, "process")
    BY <1>4 DEF PopMessage, At
  <2>2. stack' \in [Threads -> Seq(Frames)] /\ Stacked'
    BY <1>0, <2>1, GoesOn
  <2>3. messages' \in Seq(Message) /\ popped' \in [Threads -> Message]
    <3>1. messages \in Seq(Message) /\ popped \in [Threads -> Message]
      BY DEF TypeOK
    <3>2. messages # <<>> =>
            Head(messages) \in Message /\ Tail(messages) \in Seq(Message)
      BY <3>1, HeadTailProperties
    <3> QED BY <1>4, <3>1, <3>2 DEF PopMessage
  <2>4. fault' \in {fault, "empty pop"}
    BY <1>4 DEF PopMessage
  <2> QED BY <1>4, <2>2, <2>3, <2>4
        DEF PopMessage, TypeOK, stateVars, seqVars, pollVars, replyVars,
            netVars
<1>5. CASE ProcessMessage(t)
  <2>1. stack[t] # <<>> /\ Top(t).kind \in Dispatching
    BY <1>5 DEF ProcessMessage, At
  <2>2. stack' \in [Threads -> Seq(Frames)] /\ Stacked'
    <3>1. CASE Goto(t, "empty")
      BY <1>0, <2>1, <3>1, GoesOn
    <3>2. CASE Call(t, "empty", Frame("handler", "idle", Nobody))
      <4> DEFINE f == Frame("handler", "idle", Nobody)
      <4>1. f \in Frames /\ f.kind = "handler" /\ f.pc = "idle"
        BY DEF Frame, Frames, Pcs
      <4>2. Proper(f)
        BY <1>0, <4>1 DEF Proper
      <4> HIDE DEF f
      <4>3. Called(t, "empty", f)
        BY <2>1, <3>2, <4>1, CallCalls DEF Pcs, f
      <4>4. Top(t) \in Frames /\ Proper(Top(t))
        BY <2>1, TopProper
      <4>5. Proper([Top(t) EXCEPT !.pc = "empty"])
        BY <1>0, <2>1, <4>4 DEF Proper, Frames
      <4>6. Top(t).kind \notin {"poller", "app"}
        BY <2>1 DEF Dispatching
      <4>7. Stacked'
        BY <2>1, <4>1, <4>2, <4>3, <4>5, <4>6, CalledStacked
      <4> QED BY <4>3, <4>7 DEF Called
    <3> QED BY <1>5, <3>1, <3>2 DEF ProcessMessage
  <2>3. popped' \in [Threads -> Message] /\ handled' \in Seq(Message)
    <3>1. popped[t] \in Message /\ NoMessage \in Message
      BY DEF TypeOK, NoMessage, Reply, Message
    <3> QED BY <1>5, <3>1, AppendProperties DEF ProcessMessage, TypeOK
  <2>4. got' \subseteq Requests
    <3>1. got \subseteq Requests /\ \A n \in DOMAIN replies : replies[n] \in Requests
      BY DEF TypeOK, Range
    <3>2. got' \in {got, Delivered(popped[t])}
      BY <1>5 DEF ProcessMessage
    <3> QED BY <3>1, <3>2 DEF Delivered
  <2> QED BY <1>5, <2>2, <2>3, <2>4
        DEF ProcessMessage, TypeOK, stateVars, seqVars, pollVars, netVars
<1>6. CASE HandlerReturn(t)
  <2>1. stack[t] # <<>> /\ Top(t).kind = "handler" /\ Return(t)
    BY <1>6 DEF HandlerReturn, At
  <2>2. Returned(t) /\ Stacked'
    BY <2>1, ReturnReturns, ReturnedStacked
  <2> QED BY <1>6, <2>2, StackStep DEF HandlerReturn, Returned
<1> QED BY <1>1, <1>2, <1>3, <1>4, <1>5, <1>6 DEF DispatchStep

(* The dispatcher starts, or starts its loop again, while its creator, or  *)
(* who wakes it, goes on.                                                  *)
Wakes(t, to, d) ==
  stack' = [stack EXCEPT ![t][Len(stack[t])].pc = to, ![Dispatcher] = d]

LEMMA WakesStacked ==
  ASSUME TypeInv, NEW t \in Threads \ {Dispatcher}, stack[t] # <<>>,
         NEW k, Top(t).kind = k, NEW to \in KindPcs[k],
         NEW d, Wakes(t, to, d),
         d \in {stack[Dispatcher], <<Frame("dispatcher", "loop", Nobody)>>}
  PROVE  /\ stack' \in [Threads -> Seq(Frames)] /\ Stacked'
         /\ NewTop(t, [Top(t) EXCEPT !.pc = to])
         /\ stack'[Dispatcher] = d
         /\ \A u \in Threads \ {t, Dispatcher} : stack'[u] = stack[u]
<1> DEFINE f == Frame("dispatcher", "loop", Nobody)
           g == [Top(t) EXCEPT !.pc = to]
<1>1. /\ Top(t) \in Frames /\ Proper(Top(t))
      /\ Top(t) = stack[t][Len(stack[t])]
  BY TopProper, TopFrame DEF TypeInv
<1>2. to \in Pcs
  BY <1>1, KindsHavePcs DEF Frames, KindPcs
<1>3. g \in Frames /\ g.kind = Top(t).kind
  BY <1>1, <1>2 DEF Frames
<1>4. Proper(g)
  BY <1>1, <1>3 DEF Proper, Frames
<1>5. Dispatcher \in Threads /\ Main \in Threads /\ Main # Dispatcher
  BY ThreadsAssumption DEF Threads
<1>6. /\ stack'[t] = [stack[t] EXCEPT ![Len(stack[t])] = g]
      /\ stack'[Dispatcher] = d
      /\ \A u \in Threads \ {t, Dispatcher} : stack'[u] = stack[u]
      /\ stack' = [u \in Threads |-> stack'[u]]
  BY <1>1, <1>5 DEF Wakes, TypeInv, TypeOK
<1> HIDE DEF g
<1>7. stack[t] \in Seq(Frames) /\ Len(stack[t]) \in 1 .. Len(stack[t])
  BY TopFrame DEF TypeInv
<1>8. stack'[t] \in Seq(Frames) /\ NewTop(t, g)
  BY <1>3, <1>6, <1>7, ExceptSeq DEF NewTop
<1>9. StackOK(t)'
  BY <1>3, <1>4, <1>8, NewTopStacked
<1>10. \A u \in Threads \ {t, Dispatcher} : StackOK(u)'
  BY <1>6, SameStacked DEF TypeInv
<1>11. /\ f \in Frames /\ f.kind = "dispatcher" /\ f.pc = "loop"
  BY DEF Frame, Frames, Pcs
<1>12. Proper(f)
  BY <1>11 DEF Proper, KindPcs
<1> HIDE DEF f
<1>13. ASSUME d \in Seq(Frames), StackOK(Dispatcher)'
       PROVE  stack' \in [Threads -> Seq(Frames)] /\ Stacked'
  <2>1. \A u \in Threads : stack'[u] \in Seq(Frames)
    BY <1>6, <1>8, <1>13 DEF TypeInv, TypeOK
  <2>2. stack' \in [Threads -> Seq(Frames)]
    BY <1>6, <2>1
  <2>3. Stacked'
    BY <1>9, <1>10, <1>13 DEF Stacked
  <2> QED BY <2>2, <2>3
<1>14. CASE d = stack[Dispatcher]
  <2>1. StackOK(Dispatcher)'
    BY <1>5, <1>6, <1>14, SameStacked DEF TypeInv
  <2>2. d \in Seq(Frames)
    BY <1>5, <1>14 DEF TypeInv, TypeOK
  <2> QED BY <1>6, <1>8, <1>13, <2>1, <2>2 DEF g
<1>15. CASE d = <<f>>
  <2>1. d \in Seq(Frames) /\ Len(d) = 1 /\ d[1] = f
    BY <1>11, <1>15
  <2>2. stack'[Dispatcher][1] = f /\ DOMAIN stack'[Dispatcher] = {1}
    BY <1>6, <2>1
  <2>3. Placed(Dispatcher, 1)'
    BY <1>5, <1>6, <1>11, <2>1, <2>2 DEF Placed
  <2>4. StackOK(Dispatcher)'
    BY <1>12, <2>2, <2>3 DEF StackOK
  <2> QED BY <1>6, <1>8, <1>13, <2>1, <2>4 DEF g
<1> QED BY <1>14, <1>15 DEF f

LEMMA PollerIsMain ==
  ASSUME TypeInv, NEW t \in Threads, stack[t] # <<>>,
         Top(t).kind \in {"run", "poller"}
  PROVE  t = Main /\ t # Dispatcher /\ Len(stack[t]) = 2
<1>1. Placed(t, Len(stack[t])) /\ Top(t) = stack[t][Len(stack[t])]
  BY TopProper, TopFrame DEF TypeInv
<1> QED BY <1>1, ThreadsAssumption DEF Placed

LEMMA SignalWakes ==
  ASSUME TypeInv, NEW t \in Threads, SignalDispatcher(t)
  PROVE  Wakes(t, "loop",
               IF Asleep THEN <<Frame("dispatcher", "loop", Nobody)>>
               ELSE stack[Dispatcher])
<1>1. t # Dispatcher
  BY PollerIsMain DEF SignalDispatcher, At
<1> QED BY <1>1 DEF SignalDispatcher, Wakes

LEMMA LoopTypes ==
  ASSUME TypeInv, NEW t \in Threads, LoopStep(t)
  PROVE  TypeInv'
<1> USE DEF TypeInv
<1>0. /\ "idle" \in KindPcs["app"]
      /\ {"loop", "reset", "claim", "finish"} \subseteq KindPcs["run"]
      /\ {"create", "loop", "reset", "claim", "wake", "join", "finish"}
           \subseteq KindPcs["poller"]
      /\ {"unbuffer", "asleep"} \subseteq KindPcs["dispatcher"]
  BY DEF KindPcs, PollPcs, DispatchPcs
<1>1. CASE BeginRun(t)
  <2>1. /\ stack[t] # <<>> /\ Top(t).kind = "app" /\ Top(t).pc = "idle"
        /\ t = Main
    BY <1>1 DEF BeginRun, At
  <2>2. CASE UNCHANGED <<stack, state>> /\ fault' = "abort"
    <3>1. stack' \in [Threads -> Seq(Frames)] /\ Stacked'
      BY <2>2, Standing
    <3> QED BY <1>1, <2>2, <3>1
          DEF BeginRun, TypeOK, seqVars, pollVars, inVars, replyVars, netVars
  <2>3. CASE /\ Call(t, "idle", Frame("run", "loop", Nobody))
             /\ state' \in {"running", "threaded"} /\ UNCHANGED fault
    <3>1. stack' \in [Threads -> Seq(Frames)] /\ Stacked'
      <4> DEFINE f == Frame("run", "loop", Nobody)
      <4>1. f \in Frames /\ f.kind = "run" /\ f.pc = "loop"
        BY DEF Frame, Frames, Pcs
      <4>2. Proper(f)
        BY <1>0, <4>1 DEF Proper
      <4> HIDE DEF f
      <4>3. Called(t, "idle", f)
        BY <2>1, <2>3, <4>1, CallCalls DEF Pcs, f
      <4>4. Proper([Top(t) EXCEPT !.pc = "idle"])
        BY <1>0, <2>1, TopProper DEF Proper, Frames
      <4>5. Stacked'
        BY <2>1, <4>1, <4>2, <4>3, <4>4, CalledStacked
      <4> QED BY <4>3, <4>5 DEF Called
    <3> QED BY <1>1, <2>3, <3>1
          DEF BeginRun, TypeOK, seqVars, pollVars, inVars, replyVars, netVars
  <2> QED BY <1>1, <2>2, <2>3 DEF BeginRun
<1>2. CASE RunLoop(t)
  <2>1. stack[t] # <<>> /\ Top(t).kind = "run"
    BY <1>2 DEF RunLoop, At
  <2>2. PICK to \in {"reset", "claim"} : Goto(t, to)
    BY <1>2 DEF RunLoop
  <2>3. stack' \in [Threads -> Seq(Frames)] /\ Stacked'
    BY <1>0, <2>1, <2>2, GoesOn
  <2> QED BY <1>2, <2>3, StackStep DEF RunLoop
<1>3. CASE ResetStopping(t)
  <2>1. stack[t] # <<>> /\ Top(t).kind \in {"run", "poller"}
    BY <1>3 DEF ResetStopping, At
  <2>2. Goto(t, IF Top(t).kind = "run" THEN "finish" ELSE "join")
    BY <1>3 DEF ResetStopping
  <2>3. stack' \in [Threads -> Seq(Frames)] /\ Stacked'
    <3>1. CASE Top(t).kind = "run"
      BY <1>0, <2>1, <2>2, <3>1, GoesOn
    <3>2. CASE Top(t).kind = "poller"
      BY <1>0, <2>1, <2>2, <3>2, GoesOn
    <3> QED BY <2>1, <3>1, <3>2
  <2> QED BY <1>3, <2>3
        DEF ResetStopping, TypeOK, seqVars, pollVars, inVars, replyVars,
            netVars
<1>4. CASE Finish(t)
  <2>1. /\ stack[t] # <<>> /\ Top(t).kind \in {"run", "poller"}
        /\ Return(t)
    BY <1>4 DEF Finish, At
  <2>2. Returned(t) /\ Stacked'
    BY <2>1, ReturnReturns, ReturnedStacked
  <2> QED BY <1>4, <2>2
        DEF Finish, Returned, TypeOK, seqVars, pollVars, inVars, replyVars,
            netVars
<1>5. CASE BeginThreaded(t)
  <2>1. /\ stack[t] # <<>> /\ Top(t).kind = "app" /\ Top(t).pc = "idle"
        /\ t = Main
    BY <1>5 DEF BeginThreaded, At
  <2>2. CASE UNCHANGED <<stack, state>> /\ fault' = "abort"
    <3>1. stack' \in [Threads -> Seq(Frames)] /\ Stacked'
      BY <2>2, Standing
    <3> QED BY <1>5, <2>2, <3>1
          DEF BeginThreaded, TypeOK, seqVars, pollVars, inVars, replyVars, netVars
  <2>3. CASE /\ Call(t, "idle", Frame("poller", "create", Nobody))
             /\ state' \in {"running", "threaded"} /\ UNCHANGED fault
    <3>1. stack' \in [Threads -> Seq(Frames)] /\ Stacked'
      <4> DEFINE f == Frame("poller", "create", Nobody)
      <4>1. f \in Frames /\ f.kind = "poller" /\ f.pc = "create"
        BY DEF Frame, Frames, Pcs
      <4>2. Proper(f)
        BY <1>0, <4>1 DEF Proper
      <4> HIDE DEF f
      <4>3. Called(t, "idle", f)
        BY <2>1, <2>3, <4>1, CallCalls DEF Pcs, f
      <4>4. Proper([Top(t) EXCEPT !.pc = "idle"])
        BY <1>0, <2>1, TopProper DEF Proper, Frames
      <4>5. Stacked'
        BY <2>1, <4>1, <4>2, <4>3, <4>4, CalledStacked
      <4> QED BY <4>3, <4>5 DEF Called
    <3> QED BY <1>5, <2>3, <3>1
          DEF BeginThreaded, TypeOK, seqVars, pollVars, inVars, replyVars, netVars
  <2> QED BY <1>5, <2>2, <2>3 DEF BeginThreaded
<1>6. CASE CreateDispatcher(t)
  <2>1. stack[t] # <<>> /\ Top(t).kind = "poller" /\ t # Dispatcher
    BY <1>6, PollerIsMain DEF CreateDispatcher, At
  <2>2. Wakes(t, "loop", <<Frame("dispatcher", "loop", Nobody)>>)
    BY <1>6 DEF CreateDispatcher, Wakes
  <2>3. stack' \in [Threads -> Seq(Frames)] /\ Stacked'
    BY <1>0, <2>1, <2>2, WakesStacked
  <2> QED BY <1>6, <2>3, StackStep DEF CreateDispatcher
<1>7. CASE PollerLoop(t)
  <2>1. stack[t] # <<>> /\ Top(t).kind = "poller"
    BY <1>7 DEF PollerLoop, At
  <2>2. PICK to \in {"reset", "claim"} : Goto(t, to)
    BY <1>7 DEF PollerLoop
  <2>3. stack' \in [Threads -> Seq(Frames)] /\ Stacked'
    BY <1>0, <2>1, <2>2, GoesOn
  <2>4. oldLength' \in Nat
    <3>1. inbound \in Seq(Message) /\ oldLength \in Nat
      BY DEF TypeOK
    <3> QED BY <1>7, <3>1 DEF PollerLoop
  <2> QED BY <1>7, <2>3, <2>4
        DEF PollerLoop, TypeOK, stateVars, seqVars, pollVars, replyVars,
            netVars
<1>8. CASE DecideSignal(t)
  <2>1. stack[t] # <<>> /\ Top(t).kind = "poller"
    BY <1>8 DEF DecideSignal, At
  <2>2. PICK to \in {"wake", "loop"} : Goto(t, to)
    BY <1>8 DEF DecideSignal
  <2>3. stack' \in [Threads -> Seq(Frames)] /\ Stacked'
    BY <1>0, <2>1, <2>2, GoesOn
  <2> QED BY <1>8, <2>3, StackStep DEF DecideSignal
<1>9. CASE SignalDispatcher(t)
  <2>1. stack[t] # <<>> /\ Top(t).kind = "poller" /\ t # Dispatcher
    BY <1>9, PollerIsMain DEF SignalDispatcher, At
  <2>2. PICK d \in {stack[Dispatcher],
                    <<Frame("dispatcher", "loop", Nobody)>>} :
          Wakes(t, "loop", d)
    BY <1>9, SignalWakes DEF SignalDispatcher
  <2>3. stack' \in [Threads -> Seq(Frames)] /\ Stacked'
    BY <1>0, <2>1, <2>2, WakesStacked
  <2> QED BY <1>9, <2>3, StackStep DEF SignalDispatcher
<1>10. CASE JoinDispatcher(t)
  <2>1. stack[t] # <<>> /\ Top(t).kind = "poller"
    BY <1>10 DEF JoinDispatcher, At
  <2>2. Goto(t, "finish")
    BY <1>10 DEF JoinDispatcher
  <2>3. stack' \in [Threads -> Seq(Frames)] /\ Stacked'
    BY <1>0, <2>1, <2>2, GoesOn
  <2> QED BY <1>10, <2>3, StackStep DEF JoinDispatcher
<1>11. CASE DispatcherLoop(t)
  <2>1. stack[t] # <<>> /\ Top(t).kind = "dispatcher"
    BY <1>11 DEF DispatcherLoop, At
  <2>2. stack' \in [Threads -> Seq(Frames)] /\ Stacked'
    <3>1. CASE Return(t)
      <4>1. Returned(t) /\ Stacked'
        BY <2>1, <3>1, ReturnReturns, ReturnedStacked
      <4> QED BY <4>1 DEF Returned
    <3>2. CASE Goto(t, "unbuffer")
      BY <1>0, <2>1, <3>2, GoesOn
    <3> QED BY <1>11, <3>1, <3>2 DEF DispatcherLoop
  <2> QED BY <1>11, <2>2, StackStep DEF DispatcherLoop
<1>12. CASE DispatcherWait(t)
  <2>1. stack[t] # <<>> /\ Top(t).kind = "dispatcher"
    BY <1>12 DEF DispatcherWait, At
  <2>2. Goto(t, "asleep")
    BY <1>12 DEF DispatcherWait
  <2>3. stack' \in [Threads -> Seq(Frames)] /\ Stacked'
    BY <1>0, <2>1, <2>2, GoesOn
  <2> QED BY <1>12, <2>3, StackStep DEF DispatcherWait
<1> QED BY <1>1, <1>2, <1>3, <1>4, <1>5, <1>6, <1>7, <1>8, <1>9, <1>10,
           <1>11, <1>12 DEF LoopStep

LEMMA BeginTypes ==
  ASSUME TypeInv, NEW t \in Threads, NEW r \in Requests, BeginRequest(t, r)
  PROVE  TypeInv' /\ Called(t, "idle", Frame("request", "store", r))
<1> USE DEF TypeInv
<1> DEFINE f == Frame("request", "store", r)
<1>1. stack[t] # <<>> /\ Top(t).kind \in {"app", "handler"}
  BY DEF BeginRequest, At
<1>2. /\ f \in Frames /\ f.kind = "request" /\ f.pc = "store"
      /\ f.req = r
  BY DEF Frame, Frames, Pcs
<1>3. "store" \in KindPcs["request"]
  BY DEF KindPcs
<1>4. Proper(f)
  BY <1>2, <1>3 DEF Proper
<1> HIDE DEF f
<1>5. Called(t, "idle", f)
  BY <1>1, <1>2, CallCalls DEF BeginRequest, Pcs, f
<1>6. "idle" \in KindPcs["app"] /\ "idle" \in KindPcs["handler"]
  BY DEF KindPcs
<1>7. Proper([Top(t) EXCEPT !.pc = "idle"])
  BY <1>1, <1>6, TopProper DEF Proper, Frames
<1>8. Stacked'
  BY <1>1, <1>2, <1>4, <1>5, <1>7, CalledStacked
<1>9. stack' \in [Threads -> Seq(Frames)]
  BY <1>5 DEF Called
<1>10. seqOf' \in [Requests -> Nat]
  <2>1. seqOf \in [Requests -> Nat] /\ nextSeq \in Nat
    BY DEF TypeOK
  <2>2. nextSeq + 1 \in Nat
    BY <2>1
  <2> QED BY <2>1, <2>2 DEF BeginRequest
<1>11. TypeOK'
  BY <1>9, <1>10
     DEF BeginRequest, TypeOK, stateVars, pollVars, inVars, replyVars, netVars
<1> QED BY <1>5, <1>8, <1>11 DEF f

LEMMA StopTypes ==
  ASSUME TypeInv, NEW t \in Threads, Stop(t)
  PROVE  TypeInv'
<1> USE DEF TypeInv
<1>1. stack[t] # <<>> /\ Top(t).kind \in {"app", "handler"}
  BY DEF Stop, At
<1>2. stack' \in [Threads -> Seq(Frames)] /\ Stacked'
  <2>1. CASE UNCHANGED stack
    BY <2>1, Standing
  <2>2. CASE t = Dispatcher /\ stack' = [stack EXCEPT ![t] = <<>>]
    <3>1. /\ stack'[t] = <<>> /\ stack' \in [Threads -> Seq(Frames)]
          /\ \A u \in Threads \ {t} : stack'[u] = stack[u]
      <4>1. stack \in [Threads -> Seq(Frames)] /\ <<>> \in Seq(Frames)
        BY EmptySeq DEF TypeOK
      <4> QED BY <2>2, <4>1
    <3>2. StackOK(t)'
      BY <2>2, <3>1 DEF StackOK
    <3>3. \A u \in Threads \ {t} : StackOK(u)'
      BY <3>1, SameStacked
    <3> QED BY <3>1, <3>2, <3>3 DEF Stacked
  <2>3. CASE Goto(t, "relock")
    <3>1. "relock" \in KindPcs["app"] /\ "relock" \in KindPcs["handler"]
      BY DEF KindPcs
    <3> QED BY <1>1, <2>3, <3>1, GoesOn
  <2> QED BY <2>1, <2>2, <2>3 DEF Stop
<1>3. stateMutex' \in Threads \cup {Nobody} /\ stopping' \in BOOLEAN
  BY DEF Stop, TypeOK
<1>4. TypeOK'
  BY <1>2, <1>3
     DEF Stop, TypeOK, seqVars, pollVars, inVars, replyVars, netVars
<1> QED BY <1>2, <1>4

LEMMA SpuriousTypes ==
  ASSUME TypeInv, NEW t \in Threads, SpuriousWake(t)
  PROVE  TypeInv'
<1> USE DEF TypeInv
<1>1. /\ stack[t] # <<>> /\ Top(t).kind = "dispatcher"
      /\ Goto(t, "loop")
  BY DEF SpuriousWake, At
<1>2. "loop" \in KindPcs["dispatcher"]
  BY DEF KindPcs
<1>3. stack' \in [Threads -> Seq(Frames)] /\ Stacked'
  BY <1>1, <1>2, GoesOn
<1> QED BY <1>3, StackStep DEF SpuriousWake

LEMMA EventCount ==
  ASSUME TypeOK
  PROVE  EventsSent \in Nat
<1>1. DOMAIN sent = 1 .. Len(sent) /\ Len(sent) \in Nat
  BY LenProperties DEF TypeOK
<1>2. IsFiniteSet(DOMAIN sent)
  BY <1>1, FS_Interval
<1>3. IsFiniteSet({i \in DOMAIN sent : sent[i].op = "event"})
  BY <1>2, FS_Subset
<1> QED BY <1>3, FS_CardinalityType DEF EventsSent

LEMMA ServerTypes ==
  ASSUME TypeInv, Serve \/ SendEvent
  PROVE  TypeInv'
<1> USE DEF TypeInv
<1>1. stack' \in [Threads -> Seq(Frames)] /\ Stacked'
  BY Standing DEF Serve, SendEvent
<1>2. /\ toServer \in Seq(Requests) /\ toClient \in Seq(Message)
      /\ sent \in Seq(Message)
  BY DEF TypeOK
<1>3. CASE Serve
  <2> DEFINE r == Head(toServer)
             answer == IF r \in Failing THEN <<>> ELSE <<Reply(seqOf[r])>>
  <2>1. r \in Requests /\ Tail(toServer) \in Seq(Requests)
    BY <1>2, <1>3, HeadTailProperties DEF Serve
  <2>2. Reply(seqOf[r]) \in Message
    BY <2>1 DEF TypeOK, Reply, Message
  <2>3. answer \in Seq(Message)
    BY <2>2
  <2>4. /\ toServer' = Tail(toServer) /\ toClient' = toClient \o answer
        /\ sent' = sent \o answer
    BY <1>3 DEF Serve
  <2> HIDE DEF answer, r
  <2>5. toClient' \in Seq(Message) /\ sent' \in Seq(Message)
    BY <1>2, <2>3, <2>4, ConcatProperties
  <2> QED BY <1>1, <1>3, <2>1, <2>4, <2>5
        DEF Serve, TypeOK, stateVars, seqVars, pollVars, inVars, replyVars
<1>4. CASE SendEvent
  <2>1. Event(EventsSent + 1) \in Message
    BY EventCount DEF Event, Message
  <2>2. toClient' \in Seq(Message) /\ sent' \in Seq(Message)
    BY <1>2, <1>4, <2>1, AppendProperties DEF SendEvent
  <2> QED BY <1>1, <1>4, <2>2
        DEF SendEvent, TypeOK, stateVars, seqVars, pollVars, inVars, replyVars
<1> QED BY <1>3, <1>4

LEMMA TypeInit == Init => TypeInv
<1> SUFFICES ASSUME Init  PROVE TypeInv
  OBVIOUS
<1>1. Frame("app", "idle", Nobody) \in Frames
  BY DEF Frame, Frames, Pcs
<1>2. stack \in [Threads -> Seq(Frames)]
  BY <1>1 DEF Init
<1>3. /\ state \in {"none", "running", "threaded", "polling"}
      /\ stateMutex \in Threads \cup {Nobody}
      /\ stopping \in BOOLEAN /\ stopCalled \in BOOLEAN
      /\ started \subseteq Requests /\ nextSeq \in Nat
      /\ seqOf \in [Requests -> Nat]
      /\ pollout \in BOOLEAN /\ working \in BOOLEAN
      /\ ufds \in [Threads -> BOOLEAN]
      /\ revents \in [Threads -> [in : BOOLEAN, out : BOOLEAN]]
      /\ got \subseteq Requests /\ returned \subseteq Requests
      /\ fault \in {"none", "null list", "would block", "empty pop", "abort"}
  BY DEF Init
<1>4. /\ outbound \in Seq(Requests) /\ toServer \in Seq(Requests)
      /\ inbound \in Seq(Message) /\ oldLength \in Nat
      /\ messages \in Seq(Message) /\ handled \in Seq(Message)
      /\ toClient \in Seq(Message) /\ sent \in Seq(Message)
  BY DEF Init
<1>5. popped \in [Threads -> Message]
  BY DEF Init, NoMessage, Reply, Message
<1>6. DOMAIN replies \subseteq Nat /\ Range(replies) \subseteq Requests
  BY DEF Init, Range
<1>7. ASSUME NEW t \in Threads
      PROVE  StackOK(t)
  <2>1. CASE t = Dispatcher
    BY <2>1 DEF Init, StackOK
  <2>2. CASE t # Dispatcher
    <3>1. stack[t] = <<Frame("app", "idle", Nobody)>>
      BY <2>2 DEF Init
    <3>2. DOMAIN stack[t] = {1} /\ stack[t][1] = Frame("app", "idle", Nobody)
          /\ Len(stack[t]) = 1
      BY <3>1
    <3>3. Proper(stack[t][1])
      BY <3>2 DEF Proper, Frame, KindPcs
    <3>4. Placed(t, 1)
      BY <2>2, <3>2 DEF Placed, Frame
    <3> QED BY <3>1, <3>2, <3>3, <3>4 DEF StackOK
  <2> QED BY <2>1, <2>2
<1> QED BY <1>2, <1>3, <1>4, <1>5, <1>6, <1>7 DEF TypeInv, TypeOK, Stacked

LEMMA TypeStep == TypeInv /\ [Next]_vars => TypeInv'
<1> SUFFICES ASSUME TypeInv, [Next]_vars  PROVE TypeInv'
  OBVIOUS
<1>1. ASSUME NEW t \in Threads, ThreadStep(t)
      PROVE  TypeInv'
  BY <1>1, PollTypes, DispatchTypes, RequestTypes, LoopTypes DEF ThreadStep
<1>2. CASE UNCHANGED vars
  <2>1. stack' \in [Threads -> Seq(Frames)] /\ Stacked'
    BY <1>2, Standing DEF vars
  <2> QED BY <1>2, <2>1, StackStep DEF TypeInv, vars
<1> QED BY <1>1, <1>2, BeginTypes, StopTypes, SpuriousTypes, ServerTypes
    DEF Next

(* The types of the connection's state, for any threads and requests: in   *)
(* particular a call of sendMessage or wait is about a request.            *)
THEOREM TypeCorrect == Spec => []TypeOK
<1>1. TypeInv => TypeOK
  BY DEF TypeInv
<1> QED BY <1>1, TypeInit, TypeStep, PTL DEF Spec

-----------------------------------------------------------------------------
(* Who polls and dispatches.  The connection is used by one thread at a    *)
(* time: either only Main makes requests of its own (others may still be   *)
(* made by handlers), or the loop is runThreaded's, where requests of      *)
(* other threads wait for the poller and the dispatcher, and nobody stops  *)
(* it or at most one thread is left to poll for itself afterwards.         *)
OneDrives ==
  \/ Apps \cap Callers = {}
  \/ /\ Mode = "threaded"
     /\ Stoppers = {} \/ \A t, u \in Callers : t = u

InLoop(kind) == Len(stack[Main]) >= 2 /\ stack[Main][2].kind = kind
LoopAt(pcs) == stack[Main][2].pc \in pcs
Calls(t) == Len(stack[t]) >= 2

(* The request is in a call of poll; the first such call found the state   *)
(* none.                                                                   *)
InPoll(f) ==
  f.kind = "request" /\ f.pc \in PollPcs \cup DispatchPcs \cup {"leave"}
Polls(t) == \E i \in DOMAIN stack[t] : InPoll(stack[t][i])
PollsFirst(t) ==
  \E i \in DOMAIN stack[t] : InPoll(stack[t][i]) /\ stack[t][i].wasNone

States ==
  /\ state = "running" => InLoop("run")
  /\ state = "threaded" <=> InLoop("poller")
  /\ state = "polling" => \E t \in Threads : PollsFirst(t)

(* In threaded mode no request is in a call of poll, and the dispatcher    *)
(* lives only as long as the poller.                                       *)
Loops ==
  /\ InLoop("run") => Mode = "run"
  /\ InLoop("poller") => Mode = "threaded"
  /\ InLoop("poller") => \A t \in Threads : ~Polls(t)
  /\ ~Polls(Dispatcher)
  /\ stack[Dispatcher] # <<>> =>
       InLoop("poller") /\ ~LoopAt({"create", "finish"})

Stopped ==
  /\ InLoop("poller") /\ LoopAt({"reset", "join", "finish"}) => stopCalled
  /\ stopping => stopCalled
  /\ stopCalled => Stoppers # {}

Callings ==
  /\ \A t \in Threads \ {Dispatcher} :
       Calls(t) /\ stack[t][2].kind = "request" => t \in Callers
  /\ \A t \in Apps :
       Calls(t) => Mode = "threaded" /\ (state = "threaded" \/ stopCalled)

Control == States /\ Loops /\ Stopped /\ Callings

-----------------------------------------------------------------------------
(* What the steps of the stacks leave of these notions.                    *)
KeptCalls ==
  /\ \A k \in {"run", "poller"} : InLoop(k)' <=> InLoop(k)
  /\ \A t \in Threads \ {Dispatcher} :
       Calls(t)' => Calls(t) /\ stack'[t][2].kind = stack[t][2].kind
  /\ stack'[Dispatcher] # <<>> => stack[Dispatcher] # <<>>

StopKept ==
  /\ UNCHANGED state
  /\ stopCalled => stopCalled'
  /\ stopping' => stopCalled'
  /\ stopCalled' => stopCalled \/ Stoppers # {}

SamePolls ==
  \A t \in Threads :
    (Polls(t)' <=> Polls(t)) /\ (PollsFirst(t)' <=> PollsFirst(t))

LEMMA MovedView ==
  ASSUME TypeInv, NEW t \in Threads, stack[t] # <<>>, NEW g \in Frames,
         Moved(t, g), g.kind = Top(t).kind
  PROVE  /\ KeptCalls
         /\ \A u \in Threads \ {t} :
              (Polls(u)' <=> Polls(u)) /\ (PollsFirst(u)' <=> PollsFirst(u))
         /\ (InPoll(g) <=> InPoll(Top(t))) => (Polls(t)' <=> Polls(t))
         /\ (InPoll(g) <=> InPoll(Top(t))) /\ g.wasNone = Top(t).wasNone =>
              (PollsFirst(t)' <=> PollsFirst(t))
         /\ ~(t = Main /\ Len(stack[t]) = 2) =>
              stack'[Main][2] = stack[Main][2] \/ ~Calls(Main)
         /\ t = Main /\ Len(stack[t]) = 2 => stack'[Main][2] = g
<1>1. /\ Len(stack[t]) \in Nat \ {0} /\ Top(t) = stack[t][Len(stack[t])]
      /\ DOMAIN stack[t] = 1 .. Len(stack[t])
      /\ stack[t] \in Seq(Frames)
  BY TopFrame DEF TypeInv
<1>2. /\ DOMAIN stack'[t] = 1 .. Len(stack[t])
      /\ stack'[t] \in Seq(Frames)
      /\ Len(stack'[t]) = Len(stack[t])
      /\ \A i \in 1 .. Len(stack[t]) :
           stack'[t][i] = IF i = Len(stack[t]) THEN g ELSE stack[t][i]
      /\ \A u \in Threads \ {t} : stack'[u] = stack[u]
  BY DEF Moved, NewTop, Others
<1>3. \A u \in Threads \ {t} :
        (Polls(u)' <=> Polls(u)) /\ (PollsFirst(u)' <=> PollsFirst(u))
  BY <1>2 DEF Polls, PollsFirst
<1>4. ASSUME InPoll(g) <=> InPoll(Top(t))
      PROVE  Polls(t)' <=> Polls(t)
  <2>1. \A i \in 1 .. Len(stack[t]) :
          InPoll(stack'[t][i]) <=> InPoll(stack[t][i])
    BY <1>1, <1>2, <1>4
  <2> QED BY <1>1, <1>2, <2>1 DEF Polls
<1>5. ASSUME InPoll(g) <=> InPoll(Top(t)), g.wasNone = Top(t).wasNone
      PROVE  PollsFirst(t)' <=> PollsFirst(t)
  <2>1. \A i \in 1 .. Len(stack[t]) :
          /\ InPoll(stack'[t][i]) <=> InPoll(stack[t][i])
          /\ stack'[t][i].wasNone = stack[t][i].wasNone
    BY <1>1, <1>2, <1>5
  <2> QED BY <1>1, <1>2, <2>1 DEF PollsFirst
<1>6. \A i \in 1 .. Len(stack[t]) : stack'[t][i].kind = stack[t][i].kind
  BY <1>1, <1>2
<1>7. \A u \in Threads : Calls(u)' <=> Calls(u)
  BY <1>2 DEF Calls
<1>8. \A u \in Threads :
        Calls(u) => stack'[u][2].kind = stack[u][2].kind
  <2>1. ASSUME Calls(t)
        PROVE  stack'[t][2].kind = stack[t][2].kind
    <3>1. 2 \in 1 .. Len(stack[t])
      BY <1>1, <2>1 DEF Calls
    <3> QED BY <1>6, <3>1
  <2> QED BY <1>2, <2>1
<1>9. Main \in Threads /\ Dispatcher \in Threads
  BY DEF Threads
<1>10. \A k \in {"run", "poller"} : InLoop(k)' <=> InLoop(k)
  BY <1>7, <1>8, <1>9 DEF InLoop, Calls
<1>11. stack'[Dispatcher] # <<>> <=> stack[Dispatcher] # <<>>
  <2>1. stack'[t] # <<>>
    BY <1>1, <1>2, EmptySeq
  <2> QED BY <1>2, <1>9, <2>1
<1>12. ASSUME ~(t = Main /\ Len(stack[t]) = 2), Calls(Main)
       PROVE  stack'[Main][2] = stack[Main][2]
  <2>1. CASE t # Main
    BY <1>2, <1>9, <2>1
  <2>2. CASE t = Main
    <3>1. 2 \in 1 .. Len(stack[t]) /\ 2 # Len(stack[t])
      BY <1>1, <1>12, <2>2 DEF Calls
    <3> QED BY <1>2, <2>2, <3>1
  <2> QED BY <2>1, <2>2
<1>13. t = Main /\ Len(stack[t]) = 2 => stack'[Main][2] = g
  BY <1>2
<1> QED BY <1>3, <1>4, <1>5, <1>7, <1>8, <1>10, <1>11, <1>12, <1>13
        DEF KeptCalls

(* Steps that change neither who calls what nor who polls.                 *)
LEMMA SameControl ==
  ASSUME Control, KeptCalls, SamePolls, StopKept,
         InLoop("poller") /\ LoopAt({"reset", "join", "finish"})' =>
           stopCalled,
         InLoop("poller") /\ LoopAt({"create", "finish"})' =>
           stack[Dispatcher] = <<>>
  PROVE  Control'
<1>1. States'
  BY DEF Control, States, KeptCalls, SamePolls, StopKept
<1>2. Loops'
  <2>1. Dispatcher \in Threads
    BY DEF Threads
  <2> QED BY <2>1 DEF Control, Loops, KeptCalls, SamePolls
<1>3. Stopped'
  BY DEF Control, Stopped, KeptCalls, StopKept
<1>4. Callings'
  <2>1. Apps \subseteq Threads \ {Dispatcher}
    BY ThreadsAssumption DEF Threads
  <2> QED BY <2>1 DEF Control, Callings, KeptCalls, StopKept
<1> QED BY <1>1, <1>2, <1>3, <1>4 DEF Control

LEMMA MovedControl ==
  ASSUME TypeInv, Control, NEW t \in Threads, stack[t] # <<>>,
         NEW to \in Pcs, Moved(t, [Top(t) EXCEPT !.pc = to]),
         InPoll([Top(t) EXCEPT !.pc = to]) <=> InPoll(Top(t)),
         StopKept,
         Top(t).kind = "poller" =>
           /\ to \in {"reset", "join", "finish"} => stopCalled
           /\ to \in {"create", "finish"} => stack[Dispatcher] = <<>>
  PROVE  Control'
<1> DEFINE g == [Top(t) EXCEPT !.pc = to]
<1>1. Top(t) \in Frames /\ Top(t) = stack[t][Len(stack[t])]
  BY TopFrame DEF TypeInv
<1>2. /\ g \in Frames /\ g.kind = Top(t).kind /\ g.pc = to
      /\ g.wasNone = Top(t).wasNone
  BY <1>1 DEF Frames
<1> HIDE DEF g
<1>3. /\ KeptCalls
      /\ \A u \in Threads \ {t} :
           (Polls(u)' <=> Polls(u)) /\ (PollsFirst(u)' <=> PollsFirst(u))
      /\ Polls(t)' <=> Polls(t)
      /\ PollsFirst(t)' <=> PollsFirst(t)
      /\ ~(t = Main /\ Len(stack[t]) = 2) =>
           stack'[Main][2] = stack[Main][2] \/ ~Calls(Main)
      /\ t = Main /\ Len(stack[t]) = 2 => stack'[Main][2] = g
  BY <1>2, MovedView DEF g
<1>4. SamePolls
  BY <1>3 DEF SamePolls
<1>5. ASSUME InLoop("poller")
      PROVE  /\ LoopAt({"reset", "join", "finish"})' => stopCalled
             /\ LoopAt({"create", "finish"})' => stack[Dispatcher] = <<>>
  <2>1. CASE t = Main /\ Len(stack[t]) = 2
    <3>1. Top(t).kind = "poller"
      BY <1>1, <1>5, <2>1 DEF InLoop
    <3>2. stack'[Main][2].pc = to
      BY <1>2, <1>3, <2>1
    <3> QED BY <3>1, <3>2 DEF LoopAt
  <2>2. CASE ~(t = Main /\ Len(stack[t]) = 2)
    <3>1. stack'[Main][2] = stack[Main][2]
      BY <1>3, <1>5, <2>2 DEF InLoop, Calls
    <3>2. /\ LoopAt({"reset", "join", "finish"})' =>
               LoopAt({"reset", "join", "finish"})
          /\ LoopAt({"create", "finish"})' => LoopAt({"create", "finish"})
      BY <3>1 DEF LoopAt
    <3> QED BY <1>5, <3>2 DEF Control, Loops, Stopped
  <2> QED BY <2>1, <2>2
<1> QED BY <1>3, <1>4, <1>5, SameControl

(* A call that is not of poll.                                             *)
LEMMA CalledView ==
  ASSUME TypeInv, NEW t \in Threads, stack[t] # <<>>,
         NEW pc \in {"idle", "empty"}, NEW f \in Frames, Called(t, pc, f),
         InPoll([Top(t) EXCEPT !.pc = pc]) <=> InPoll(Top(t)),
         ~InPoll(f), Top(t).kind # "poller"
  PROVE  /\ SamePolls
         /\ \A u \in Threads \ {t} : stack'[u] = stack[u]
         /\ stack'[t] # <<>> /\ Calls(t)'
         /\ Calls(t) => stack'[t][2].kind = stack[t][2].kind
         /\ ~Calls(t) => stack'[t][2] = f
<1>1. /\ Len(stack[t]) \in Nat \ {0} /\ Top(t) = stack[t][Len(stack[t])]
      /\ DOMAIN stack[t] = 1 .. Len(stack[t]) /\ Top(t) \in Frames
      /\ stack[t] \in Seq(Frames)
  BY TopFrame DEF TypeInv
<1>2. /\ DOMAIN stack'[t] = 1 .. Len(stack[t]) + 1
      /\ stack'[t] \in Seq(Frames)
      /\ Len(stack'[t]) = Len(stack[t]) + 1
      /\ \A u \in Threads \ {t} : stack'[u] = stack[u]
  BY DEF Called, Others
<1>3. \A i \in 1 .. Len(stack[t]) + 1 :
        stack'[t][i] = IF i = Len(stack[t]) + 1 THEN f
                       ELSE IF i = Len(stack[t])
                       THEN [Top(t) EXCEPT !.pc = pc] ELSE stack[t][i]
  BY DEF Called
<1>4. ASSUME NEW i \in 1 .. Len(stack[t])
      PROVE  /\ InPoll(stack'[t][i]) <=> InPoll(stack[t][i])
             /\ stack'[t][i].wasNone = stack[t][i].wasNone
             /\ stack'[t][i].kind = stack[t][i].kind
  <2>1. i # Len(stack[t]) + 1 /\ i \in 1 .. Len(stack[t]) + 1
    BY <1>1
  <2>2. stack'[t][i] = IF i = Len(stack[t])
                       THEN [Top(t) EXCEPT !.pc = pc] ELSE stack[t][i]
    BY <1>3, <2>1
  <2> QED BY <1>1, <2>2 DEF Frames
<1>5. Len(stack[t]) + 1 \in 1 .. Len(stack[t]) + 1
  BY <1>1
<1>6. stack'[t][Len(stack[t]) + 1] = f
  BY <1>3, <1>5
<1>7. \A i \in 1 .. Len(stack[t]) + 1 :
        i \in 1 .. Len(stack[t]) \/ i = Len(stack[t]) + 1
  BY <1>1
<1>8. \A i \in 1 .. Len(stack[t]) : i \in 1 .. Len(stack[t]) + 1
  BY <1>1
<1>9. Polls(t)' <=> Polls(t)
  BY <1>1, <1>2, <1>4, <1>6, <1>7, <1>8 DEF Polls
<1>10. PollsFirst(t)' <=> PollsFirst(t)
  BY <1>1, <1>2, <1>4, <1>6, <1>7, <1>8 DEF PollsFirst
<1>11. SamePolls
  BY <1>2, <1>9, <1>10 DEF SamePolls, Polls, PollsFirst
<1>12. stack'[t] # <<>> /\ Calls(t)'
  BY <1>1, <1>2, EmptySeq DEF Calls
<1>13. Calls(t) => stack'[t][2].kind = stack[t][2].kind
  BY <1>1, <1>4 DEF Calls
<1>14. ~Calls(t) => stack'[t][2] = f
  BY <1>1, <1>6 DEF Calls
<1> QED BY <1>2, <1>11, <1>12, <1>13, <1>14

(* A return of a call that is not of poll.                                 *)
LEMMA ReturnedView ==
  ASSUME TypeInv, NEW t \in Threads, stack[t] # <<>>, Returned(t),
         ~InPoll(Top(t))
  PROVE  /\ SamePolls
         /\ \A u \in Threads \ {t} : stack'[u] = stack[u]
         /\ Calls(t)' <=> Len(stack[t]) > 2
         /\ Len(stack[t]) > 2 => stack'[t][2] = stack[t][2]
         /\ stack'[t] = <<>> <=> Len(stack[t]) = 1
<1>1. /\ Len(stack[t]) \in Nat \ {0} /\ Top(t) = stack[t][Len(stack[t])]
      /\ DOMAIN stack[t] = 1 .. Len(stack[t])
  BY TopFrame DEF TypeInv
<1>2. /\ stack'[t] \in Seq(Frames)
      /\ Len(stack'[t]) = Len(stack[t]) - 1
      /\ \A u \in Threads \ {t} : stack'[u] = stack[u]
      /\ \A i \in 1 .. Len(stack[t]) - 1 : stack'[t][i] = stack[t][i]
  BY DEF Returned, Others
<1>3. DOMAIN stack'[t] = 1 .. Len(stack[t]) - 1
  BY <1>2, LenProperties
<1>4. \A i \in 1 .. Len(stack[t]) :
        i \in 1 .. Len(stack[t]) - 1 \/ i = Len(stack[t])
  BY <1>1
<1>5. \A i \in 1 .. Len(stack[t]) - 1 : i \in 1 .. Len(stack[t])
  BY <1>1
<1>6. Polls(t)' <=> Polls(t)
  BY <1>1, <1>2, <1>3, <1>4, <1>5 DEF Polls
<1>7. PollsFirst(t)' <=> PollsFirst(t)
  BY <1>1, <1>2, <1>3, <1>4, <1>5 DEF PollsFirst
<1>8. SamePolls
  BY <1>2, <1>6, <1>7 DEF SamePolls, Polls, PollsFirst
<1>9. Calls(t)' <=> Len(stack[t]) > 2
  BY <1>1, <1>2 DEF Calls
<1>10. Len(stack[t]) > 2 => stack'[t][2] = stack[t][2]
  BY <1>1, <1>2
<1>11. stack'[t] = <<>> <=> Len(stack[t]) = 1
  <2>1. stack'[t] = <<>> => Len(stack'[t]) = 0
    BY EmptySeq
  <2>2. stack'[t] # <<>> => Len(stack'[t]) # 0
    BY <1>2, EmptySeq
  <2> QED BY <1>1, <1>2, <2>1, <2>2
<1> QED BY <1>2, <1>8, <1>9, <1>10, <1>11

-----------------------------------------------------------------------------
LEMMA StandingControl ==
  ASSUME Control, UNCHANGED stack, StopKept
  PROVE  Control'
<1>1. KeptCalls /\ SamePolls
  BY DEF KeptCalls, SamePolls, InLoop, Calls, Polls, PollsFirst
<1>2. /\ LoopAt({"reset", "join", "finish"})' =>
           LoopAt({"reset", "join", "finish"})
      /\ LoopAt({"create", "finish"})' => LoopAt({"create", "finish"})
  BY DEF LoopAt
<1> QED BY <1>1, <1>2, SameControl DEF Control, Loops, Stopped

PollingPcs == PollPcs \cup DispatchPcs \cup {"leave"}

LEMMA GoesControl ==
  ASSUME TypeInv, Control, NEW t \in Threads, stack[t] # <<>>,
         NEW k, Top(t).kind = k, NEW to \in KindPcs[k], Goto(t, to),
         k = "request" => (Top(t).pc \in PollingPcs <=> to \in PollingPcs),
         UNCHANGED <<state, stopCalled>>, stopping' => stopCalled,
         k = "poller" =>
           /\ to \in {"reset", "join", "finish"} => stopCalled
           /\ to \in {"create", "finish"} => stack[Dispatcher] = <<>>
  PROVE  Control'
<1>1. Top(t) \in Frames /\ Moved(t, [Top(t) EXCEPT !.pc = to])
  BY TopProper, GoesOn
<1>2. to \in Pcs
  BY <1>1, KindsHavePcs DEF Frames, KindPcs
<1>3. InPoll([Top(t) EXCEPT !.pc = to]) <=> InPoll(Top(t))
  BY <1>1 DEF InPoll, PollingPcs, Frames
<1> QED BY <1>1, <1>2, <1>3, MovedControl DEF StopKept

LEMMA PollControl ==
  ASSUME TypeInv, Control, NEW t \in Threads, PollStep(t)
  PROVE  Control'
<1>1. /\ UNCHANGED <<state, stopping, stopCalled>>
      /\ stack[t] # <<>> /\ Top(t).kind \in Polling
      /\ Top(t).pc \in PollPcs
  BY DEF PollStep, ClaimList, PollSocket, ReadServer, WriteServer,
         CheckOutbound, ClearPollout, ReleaseList, stateVars, At, PollPcs
<1>2. \A k \in Polling :
        /\ PollPcs \subseteq KindPcs[k]
        /\ "signal" \in KindPcs["poller"]
        /\ k # "poller" => "unbuffer" \in KindPcs[k]
  BY DEF Polling, KindPcs, PollPcs, DispatchPcs
<1>3. \/ UNCHANGED stack
      \/ \E to \in PollPcs : Goto(t, to)
      \/ Goto(t, IF Top(t).kind = "poller" THEN "signal" ELSE "unbuffer")
  <2>1. CASE ClaimList(t) \/ PollSocket(t) \/ ReadServer(t) \/ WriteServer(t)
    BY <2>1 DEF ClaimList, PollSocket, ReadServer, WriteServer, PollPcs
  <2>2. CASE CheckOutbound(t) \/ ClearPollout(t)
    BY <2>2 DEF CheckOutbound, ClearPollout, PollPcs
  <2>3. CASE ReleaseList(t)
    BY <2>3 DEF ReleaseList
  <2> QED BY <2>1, <2>2, <2>3 DEF PollStep
<1>4. stopping' => stopCalled
  BY <1>1 DEF Control, Stopped
<1>5. CASE UNCHANGED stack
  BY <1>1, <1>4, <1>5, StandingControl DEF StopKept
<1>6. ASSUME NEW to \in KindPcs[Top(t).kind], Goto(t, to),
             to \in PollPcs \cup {"signal", "unbuffer"}
      PROVE  Control'
  <2>1. Top(t).pc \in PollingPcs
    BY <1>1 DEF PollingPcs
  <2>2. Top(t).kind = "request" => to \in PollingPcs
    BY <1>6 DEF PollingPcs, KindPcs, DispatchPcs
  <2>3. to \notin {"reset", "join", "finish", "create"}
    BY <1>6 DEF PollPcs
  <2> QED BY <1>1, <1>4, <1>6, <2>1, <2>2, <2>3, GoesControl
<1>7. ASSUME NEW to \in PollPcs, Goto(t, to)
      PROVE  Control'
  BY <1>1, <1>2, <1>6, <1>7
<1>8. CASE Goto(t, IF Top(t).kind = "poller" THEN "signal" ELSE "unbuffer")
  BY <1>1, <1>2, <1>6, <1>8
<1> QED BY <1>3, <1>5, <1>7, <1>8

LEMMA Depths ==
  \A n \in Nat \ {0} : (n # 1 => n >= 2) /\ (n # 1 /\ n # 2 => n > 2)
OBVIOUS

LEMMA CalledControl ==
  ASSUME TypeInv, Control, NEW t \in Threads, stack[t] # <<>>,
         NEW pc \in {"idle", "empty"}, NEW f \in Frames, Called(t, pc, f),
         InPoll([Top(t) EXCEPT !.pc = pc]) <=> InPoll(Top(t)),
         ~InPoll(f), Top(t).kind # "poller", Calls(t) \/ t = Dispatcher,
         UNCHANGED <<state, stopCalled>>, stopping' => stopCalled
  PROVE  Control'
<1>1. /\ SamePolls
      /\ \A u \in Threads \ {t} : stack'[u] = stack[u]
      /\ stack'[t] # <<>> /\ Calls(t)'
      /\ Calls(t) => stack'[t][2].kind = stack[t][2].kind
  BY CalledView
<1>2. Main \in Threads /\ Dispatcher \in Threads /\ Main # Dispatcher
  BY ThreadsAssumption DEF Threads
<1>3. \A k \in {"run", "poller"} : InLoop(k)' <=> InLoop(k)
  BY <1>1, <1>2 DEF InLoop, Calls
<1>4. \A u \in Threads \ {Dispatcher} :
        Calls(u)' => Calls(u) /\ stack'[u][2].kind = stack[u][2].kind
  BY <1>1 DEF Calls
<1>5. KeptCalls
  BY <1>1, <1>2, <1>3, <1>4 DEF KeptCalls
<1>6. InLoop("poller") => t # Main
  <2>1. ASSUME InLoop("poller"), t = Main
        PROVE  FALSE
    <3>1. /\ stack[t] \in Seq(Frames) /\ Len(stack[t]) \in Nat
          /\ Top(t) = stack[t][Len(stack[t])]
      BY TopFrame DEF TypeInv
    <3>2. 2 \in DOMAIN stack[t] /\ stack[t][2].kind = "poller"
      BY <2>1, <3>1 DEF InLoop
    <3>3. Placed(t, 2)
      BY <3>2 DEF TypeInv, Stacked, StackOK
    <3>4. 2 = Len(stack[t])
      BY <3>2, <3>3 DEF Placed
    <3> QED BY <3>1, <3>2, <3>4
  <2> QED BY <2>1
<1>7. InLoop("poller") =>
        /\ LoopAt({"reset", "join", "finish"})' =>
             LoopAt({"reset", "join", "finish"})
        /\ LoopAt({"create", "finish"})' => LoopAt({"create", "finish"})
  BY <1>1, <1>2, <1>6 DEF LoopAt
<1> QED BY <1>1, <1>5, <1>7, SameControl DEF Control, Loops, Stopped, StopKept

LEMMA ReturnedControl ==
  ASSUME TypeInv, Control, NEW t \in Threads, stack[t] # <<>>, Returned(t),
         ~InPoll(Top(t)), Top(t).kind \in {"handler", "request"},
         UNCHANGED <<state, stopCalled>>, stopping' => stopCalled
  PROVE  Control'
<1>1. /\ SamePolls
      /\ \A u \in Threads \ {t} : stack'[u] = stack[u]
      /\ Calls(t)' <=> Len(stack[t]) > 2
      /\ Len(stack[t]) > 2 => stack'[t][2] = stack[t][2]
      /\ stack'[t] = <<>> <=> Len(stack[t]) = 1
  BY ReturnedView
<1>2. Main \in Threads /\ Dispatcher \in Threads /\ Main # Dispatcher
  BY ThreadsAssumption DEF Threads
<1>3. /\ Len(stack[t]) \in Nat \ {0} /\ Top(t) = stack[t][Len(stack[t])]
      /\ Placed(t, Len(stack[t]))
  BY TopProper, TopFrame DEF TypeInv
<1>4. Len(stack[t]) # 1
  BY <1>3 DEF Placed
<1>5. /\ Len(stack[t]) # 2 => Len(stack[t]) > 2
      /\ t = Main /\ Len(stack[t]) = 2 => ~InLoop("run") /\ ~InLoop("poller")
  <2>1. Len(stack[t]) # 2 => Len(stack[t]) > 2
    <3>1. Len(stack[t]) \in Nat \ {0} /\ Len(stack[t]) # 1
      BY <1>3, <1>4
    <3> QED BY <3>1, Depths
  <2>2. t = Main /\ Len(stack[t]) = 2 => ~InLoop("run") /\ ~InLoop("poller")
    BY <1>3 DEF InLoop
  <2> QED BY <2>1, <2>2
<1>6. \A k \in {"run", "poller"} : InLoop(k)' <=> InLoop(k)
  <2>1. CASE t # Main
    BY <1>1, <1>2, <2>1 DEF InLoop
  <2>2. CASE t = Main /\ Len(stack[t]) = 2
    BY <1>1, <1>5, <2>2 DEF InLoop, Calls
  <2>3. CASE t = Main /\ Len(stack[t]) > 2
    BY <1>1, <2>3 DEF InLoop, Calls
  <2> QED BY <1>5, <2>1, <2>2, <2>3
<1>7. \A u \in Threads \ {Dispatcher} :
        Calls(u)' => Calls(u) /\ stack'[u][2].kind = stack[u][2].kind
  BY <1>1, <1>3 DEF Calls
<1>8. stack'[Dispatcher] # <<>> <=> stack[Dispatcher] # <<>>
  BY <1>1, <1>2, <1>4
<1>9. KeptCalls
  BY <1>6, <1>7, <1>8 DEF KeptCalls
<1>10. InLoop("poller") => stack'[Main][2] = stack[Main][2]
  BY <1>1, <1>2, <1>5
<1>11. InLoop("poller") =>
        /\ LoopAt({"reset", "join", "finish"})' =>
             LoopAt({"reset", "join", "finish"})
        /\ LoopAt({"create", "finish"})' => LoopAt({"create", "finish"})
  BY <1>10 DEF LoopAt
<1> QED BY <1>1, <1>9, <1>11, SameControl DEF Control, Loops, Stopped, StopKept

LEMMA DispatchControl ==
  ASSUME TypeInv, Control, NEW t \in Threads, DispatchStep(t)
  PROVE  Control'
<1>1. UNCHANGED <<state, stopping, stopCalled>> /\ stack[t] # <<>>
  BY DEF DispatchStep, Unbuffer, ParseOne, TestEmpty, PopMessage,
         ProcessMessage, HandlerReturn, stateVars, At
<1>2. stopping' => stopCalled
  BY <1>1 DEF Control, Stopped
<1>3. /\ \A k \in Dispatching : DispatchPcs \subseteq KindPcs[k]
      /\ "loop" \in KindPcs["run"] /\ "leave" \in KindPcs["request"]
      /\ "cond" \in KindPcs["dispatcher"]
  BY DEF Dispatching, KindPcs, DispatchPcs
<1>4. CASE HandlerReturn(t)
  <2>1. Returned(t) /\ Top(t).kind = "handler"
    BY <1>1, <1>4, ReturnReturns DEF HandlerReturn, At, TypeInv
  <2>2. ~InPoll(Top(t))
    BY <2>1 DEF InPoll
  <2> QED BY <1>1, <1>2, <2>1, <2>2, ReturnedControl
<1>5. CASE ProcessMessage(t) /\ popped[t].op = "event"
  <2> DEFINE f == Frame("handler", "idle", Nobody)
  <2>1. f \in Frames /\ f.kind = "handler"
    BY DEF Frame, Frames, Pcs
  <2>2. Top(t).kind \in Dispatching /\ Top(t).pc = "process"
    BY <1>5 DEF ProcessMessage, At
  <2>3. Called(t, "empty", f)
    BY <1>1, <1>5, <2>1, CallCalls DEF ProcessMessage, Pcs, TypeInv
  <2>4. ~InPoll(f)
    BY <2>1 DEF InPoll
  <2> HIDE DEF f
  <2>5. /\ Top(t) \in Frames /\ Placed(t, Len(stack[t]))
        /\ Top(t) = stack[t][Len(stack[t])] /\ Len(stack[t]) \in Nat \ {0}
    BY <1>1, TopProper, TopFrame DEF TypeInv
  <2>6. InPoll([Top(t) EXCEPT !.pc = "empty"]) <=> InPoll(Top(t))
    BY <2>2, <2>5 DEF InPoll, DispatchPcs, Frames
  <2>7. Calls(t) \/ t = Dispatcher
    <3>1. Top(t).kind = "dispatcher" => t = Dispatcher
      BY <2>5 DEF Placed
    <3>2. Top(t).kind \in {"run", "request"} => Len(stack[t]) # 1
      BY <2>5 DEF Placed
    <3>3. Len(stack[t]) # 1 => Calls(t)
      <4>1. Len(stack[t]) \in Nat \ {0}
        BY <2>5
      <4> QED BY <4>1, Depths DEF Calls
    <3> QED BY <2>2, <3>1, <3>2, <3>3 DEF Dispatching
  <2>8. Top(t).kind # "poller"
    BY <2>2 DEF Dispatching
  <2> QED BY <1>1, <1>2, <2>1, <2>3, <2>4, <2>6, <2>7, <2>8, CalledControl
<1>6. CASE UNCHANGED stack
  BY <1>1, <1>2, <1>6, StandingControl DEF StopKept
<1>7. ASSUME NEW to \in KindPcs[Top(t).kind], Goto(t, to),
             Top(t).kind \in Dispatching, Top(t).pc \in DispatchPcs,
             Top(t).kind = "request" => to \in PollingPcs
      PROVE  Control'
  <2>1. Top(t).pc \in PollingPcs /\ Top(t).kind # "poller"
    BY <1>7 DEF PollingPcs, Dispatching
  <2> QED BY <1>1, <1>2, <1>7, <2>1, GoesControl
<1>8. CASE TestEmpty(t)
  <2>1. Top(t).kind \in Dispatching /\ Top(t).pc = "empty"
    BY <1>8 DEF TestEmpty, At
  <2>2. PICK to : /\ Goto(t, to)
                  /\ \/ to = "pop"
                     \/ Top(t).kind = "run" /\ to = "loop"
                     \/ Top(t).kind = "request" /\ to = "leave"
                     \/ Top(t).kind = "dispatcher" /\ to = "cond"
    BY <1>8, <2>1 DEF TestEmpty, Dispatching
  <2>3. to \in KindPcs[Top(t).kind]
    BY <1>3, <2>1, <2>2 DEF DispatchPcs
  <2>4. Top(t).kind = "request" => to \in PollingPcs
    BY <2>2 DEF PollingPcs, DispatchPcs
  <2>5. Top(t).pc \in DispatchPcs
    BY <2>1 DEF DispatchPcs
  <2> QED BY <1>7, <2>1, <2>2, <2>3, <2>4, <2>5
<1>9. ASSUME NEW to \in DispatchPcs, Goto(t, to),
             Top(t).kind \in Dispatching, Top(t).pc \in DispatchPcs
      PROVE  Control'
  BY <1>3, <1>7, <1>9 DEF PollingPcs
<1>10. CASE Unbuffer(t) \/ PopMessage(t)
  BY <1>9, <1>10 DEF Unbuffer, PopMessage, At, DispatchPcs, Dispatching
<1>11. CASE ParseOne(t)
  BY <1>6, <1>9, <1>11 DEF ParseOne, At, DispatchPcs, Dispatching
<1>12. CASE ProcessMessage(t) /\ popped[t].op # "event"
  BY <1>9, <1>12 DEF ProcessMessage, At, DispatchPcs, Dispatching
<1> QED BY <1>4, <1>5, <1>8, <1>10, <1>11, <1>12 DEF DispatchStep

(* A call of poll begins or ends: never while runThreaded drives.          *)
LEMMA SwitchControl ==
  ASSUME TypeInv, Control, NEW t \in Threads \ {Dispatcher}, stack[t] # <<>>,
         NEW g \in Frames, Moved(t, g), g.kind = Top(t).kind,
         state # "threaded", state' # "threaded",
         UNCHANGED <<stopping, stopCalled>>,
         state' = "running" => state = "running",
         state' = "polling" =>
           PollsFirst(t)' \/ \E u \in Threads \ {t} : PollsFirst(u)
  PROVE  Control'
<1>1. /\ KeptCalls
      /\ \A u \in Threads \ {t} :
           (Polls(u)' <=> Polls(u)) /\ (PollsFirst(u)' <=> PollsFirst(u))
  BY MovedView
<1>2. ~InLoop("poller") /\ ~InLoop("poller")'
  BY <1>1 DEF Control, States, KeptCalls
<1>3. States'
  BY <1>1, <1>2 DEF Control, States, KeptCalls
<1>4. Loops'
  <2>1. Dispatcher \in Threads \ {t}
    BY DEF Threads
  <2> QED BY <1>1, <1>2, <2>1 DEF Control, Loops, KeptCalls
<1>5. Stopped'
  BY <1>2 DEF Control, Stopped
<1>6. Callings'
  <2>1. Apps \subseteq Threads \ {Dispatcher}
    BY ThreadsAssumption DEF Threads
  <2> QED BY <1>1, <2>1 DEF Control, Callings, KeptCalls
<1> QED BY <1>3, <1>4, <1>5, <1>6 DEF Control

LEMMA RequestControl ==
  ASSUME TypeInv, Control, NEW t \in Threads, RequestStep(t)
  PROVE  Control'
<1>1. /\ UNCHANGED <<stopping, stopCalled>> /\ stack[t] # <<>>
      /\ Top(t).kind = "request"
  BY DEF RequestStep, StoreSeq, Serialise, SetPollout, RegisterReply,
         WaitReturn, ChooseWait, EnterPoll, LeavePoll, stateVars, At
<1>2. stopping' => stopCalled
  BY <1>1 DEF Control, Stopped
<1>3. /\ Top(t) \in Frames /\ Top(t) = stack[t][Len(stack[t])]
      /\ Len(stack[t]) \in Nat \ {0}
  BY <1>1, TopProper, TopFrame DEF TypeInv
<1>4. ASSUME NEW to \in {"serialise", "pollout", "register", "wait",
                         "blocked", "again"},
             Goto(t, to), UNCHANGED state, Top(t).pc \notin PollingPcs
      PROVE  Control'
  <2>1. to \in KindPcs["request"] /\ to \notin PollingPcs
    BY <1>4 DEF KindPcs, PollingPcs, PollPcs, DispatchPcs
  <2> QED BY <1>1, <1>2, <1>4, <2>1, GoesControl
<1>5. CASE StoreSeq(t) \/ Serialise(t) \/ SetPollout(t)
  BY <1>4, <1>5 DEF StoreSeq, Serialise, SetPollout, stateVars, At,
                    PollingPcs, PollPcs, DispatchPcs
<1>6. CASE RegisterReply(t) \/ ChooseWait(t)
  BY <1>4, <1>6 DEF RegisterReply, ChooseWait, stateVars, At,
                    PollingPcs, PollPcs, DispatchPcs
<1>7. CASE WaitReturn(t)
  <2>1. Returned(t) /\ Top(t).pc \in {"wait", "blocked", "again"}
    BY <1>1, <1>7, ReturnReturns DEF WaitReturn, At, TypeInv
  <2>2. ~InPoll(Top(t))
    BY <2>1 DEF InPoll, PollPcs, DispatchPcs
  <2>3. UNCHANGED state
    BY <1>7 DEF WaitReturn, stateVars
  <2> QED BY <1>1, <1>2, <2>1, <2>2, <2>3, ReturnedControl
<1>8. CASE EnterPoll(t)
  <2> DEFINE g == [Top(t) EXCEPT !.pc = "claim", !.wasNone = (state = "none")]
  <2>1. /\ Top(t).pc = "again" /\ state # "threaded"
        /\ state' = IF state = "none" THEN "polling" ELSE state
        /\ stack' = [stack EXCEPT ![t] =
                       [stack[t] EXCEPT ![Len(stack[t])] = g]]
    BY <1>3, <1>8 DEF EnterPoll, At
  <2>2. /\ g \in Frames /\ g.kind = "request" /\ g.pc = "claim"
        /\ g.wasNone = (state = "none")
    BY <1>1, <1>3 DEF Frames, Pcs
  <2>3. ~InPoll(Top(t)) /\ InPoll(g)
    BY <2>1, <2>2 DEF InPoll, PollPcs, DispatchPcs
  <2> HIDE DEF g
  <2>4. Moved(t, g)
    BY <1>1, <2>1, <2>2, Moving DEF TypeInv
  <2>5. t # Dispatcher
    BY <1>1, <2>1 DEF Control, States, Loops
  <2>6. /\ DOMAIN stack'[t] = 1 .. Len(stack[t])
        /\ DOMAIN stack[t] = 1 .. Len(stack[t])
        /\ \A i \in 1 .. Len(stack[t]) :
             stack'[t][i] = IF i = Len(stack[t]) THEN g ELSE stack[t][i]
    <3>1. stack'[t] \in Seq(Frames) /\ stack[t] \in Seq(Frames)
      BY <2>4 DEF Moved, TypeInv, TypeOK
    <3> QED BY <2>4, <3>1 DEF Moved, NewTop
  <2>7. PollsFirst(t) => PollsFirst(t)'
    BY <1>3, <2>3, <2>6 DEF PollsFirst
  <2>8. state = "none" => PollsFirst(t)'
    <3>1. state = "none" => g.wasNone
      BY <2>2
    <3>2. stack'[t][Len(stack[t])] = g /\ Len(stack[t]) \in DOMAIN stack'[t]
      BY <1>3, <2>6
    <3> QED BY <2>3, <3>1, <3>2 DEF PollsFirst
  <2>9. state = "polling" => \E u \in Threads : PollsFirst(u)
    BY DEF Control, States
  <2>10. state' = "polling" =>
           PollsFirst(t)' \/ \E u \in Threads \ {t} : PollsFirst(u)
    BY <2>1, <2>7, <2>8, <2>9
  <2>11. state' # "threaded" /\ (state' = "running" => state = "running")
    BY <2>1
  <2> QED BY <1>1, <2>1, <2>2, <2>4, <2>5, <2>10, <2>11, SwitchControl
<1>9. CASE LeavePoll(t)
  <2> DEFINE g == [Top(t) EXCEPT !.pc = "again"]
  <2>1. /\ Top(t).pc = "leave"
        /\ state' = IF Top(t).wasNone THEN "none" ELSE state
        /\ Goto(t, "again")
    BY <1>9 DEF LeavePoll, At
  <2>2. g \in Frames /\ g.kind = "request" /\ g.pc = "again"
    BY <1>1, <1>3 DEF Frames, Pcs
  <2>3. ~InPoll(g) /\ InPoll(Top(t))
    BY <1>1, <2>1, <2>2 DEF InPoll, PollPcs, DispatchPcs
  <2>4. Moved(t, g)
    BY <1>1, <2>1, GotoMoves DEF Pcs, TypeInv
  <2> HIDE DEF g
  <2>5. /\ DOMAIN stack'[t] = 1 .. Len(stack[t])
        /\ DOMAIN stack[t] = 1 .. Len(stack[t])
        /\ \A i \in 1 .. Len(stack[t]) :
             stack'[t][i] = IF i = Len(stack[t]) THEN g ELSE stack[t][i]
    <3>1. stack'[t] \in Seq(Frames) /\ stack[t] \in Seq(Frames)
      BY <2>4 DEF Moved, TypeInv, TypeOK
    <3> QED BY <2>4, <3>1 DEF Moved, NewTop
  <2>6. Polls(t)
    BY <1>3, <2>3, <2>5 DEF Polls
  <2>7. t # Dispatcher /\ state # "threaded"
    BY <2>6 DEF Control, Loops, States
  <2>8. PollsFirst(t) /\ ~Top(t).wasNone => PollsFirst(t)'
    BY <1>3, <2>5 DEF PollsFirst
  <2>9. state = "polling" => \E u \in Threads : PollsFirst(u)
    BY DEF Control, States
  <2>10. state' = "polling" =>
           PollsFirst(t)' \/ \E u \in Threads \ {t} : PollsFirst(u)
    BY <2>1, <2>8, <2>9
  <2>11. state' # "threaded" /\ (state' = "running" => state = "running")
    BY <2>1, <2>7
  <2> QED BY <1>1, <2>2, <2>4, <2>7, <2>10, <2>11, SwitchControl
<1> QED BY <1>5, <1>6, <1>7, <1>8, <1>9 DEF RequestStep

(* A loop that can begin is called by application code alone.              *)
LEMMA AppAlone ==
  ASSUME TypeInv, NEW t \in Threads, stack[t] # <<>>, Top(t).kind = "app"
  PROVE  Len(stack[t]) = 1 /\ t # Dispatcher /\ ~Calls(t) /\ ~Polls(t)
<1>1. /\ Placed(t, Len(stack[t])) /\ Top(t) = stack[t][Len(stack[t])]
      /\ stack[t] \in Seq(Frames)
  BY TopProper, TopFrame DEF TypeInv
<1>2. Len(stack[t]) = 1
  BY <1>1 DEF Placed
<1>3. Placed(t, 1) /\ stack[t][1].kind = "app" /\ DOMAIN stack[t] = {1}
  BY <1>1, <1>2
<1>4. t # Dispatcher
  BY <1>3 DEF Placed
<1>5. ~Polls(t)
  BY <1>3 DEF Polls, InPoll
<1> QED BY <1>2, <1>4, <1>5 DEF Calls

LEMMA IdlePollsNot ==
  ASSUME TypeInv, NEW t \in Threads \ {Dispatcher}, ~Calls(t)
  PROVE  ~Polls(t)
<1>0. stack[t] \in Seq(Frames)
  BY DEF TypeInv, TypeOK
<1>1. PICK n \in Nat : n = Len(stack[t])
  BY <1>0, LenProperties
<1>2. DOMAIN stack[t] = 1 .. n
  BY <1>0, <1>1
<1>3. n < 2
  BY <1>1 DEF Calls
<1>4. \A i \in 1 .. n : i = 1
  BY <1>3
<1>5. ASSUME NEW i \in DOMAIN stack[t]
      PROVE  stack[t][i].kind # "request"
  <2>1. Placed(t, i) /\ i = 1
    BY <1>2, <1>4 DEF TypeInv, Stacked, StackOK
  <2> QED BY <2>1 DEF Placed
<1> QED BY <1>5 DEF Polls, InPoll

LEMMA BeginLoopControl ==
  ASSUME TypeInv, Control, stack[Main] # <<>>, Top(Main).kind = "app",
         state = "none", UNCHANGED <<stopping, stopCalled>>, ~stopCalled,
         NEW f \in Frames, Called(Main, "idle", f),
         \/ /\ Mode = "run" /\ f.kind = "run" /\ state' = "running"
         \/ /\ Mode = "threaded" /\ f.kind = "poller" /\ f.pc = "create"
            /\ state' = "threaded"
  PROVE  Control'
<1>1. Main \in Threads /\ Dispatcher \in Threads /\ Main # Dispatcher
  BY ThreadsAssumption DEF Threads
<1>2. ~Calls(Main) /\ ~Polls(Main)
  BY <1>1, AppAlone
<1>3. /\ ~InPoll(f)
      /\ InPoll([Top(Main) EXCEPT !.pc = "idle"]) <=> InPoll(Top(Main))
  <2>1. Top(Main) \in Frames
    BY <1>1, TopFrame DEF TypeInv
  <2>2. [Top(Main) EXCEPT !.pc = "idle"].kind = "app"
    BY <2>1 DEF Frames
  <2> QED BY <2>2 DEF InPoll
<1>4. /\ SamePolls
      /\ \A u \in Threads \ {Main} : stack'[u] = stack[u]
      /\ Calls(Main)' /\ stack'[Main][2] = f
  BY <1>1, <1>2, <1>3, CalledView
<1>5. ~InLoop("run") /\ ~InLoop("poller")
  BY <1>2 DEF InLoop, Calls
<1>6. \A k : InLoop(k)' <=> f.kind = k
  BY <1>4 DEF InLoop, Calls
<1>7. stack'[Dispatcher] = <<>>
  BY <1>1, <1>4, <1>5 DEF Control, Loops
<1>8. \A t \in Apps : t \in Threads /\ t # Main /\ t # Dispatcher
  BY ThreadsAssumption DEF Threads
<1>9. \A t \in Apps : ~Calls(t)
  BY <1>8 DEF Control, Callings
<1>10. \A t \in Threads : ~Polls(t)
  <2>1. \A t \in Apps : ~Polls(t)
    BY <1>8, <1>9, IdlePollsNot
  <2> QED BY <1>1, <1>2, <2>1 DEF Control, Loops, Threads
<1>11. States'
  BY <1>6 DEF States
<1>12. Loops'
  BY <1>1, <1>4, <1>6, <1>7, <1>10 DEF Loops, SamePolls
<1>13. Stopped'
  <2>1. InLoop("poller")' => ~LoopAt({"reset", "join", "finish"})'
    BY <1>4, <1>6 DEF LoopAt
  <2> QED BY <2>1 DEF Control, Stopped
<1>14. Callings'
  <2>1. \A t \in Apps : ~Calls(t)'
    BY <1>4, <1>8, <1>9 DEF Calls
  <2>2. \A t \in Threads \ {Dispatcher} :
          Calls(t)' /\ stack'[t][2].kind = "request" => t \in Callers
    BY <1>4 DEF Control, Callings, Calls
  <2> QED BY <2>1, <2>2 DEF Callings
<1> QED BY <1>11, <1>12, <1>13, <1>14 DEF Control

(* The poller creates the dispatcher, or wakes it.                         *)
LEMMA WakesControl ==
  ASSUME TypeInv, Control, NEW t \in Threads, stack[t] # <<>>,
         Top(t).kind = "poller", NEW d, Wakes(t, "loop", d),
         d \in {stack[Dispatcher], <<Frame("dispatcher", "loop", Nobody)>>},
         UNCHANGED <<state, stopping, stopCalled>>
  PROVE  Control'
<1>1. t = Main /\ t # Dispatcher /\ Len(stack[t]) = 2 /\ Dispatcher \in Threads
  BY PollerIsMain DEF Threads
<1>2. Top(t) \in Frames /\ Top(t) = stack[t][2] /\ stack[t] \in Seq(Frames)
  BY <1>1, TopFrame DEF TypeInv
<1> DEFINE g == [Top(t) EXCEPT !.pc = "loop"]
<1>3. g.kind = "poller" /\ g.pc = "loop"
  BY <1>2 DEF Frames
<1> HIDE DEF g
<1>4. /\ NewTop(t, g)
      /\ stack' \in [Threads -> Seq(Frames)]
      /\ stack'[Dispatcher] = d
      /\ \A u \in Threads \ {t, Dispatcher} : stack'[u] = stack[u]
  <2>1. "loop" \in KindPcs["poller"] /\ t \in Threads \ {Dispatcher}
    BY <1>1 DEF KindPcs
  <2> QED BY <2>1, WakesStacked DEF g
<1>5. /\ Len(stack'[t]) = 2 /\ stack'[t][2] = g /\ stack'[t][1] = stack[t][1]
      /\ DOMAIN stack[t] = {1, 2} /\ DOMAIN stack'[t] = {1, 2}
  <2>1. /\ Len(stack'[t]) = 2 /\ stack'[t] \in Seq(Frames)
        /\ \A i \in 1 .. 2 : stack'[t][i] = IF i = 2 THEN g ELSE stack[t][i]
    BY <1>1, <1>4 DEF NewTop
  <2> QED BY <1>1, <1>2, <2>1
<1>6. InLoop("poller") /\ ~InLoop("run")
  BY <1>1, <1>2 DEF InLoop
<1>7. InLoop("poller")' /\ ~InLoop("run")'
  BY <1>1, <1>3, <1>5 DEF InLoop
<1>8. state = "threaded"
  BY <1>6 DEF Control, States
<1>9. States'
  BY <1>7, <1>8 DEF States
<1>10. ~Polls(t)'
  <2>1. ~InPoll(stack[t][1])
    BY <1>1, <1>5, <1>6 DEF Control, Loops, Polls
  <2>2. ~InPoll(g)
    BY <1>3 DEF InPoll
  <2> QED BY <1>5, <2>1, <2>2 DEF Polls
<1>11. ~Polls(Dispatcher)'
  <2>1. CASE d = stack[Dispatcher]
    BY <1>4, <2>1 DEF Control, Loops, Polls
  <2>2. CASE d = <<Frame("dispatcher", "loop", Nobody)>>
    <3>1. DOMAIN d = {1} /\ d[1].kind = "dispatcher"
      BY <2>2 DEF Frame
    <3> QED BY <1>4, <3>1 DEF Polls, InPoll
  <2> QED BY <2>1, <2>2
<1>12. \A u \in Threads : ~Polls(u)'
  BY <1>4, <1>6, <1>10, <1>11 DEF Control, Loops, Polls
<1>13. ~LoopAt({"create", "finish"})' /\ ~LoopAt({"reset", "join", "finish"})'
  BY <1>1, <1>3, <1>5 DEF LoopAt
<1>14. Loops'
  BY <1>1, <1>6, <1>7, <1>12, <1>13 DEF Control, Loops
<1>15. Stopped'
  BY <1>13 DEF Control, Stopped
<1>16. Callings'
  <2>1. \A u \in Threads \ {t, Dispatcher} : Calls(u)' <=> Calls(u)
    BY <1>4 DEF Calls
  <2>2. Apps \subseteq Threads \ {t, Dispatcher}
    BY <1>1, ThreadsAssumption DEF Threads
  <2>3. stack'[t][2].kind # "request"
    BY <1>3, <1>5
  <2>4. \A u \in Threads \ {Dispatcher} :
          Calls(u)' /\ stack'[u][2].kind = "request" => u \in Callers
    BY <1>4, <2>1, <2>3 DEF Control, Callings
  <2>5. \A u \in Apps :
          Calls(u)' => Mode = "threaded" /\ (state = "threaded" \/ stopCalled)
    BY <2>1, <2>2 DEF Control, Callings
  <2> QED BY <2>4, <2>5 DEF Callings
<1> QED BY <1>9, <1>14, <1>15, <1>16 DEF Control

LEMMA EndedControl ==
  ASSUME TypeInv, Control, StopKept, stack'[Dispatcher] = <<>>,
         \A u \in Threads \ {Dispatcher} : stack'[u] = stack[u]
  PROVE  Control'
<1>1. Main \in Threads /\ Main # Dispatcher
  BY ThreadsAssumption DEF Threads
<1>2. ~Polls(Dispatcher)
  BY DEF Control, Loops
<1>3. ~Polls(Dispatcher)' /\ ~PollsFirst(Dispatcher)' /\ ~PollsFirst(Dispatcher)
  BY <1>2 DEF Polls, PollsFirst
<1>4. SamePolls
  BY <1>2, <1>3 DEF SamePolls, Polls, PollsFirst
<1>5. KeptCalls
  BY <1>1 DEF KeptCalls, InLoop, Calls
<1>6. /\ LoopAt({"reset", "join", "finish"})' =>
           LoopAt({"reset", "join", "finish"})
      /\ LoopAt({"create", "finish"})' => LoopAt({"create", "finish"})
  BY <1>1 DEF LoopAt
<1> QED BY <1>4, <1>5, <1>6, SameControl DEF Control, Loops, Stopped, StopKept

LEMMA LoopControl ==
  ASSUME TypeInv, Control, NEW t \in Threads, LoopStep(t)
  PROVE  Control'
<1>0. /\ {"loop", "reset", "claim", "finish"} \subseteq KindPcs["run"]
      /\ {"create", "loop", "reset", "claim", "wake", "join", "finish"}
           \subseteq KindPcs["poller"]
      /\ {"unbuffer", "asleep"} \subseteq KindPcs["dispatcher"]
  BY DEF KindPcs, PollPcs, DispatchPcs
<1>1. /\ stopping => stopCalled
      /\ Main \in Threads /\ Dispatcher \in Threads /\ Main # Dispatcher
  BY ThreadsAssumption DEF Control, Stopped, Threads
<1>2. ASSUME stack[t] # <<>>, Top(t).kind = "poller",
             Top(t).pc \in {"reset", "join", "finish"}
      PROVE  stopCalled
  <2>1. t = Main /\ Len(stack[t]) = 2 /\ Top(t) = stack[t][Len(stack[t])]
    BY <1>2, PollerIsMain, TopFrame DEF TypeInv
  <2>2. InLoop("poller") /\ LoopAt({"reset", "join", "finish"})
    BY <1>2, <2>1 DEF InLoop, LoopAt
  <2> QED BY <2>2 DEF Control, Stopped
<1>3. CASE BeginRun(t)
  <2>1. CASE UNCHANGED <<stack, state>>
    <3>1. StopKept
      BY <1>1, <1>3, <2>1 DEF BeginRun, StopKept
    <3> QED BY <2>1, <3>1, StandingControl
  <2>2. CASE /\ state' = "running" /\ state = "none"
             /\ Call(t, "idle", Frame("run", "loop", Nobody))
    <3> DEFINE f == Frame("run", "loop", Nobody)
    <3>1. f \in Frames /\ f.kind = "run"
      BY DEF Frame, Frames, Pcs
    <3>2. /\ t = Main /\ stack[t] # <<>> /\ Top(t).kind = "app"
          /\ Mode = "run" /\ ~stopCalled /\ UNCHANGED <<stopping, stopCalled>>
      BY <1>3 DEF BeginRun, At
    <3>3. Called(t, "idle", f)
      BY <2>2, <3>1, <3>2, CallCalls DEF Pcs, TypeInv
    <3> HIDE DEF f
    <3> QED BY <2>2, <3>1, <3>2, <3>3, BeginLoopControl
  <2> QED BY <1>3, <2>1, <2>2 DEF BeginRun
<1>4. CASE BeginThreaded(t)
  <2>1. CASE UNCHANGED <<stack, state>>
    <3>1. StopKept
      BY <1>1, <1>4, <2>1 DEF BeginThreaded, StopKept
    <3> QED BY <2>1, <3>1, StandingControl
  <2>2. CASE /\ state' = "threaded" /\ state = "none"
             /\ Call(t, "idle", Frame("poller", "create", Nobody))
    <3> DEFINE f == Frame("poller", "create", Nobody)
    <3>1. f \in Frames /\ f.kind = "poller" /\ f.pc = "create"
      BY DEF Frame, Frames, Pcs
    <3>2. /\ t = Main /\ stack[t] # <<>> /\ Top(t).kind = "app"
          /\ Mode = "threaded" /\ ~stopCalled
          /\ UNCHANGED <<stopping, stopCalled>>
      BY <1>4 DEF BeginThreaded, At
    <3>3. Called(t, "idle", f)
      BY <2>2, <3>1, <3>2, CallCalls DEF Pcs, TypeInv
    <3> HIDE DEF f
    <3> QED BY <2>2, <3>1, <3>2, <3>3, BeginLoopControl
  <2> QED BY <1>4, <2>1, <2>2 DEF BeginThreaded
<1>5. CASE RunLoop(t)
  <2>1. /\ stack[t] # <<>> /\ Top(t).kind = "run"
        /\ UNCHANGED <<state, stopping, stopCalled>>
    BY <1>5 DEF RunLoop, At, stateVars
  <2>2. PICK to \in {"reset", "claim"} : Goto(t, to)
    BY <1>5 DEF RunLoop
  <2>3. to \in KindPcs["run"] /\ stopping' => stopCalled
    BY <1>0, <1>1, <2>1
  <2> QED BY <1>0, <1>1, <2>1, <2>2, <2>3, GoesControl
<1>6. CASE ResetStopping(t)
  <2>1. /\ stack[t] # <<>> /\ Top(t).kind \in {"run", "poller"}
        /\ Top(t).pc = "reset"
        /\ UNCHANGED <<state, stopCalled>> /\ ~stopping'
        /\ Goto(t, IF Top(t).kind = "run" THEN "finish" ELSE "join")
    BY <1>6 DEF ResetStopping, At
  <2>2. CASE Top(t).kind = "run"
    <3>1. "finish" \in KindPcs["run"] /\ Goto(t, "finish")
      BY <1>0, <2>1, <2>2
    <3> QED BY <2>1, <2>2, <3>1, GoesControl
  <2>3. CASE Top(t).kind = "poller"
    <3>1. "join" \in KindPcs["poller"] /\ Goto(t, "join")
      BY <1>0, <2>1, <2>3
    <3> QED BY <1>2, <2>1, <2>3, <3>1, GoesControl
  <2> QED BY <2>1, <2>2, <2>3
<1>7. CASE PollerLoop(t)
  <2>1. /\ stack[t] # <<>> /\ Top(t).kind = "poller"
        /\ UNCHANGED <<state, stopping, stopCalled>>
    BY <1>7 DEF PollerLoop, At, stateVars
  <2>2. PICK to \in {"reset", "claim"} :
          Goto(t, to) /\ (to = "reset" => stopping)
    BY <1>7 DEF PollerLoop, MustStop
  <2>3. to \in KindPcs["poller"] /\ (to = "reset" => stopCalled)
    BY <1>0, <1>1, <2>2
  <2> QED BY <1>1, <2>1, <2>2, <2>3, GoesControl
<1>8. CASE DecideSignal(t)
  <2>1. /\ stack[t] # <<>> /\ Top(t).kind = "poller"
        /\ UNCHANGED <<state, stopping, stopCalled>>
    BY <1>8 DEF DecideSignal, At, stateVars
  <2>2. PICK to \in {"wake", "loop"} : Goto(t, to)
    BY <1>8 DEF DecideSignal
  <2>3. to \in KindPcs["poller"]
    BY <1>0, <2>2
  <2> QED BY <1>1, <2>1, <2>2, <2>3, GoesControl
<1>9. CASE JoinDispatcher(t)
  <2>1. /\ stack[t] # <<>> /\ Top(t).kind = "poller" /\ Top(t).pc = "join"
        /\ stack[Dispatcher] = <<>> /\ Goto(t, "finish")
        /\ UNCHANGED <<state, stopping, stopCalled>>
    BY <1>9 DEF JoinDispatcher, At, stateVars
  <2>2. "finish" \in KindPcs["poller"] /\ stopCalled
    BY <1>0, <1>2, <2>1
  <2> QED BY <2>1, <2>2, GoesControl
<1>10. CASE CreateDispatcher(t)
  <2>1. /\ stack[t] # <<>> /\ Top(t).kind = "poller"
        /\ UNCHANGED <<state, stopping, stopCalled>>
    BY <1>10 DEF CreateDispatcher, At, stateVars
  <2>2. Wakes(t, "loop", <<Frame("dispatcher", "loop", Nobody)>>)
    BY <1>10 DEF CreateDispatcher, Wakes
  <2> QED BY <2>1, <2>2, WakesControl
<1>11. CASE SignalDispatcher(t)
  <2>1. /\ stack[t] # <<>> /\ Top(t).kind = "poller"
        /\ UNCHANGED <<state, stopping, stopCalled>>
    BY <1>11 DEF SignalDispatcher, At, stateVars
  <2>2. PICK d \in {stack[Dispatcher],
                    <<Frame("dispatcher", "loop", Nobody)>>} :
          Wakes(t, "loop", d)
    BY <1>11, SignalWakes
  <2> QED BY <2>1, <2>2, WakesControl
<1>12. CASE DispatcherWait(t)
  <2>1. /\ stack[t] # <<>> /\ Top(t).kind = "dispatcher"
        /\ UNCHANGED <<state, stopping, stopCalled>> /\ Goto(t, "asleep")
    BY <1>12 DEF DispatcherWait, At, stateVars
  <2>2. "asleep" \in KindPcs["dispatcher"]
    BY <1>0
  <2> QED BY <1>1, <2>1, <2>2, GoesControl
<1>13. CASE DispatcherLoop(t)
  <2>1. /\ stack[t] # <<>> /\ Top(t).kind = "dispatcher"
        /\ UNCHANGED <<state, stopping, stopCalled>>
    BY <1>13 DEF DispatcherLoop, At, stateVars
  <2>2. CASE Goto(t, "unbuffer")
    <3>1. "unbuffer" \in KindPcs["dispatcher"]
      BY <1>0
    <3> QED BY <1>1, <2>1, <2>2, <3>1, GoesControl
  <2>3. CASE Return(t)
    <3>1. Returned(t)
      BY <2>1, <2>3, ReturnReturns DEF TypeInv
    <3>2. t = Dispatcher /\ Len(stack[t]) = 1
      <4>1. Placed(t, Len(stack[t])) /\ Top(t) = stack[t][Len(stack[t])]
        BY <2>1, TopProper, TopFrame DEF TypeInv
      <4> QED BY <2>1, <4>1 DEF Placed
    <3>3. ~InPoll(Top(t))
      BY <2>1 DEF InPoll
    <3>4. /\ stack'[Dispatcher] = <<>>
          /\ \A u \in Threads \ {Dispatcher} : stack'[u] = stack[u]
      BY <2>1, <3>1, <3>2, <3>3, ReturnedView
    <3>5. StopKept
      BY <1>1, <2>1 DEF StopKept
    <3> QED BY <3>4, <3>5, EndedControl
  <2> QED BY <1>13, <2>2, <2>3 DEF DispatcherLoop
<1>14. CASE Finish(t)
  <2>1. /\ stack[t] # <<>> /\ Top(t).kind \in {"run", "poller"}
        /\ Top(t).pc = "finish" /\ state' = "none"
        /\ UNCHANGED <<stopping, stopCalled>>
    BY <1>14 DEF Finish, At
  <2>2. t = Main /\ Len(stack[t]) = 2 /\ Top(t) = stack[t][2]
    BY <2>1, PollerIsMain, TopFrame DEF TypeInv
  <2>3. Returned(t) /\ ~InPoll(Top(t))
    BY <1>14, <2>1, ReturnReturns DEF Finish, InPoll, TypeInv
  <2>4. /\ SamePolls
        /\ \A u \in Threads \ {t} : stack'[u] = stack[u]
        /\ ~Calls(t)'
    <3>1. ~(Len(stack[t]) > 2)
      BY <2>2
    <3> QED BY <2>1, <2>3, <3>1, ReturnedView
  <2>5. \A k : ~InLoop(k)'
    BY <2>2, <2>4 DEF InLoop, Calls
  <2>6. stack'[Dispatcher] = <<>>
    <3>1. stack'[Dispatcher] = stack[Dispatcher]
      BY <1>1, <2>2, <2>4
    <3>2. LoopAt({"create", "finish"})
      BY <2>1, <2>2 DEF LoopAt
    <3> QED BY <3>1, <3>2 DEF Control, Loops
  <2>7. States'
    BY <2>1, <2>5 DEF States
  <2>8. Loops'
    BY <1>1, <2>4, <2>5, <2>6 DEF Control, Loops, SamePolls
  <2>9. Stopped'
    BY <2>1, <2>5 DEF Control, Stopped
  <2>10. Mode = "run" \/ stopCalled
    <3>1. CASE Top(t).kind = "run"
      BY <2>2, <3>1 DEF Control, Loops, InLoop
    <3>2. CASE Top(t).kind = "poller"
      BY <1>2, <2>1, <3>2
    <3> QED BY <2>1, <3>1, <3>2
  <2>11. \A u \in Apps : u \in Threads /\ u # t /\ u # Dispatcher
    BY <2>2, ThreadsAssumption DEF Threads
  <2>12. \A u \in Apps :
           Calls(u)' => Mode = "threaded" /\ (state' = "threaded" \/ stopCalled')
    BY <2>1, <2>4, <2>10, <2>11 DEF Control, Callings, Calls
  <2>13. \A u \in Threads \ {Dispatcher} :
           Calls(u)' /\ stack'[u][2].kind = "request" => u \in Callers
    BY <2>4 DEF Control, Callings, Calls
  <2> QED BY <2>7, <2>8, <2>9, <2>12, <2>13 DEF Control, Callings
<1> QED BY <1>3, <1>4, <1>5, <1>6, <1>7, <1>8, <1>9, <1>10, <1>11, <1>12,
           <1>13, <1>14 DEF LoopStep

(* The only step that needs the hypothesis: an application thread that     *)
(* makes requests of its own does so while the loop of runThreaded runs.   *)
LEMMA BeginControl ==
  ASSUME OneDrives, TypeInv, Control, NEW t \in Threads, NEW r \in Requests,
         BeginRequest(t, r)
  PROVE  Control'
<1> DEFINE f == Frame("request", "store", r)
<1>1. /\ stack[t] # <<>> /\ Top(t).kind \in {"app", "handler"}
      /\ Top(t).kind = "app" => t \in Callers
      /\ t \in Apps => Mode = "poll" \/ state \in {"running", "threaded"}
      /\ UNCHANGED <<state, stopping, stopCalled>>
  BY DEF BeginRequest, At, stateVars
<1>2. f \in Frames /\ f.kind = "request" /\ f.pc = "store"
  BY DEF Frame, Frames, Pcs
<1>3. Called(t, "idle", f)
  BY BeginTypes
<1> HIDE DEF f
<1>4. ~InPoll(f)
  BY <1>2 DEF InPoll, PollPcs, DispatchPcs
<1>5. /\ Top(t) \in Frames /\ Placed(t, Len(stack[t]))
      /\ Top(t) = stack[t][Len(stack[t])] /\ Len(stack[t]) \in Nat \ {0}
  BY <1>1, TopProper, TopFrame DEF TypeInv
<1>6. InPoll([Top(t) EXCEPT !.pc = "idle"]) <=> InPoll(Top(t))
  BY <1>1, <1>5 DEF InPoll, Frames
<1>7. stopping' => stopCalled
  BY <1>1 DEF Control, Stopped
<1>8. CASE Top(t).kind = "handler"
  <2>1. Len(stack[t]) # 1
    BY <1>5, <1>8 DEF Placed
  <2>2. Calls(t)
    <3>1. Len(stack[t]) \in Nat \ {0}
      BY <1>5
    <3> QED BY <2>1, <3>1, Depths DEF Calls
  <2> QED BY <1>1, <1>2, <1>3, <1>4, <1>6, <1>7, <1>8, <2>2, CalledControl
<1>9. CASE Top(t).kind = "app"
  <2>1. t # Dispatcher /\ ~Calls(t) /\ t \in Callers
    BY <1>1, <1>9, AppAlone
  <2>2. /\ SamePolls
        /\ \A u \in Threads \ {t} : stack'[u] = stack[u]
        /\ Calls(t)' /\ stack'[t][2] = f
    BY <1>1, <1>2, <1>3, <1>4, <1>6, <1>9, <2>1, CalledView
  <2>3. Main \in Threads /\ Dispatcher \in Threads
    BY DEF Threads
  <2>4. \A k \in {"run", "poller"} : InLoop(k)' <=> InLoop(k)
    <3>1. CASE t = Main
      BY <1>2, <2>1, <2>2, <3>1 DEF InLoop, Calls
    <3>2. CASE t # Main
      BY <2>2, <2>3, <3>2 DEF InLoop
    <3> QED BY <3>1, <3>2
  <2>5. stack'[Dispatcher] = stack[Dispatcher]
    BY <2>1, <2>2, <2>3
  <2>6. InLoop("poller") => stack'[Main] = stack[Main]
    BY <2>1, <2>2, <2>3 DEF InLoop, Calls
  <2>7. States'
    BY <1>1, <2>2, <2>4 DEF Control, States, SamePolls
  <2>8. Loops'
    BY <2>2, <2>3, <2>4, <2>5, <2>6 DEF Control, Loops, SamePolls, LoopAt
  <2>9. Stopped'
    BY <1>1, <2>4, <2>6 DEF Control, Stopped, LoopAt
  <2>10. \A u \in Threads \ {Dispatcher} :
           Calls(u)' /\ stack'[u][2].kind = "request" => u \in Callers
    BY <2>1, <2>2 DEF Control, Callings, Calls
  <2>11. t \in Apps => Mode = "threaded" /\ state = "threaded"
    BY <1>1, <2>1 DEF OneDrives, Control, States, Loops
  <2>12. \A u \in Apps :
           Calls(u)' => Mode = "threaded" /\ (state' = "threaded" \/ stopCalled')
    <3>1. Apps \subseteq Threads
      BY DEF Threads
    <3> QED BY <1>1, <2>2, <2>11, <3>1 DEF Control, Callings, Calls
  <2> QED BY <2>7, <2>8, <2>9, <2>10, <2>12 DEF Control, Callings
<1> QED BY <1>1, <1>8, <1>9

LEMMA StopControl ==
  ASSUME TypeInv, Control, NEW t \in Threads, Stop(t)
  PROVE  Control'
<1>1. /\ stack[t] # <<>> /\ Top(t).kind \in {"app", "handler"}
      /\ t \in Stoppers /\ UNCHANGED state /\ stopCalled' = TRUE
  BY DEF Stop, At
<1>2. StopKept
  BY <1>1 DEF StopKept
<1>3. CASE UNCHANGED stack
  BY <1>2, <1>3, StandingControl
<1>4. CASE t = Dispatcher /\ stack' = [stack EXCEPT ![t] = <<>>]
  <2>1. /\ stack'[Dispatcher] = <<>>
        /\ \A u \in Threads \ {Dispatcher} : stack'[u] = stack[u]
    BY <1>4 DEF TypeInv, TypeOK
  <2> QED BY <1>2, <2>1, EndedControl
<1>5. CASE Goto(t, "relock")
  <2>1. Top(t) \in Frames
    BY <1>1, TopFrame DEF TypeInv
  <2>2. Moved(t, [Top(t) EXCEPT !.pc = "relock"]) /\ "relock" \in Pcs
    BY <1>1, <1>5, GotoMoves DEF Pcs, TypeInv
  <2>3. InPoll([Top(t) EXCEPT !.pc = "relock"]) <=> InPoll(Top(t))
    BY <1>1, <2>1 DEF InPoll, Frames
  <2> QED BY <1>1, <1>2, <2>2, <2>3, MovedControl
<1> QED BY <1>3, <1>4, <1>5 DEF Stop

LEMMA ControlInit ==
  ASSUME Init
  PROVE  Control
<1>1. Main \in Threads /\ Dispatcher \in Threads /\ Main # Dispatcher
  BY ThreadsAssumption DEF Threads
<1>2. /\ stack[Dispatcher] = <<>>
      /\ \A t \in Threads \ {Dispatcher} :
           stack[t] = <<Frame("app", "idle", Nobody)>>
      /\ state = "none" /\ stopping = FALSE /\ stopCalled = FALSE
  BY <1>1 DEF Init
<1>3. \A t \in Threads \ {Dispatcher} :
        Len(stack[t]) = 1 /\ DOMAIN stack[t] = {1} /\ stack[t][1].kind = "app"
  <2> DEFINE f == Frame("app", "idle", Nobody)
  <2>1. f.kind = "app"
    BY DEF Frame
  <2> HIDE DEF f
  <2>2. Len(<<f>>) = 1 /\ DOMAIN <<f>> = {1} /\ <<f>>[1] = f
    OBVIOUS
  <2>3. \A t \in Threads \ {Dispatcher} : stack[t] = <<f>>
    BY <1>2 DEF f
  <2> QED BY <2>1, <2>2, <2>3
<1>4. \A t \in Threads : ~Calls(t) /\ ~Polls(t)
  <2>1. Len(stack[Dispatcher]) = 0 /\ DOMAIN stack[Dispatcher] = {}
    BY <1>2
  <2>2. ~Calls(Dispatcher) /\ ~Polls(Dispatcher)
    BY <2>1 DEF Calls, Polls
  <2>3. \A t \in Threads \ {Dispatcher} : ~Calls(t) /\ ~Polls(t)
    <3> TAKE t \in Threads \ {Dispatcher}
    <3>1. ~Calls(t)
      <4>1. Len(stack[t]) = 1
        BY <1>3
      <4> QED BY <4>1 DEF Calls
    <3>2. \A i \in DOMAIN stack[t] : stack[t][i].kind = "app"
      BY <1>3
    <3>3. ~Polls(t)
      BY <3>2 DEF Polls, InPoll
    <3> QED BY <3>1, <3>3
  <2> QED BY <2>2, <2>3
<1>5. \A k : ~InLoop(k)
  BY <1>1, <1>4 DEF InLoop, Calls
<1>6. Apps \subseteq Threads
  BY DEF Threads
<1> QED BY <1>1, <1>2, <1>4, <1>5, <1>6
        DEF Control, States, Loops, Stopped, Callings

LEMMA ControlStep ==
  ASSUME OneDrives, TypeInv, Control, [Next]_vars
  PROVE  Control'
<1>1. stopping => stopCalled
  BY DEF Control, Stopped
<1>2. ASSUME NEW t \in Threads, ThreadStep(t)
      PROVE  Control'
  BY <1>2, PollControl, DispatchControl, RequestControl, LoopControl
     DEF ThreadStep
<1>3. ASSUME NEW t \in Threads, SpuriousWake(t)
      PROVE  Control'
  <2>1. /\ stack[t] # <<>> /\ Top(t).kind = "dispatcher"
        /\ UNCHANGED <<state, stopping, stopCalled>> /\ Goto(t, "loop")
    BY <1>3 DEF SpuriousWake, At, stateVars
  <2>2. "loop" \in KindPcs["dispatcher"]
    BY DEF KindPcs
  <2> QED BY <1>1, <2>1, <2>2, GoesControl
<1>4. CASE Serve \/ SendEvent
  <2>1. StopKept /\ UNCHANGED stack
    BY <1>1, <1>4 DEF Serve, SendEvent, StopKept, stateVars
  <2> QED BY <2>1, StandingControl
<1>5. CASE UNCHANGED vars
  <2>1. StopKept /\ UNCHANGED stack
    BY <1>1, <1>5 DEF vars, StopKept, stateVars
  <2> QED BY <2>1, StandingControl
<1> QED BY <1>2, <1>3, <1>4, <1>5, BeginControl, StopControl DEF Next

-----------------------------------------------------------------------------
(* What the sections of the code rely on between their locks.              *)
Where(t) == IF stack[t] = <<>> THEN "none" ELSE Top(t).pc

(* What a thread has seen still holds where it uses it.                    *)
Ready(t) ==
  /\ Where(t) = "read" /\ revents[t].in => toClient # <<>>
  /\ Where(t) \in {"read", "write"} /\ revents[t].out =>
       Len(toServer) < SocketSize
  /\ Where(t) = "pop" => messages # <<>>
  /\ popped[t] # NoMessage <=> Where(t) = "process"

Sections ==
  /\ working \/ \E t \in Threads : Where(t) \in PollPcs \ {"claim"}
  /\ \A t \in Threads : Ready(t)

(* Requests on their way have been begun, and have a number; so nothing    *)
(* received looks like no message.                                         *)
Received == Message \ {NoMessage}

Numbered ==
  /\ \A r \in started : seqOf[r] # 0
  /\ \A t \in Threads : \A i \in DOMAIN stack[t] :
       stack[t][i].kind = "request" => stack[t][i].req \in started
  /\ outbound \in Seq(started) /\ toServer \in Seq(started)
  /\ messages \in Seq(Received) /\ inbound \in Seq(Received)
  /\ toClient \in Seq(Received)

(* A step makes no request, and does not change what a call is about.      *)
KeptRequests ==
  \A u \in Threads : \A i \in DOMAIN stack'[u] :
    stack'[u][i].kind = "request" =>
      /\ i \in DOMAIN stack[u] /\ stack[u][i].kind = "request"
      /\ stack'[u][i].req = stack[u][i].req
      /\ stack'[u][i].pc = "store" => stack[u][i].pc = "store"

OthersWhere(t) == \A u \in Threads \ {t} : Where(u)' = Where(u)

LEMMA AtWhere ==
  ASSUME TypeOK, NEW t \in Threads, stack[t] # <<>>
  PROVE  Where(t) = Top(t).pc /\ Where(t) \in Pcs
BY TopFrame DEF Where, Frames

LEMMA MovedWhere ==
  ASSUME TypeOK, NEW t \in Threads, stack[t] # <<>>, NEW g \in Frames,
         Moved(t, g), g.kind = Top(t).kind, g.req = Top(t).req,
         g.pc # "store"
  PROVE  Where(t)' = g.pc /\ OthersWhere(t) /\ KeptRequests
<1>1. PICK n \in Nat \ {0} :
        /\ n = Len(stack[t]) /\ Top(t) = stack[t][n]
        /\ DOMAIN stack[t] = 1 .. n
  BY TopFrame
<1>2. stack'[t] \in Seq(Frames) /\ \A u \in Threads \ {t} : stack'[u] = stack[u]
  BY DEF Moved, Others
<1>3. /\ Len(stack'[t]) = n
      /\ \A i \in 1 .. n : stack'[t][i] = IF i = n THEN g ELSE stack[t][i]
  BY <1>1 DEF Moved, NewTop
<1>4. DOMAIN stack'[t] = 1 .. n
  BY <1>2, <1>3
<1>5. Where(t)' = g.pc
  <2>1. stack'[t] # <<>>
    BY <1>1, <1>3, EmptySeq
  <2>2. Top(t)' = g
    BY <1>1, <1>3 DEF Top, Last
  <2> QED BY <2>1, <2>2 DEF Where
<1>6. OthersWhere(t)
  BY <1>2 DEF OthersWhere, Where, Top
<1>7. KeptRequests
  BY <1>1, <1>2, <1>3, <1>4 DEF KeptRequests
<1> QED BY <1>5, <1>6, <1>7

LEMMA GotoWhere ==
  ASSUME TypeOK, NEW t \in Threads, stack[t] # <<>>,
         NEW to \in Pcs \ {"store"}, Goto(t, to)
  PROVE  Where(t)' = to /\ OthersWhere(t) /\ KeptRequests
<1> DEFINE g == [Top(t) EXCEPT !.pc = to]
<1>1. g \in Frames /\ g.kind = Top(t).kind /\ g.req = Top(t).req /\ g.pc = to
  BY TopFrame DEF Frames
<1>2. Moved(t, g)
  BY GotoMoves
<1> HIDE DEF g
<1> QED BY <1>1, <1>2, MovedWhere

LEMMA CalledWhere ==
  ASSUME TypeOK, NEW t \in Threads, stack[t] # <<>>,
         NEW pc \in Pcs \ {"store"}, NEW f \in Frames, Called(t, pc, f)
  PROVE  /\ Where(t)' = f.pc /\ OthersWhere(t)
         /\ f.kind # "request" => KeptRequests
<1>1. PICK n \in Nat \ {0} :
        /\ n = Len(stack[t]) /\ Top(t) = stack[t][n]
        /\ DOMAIN stack[t] = 1 .. n /\ Top(t) \in Frames
  BY TopFrame
<1>2. stack'[t] \in Seq(Frames) /\ \A u \in Threads \ {t} : stack'[u] = stack[u]
  BY DEF Called, Others
<1>3. /\ Len(stack'[t]) = n + 1
      /\ \A i \in 1 .. n + 1 :
           stack'[t][i] = IF i = n + 1 THEN f ELSE IF i = n
                          THEN [Top(t) EXCEPT !.pc = pc] ELSE stack[t][i]
  BY <1>1 DEF Called
<1>4. DOMAIN stack'[t] = 1 .. n + 1
  BY <1>2, <1>3
<1>5. Where(t)' = f.pc
  <2>1. stack'[t] # <<>>
    BY <1>1, <1>3, EmptySeq
  <2>2. Top(t)' = f
    BY <1>1, <1>3 DEF Top, Last
  <2> QED BY <2>1, <2>2 DEF Where
<1>6. OthersWhere(t)
  BY <1>2 DEF OthersWhere, Where, Top
<1>7. ASSUME f.kind # "request"
      PROVE  KeptRequests
  <2>1. \A i \in 1 .. n + 1 : i = n + 1 \/ i \in 1 .. n
    BY <1>1
  <2>2. /\ [Top(t) EXCEPT !.pc = pc].kind = Top(t).kind
        /\ [Top(t) EXCEPT !.pc = pc].req = Top(t).req
        /\ [Top(t) EXCEPT !.pc = pc].pc # "store"
    BY <1>1 DEF Frames
  <2>3. \A i \in 1 .. n :
          /\ stack'[t][i].kind = stack[t][i].kind
          /\ stack'[t][i].req = stack[t][i].req
          /\ stack'[t][i].pc = "store" => stack[t][i].pc = "store"
    <3> TAKE i \in 1 .. n
    <3>1. i \in 1 .. n + 1 /\ i # n + 1
      BY <1>1
    <3>2. stack'[t][i] = IF i = n THEN [Top(t) EXCEPT !.pc = pc]
                         ELSE stack[t][i]
      BY <1>3, <3>1
    <3> QED BY <1>1, <2>2, <3>2
  <2>4. stack'[t][n + 1] = f
    BY <1>1, <1>3
  <2> QED BY <1>1, <1>2, <1>4, <1>7, <2>1, <2>3, <2>4 DEF KeptRequests
<1> QED BY <1>5, <1>6, <1>7

LEMMA ReturnWhere ==
  ASSUME TypeInv, NEW t \in Threads, stack[t] # <<>>, Return(t)
  PROVE  Where(t)' \in {"none", "idle", "empty"} /\ OthersWhere(t) /\ KeptRequests
<1>1. PICK n \in Nat \ {0} :
        /\ n = Len(stack[t]) /\ Top(t) = stack[t][n]
        /\ DOMAIN stack[t] = 1 .. n
  BY TopFrame DEF TypeInv
<1>2. Returned(t)
  BY ReturnReturns DEF TypeInv
<1>3. stack'[t] \in Seq(Frames) /\ \A u \in Threads \ {t} : stack'[u] = stack[u]
  BY <1>2 DEF Returned, Others
<1>4. Len(stack'[t]) = n - 1 /\ \A i \in 1 .. n - 1 : stack'[t][i] = stack[t][i]
  BY <1>1, <1>2 DEF Returned
<1>5. DOMAIN stack'[t] = 1 .. n - 1
  BY <1>3, <1>4
<1>6. Where(t)' \in {"none", "idle", "empty"}
  <2>1. CASE n = 1
    <3>1. stack'[t] = <<>>
      BY <1>3, <1>4, <2>1, EmptySeq
    <3> QED BY <3>1 DEF Where
  <2>2. CASE n # 1
    <3>1. n - 1 \in 1 .. n - 1 /\ n - 1 \in 1 .. n /\ n - 1 < n
      BY <2>2
    <3>2. Top(t)' = stack[t][n - 1] /\ stack'[t] # <<>>
      BY <1>4, <3>1, EmptySeq DEF Top, Last
    <3>3. Placed(t, n - 1)
      BY <1>1, <3>1 DEF TypeInv, Stacked, StackOK
    <3>4. stack[t][n - 1].pc \in {"idle", "empty"}
      BY <1>1, <3>1, <3>3 DEF Placed
    <3> QED BY <3>2, <3>4 DEF Where
  <2> QED BY <2>1, <2>2
<1>7. OthersWhere(t)
  BY <1>3 DEF OthersWhere, Where, Top
<1>8. KeptRequests
  <2>1. \A i \in 1 .. n - 1 : i \in 1 .. n
    BY <1>1
  <2> QED BY <1>1, <1>3, <1>4, <1>5, <2>1 DEF KeptRequests
<1> QED BY <1>6, <1>7, <1>8

LEMMA StandingWhere ==
  ASSUME UNCHANGED stack
  PROVE  (\A u \in Threads : Where(u)' = Where(u)) /\ KeptRequests
BY DEF Where, Top, KeptRequests

LEMMA WakesWhere ==
  ASSUME TypeInv, NEW t \in Threads, stack[t] # <<>>,
         Top(t).kind = "poller", NEW d, Wakes(t, "loop", d),
         d \in {stack[Dispatcher], <<Frame("dispatcher", "loop", Nobody)>>}
  PROVE  /\ Where(t)' = "loop"
         /\ \A u \in Threads \ {t, Dispatcher} : Where(u)' = Where(u)
         /\ d = stack[Dispatcher] => Where(Dispatcher)' = Where(Dispatcher)
         /\ d # stack[Dispatcher] => Where(Dispatcher)' = "loop"
         /\ KeptRequests
<1>1. t = Main /\ t # Dispatcher /\ Len(stack[t]) = 2 /\ Dispatcher \in Threads
  BY PollerIsMain DEF Threads
<1>2. Top(t) \in Frames /\ Top(t) = stack[t][2] /\ stack[t] \in Seq(Frames)
  BY <1>1, TopFrame DEF TypeInv
<1> DEFINE g == [Top(t) EXCEPT !.pc = "loop"]
<1>3. g.kind = "poller" /\ g.pc = "loop"
  BY <1>2 DEF Frames
<1>4. /\ NewTop(t, g)
      /\ stack' \in [Threads -> Seq(Frames)]
      /\ stack'[Dispatcher] = d
      /\ \A u \in Threads \ {t, Dispatcher} : stack'[u] = stack[u]
  <2>1. "loop" \in KindPcs["poller"] /\ t \in Threads \ {Dispatcher}
    BY <1>1 DEF KindPcs
  <2> QED BY <2>1, WakesStacked
<1> HIDE DEF g
<1>5. /\ Len(stack'[t]) = 2 /\ stack'[t][2] = g /\ stack'[t][1] = stack[t][1]
      /\ DOMAIN stack[t] = {1, 2} /\ DOMAIN stack'[t] = {1, 2}
  <2>1. /\ Len(stack'[t]) = 2 /\ stack'[t] \in Seq(Frames)
        /\ \A i \in 1 .. 2 : stack'[t][i] = IF i = 2 THEN g ELSE stack[t][i]
    BY <1>1, <1>4 DEF NewTop
  <2> QED BY <1>1, <1>2, <2>1
<1>6. Where(t)' = "loop"
  <2>1. stack'[t] # <<>>
    BY <1>5, EmptySeq
  <2> QED BY <1>3, <1>5, <2>1 DEF Where, Top, Last
<1> DEFINE f == Frame("dispatcher", "loop", Nobody)
<1>7. f.kind = "dispatcher" /\ f.pc = "loop"
  BY DEF Frame
<1> HIDE DEF f
<1>8. d = <<f>> => /\ Where(Dispatcher)' = "loop"
                   /\ DOMAIN stack'[Dispatcher] = {1}
                   /\ stack'[Dispatcher][1] = f
  <2>1. ASSUME d = <<f>>
        PROVE  /\ stack'[Dispatcher] # <<>> /\ Len(stack'[Dispatcher]) = 1
               /\ stack'[Dispatcher][1] = f /\ DOMAIN stack'[Dispatcher] = {1}
    BY <1>4, <2>1
  <2> QED BY <1>7, <2>1 DEF Where, Top, Last
<1>9. d = stack[Dispatcher] => Where(Dispatcher)' = Where(Dispatcher)
  BY <1>4 DEF Where, Top
<1>10. \A u \in Threads \ {t, Dispatcher} : Where(u)' = Where(u)
  BY <1>4 DEF Where, Top
<1>11. KeptRequests
  <2>1. \A i \in DOMAIN stack'[t] :
          stack'[t][i].kind = "request" =>
            i \in DOMAIN stack[t] /\ stack'[t][i] = stack[t][i]
    BY <1>3, <1>5
  <2>2. \A i \in DOMAIN stack'[Dispatcher] :
          stack'[Dispatcher][i].kind = "request" =>
            i \in DOMAIN stack[Dispatcher]
              /\ stack'[Dispatcher][i] = stack[Dispatcher][i]
    <3>1. CASE d = stack[Dispatcher]
      BY <1>4, <3>1
    <3>2. CASE d = <<f>>
      BY <1>7, <1>8, <3>2
    <3> QED BY <3>1, <3>2 DEF f
  <2> QED BY <1>4, <2>1, <2>2 DEF KeptRequests
<1> QED BY <1>6, <1>8, <1>9, <1>10, <1>11 DEF f

(* One thread at a time polls the socket, and one takes messages from the  *)
(* list: what makes the sections between the locks safe.                   *)
LEMMA SecondFrame ==
  ASSUME TypeInv, NEW t \in Threads \ {Dispatcher}, Calls(t)
  PROVE  \/ stack[t][2].kind = "request"
         \/ t = Main /\ stack[t][2].kind \in {"run", "poller"}
<1>1. PICK n \in Nat : n = Len(stack[t]) /\ DOMAIN stack[t] = 1 .. n
  <2>1. stack[t] \in Seq(Frames)
    BY DEF TypeInv, TypeOK
  <2> QED BY <2>1, LenProperties
<1>2. 2 \in DOMAIN stack[t]
  <2>1. n >= 2
    BY <1>1 DEF Calls
  <2> QED BY <1>1, <2>1
<1>3. Placed(t, 2) /\ stack[t][2] \in Frames
  <2>1. stack[t] \in Seq(Frames)
    BY DEF TypeInv, TypeOK
  <2> QED BY <1>1, <1>2, <2>1, ElementOfSeq DEF TypeInv, Stacked, StackOK
<1> QED BY <1>3 DEF Placed, Frames

LEMMA OnlyOne ==
  ASSUME OneDrives, TypeInv, Control, NEW t \in Threads, NEW u \in Threads,
         NEW P \in {PollPcs, DispatchPcs}, Where(t) \in P, Where(u) \in P
  PROVE  t = u
<1> DEFINE Busy(v) == v \in Threads /\ Where(v) \in P
<1>1. Main \in Threads /\ Dispatcher \in Threads /\ Main # Dispatcher
  BY ThreadsAssumption DEF Threads
<1>2. ASSUME NEW v, Busy(v)
      PROVE  /\ stack[v] # <<>> /\ Top(v).pc \in P
             /\ \/ Top(v).kind = "request" /\ InPoll(Top(v)) /\ Polls(v)
                \/ Top(v).kind = "run" /\ v = Main /\ InLoop("run")
                \/ Top(v).kind = "poller" /\ v = Main /\ InLoop("poller")
                   /\ P = PollPcs
                \/ Top(v).kind = "dispatcher" /\ v = Dispatcher
                   /\ P = DispatchPcs
             /\ v # Dispatcher => Calls(v)
  <2>1. stack[v] # <<>> /\ Top(v).pc \in P
    BY <1>2 DEF Where, PollPcs, DispatchPcs
  <2>2. /\ Top(v) \in Frames /\ Proper(Top(v)) /\ Placed(v, Len(stack[v]))
        /\ Top(v) = stack[v][Len(stack[v])]
        /\ stack[v] \in Seq(Frames) /\ Len(stack[v]) \in Nat \ {0}
    BY <1>2, <2>1, TopProper, TopFrame DEF TypeInv
  <2>3. /\ "app" \notin DOMAIN KindPcs \/ KindPcs["app"] \cap P = {}
        /\ "handler" \notin DOMAIN KindPcs \/ KindPcs["handler"] \cap P = {}
        /\ P = DispatchPcs => KindPcs["poller"] \cap P = {}
        /\ P = PollPcs => KindPcs["dispatcher"] \cap P = {}
    BY DEF KindPcs, PollPcs, DispatchPcs
  <2>4. DOMAIN KindPcs = {"app", "handler", "request", "run", "poller",
                          "dispatcher"}
    BY DEF KindPcs
  <2>5. /\ Top(v).kind \in {"request", "run", "poller", "dispatcher"}
        /\ Top(v).kind = "poller" => P = PollPcs
        /\ Top(v).kind = "dispatcher" => P = DispatchPcs
    BY <2>1, <2>2, <2>3, <2>4 DEF Proper, Frames
  <2>6. CASE Top(v).kind = "request"
    <3>1. InPoll(Top(v))
      BY <2>1, <2>6 DEF InPoll
    <3>2. Len(stack[v]) \in DOMAIN stack[v]
      BY <2>2
    <3>3. Polls(v)
      BY <2>2, <3>1, <3>2 DEF Polls
    <3>4. Len(stack[v]) # 1
      BY <2>2, <2>6 DEF Placed
    <3>5. Calls(v)
      <4>1. Len(stack[v]) \in Nat \ {0}
        BY <2>2
      <4> QED BY <3>4, <4>1, Depths DEF Calls
    <3> QED BY <2>1, <2>6, <3>1, <3>3, <3>5
  <2>7. CASE Top(v).kind \in {"run", "poller"}
    <3>1. v = Main /\ Len(stack[v]) = 2
      BY <1>2, <2>1, <2>7, PollerIsMain
    <3>2. stack[Main][2].kind = Top(v).kind /\ Calls(Main)
      BY <2>2, <3>1 DEF Calls
    <3> QED BY <2>1, <2>5, <2>7, <3>1, <3>2 DEF InLoop, Calls
  <2>8. CASE Top(v).kind = "dispatcher"
    <3>1. v = Dispatcher
      BY <2>2, <2>8 DEF Placed
    <3> QED BY <2>1, <2>5, <2>8, <3>1
  <2> QED BY <2>5, <2>6, <2>7, <2>8
<1>3. CASE InLoop("poller")
  <2>1. ~InLoop("run")
    BY <1>3 DEF InLoop
  <2>2. ASSUME NEW v, Busy(v)
        PROVE  IF P = PollPcs THEN v = Main ELSE v = Dispatcher
    <3>1. ~Polls(v)
      BY <1>3, <2>2 DEF Control, Loops
    <3>2. PollPcs # DispatchPcs
      BY DEF PollPcs, DispatchPcs
    <3> QED BY <1>2, <2>1, <2>2, <3>1, <3>2
  <2> QED BY <2>2
<1>4. CASE ~InLoop("poller")
  <2>1. stack[Dispatcher] = <<>> /\ state # "threaded"
    BY <1>4 DEF Control, Loops, States
  <2>2. ASSUME NEW v, Busy(v)
        PROVE  v # Dispatcher /\ Calls(v) /\ v \in {Main} \cup Apps
    BY <1>2, <2>1, <2>2 DEF Threads
  <2>3. ASSUME NEW v \in Apps, Busy(v)
        PROVE  /\ v \in Callers /\ Mode = "threaded"
               /\ \A p, q \in Callers : p = q
    <3>1. Calls(v) /\ v # Main /\ v # Dispatcher /\ v \in Threads
      BY <2>2, <2>3, ThreadsAssumption
    <3>2. Mode = "threaded" /\ stopCalled
      BY <2>1, <3>1 DEF Control, Callings
    <3>3. v \in Callers
      BY <3>1, SecondFrame DEF Control, Callings
    <3>4. Stoppers # {}
      BY <3>2 DEF Control, Stopped
    <3> QED BY <2>3, <3>2, <3>3, <3>4 DEF OneDrives
  <2>4. ASSUME Busy(Main), Mode = "threaded"
        PROVE  Main \in Callers
    <3>1. Calls(Main) /\ ~InLoop("run")
      BY <2>2, <2>4 DEF Control, Loops
    <3>2. stack[Main][2].kind = "request"
      BY <1>1, <1>4, <3>1, SecondFrame DEF InLoop, Calls
    <3> QED BY <1>1, <3>1, <3>2 DEF Control, Callings
  <2> QED BY <2>2, <2>3, <2>4
<1> QED BY <1>3, <1>4

(* Steps outside the sections leave what they rely on alone.               *)
Inside == (PollPcs \ {"claim"}) \cup {"pop", "process"}

Quiet ==
  \A u \in Threads :
    \/ Where(u)' = Where(u)
    \/ Where(u) \notin Inside /\ Where(u)' \notin Inside

LEMMA QuietSections ==
  ASSUME Sections, Quiet,
         UNCHANGED <<working, revents, toClient, toServer, messages, popped>>
  PROVE  Sections'
<1>1. ASSUME NEW t \in Threads
      PROVE  Ready(t)'
  <2>1. Ready(t)
    BY DEF Sections
  <2>2. \A pc \in Inside : Where(t)' = pc <=> Where(t) = pc
    BY DEF Quiet
  <2>3. {"read", "write", "pop", "process"} \subseteq Inside
    BY DEF Inside, PollPcs
  <2> QED BY <2>1, <2>2, <2>3 DEF Ready
<1>2. (working \/ \E t \in Threads : Where(t) \in PollPcs \ {"claim"})'
  <2>1. \A t \in Threads : Where(t) \in PollPcs \ {"claim"} =>
                             Where(t)' \in PollPcs \ {"claim"}
    BY DEF Quiet, Inside
  <2> QED BY <2>1 DEF Sections
<1> QED BY <1>1, <1>2 DEF Sections

LEMMA OneQuiet ==
  ASSUME NEW t \in Threads, OthersWhere(t),
         Where(t) \notin Inside, Where(t)' \notin Inside
  PROVE  Quiet
BY DEF Quiet, OthersWhere

LEMMA RequestQuiet ==
  ASSUME TypeInv, NEW t \in Threads, RequestStep(t)
  PROVE  Quiet /\ KeptRequests
<1>1. /\ stack[t] # <<>> /\ Where(t) = Top(t).pc
      /\ Top(t).pc \in {"store", "serialise", "pollout", "register", "wait",
                        "blocked", "again", "leave"}
  <2>1. /\ stack[t] # <<>>
        /\ Top(t).pc \in {"store", "serialise", "pollout", "register", "wait",
                          "blocked", "again", "leave"}
    BY DEF RequestStep, StoreSeq, Serialise, SetPollout, RegisterReply,
           WaitReturn, ChooseWait, EnterPoll, LeavePoll, At
  <2> QED BY <2>1, AtWhere DEF TypeInv
<1>2. Where(t) \notin Inside
  BY <1>1 DEF Inside, PollPcs
<1>3. ASSUME NEW to \in {"serialise", "pollout", "register", "wait",
                         "blocked", "again"}, Goto(t, to)
      PROVE  Quiet /\ KeptRequests
  <2>1. to \in Pcs /\ to \notin Inside
    BY <1>3 DEF Pcs, Inside, PollPcs
  <2>2. Where(t)' = to /\ OthersWhere(t) /\ KeptRequests
    BY <1>1, <1>3, <2>1, GotoWhere DEF TypeInv
  <2> QED BY <1>2, <2>1, <2>2, OneQuiet
<1>4. CASE StoreSeq(t) \/ Serialise(t) \/ SetPollout(t) \/ RegisterReply(t)
  BY <1>3, <1>4 DEF StoreSeq, Serialise, SetPollout, RegisterReply
<1>5. CASE ChooseWait(t) \/ LeavePoll(t)
  BY <1>3, <1>5 DEF ChooseWait, LeavePoll
<1>6. CASE WaitReturn(t)
  <2>1. Return(t)
    BY <1>6 DEF WaitReturn
  <2>2. Where(t)' \in {"none", "idle", "empty"} /\ OthersWhere(t) /\ KeptRequests
    BY <1>1, <2>1, ReturnWhere
  <2>3. Where(t)' \notin Inside
    BY <2>2 DEF Inside, PollPcs
  <2> QED BY <1>2, <2>2, <2>3, OneQuiet
<1>7. CASE EnterPoll(t)
  <2> DEFINE g == [Top(t) EXCEPT !.pc = "claim", !.wasNone = (state = "none")]
  <2>1. Top(t) \in Frames /\ Top(t) = stack[t][Len(stack[t])]
    BY <1>1, TopFrame DEF TypeInv
  <2>2. stack' = [stack EXCEPT ![t] = [stack[t] EXCEPT ![Len(stack[t])] = g]]
    BY <1>7, <2>1 DEF EnterPoll
  <2>3. /\ g \in Frames /\ g.kind = Top(t).kind /\ g.req = Top(t).req
        /\ g.pc = "claim"
    BY <2>1 DEF Frames, Pcs
  <2> HIDE DEF g
  <2>4. Moved(t, g)
    BY <1>1, <2>2, <2>3, Moving DEF TypeInv
  <2>5. Where(t)' = "claim" /\ OthersWhere(t) /\ KeptRequests
    BY <1>1, <2>3, <2>4, MovedWhere DEF TypeInv
  <2>6. Where(t)' \notin Inside
    BY <2>5 DEF Inside, PollPcs
  <2> QED BY <1>2, <2>5, <2>6, OneQuiet
<1> QED BY <1>4, <1>5, <1>6, <1>7 DEF RequestStep

LEMMA LoopQuiet ==
  ASSUME TypeInv, Control, NEW t \in Threads, LoopStep(t)
  PROVE  Quiet /\ KeptRequests
<1>1. /\ stack[t] # <<>> /\ Where(t) = Top(t).pc
      /\ Top(t).pc \in {"idle", "loop", "reset", "finish", "create",
                        "signal", "wake", "join", "cond"}
  <2>1. /\ stack[t] # <<>>
        /\ Top(t).pc \in {"idle", "loop", "reset", "finish", "create",
                          "signal", "wake", "join", "cond"}
    BY DEF LoopStep, BeginRun, RunLoop, ResetStopping, Finish, BeginThreaded,
           CreateDispatcher, PollerLoop, DecideSignal, SignalDispatcher,
           JoinDispatcher, DispatcherLoop, DispatcherWait, At
  <2> QED BY <2>1, AtWhere DEF TypeInv
<1>2. Where(t) \notin Inside
  BY <1>1 DEF Inside, PollPcs
<1>3. ASSUME NEW to \in {"reset", "claim", "finish", "join", "wake", "loop",
                         "unbuffer", "asleep"}, Goto(t, to)
      PROVE  Quiet /\ KeptRequests
  <2>1. to \in Pcs /\ to \notin Inside
    BY <1>3 DEF Pcs, Inside, PollPcs
  <2>2. Where(t)' = to /\ OthersWhere(t) /\ KeptRequests
    BY <1>1, <1>3, <2>1, GotoWhere DEF TypeInv
  <2> QED BY <1>2, <2>1, <2>2, OneQuiet
<1>4. ASSUME Return(t)
      PROVE  Quiet /\ KeptRequests
  <2>1. Where(t)' \in {"none", "idle", "empty"} /\ OthersWhere(t) /\ KeptRequests
    BY <1>1, <1>4, ReturnWhere
  <2>2. Where(t)' \notin Inside
    BY <2>1 DEF Inside, PollPcs
  <2> QED BY <1>2, <2>1, <2>2, OneQuiet
<1>5. ASSUME NEW f \in Frames, Call(t, "idle", f), f.kind # "request",
             f.pc \in {"loop", "create"}
      PROVE  Quiet /\ KeptRequests
  <2>1. Called(t, "idle", f) /\ "idle" \in Pcs
    BY <1>1, <1>5, CallCalls DEF Pcs, TypeInv
  <2>2. Where(t)' = f.pc /\ OthersWhere(t) /\ KeptRequests
    BY <1>1, <1>5, <2>1, CalledWhere DEF TypeInv
  <2>3. Where(t)' \notin Inside
    BY <1>5, <2>2 DEF Inside, PollPcs
  <2> QED BY <1>2, <2>2, <2>3, OneQuiet
<1>6. ASSUME UNCHANGED stack
      PROVE  Quiet /\ KeptRequests
  BY <1>6, StandingWhere DEF Quiet
<1>7. CASE BeginRun(t)
  <2> DEFINE f == Frame("run", "loop", Nobody)
  <2>1. f \in Frames /\ f.kind = "run" /\ f.pc = "loop"
    BY DEF Frame, Frames, Pcs
  <2>2. UNCHANGED stack \/ Call(t, "idle", f)
    BY <1>7 DEF BeginRun
  <2> HIDE DEF f
  <2> QED BY <1>5, <1>6, <2>1, <2>2
<1>8. CASE BeginThreaded(t)
  <2> DEFINE f == Frame("poller", "create", Nobody)
  <2>1. f \in Frames /\ f.kind = "poller" /\ f.pc = "create"
    BY DEF Frame, Frames, Pcs
  <2>2. UNCHANGED stack \/ Call(t, "idle", f)
    BY <1>8 DEF BeginThreaded
  <2> HIDE DEF f
  <2> QED BY <1>5, <1>6, <2>1, <2>2
<1>9. CASE RunLoop(t) \/ ResetStopping(t) \/ PollerLoop(t)
  BY <1>3, <1>9 DEF RunLoop, ResetStopping, PollerLoop
<1>10. CASE DecideSignal(t) \/ JoinDispatcher(t) \/ DispatcherWait(t)
  BY <1>3, <1>10 DEF DecideSignal, JoinDispatcher, DispatcherWait
<1>11. CASE Finish(t) \/ DispatcherLoop(t)
  BY <1>3, <1>4, <1>11 DEF Finish, DispatcherLoop
<1>12. ASSUME Top(t).kind = "poller",
              NEW d \in {stack[Dispatcher],
                         <<Frame("dispatcher", "loop", Nobody)>>},
              Wakes(t, "loop", d),
              d # stack[Dispatcher] => Where(Dispatcher) \in {"none", "asleep"}
       PROVE  Quiet /\ KeptRequests
  <2>1. /\ Where(t)' = "loop"
        /\ \A u \in Threads \ {t, Dispatcher} : Where(u)' = Where(u)
        /\ d = stack[Dispatcher] => Where(Dispatcher)' = Where(Dispatcher)
        /\ d # stack[Dispatcher] => Where(Dispatcher)' = "loop"
        /\ KeptRequests
    BY <1>1, <1>12, WakesWhere
  <2>2. {"loop", "none", "asleep"} \cap Inside = {}
    BY DEF Inside, PollPcs
  <2> QED BY <1>2, <1>12, <2>1, <2>2 DEF Quiet
<1>13. CASE CreateDispatcher(t)
  <2>1. /\ Top(t).kind = "poller" /\ Top(t).pc = "create"
        /\ Wakes(t, "loop", <<Frame("dispatcher", "loop", Nobody)>>)
    BY <1>13 DEF CreateDispatcher, At, Wakes
  <2>2. t = Main /\ Len(stack[t]) = 2 /\ Top(t) = stack[t][Len(stack[t])]
    BY <1>1, <2>1, PollerIsMain, TopFrame DEF TypeInv
  <2>3. LoopAt({"create", "finish"})
    BY <2>1, <2>2 DEF LoopAt
  <2>4. Where(Dispatcher) = "none"
    BY <2>3 DEF Control, Loops, Where
  <2> QED BY <1>12, <2>1, <2>4
<1>14. CASE SignalDispatcher(t)
  <2>1. /\ Top(t).kind = "poller"
        /\ Wakes(t, "loop",
                 IF Asleep THEN <<Frame("dispatcher", "loop", Nobody)>>
                 ELSE stack[Dispatcher])
    BY <1>14, SignalWakes DEF SignalDispatcher, At
  <2>2. Asleep => Where(Dispatcher) = "asleep"
    BY DEF Asleep, Where
  <2>3. CASE Asleep
    BY <1>12, <2>1, <2>2, <2>3
  <2>4. CASE ~Asleep
    BY <1>12, <2>1, <2>4
  <2> QED BY <2>3, <2>4
<1> QED BY <1>7, <1>8, <1>9, <1>10, <1>11, <1>13, <1>14 DEF LoopStep

LEMMA BeginQuiet ==
  ASSUME TypeInv, NEW t \in Threads, NEW r \in Requests, BeginRequest(t, r)
  PROVE  Quiet
<1> DEFINE f == Frame("request", "store", r)
<1>1. f \in Frames /\ f.pc = "store" /\ "idle" \in Pcs
  BY DEF Frame, Frames, Pcs
<1>2. Called(t, "idle", f)
  BY BeginTypes
<1> HIDE DEF f
<1>3. stack[t] # <<>> /\ Top(t).pc = "idle"
  BY DEF BeginRequest, At
<1>4. Where(t) = "idle"
  BY <1>3, AtWhere DEF TypeInv
<1>5. Where(t)' = "store" /\ OthersWhere(t)
  BY <1>1, <1>2, <1>3, CalledWhere DEF TypeInv
<1>6. {"idle", "store"} \cap Inside = {}
  BY DEF Inside, PollPcs
<1> QED BY <1>4, <1>5, <1>6, OneQuiet

LEMMA StopQuiet ==
  ASSUME TypeInv, NEW t \in Threads, Stop(t) \/ SpuriousWake(t)
  PROVE  Quiet /\ KeptRequests
<1>1. /\ stack[t] # <<>> /\ Where(t) = Top(t).pc
      /\ Top(t).pc \in {"idle", "asleep"}
  <2>1. stack[t] # <<>> /\ Top(t).pc \in {"idle", "asleep"}
    BY DEF Stop, SpuriousWake, At
  <2> QED BY <2>1, AtWhere DEF TypeInv
<1>2. Where(t) \notin Inside
  BY <1>1 DEF Inside, PollPcs
<1>3. ASSUME NEW to \in {"relock", "loop"}, Goto(t, to)
      PROVE  Quiet /\ KeptRequests
  <2>1. to \in Pcs /\ to \notin Inside
    BY <1>3 DEF Pcs, Inside, PollPcs
  <2>2. Where(t)' = to /\ OthersWhere(t) /\ KeptRequests
    BY <1>1, <1>3, <2>1, GotoWhere DEF TypeInv
  <2> QED BY <1>2, <2>1, <2>2, OneQuiet
<1>4. CASE UNCHANGED stack
  BY <1>4, StandingWhere DEF Quiet
<1>5. CASE stack' = [stack EXCEPT ![t] = <<>>]
  <2>1. /\ stack'[t] = <<>>
        /\ \A u \in Threads \ {t} : stack'[u] = stack[u]
    BY <1>5 DEF TypeInv, TypeOK
  <2>2. Where(t)' = "none" /\ OthersWhere(t)
    BY <2>1 DEF Where, OthersWhere, Top
  <2>3. KeptRequests
    <3>1. DOMAIN stack'[t] = {}
      BY <2>1
    <3> QED BY <2>1, <3>1 DEF KeptRequests
  <2>4. Where(t)' \notin Inside
    BY <2>2 DEF Inside, PollPcs
  <2> QED BY <1>2, <2>2, <2>3, <2>4, OneQuiet
<1> QED BY <1>3, <1>4, <1>5 DEF Stop, SpuriousWake

LEMMA PollGoes ==
  ASSUME TypeInv, NEW t \in Threads, stack[t] # <<>>,
         NEW to \in Pcs \ {"store"}, Goto(t, to)
  PROVE  /\ Where(t) = Top(t).pc /\ Where(t)' = to
         /\ OthersWhere(t) /\ KeptRequests
BY AtWhere, GotoWhere DEF TypeInv

LEMMA PollSafe ==
  ASSUME OneDrives, TypeInv, Control, Sections, NoFault,
         NEW t \in Threads, PollStep(t)
  PROVE  Sections' /\ NoFault' /\ KeptRequests
<1>1. /\ stack[t] # <<>> /\ Top(t).pc \in PollPcs
      /\ UNCHANGED <<messages, popped>>
  BY DEF PollStep, ClaimList, PollSocket, ReadServer, WriteServer,
         CheckOutbound, ClearPollout, ReleaseList, inVars, At, PollPcs
<1>2. Where(t) = Top(t).pc
  BY <1>1, AtWhere DEF TypeInv
<1>3. \A u \in Threads \ {t} : Where(u) \notin PollPcs
  BY <1>1, <1>2, OnlyOne
<1>4. Ready(t) /\ popped[t] = NoMessage /\ fault = "none"
  <2>1. Ready(t) /\ Where(t) # "process"
    BY <1>1, <1>2 DEF Sections, PollPcs
  <2> QED BY <2>1 DEF Ready, NoFault
<1>5. ASSUME OthersWhere(t), KeptRequests, fault' = "none",
             \A u \in Threads \ {t} : revents'[u] = revents[u],
             working' \/ Where(t)' \in PollPcs \ {"claim"},
             Where(t)' \notin {"pop", "process"},
             Where(t)' = "read" /\ revents'[t].in => toClient' # <<>>,
             Where(t)' \in {"read", "write"} /\ revents'[t].out =>
               Len(toServer') < SocketSize
      PROVE  Sections' /\ NoFault' /\ KeptRequests
  <2>1. Ready(t)'
    BY <1>1, <1>4, <1>5 DEF Ready
  <2>2. ASSUME NEW u \in Threads \ {t}
        PROVE  Ready(u)'
    <3>1. Where(u)' = Where(u) /\ Ready(u) /\ Where(u) \notin {"read", "write"}
      BY <1>3, <1>5 DEF OthersWhere, Sections, PollPcs
    <3> QED BY <1>1, <3>1 DEF Ready
  <2>3. \A u \in Threads : Ready(u)'
    BY <2>1, <2>2
  <2> QED BY <1>5, <2>3 DEF Sections, NoFault
<1>6. {"poll", "read", "write", "check", "clear", "release", "signal",
       "unbuffer"} \subseteq Pcs
  BY DEF Pcs
<1>7. CASE ClaimList(t)
  <2>1. /\ Where(t) = "claim" /\ Goto(t, "poll") /\ UNCHANGED revents
        /\ fault' = IF working THEN fault ELSE "null list"
    BY <1>2, <1>7 DEF ClaimList, At
  <2>2. working
    BY <1>3, <2>1 DEF Sections
  <2>3. Where(t)' = "poll" /\ OthersWhere(t) /\ KeptRequests
    BY <1>1, <1>6, <2>1, PollGoes
  <2> QED BY <1>4, <1>5, <2>1, <2>2, <2>3 DEF PollPcs
<1>8. CASE PollSocket(t)
  <2>1. /\ Goto(t, "read") /\ UNCHANGED <<toClient, toServer, fault>>
        /\ revents' = [revents EXCEPT ![t] =
                         [in |-> toClient # <<>>,
                          out |-> ufds[t] /\ Len(toServer) < SocketSize]]
    BY <1>8 DEF PollSocket, netVars
  <2>2. revents \in [Threads -> [in : BOOLEAN, out : BOOLEAN]]
    BY DEF TypeInv, TypeOK
  <2>3. /\ revents'[t].in => toClient' # <<>>
        /\ revents'[t].out => Len(toServer') < SocketSize
        /\ \A u \in Threads \ {t} : revents'[u] = revents[u]
    BY <2>1, <2>2
  <2>4. Where(t)' = "read" /\ OthersWhere(t) /\ KeptRequests
    BY <1>1, <1>6, <2>1, PollGoes
  <2> QED BY <1>4, <1>5, <2>1, <2>3, <2>4 DEF PollPcs
<1>9. CASE ReadServer(t)
  <2>1. /\ Where(t) = "read" /\ Goto(t, "write")
        /\ UNCHANGED <<revents, toServer>>
    BY <1>2, <1>9 DEF ReadServer, At, pollVars
  <2>2. revents[t].in => toClient # <<>>
    BY <1>4, <2>1 DEF Ready
  <2>3. fault' = "none"
    BY <1>4, <1>9, <2>2 DEF ReadServer
  <2>4. revents'[t].out => Len(toServer') < SocketSize
    BY <1>4, <2>1 DEF Ready
  <2>5. Where(t)' = "write" /\ OthersWhere(t) /\ KeptRequests
    BY <1>1, <1>6, <2>1, PollGoes
  <2> QED BY <1>5, <2>1, <2>3, <2>4, <2>5 DEF PollPcs
<1>10. CASE WriteServer(t)
  <2>1. Where(t) = "write" /\ UNCHANGED revents
    BY <1>2, <1>10 DEF WriteServer, At, pollVars
  <2>2. revents[t].out => SocketSize - Len(toServer) # 0
    <3>1. revents[t].out => Len(toServer) < SocketSize
      BY <1>4, <2>1 DEF Ready
    <3>2. Len(toServer) \in Nat /\ SocketSize \in Nat
      <4>1. toServer \in Seq(Requests)
        BY DEF TypeInv, TypeOK
      <4> QED BY <4>1, BoundsAssumption, LenProperties
    <3> QED BY <3>1, <3>2
  <2>3. fault' = "none" /\ \E to \in {"release", "check"} : Goto(t, to)
    BY <1>4, <1>10, <2>2 DEF WriteServer
  <2>4. PICK to \in {"release", "check"} : Goto(t, to)
    BY <2>3
  <2>5. Where(t)' = to /\ OthersWhere(t) /\ KeptRequests
    BY <1>1, <1>6, <2>4, PollGoes
  <2> QED BY <1>5, <2>1, <2>3, <2>5 DEF PollPcs
<1>11. CASE CheckOutbound(t) \/ ClearPollout(t)
  <2>1. UNCHANGED <<revents, fault>>
    BY <1>11 DEF CheckOutbound, ClearPollout, pollVars
  <2>2. PICK to \in {"clear", "release"} : Goto(t, to)
    BY <1>11 DEF CheckOutbound, ClearPollout
  <2>3. Where(t)' = to /\ OthersWhere(t) /\ KeptRequests
    BY <1>1, <1>6, <2>2, PollGoes
  <2> QED BY <1>4, <1>5, <2>1, <2>3 DEF PollPcs
<1>12. CASE ReleaseList(t)
  <2>1. UNCHANGED <<revents, fault>> /\ working'
    BY <1>12 DEF ReleaseList, ListPutBack
  <2>2. PICK to \in {"signal", "unbuffer"} : Goto(t, to)
    BY <1>12 DEF ReleaseList
  <2>3. Where(t)' = to /\ OthersWhere(t) /\ KeptRequests
    BY <1>1, <1>6, <2>2, PollGoes
  <2> QED BY <1>4, <1>5, <2>1, <2>3
<1> QED BY <1>7, <1>8, <1>9, <1>10, <1>11, <1>12 DEF PollStep

LEMMA DispatchSafe ==
  ASSUME OneDrives, TypeInv, Control, Sections, Numbered, NoFault,
         NEW t \in Threads, DispatchStep(t)
  PROVE  Sections' /\ NoFault' /\ KeptRequests
<1>1. /\ stack[t] # <<>>
      /\ UNCHANGED <<working, revents, toClient, toServer>>
  BY DEF DispatchStep, Unbuffer, ParseOne, TestEmpty, PopMessage,
         ProcessMessage, HandlerReturn, pollVars, netVars, At
<1>2. Where(t) = Top(t).pc
  BY <1>1, AtWhere DEF TypeInv
<1>3. Where(t) \in DispatchPcs => \A u \in Threads \ {t} : Where(u) # "pop"
  <2>1. "pop" \in DispatchPcs
    BY DEF DispatchPcs
  <2> QED BY <2>1, OnlyOne
<1>4. Ready(t) /\ fault = "none"
  BY DEF Sections, NoFault
<1>5. ASSUME Where(t) \in DispatchPcs, OthersWhere(t), KeptRequests,
             fault' = "none", Where(t)' \notin PollPcs,
             Where(t)' = "pop" => messages' # <<>>,
             popped'[t] # NoMessage <=> Where(t)' = "process",
             \A u \in Threads \ {t} : popped'[u] = popped[u]
      PROVE  Sections' /\ NoFault' /\ KeptRequests
  <2>1. Ready(t)'
    BY <1>5 DEF Ready, PollPcs
  <2>2. ASSUME NEW u \in Threads \ {t}
        PROVE  Ready(u)'
    <3>1. Where(u)' = Where(u) /\ Ready(u) /\ Where(u) # "pop"
      BY <1>3, <1>5 DEF OthersWhere, Sections
    <3> QED BY <1>1, <1>5, <3>1 DEF Ready
  <2>3. \A u \in Threads : Ready(u)'
    BY <2>1, <2>2
  <2>4. Where(t) \notin PollPcs
    BY <1>5 DEF DispatchPcs, PollPcs
  <2>5. \A u \in Threads : Where(u) \in PollPcs \ {"claim"} =>
                             Where(u)' \in PollPcs \ {"claim"}
    BY <1>5, <2>4 DEF OthersWhere
  <2> QED BY <1>1, <1>5, <2>3, <2>5 DEF Sections, NoFault
<1>6. DispatchPcs \cup {"loop", "leave", "cond"} \subseteq Pcs
  BY DEF Pcs, DispatchPcs
<1>7. popped \in [Threads -> Message] /\ messages \in Seq(Received)
  BY DEF TypeInv, TypeOK, Numbered
<1>8. CASE Unbuffer(t)
  <2>1. Where(t) = "unbuffer" /\ Goto(t, "empty") /\ UNCHANGED <<popped, fault>>
    BY <1>2, <1>8 DEF Unbuffer, At
  <2>2. Where(t)' = "empty" /\ OthersWhere(t) /\ KeptRequests
    BY <1>1, <1>6, <2>1, PollGoes DEF DispatchPcs
  <2> QED BY <1>4, <1>5, <2>1, <2>2 DEF Ready, DispatchPcs, PollPcs
<1>9. CASE ParseOne(t)
  <2>1. Where(t) = "unbuffer" /\ UNCHANGED <<popped, fault>>
    BY <1>2, <1>9 DEF ParseOne, At
  <2>2. Where(t)' \in {"empty", "unbuffer"} /\ OthersWhere(t) /\ KeptRequests
    <3>1. CASE Goto(t, "empty")
      BY <1>1, <1>6, <3>1, PollGoes DEF DispatchPcs
    <3>2. CASE UNCHANGED stack
      BY <2>1, <3>2, StandingWhere DEF OthersWhere
    <3> QED BY <1>9, <3>1, <3>2 DEF ParseOne
  <2> QED BY <1>4, <1>5, <2>1, <2>2 DEF Ready, DispatchPcs, PollPcs
<1>10. CASE TestEmpty(t)
  <2>1. /\ Where(t) = "empty" /\ UNCHANGED <<messages, popped, fault>>
        /\ Top(t).kind \in Dispatching
    BY <1>2, <1>10 DEF TestEmpty, At, inVars
  <2>2. PICK to \in {"pop", "loop", "leave", "cond"} :
          Goto(t, to) /\ (to = "pop" => messages # <<>>)
    BY <1>10, <2>1 DEF TestEmpty, Dispatching
  <2>3. Where(t)' = to /\ OthersWhere(t) /\ KeptRequests
    BY <1>1, <1>6, <2>2, PollGoes DEF DispatchPcs
  <2> QED BY <1>4, <1>5, <2>1, <2>2, <2>3 DEF Ready, DispatchPcs, PollPcs
<1>11. CASE PopMessage(t)
  <2>1. Where(t) = "pop" /\ Goto(t, "process")
    BY <1>2, <1>11 DEF PopMessage, At
  <2>2. messages # <<>>
    BY <1>4, <2>1 DEF Ready
  <2>3. popped' = [popped EXCEPT ![t] = Head(messages)] /\ fault' = "none"
    BY <1>4, <1>11, <2>2 DEF PopMessage
  <2>4. Head(messages) \in Received
    BY <1>7, <2>2, HeadTailProperties
  <2>5. /\ popped'[t] # NoMessage
        /\ \A u \in Threads \ {t} : popped'[u] = popped[u]
    BY <1>7, <2>3, <2>4 DEF Received
  <2>6. Where(t)' = "process" /\ OthersWhere(t) /\ KeptRequests
    BY <1>1, <1>6, <2>1, PollGoes DEF DispatchPcs
  <2> QED BY <1>5, <2>1, <2>3, <2>5, <2>6 DEF DispatchPcs, PollPcs
<1>12. CASE ProcessMessage(t)
  <2>1. /\ Where(t) = "process" /\ UNCHANGED fault
        /\ popped' = [popped EXCEPT ![t] = NoMessage]
    BY <1>2, <1>12 DEF ProcessMessage, At
  <2>2. /\ popped'[t] = NoMessage
        /\ \A u \in Threads \ {t} : popped'[u] = popped[u]
    BY <1>7, <2>1
  <2>3. Where(t)' \in {"idle", "empty"} /\ OthersWhere(t) /\ KeptRequests
    <3>1. CASE Goto(t, "empty")
      BY <1>1, <1>6, <3>1, PollGoes DEF DispatchPcs
    <3>2. CASE Call(t, "empty", Frame("handler", "idle", Nobody))
      <4> DEFINE f == Frame("handler", "idle", Nobody)
      <4>1. f \in Frames /\ f.kind = "handler" /\ f.pc = "idle"
        BY DEF Frame, Frames, Pcs
      <4>2. Called(t, "empty", f)
        BY <1>1, <1>6, <3>2, <4>1, CallCalls DEF DispatchPcs, TypeInv
      <4> HIDE DEF f
      <4> QED BY <1>1, <1>6, <4>1, <4>2, CalledWhere DEF DispatchPcs, TypeInv
    <3> QED BY <1>12, <3>1, <3>2 DEF ProcessMessage
  <2> QED BY <1>4, <1>5, <2>1, <2>2, <2>3 DEF DispatchPcs, PollPcs
<1>13. CASE HandlerReturn(t)
  <2>1. /\ Where(t) = "idle" /\ Return(t)
        /\ UNCHANGED <<messages, popped, fault>>
    BY <1>2, <1>13 DEF HandlerReturn, At, inVars
  <2>2. Where(t)' \in {"none", "idle", "empty"} /\ OthersWhere(t) /\ KeptRequests
    BY <1>1, <2>1, ReturnWhere
  <2>3. {"none", "idle", "empty"} \cap Inside = {}
    BY DEF Inside, PollPcs
  <2>4. Quiet
    BY <2>1, <2>2, <2>3, OneQuiet
  <2> QED BY <1>1, <1>4, <2>1, <2>2, <2>4, QuietSections DEF NoFault
<1> QED BY <1>8, <1>9, <1>10, <1>11, <1>12, <1>13 DEF DispatchStep

(* What the server sends at once: nothing, a reply or an event.            *)
LEMMA ServerSends ==
  ASSUME TypeInv, Serve \/ SendEvent
  PROVE  \E a \in Seq(Message) :
           /\ toClient' = toClient \o a /\ sent' = sent \o a
           /\ Numbered => a \in Seq(Received)
<1>1. toClient \in Seq(Message) /\ sent \in Seq(Message)
  BY DEF TypeInv, TypeOK
<1>2. CASE Serve
  <2> DEFINE e == Reply(seqOf[Head(toServer)])
             a == IF Head(toServer) \in Failing THEN <<>> ELSE <<e>>
  <2>1. toClient' = toClient \o a /\ sent' = sent \o a /\ toServer # <<>>
    BY <1>2 DEF Serve
  <2>2. Head(toServer) \in Requests
    <3>1. toServer \in Seq(Requests)
      BY DEF TypeInv, TypeOK
    <3> QED BY <2>1, <3>1, HeadTailProperties
  <2>3. seqOf[Head(toServer)] \in Nat
    BY <2>2 DEF TypeInv, TypeOK
  <2>4. e \in Message
    BY <2>3 DEF Reply, Message
  <2>5. Numbered => e \in Received
    <3>1. ASSUME Numbered
          PROVE  seqOf[Head(toServer)] # 0
      <4>1. toServer \in Seq(started) /\ \A r \in started : seqOf[r] # 0
        BY <3>1 DEF Numbered
      <4>2. Head(toServer) \in started
        BY <2>1, <4>1, HeadTailProperties
      <4> QED BY <4>1, <4>2
    <3> QED BY <2>3, <2>4, <3>1 DEF Received, NoMessage, Reply
  <2>6. a = <<>> \/ a = <<e>>
    OBVIOUS
  <2> HIDE DEF a, e
  <2>7. a \in Seq(Message)
    <3>1. <<e>> \in Seq(Message)
      BY <2>4
    <3> QED BY <2>6, <3>1, EmptySeq
  <2>8. Numbered => a \in Seq(Received)
    <3>1. Numbered => <<e>> \in Seq(Received)
      BY <2>5
    <3> QED BY <2>6, <3>1, EmptySeq
  <2> QED BY <2>1, <2>7, <2>8
<1>3. CASE SendEvent
  <2> DEFINE e == Event(EventsSent + 1)
  <2>1. toClient' = Append(toClient, e) /\ sent' = Append(sent, e)
    BY <1>3 DEF SendEvent
  <2>2. e \in Message
    BY EventCount DEF Event, Message, TypeInv
  <2>3. e \in Received
    BY <2>2 DEF Received, NoMessage, Reply, Event
  <2> HIDE DEF e
  <2>4. toClient' = toClient \o <<e>> /\ sent' = sent \o <<e>>
    BY <1>1, <2>1, <2>2, AppendIsConcat
  <2>5. <<e>> \in Seq(Message) /\ <<e>> \in Seq(Received)
    BY <2>2, <2>3
  <2> QED BY <2>4, <2>5
<1> QED BY <1>2, <1>3

LEMMA ServerSafe ==
  ASSUME TypeInv, Sections, NoFault, Serve \/ SendEvent
  PROVE  Sections' /\ NoFault' /\ KeptRequests
<1>1. /\ UNCHANGED <<stack, working, revents, messages, popped, fault>>
  BY DEF Serve, SendEvent, pollVars, inVars
<1>2. (\A u \in Threads : Where(u)' = Where(u)) /\ KeptRequests
  BY <1>1, StandingWhere
<1>3. /\ toClient \in Seq(Message) /\ toServer \in Seq(Requests)
      /\ SocketSize \in Nat
  BY BoundsAssumption DEF TypeInv, TypeOK
<1>4. toClient # <<>> => toClient' # <<>>
  <2>1. PICK a \in Seq(Message) : toClient' = toClient \o a
    BY ServerSends
  <2> QED BY <1>3, <2>1, ConcatEqualIffEmpty
<1>5. Len(toServer) < SocketSize => Len(toServer') < SocketSize
  <2>1. CASE Serve
    <3>1. toServer # <<>> /\ toServer' = Tail(toServer)
      BY <2>1 DEF Serve
    <3>2. Len(toServer') = Len(toServer) - 1 /\ Len(toServer) \in Nat
      BY <1>3, <3>1, HeadTailProperties, LenProperties
    <3> QED BY <1>3, <3>2
  <2>2. CASE SendEvent
    BY <2>2 DEF SendEvent
  <2> QED BY <2>1, <2>2
<1>6. \A t \in Threads : Ready(t)'
  BY <1>1, <1>2, <1>4, <1>5 DEF Sections, Ready
<1> QED BY <1>1, <1>2, <1>6 DEF Sections, NoFault

(* run and runThreaded find the connection free: no abort.                 *)
LEMMA FreeToBegin ==
  ASSUME TypeInv, Control, stack[Main] # <<>>, Top(Main).kind = "app",
         ~stopCalled
  PROVE  state = "none"
<1>1. Main \in Threads /\ Dispatcher \in Threads /\ Main # Dispatcher
  BY ThreadsAssumption DEF Threads
<1>2. ~Calls(Main) /\ ~Polls(Main)
  BY <1>1, AppAlone
<1>3. state # "running" /\ state # "threaded"
  BY <1>2 DEF Control, States, InLoop, Calls
<1>4. \A t \in Apps : ~Polls(t)
  <2>1. \A t \in Apps : t \in Threads \ {Dispatcher}
    BY ThreadsAssumption DEF Threads
  <2>2. \A t \in Apps : ~Calls(t)
    BY <1>3 DEF Control, Callings
  <2> QED BY <2>1, <2>2, IdlePollsNot
<1>5. state # "polling"
  <2>1. \A t \in Threads : ~Polls(t)
    BY <1>1, <1>2, <1>4 DEF Threads, Control, Loops
  <2> QED BY <2>1 DEF Control, States, Polls, PollsFirst
<1> QED BY <1>3, <1>5 DEF TypeInv, TypeOK

LEMMA LoopSafe ==
  ASSUME TypeInv, Control, Sections, NoFault, NEW t \in Threads, LoopStep(t)
  PROVE  Sections' /\ NoFault' /\ KeptRequests
<1>1. UNCHANGED <<working, revents, toClient, toServer, messages, popped>>
  BY DEF LoopStep, BeginRun, RunLoop, ResetStopping, Finish, BeginThreaded,
         CreateDispatcher, PollerLoop, DecideSignal, SignalDispatcher,
         JoinDispatcher, DispatcherLoop, DispatcherWait, pollVars, inVars,
         netVars
<1>2. fault' = "none"
  <2>1. CASE BeginRun(t) \/ BeginThreaded(t)
    <3>1. /\ t = Main /\ stack[t] # <<>> /\ Top(t).kind = "app"
          /\ ~stopCalled
      BY <2>1 DEF BeginRun, BeginThreaded, At
    <3>2. state = "none"
      BY <3>1, FreeToBegin
    <3> QED BY <2>1, <3>2 DEF BeginRun, BeginThreaded, NoFault
  <2>2. CASE ~(BeginRun(t) \/ BeginThreaded(t))
    BY <2>2 DEF LoopStep, RunLoop, ResetStopping, Finish, CreateDispatcher,
         PollerLoop, DecideSignal, SignalDispatcher, JoinDispatcher,
         DispatcherLoop, DispatcherWait, NoFault
  <2> QED BY <2>1, <2>2
<1> QED BY <1>1, <1>2, LoopQuiet, QuietSections DEF NoFault

LEMMA OtherSafe ==
  ASSUME TypeInv, Sections, NoFault, NEW t \in Threads,
         RequestStep(t) \/ Stop(t) \/ SpuriousWake(t)
  PROVE  Sections' /\ NoFault' /\ KeptRequests
<1>1. UNCHANGED <<working, revents, toClient, toServer, messages, popped, fault>>
  <2>1. CASE RequestStep(t)
    BY <2>1 DEF RequestStep, StoreSeq, Serialise, SetPollout, RegisterReply,
           WaitReturn, ChooseWait, EnterPoll, LeavePoll, pollVars, inVars,
           netVars
  <2>2. CASE Stop(t) \/ SpuriousWake(t)
    BY <2>2 DEF Stop, SpuriousWake, pollVars, inVars, netVars
  <2> QED BY <2>1, <2>2
<1> QED BY <1>1, RequestQuiet, StopQuiet, QuietSections DEF NoFault

LEMMA BeginSafe ==
  ASSUME TypeInv, Sections, NoFault, NEW t \in Threads, NEW r \in Requests,
         BeginRequest(t, r)
  PROVE  Sections' /\ NoFault'
<1>1. UNCHANGED <<working, revents, toClient, toServer, messages, popped, fault>>
  BY DEF BeginRequest, pollVars, inVars, netVars
<1> QED BY <1>1, BeginQuiet, QuietSections DEF NoFault

(* The parts of Numbered, step by step.                                    *)
LEMMA KeptFrames ==
  ASSUME Numbered, KeptRequests, UNCHANGED started
  PROVE  \A t \in Threads : \A i \in DOMAIN stack'[t] :
           stack'[t][i].kind = "request" => stack'[t][i].req \in started'
BY DEF Numbered, KeptRequests

LEMMA SameNumbered ==
  ASSUME Numbered, KeptRequests, UNCHANGED <<started, seqOf>>,
         outbound' \in Seq(started), toServer' \in Seq(started),
         messages' \in Seq(Received), inbound' \in Seq(Received),
         toClient' \in Seq(Received)
  PROVE  Numbered'
BY KeptFrames DEF Numbered

LEMMA PollNumbered ==
  ASSUME TypeInv, Numbered, KeptRequests, NEW t \in Threads, PollStep(t)
  PROVE  Numbered'
<1>1. UNCHANGED <<started, seqOf, messages>>
  BY DEF PollStep, ClaimList, PollSocket, ReadServer, WriteServer,
         CheckOutbound, ClearPollout, ReleaseList, seqVars, inVars
<1>2. /\ outbound \in Seq(started) /\ toServer \in Seq(started)
      /\ messages \in Seq(Received) /\ inbound \in Seq(Received)
      /\ toClient \in Seq(Received)
  BY DEF Numbered
<1>3. CASE UNCHANGED <<outbound, toServer, inbound, toClient>>
  BY <1>1, <1>2, <1>3, SameNumbered
<1>4. CASE ReadServer(t) /\ ~UNCHANGED <<inbound, toClient>>
  <2>1. PICK k \in 1 .. Len(toClient) :
          /\ inbound' = inbound \o SubSeq(toClient, 1, k)
          /\ toClient' = SubSeq(toClient, k + 1, Len(toClient))
    BY <1>4 DEF ReadServer
  <2>2. k \in 0 .. Len(toClient)
    BY <1>2, LenProperties
  <2>3. inbound' \in Seq(Received) /\ toClient' \in Seq(Received)
    BY <1>2, <2>1, <2>2, Cut, ConcatProperties
  <2>4. UNCHANGED <<outbound, toServer>>
    BY <1>4 DEF ReadServer
  <2> QED BY <1>1, <1>2, <2>3, <2>4, SameNumbered
<1>5. CASE WriteServer(t) /\ ~UNCHANGED <<outbound, toServer>>
  <2>1. PICK k \in 0 .. SocketSize - Len(toServer) :
          /\ k <= Len(outbound)
          /\ toServer' = toServer \o SubSeq(outbound, 1, k)
          /\ outbound' = SubSeq(outbound, k + 1, Len(outbound))
    BY <1>5 DEF WriteServer
  <2>2. k \in 0 .. Len(outbound)
    <3>1. Len(outbound) \in Nat /\ Len(toServer) \in Nat /\ SocketSize \in Nat
      BY <1>2, LenProperties, BoundsAssumption
    <3> QED BY <2>1, <3>1
  <2>3. toServer' \in Seq(started) /\ outbound' \in Seq(started)
    BY <1>2, <2>1, <2>2, Cut, ConcatProperties
  <2>4. UNCHANGED <<inbound, toClient>>
    BY <1>5 DEF WriteServer, inVars
  <2> QED BY <1>1, <1>2, <2>3, <2>4, SameNumbered
<1>6. \/ UNCHANGED <<outbound, toServer, inbound, toClient>>
      \/ ReadServer(t) /\ ~UNCHANGED <<inbound, toClient>>
      \/ WriteServer(t) /\ ~UNCHANGED <<outbound, toServer>>
  <2>1. CASE ReadServer(t)
    BY <2>1 DEF ReadServer
  <2>2. CASE WriteServer(t)
    BY <2>2 DEF WriteServer, inVars
  <2>3. CASE ~ReadServer(t) /\ ~WriteServer(t)
    BY <2>3 DEF PollStep, ClaimList, PollSocket, CheckOutbound, ClearPollout,
                ReleaseList, inVars, netVars
  <2> QED BY <2>1, <2>2, <2>3
<1> QED BY <1>3, <1>4, <1>5, <1>6

LEMMA DispatchNumbered ==
  ASSUME TypeInv, Numbered, KeptRequests, NEW t \in Threads, DispatchStep(t)
  PROVE  Numbered'
<1>1. UNCHANGED <<started, seqOf, outbound, toServer, toClient>>
  BY DEF DispatchStep, Unbuffer, ParseOne, TestEmpty, PopMessage,
         ProcessMessage, HandlerReturn, seqVars, netVars
<1>2. /\ outbound \in Seq(started) /\ toServer \in Seq(started)
      /\ messages \in Seq(Received) /\ inbound \in Seq(Received)
      /\ toClient \in Seq(Received)
  BY DEF Numbered
<1>3. messages' \in Seq(Received) /\ inbound' \in Seq(Received)
  <2>1. CASE UNCHANGED <<messages, inbound>>
    BY <1>2, <2>1
  <2>2. CASE Unbuffer(t)
    <3>1. messages' = messages \o inbound /\ inbound' = <<>>
      BY <2>2 DEF Unbuffer, Unbuffered
    <3> QED BY <1>2, <3>1, ConcatProperties, EmptySeq
  <2>3. CASE ParseOne(t) /\ inbound # <<>>
    <3>1. messages' = Append(messages, Head(inbound)) /\ inbound' = Tail(inbound)
      BY <2>3 DEF ParseOne, Pushed
    <3>2. Head(inbound) \in Received /\ Tail(inbound) \in Seq(Received)
      BY <1>2, <2>3, HeadTailProperties
    <3> QED BY <1>2, <3>1, <3>2, AppendProperties
  <2>4. CASE PopMessage(t) /\ messages # <<>>
    <3>1. messages' = Tail(messages) /\ UNCHANGED inbound
      BY <2>4 DEF PopMessage
    <3> QED BY <1>2, <2>4, <3>1, HeadTailProperties
  <2> QED BY <2>1, <2>2, <2>3, <2>4
          DEF DispatchStep, ParseOne, TestEmpty, PopMessage, ProcessMessage,
              HandlerReturn, inVars
<1> QED BY <1>1, <1>2, <1>3, SameNumbered

LEMMA OtherNumbered ==
  ASSUME TypeInv, Numbered, KeptRequests, NEW t \in Threads,
         RequestStep(t) \/ LoopStep(t) \/ Stop(t) \/ SpuriousWake(t)
  PROVE  Numbered'
<1>1. UNCHANGED <<started, seqOf, toServer, toClient, messages, inbound>>
  <2>1. CASE RequestStep(t)
    BY <2>1 DEF RequestStep, StoreSeq, Serialise, SetPollout, RegisterReply,
                WaitReturn, ChooseWait, EnterPoll, LeavePoll, seqVars, inVars,
                netVars
  <2>2. CASE LoopStep(t)
    BY <2>2 DEF LoopStep, BeginRun, RunLoop, ResetStopping, Finish,
                BeginThreaded, CreateDispatcher, PollerLoop, DecideSignal,
                SignalDispatcher, JoinDispatcher, DispatcherLoop,
                DispatcherWait, seqVars, inVars, netVars
  <2>3. CASE Stop(t) \/ SpuriousWake(t)
    BY <2>3 DEF Stop, SpuriousWake, seqVars, inVars, netVars
  <2> QED BY <2>1, <2>2, <2>3
<1>2. outbound' \in Seq(started)
  <2>1. outbound \in Seq(started)
    BY DEF Numbered
  <2>2. CASE UNCHANGED outbound
    BY <2>1, <2>2
  <2>3. CASE Serialise(t)
    <3>1. /\ stack[t] # <<>> /\ Top(t).kind = "request"
          /\ outbound' = Append(outbound, Top(t).req)
      BY <2>3 DEF Serialise, At
    <3>2. Top(t) = stack[t][Len(stack[t])] /\ Len(stack[t]) \in DOMAIN stack[t]
      BY <3>1, TopFrame DEF TypeInv
    <3>3. Top(t).req \in started
      BY <3>1, <3>2 DEF Numbered
    <3> QED BY <2>1, <3>1, <3>3, AppendProperties
  <2>4. UNCHANGED outbound \/ Serialise(t)
    <3>1. CASE RequestStep(t)
      BY <3>1 DEF RequestStep, StoreSeq, SetPollout, RegisterReply,
                  WaitReturn, ChooseWait, EnterPoll, LeavePoll
    <3>2. CASE LoopStep(t)
      BY <3>2 DEF LoopStep, BeginRun, RunLoop, ResetStopping, Finish,
                  BeginThreaded, CreateDispatcher, PollerLoop, DecideSignal,
                  SignalDispatcher, JoinDispatcher, DispatcherLoop,
                  DispatcherWait
    <3>3. CASE Stop(t) \/ SpuriousWake(t)
      BY <3>3 DEF Stop, SpuriousWake
    <3> QED BY <3>1, <3>2, <3>3
  <2> QED BY <2>2, <2>3, <2>4
<1> QED BY <1>1, <1>2, SameNumbered DEF Numbered

LEMMA ServerNumbered ==
  ASSUME TypeInv, Numbered, KeptRequests, Serve \/ SendEvent
  PROVE  Numbered'
<1>1. UNCHANGED <<started, seqOf, outbound, messages, inbound>>
  BY DEF Serve, SendEvent, seqVars, inVars
<1>2. toClient' \in Seq(Received)
  <2>1. PICK a \in Seq(Message) :
          toClient' = toClient \o a /\ a \in Seq(Received)
    BY ServerSends
  <2> QED BY <2>1, ConcatProperties DEF Numbered
<1>3. toServer' \in Seq(started)
  <2>1. toServer \in Seq(started)
    BY DEF Numbered
  <2>2. CASE Serve
    BY <2>1, <2>2, HeadTailProperties DEF Serve
  <2>3. CASE SendEvent
    BY <2>1, <2>3 DEF SendEvent
  <2> QED BY <2>2, <2>3
<1> QED BY <1>1, <1>2, <1>3, SameNumbered DEF Numbered

LEMMA BeginNumbered ==
  ASSUME TypeInv, Numbered, NEW t \in Threads, NEW r \in Requests,
         BeginRequest(t, r)
  PROVE  Numbered'
<1> DEFINE f == Frame("request", "store", r)
<1>1. /\ stack[t] # <<>> /\ started' = started \cup {r}
      /\ seqOf' = [seqOf EXCEPT ![r] = nextSeq + 1]
      /\ UNCHANGED <<outbound, toServer, messages, inbound, toClient>>
  BY DEF BeginRequest, At, inVars, netVars
<1>2. \A q \in started' : seqOf'[q] # 0
  <2>1. nextSeq \in Nat /\ seqOf \in [Requests -> Nat] /\ started \subseteq Requests
    BY DEF TypeInv, TypeOK
  <2>2. nextSeq + 1 # 0
    BY <2>1
  <2> QED BY <1>1, <2>1, <2>2 DEF Numbered
<1>3. outbound' \in Seq(started') /\ toServer' \in Seq(started')
  <2>1. started \subseteq started'
    BY <1>1
  <2> QED BY <1>1, <2>1, SeqMonotonic DEF Numbered
<1>4. f.req = r
  BY DEF Frame
<1>5. Called(t, "idle", f)
  BY BeginTypes
<1> HIDE DEF f
<1>6. \A u \in Threads : \A i \in DOMAIN stack'[u] :
        stack'[u][i].kind = "request" => stack'[u][i].req \in started'
  <2>1. PICK n \in Nat \ {0} :
          /\ n = Len(stack[t]) /\ Top(t) = stack[t][n]
          /\ DOMAIN stack[t] = 1 .. n /\ Top(t) \in Frames
    BY <1>1, TopFrame DEF TypeInv
  <2>2. stack'[t] \in Seq(Frames) /\ \A u \in Threads \ {t} : stack'[u] = stack[u]
    BY <1>5 DEF Called, Others
  <2>3. /\ Len(stack'[t]) = n + 1
        /\ \A i \in 1 .. n + 1 :
             stack'[t][i] = IF i = n + 1 THEN f ELSE IF i = n
                            THEN [Top(t) EXCEPT !.pc = "idle"] ELSE stack[t][i]
    BY <1>5, <2>1 DEF Called
  <2>4. DOMAIN stack'[t] = 1 .. n + 1
    BY <2>2, <2>3
  <2>5. ASSUME NEW i \in 1 .. n + 1, stack'[t][i].kind = "request"
        PROVE  stack'[t][i].req \in started'
    <3>1. CASE i = n + 1
      BY <1>1, <1>4, <2>3, <3>1
    <3>2. CASE i # n + 1
      <4>1. i \in 1 .. n
        BY <3>2
      <4>2. stack'[t][i].kind = stack[t][i].kind /\ stack'[t][i].req = stack[t][i].req
        <5>1. /\ [Top(t) EXCEPT !.pc = "idle"].kind = Top(t).kind
              /\ [Top(t) EXCEPT !.pc = "idle"].req = Top(t).req
          BY <2>1 DEF Frames
        <5> QED BY <2>1, <2>3, <3>2, <5>1
      <4> QED BY <1>1, <2>1, <2>5, <4>1, <4>2 DEF Numbered
    <3> QED BY <3>1, <3>2
  <2>6. ASSUME NEW u \in Threads \ {t}, NEW i \in DOMAIN stack'[u],
               stack'[u][i].kind = "request"
        PROVE  stack'[u][i].req \in started'
    BY <1>1, <2>2, <2>6 DEF Numbered
  <2> QED BY <2>4, <2>5, <2>6
<1> QED BY <1>1, <1>2, <1>3, <1>6 DEF Numbered

-----------------------------------------------------------------------------
(* Nothing is lost or overtaken.                                           *)
LEMMA Regroup ==
  \A x, b, c \in Seq(Message) : (x \o b) \o c = x \o (b \o c)
<1> TAKE x, b, c \in Seq(Message)
<1> QED BY ConcatAssociative

LEMMA HeadFirst ==
  ASSUME NEW S, NEW s \in Seq(S), s # <<>>
  PROVE  s = <<Head(s)>> \o Tail(s)
<1>1. Len(s) \in Nat \ {0}
  BY EmptySeq
<1>2. 1 \in 1 .. Len(s) /\ Len(s) \in 1 .. Len(s)
  BY <1>1
<1>3. SubSeq(s, 1, Len(s)) = <<s[1]>> \o SubSeq(s, 2, Len(s))
  BY <1>2, SubSeqRecursiveFirst
<1> QED BY <1>3, SubSeqFull, TailIsSubSeq

LEMMA HandsEmpty ==
  ASSUME \A u \in Threads : popped[u] = NoMessage
  PROVE  InHand = <<>>
<1>1. Hands = {}
  BY DEF Hands
<1> QED BY <1>1 DEF InHand

LEMMA HandFull ==
  ASSUME NEW t \in Threads, popped[t] # NoMessage,
         \A u \in Threads \ {t} : popped[u] = NoMessage
  PROVE  InHand = <<popped[t]>>
<1>1. Hands = {popped[t]}
  BY DEF Hands
<1>2. (CHOOSE m \in Hands : TRUE) = popped[t]
  BY <1>1
<1> QED BY <1>1, <1>2 DEF InHand

LEMMA OneHand ==
  ASSUME OneDrives, TypeInv, Control, Sections, NEW t \in Threads,
         Where(t) \in DispatchPcs
  PROVE  /\ \A u \in Threads \ {t} : popped[u] = NoMessage
         /\ popped[t] # NoMessage <=> Where(t) = "process"
<1>1. "process" \in DispatchPcs
  BY DEF DispatchPcs
<1>2. \A u \in Threads \ {t} : Where(u) # "process"
  BY <1>1, OnlyOne
<1> QED BY <1>2 DEF Sections, Ready

LEMMA HandTypes ==
  ASSUME TypeInv
  PROVE  InHand \in Seq(Message)
<1>1. popped \in [Threads -> Message]
  BY DEF TypeInv, TypeOK
<1>2. Hands \subseteq Message
  BY <1>1 DEF Hands
<1>3. CASE Hands = {}
  BY <1>3, EmptySeq DEF InHand
<1>4. CASE Hands # {}
  <2>1. (CHOOSE m \in Hands : TRUE) \in Message
    BY <1>2, <1>4
  <2>2. InHand = <<CHOOSE m \in Hands : TRUE>>
    BY <1>4 DEF InHand
  <2> QED BY <2>1, <2>2
<1> QED BY <1>3, <1>4

LEMMA SameOrder ==
  ASSUME InOrder,
         UNCHANGED <<handled, popped, messages, inbound, toClient, sent>>
  PROVE  InOrder'
BY DEF InOrder, InHand, Hands

LEMMA PollOrder ==
  ASSUME TypeInv, InOrder, NEW t \in Threads, PollStep(t)
  PROVE  InOrder'
<1>1. UNCHANGED <<handled, popped, messages, sent>>
  BY DEF PollStep, ClaimList, PollSocket, ReadServer, WriteServer,
         CheckOutbound, ClearPollout, ReleaseList, inVars, netVars
<1>2. CASE UNCHANGED <<inbound, toClient>>
  BY <1>1, <1>2, SameOrder
<1>3. CASE ReadServer(t) /\ ~UNCHANGED <<inbound, toClient>>
  <2>1. PICK k \in 1 .. Len(toClient) :
          /\ inbound' = inbound \o SubSeq(toClient, 1, k)
          /\ toClient' = SubSeq(toClient, k + 1, Len(toClient))
    BY <1>3 DEF ReadServer
  <2>2. /\ handled \in Seq(Message) /\ messages \in Seq(Message)
        /\ inbound \in Seq(Message) /\ toClient \in Seq(Message)
    BY DEF TypeInv, TypeOK
  <2>3. k \in 0 .. Len(toClient)
    BY <2>2, LenProperties
  <2>4. PICK a \in Seq(Message), b \in Seq(Message) :
          toClient = a \o b /\ inbound' = inbound \o a /\ toClient' = b
    BY <2>1, <2>2, <2>3, Cut
  <2>5. handled \o InHand \o messages \in Seq(Message)
    BY <2>2, HandTypes, ConcatProperties
  <2>6. PICK x \in Seq(Message) : x = handled \o InHand \o messages
    BY <2>5
  <2>7. InHand' = InHand
    BY <1>1 DEF InHand, Hands
  <2>8. x \o inbound \o toClient = sent
    BY <2>6 DEF InOrder
  <2>9. (x \o (inbound \o a)) \o b = (x \o inbound) \o (a \o b)
    <3>1. x \o (inbound \o a) = (x \o inbound) \o a
      BY <2>2, Regroup
    <3>2. x \o inbound \in Seq(Message)
      BY <2>2, ConcatProperties
    <3>3. ((x \o inbound) \o a) \o b = (x \o inbound) \o (a \o b)
      BY <3>2, Regroup
    <3> QED BY <3>1, <3>3
  <2>10. (x \o inbound') \o toClient' = sent
    BY <2>4, <2>8, <2>9
  <2> QED BY <1>1, <2>6, <2>7, <2>10 DEF InOrder
<1>4. UNCHANGED <<inbound, toClient>> \/ ReadServer(t)
  <2>1. CASE WriteServer(t)
    BY <2>1 DEF WriteServer, inVars
  <2>2. CASE ~ReadServer(t) /\ ~WriteServer(t)
    BY <2>2 DEF PollStep, ClaimList, PollSocket, CheckOutbound, ClearPollout,
                ReleaseList, inVars, netVars
  <2> QED BY <2>1, <2>2
<1> QED BY <1>2, <1>3, <1>4

LEMMA ServerOrder ==
  ASSUME TypeInv, InOrder, Serve \/ SendEvent
  PROVE  InOrder'
<1>1. UNCHANGED <<handled, popped, messages, inbound>>
  BY DEF Serve, SendEvent, inVars
<1>2. PICK a \in Seq(Message) : toClient' = toClient \o a /\ sent' = sent \o a
  BY ServerSends
<1>3. /\ handled \in Seq(Message) /\ messages \in Seq(Message)
      /\ inbound \in Seq(Message) /\ toClient \in Seq(Message)
  BY DEF TypeInv, TypeOK
<1>4. handled \o InHand \o messages \o inbound \in Seq(Message)
  BY <1>3, HandTypes, ConcatProperties
<1>5. PICK x \in Seq(Message) : x = handled \o InHand \o messages \o inbound
  BY <1>4
<1>6. InHand' = InHand
  BY <1>1 DEF InHand, Hands
<1>7. x \o (toClient \o a) = (x \o toClient) \o a
  BY <1>3, Regroup
<1>8. x \o toClient' = sent'
  BY <1>2, <1>5, <1>7 DEF InOrder
<1> QED BY <1>1, <1>5, <1>6, <1>8 DEF InOrder

LEMMA DispatchOrder ==
  ASSUME OneDrives, TypeInv, Control, Sections, Numbered, InOrder,
         NEW t \in Threads, DispatchStep(t)
  PROVE  InOrder'
<1>1. UNCHANGED <<sent, toClient>> /\ stack[t] # <<>>
  BY DEF DispatchStep, Unbuffer, ParseOne, TestEmpty, PopMessage,
         ProcessMessage, HandlerReturn, netVars, At
<1>2. Where(t) = Top(t).pc
  BY <1>1, AtWhere DEF TypeInv
<1>3. /\ handled \in Seq(Message) /\ messages \in Seq(Message)
      /\ inbound \in Seq(Message) /\ toClient \in Seq(Message)
      /\ popped \in [Threads -> Message] /\ InHand \in Seq(Message)
  BY HandTypes DEF TypeInv, TypeOK
<1>4. <<>> \in Seq(Message)
  BY EmptySeq
<1>5. CASE UNCHANGED <<handled, popped, messages, inbound>>
  BY <1>1, <1>5, SameOrder
<1>6. handled \o InHand \in Seq(Message)
  BY <1>3, ConcatProperties
<1>7. PICK y \in Seq(Message) : y = handled \o InHand
  BY <1>6
<1>8. y \o messages \o inbound \o toClient = sent
  BY <1>7 DEF InOrder
<1>9. CASE Unbuffer(t)
  <2>1. /\ messages' = messages \o inbound /\ inbound' = <<>>
        /\ UNCHANGED <<handled, popped>>
    BY <1>9 DEF Unbuffer, Unbuffered
  <2>2. InHand' = InHand
    BY <2>1 DEF InHand, Hands
  <2>3. y \o (messages \o inbound) = (y \o messages) \o inbound
    BY <1>3, Regroup
  <2>4. messages \o inbound \in Seq(Message)
    BY <1>3, ConcatProperties
  <2>5. y \o (messages \o inbound) \in Seq(Message)
    BY <2>4, ConcatProperties
  <2>6. (y \o (messages \o inbound)) \o <<>> = (y \o messages) \o inbound
    BY <2>3, <2>5, ConcatEmptySeq
  <2>7. y \o messages' \o inbound' \o toClient' = sent'
    BY <1>1, <1>8, <2>1, <2>6
  <2> QED BY <1>7, <2>1, <2>2, <2>7 DEF InOrder
<1>10. CASE ParseOne(t) /\ inbound # <<>>
  <2>1. /\ messages' = Append(messages, Head(inbound))
        /\ inbound' = Tail(inbound)
        /\ UNCHANGED <<handled, popped>>
    BY <1>10 DEF ParseOne, Pushed
  <2>2. InHand' = InHand
    BY <2>1 DEF InHand, Hands
  <2>3. Head(inbound) \in Message /\ Tail(inbound) \in Seq(Message)
    BY <1>3, <1>10, HeadTailProperties
  <2>4. PICK h \in Message, b \in Seq(Message) :
          h = Head(inbound) /\ b = Tail(inbound)
    BY <2>3
  <2>5. inbound = <<h>> \o b
    BY <1>3, <1>10, <2>4, HeadFirst
  <2>6. <<h>> \in Seq(Message) /\ messages' = messages \o <<h>>
    BY <1>3, <2>1, <2>4, AppendIsConcat
  <2>7. (y \o (messages \o <<h>>)) \o b = (y \o messages) \o (<<h>> \o b)
    <3>1. y \o (messages \o <<h>>) = (y \o messages) \o <<h>>
      BY <1>3, <2>6, Regroup
    <3>2. y \o messages \in Seq(Message)
      BY <1>3, ConcatProperties
    <3>3. ((y \o messages) \o <<h>>) \o b = (y \o messages) \o (<<h>> \o b)
      BY <2>6, <3>2, Regroup
    <3> QED BY <3>1, <3>3
  <2>8. y \o messages' \o inbound' \o toClient' = sent'
    BY <1>1, <1>8, <2>1, <2>4, <2>5, <2>6, <2>7
  <2> QED BY <1>7, <2>1, <2>2, <2>8 DEF InOrder
<1>11. CASE PopMessage(t) /\ messages # <<>>
  <2>1. /\ Where(t) = "pop" /\ UNCHANGED <<handled, inbound>>
        /\ popped' = [popped EXCEPT ![t] = Head(messages)]
        /\ messages' = Tail(messages)
    BY <1>2, <1>11 DEF PopMessage, At
  <2>2. \A u \in Threads : popped[u] = NoMessage
    BY <2>1, OneHand DEF DispatchPcs
  <2>3. InHand = <<>>
    BY <2>2, HandsEmpty
  <2>4. Head(messages) \in Message /\ Tail(messages) \in Seq(Message)
    BY <1>3, <1>11, HeadTailProperties
  <2>5. PICK h \in Message, b \in Seq(Message) :
          h = Head(messages) /\ b = Tail(messages)
    BY <2>4
  <2>6. messages = <<h>> \o b
    BY <1>3, <1>11, <2>5, HeadFirst
  <2>7. InHand' = <<h>>
    <3>1. /\ popped'[t] = h
          /\ \A u \in Threads \ {t} : popped'[u] = NoMessage
      BY <1>3, <2>1, <2>2, <2>5
    <3>2. h # NoMessage
      <4>1. messages \in Seq(Received)
        BY DEF Numbered
      <4>2. h \in Received
        BY <1>11, <2>5, <4>1, HeadTailProperties
      <4> QED BY <4>2 DEF Received
    <3>3. Hands' = {h}
      BY <3>1, <3>2 DEF Hands
    <3>4. (CHOOSE m \in {h} : TRUE) = h
      OBVIOUS
    <3> QED BY <3>3, <3>4 DEF InHand
  <2>8. y = handled
    BY <1>3, <1>7, <2>3, ConcatEmptySeq
  <2>9. <<h>> \in Seq(Message)
    OBVIOUS
  <2>10. (handled \o <<h>>) \o b = handled \o (<<h>> \o b)
    BY <1>3, <2>9, Regroup
  <2>11. handled \o <<h>> \o messages' \o inbound' \o toClient' = sent'
    BY <1>1, <1>8, <2>1, <2>5, <2>6, <2>8, <2>10
  <2> QED BY <2>1, <2>7, <2>11 DEF InOrder
<1>12. CASE ProcessMessage(t)
  <2>1. /\ Where(t) = "process" /\ UNCHANGED <<messages, inbound>>
        /\ popped' = [popped EXCEPT ![t] = NoMessage]
        /\ handled' = Append(handled, popped[t])
    BY <1>2, <1>12 DEF ProcessMessage, At
  <2>2. /\ \A u \in Threads \ {t} : popped[u] = NoMessage
        /\ popped[t] # NoMessage
    BY <2>1, OneHand DEF DispatchPcs
  <2>3. InHand = <<popped[t]>>
    BY <2>2, HandFull
  <2>4. InHand' = <<>>
    <3>1. \A u \in Threads : popped'[u] = NoMessage
      BY <1>3, <2>1, <2>2
    <3>2. Hands' = {}
      BY <3>1 DEF Hands
    <3> QED BY <3>2 DEF InHand
  <2>5. handled' = y
    <3>1. popped[t] \in Message
      BY <1>3
    <3> QED BY <1>3, <1>7, <2>1, <2>3, <3>1, AppendIsConcat
  <2>6. y \o <<>> = y
    BY ConcatEmptySeq
  <2>7. y \o <<>> \o messages' \o inbound' \o toClient' = sent'
    BY <1>1, <1>8, <2>1, <2>6
  <2> QED BY <2>4, <2>5, <2>7 DEF InOrder
<1> QED BY <1>5, <1>9, <1>10, <1>11, <1>12
        DEF DispatchStep, ParseOne, TestEmpty, PopMessage, HandlerReturn, inVars

-----------------------------------------------------------------------------
Safe == Control /\ Sections /\ Numbered /\ NoFault /\ InOrder

LEMMA SafeInit ==
  ASSUME Init
  PROVE  Safe
<1>1. /\ stack[Dispatcher] = <<>>
      /\ \A t \in Threads \ {Dispatcher} :
           stack[t] = <<Frame("app", "idle", Nobody)>>
      /\ working = TRUE /\ popped = [t \in Threads |-> NoMessage]
      /\ started = {} /\ outbound = <<>> /\ toServer = <<>>
      /\ messages = <<>> /\ inbound = <<>> /\ toClient = <<>>
      /\ handled = <<>> /\ sent = <<>> /\ fault = "none"
  BY DEF Init, Threads
<1> DEFINE f == Frame("app", "idle", Nobody)
<1>2. f.pc = "idle" /\ f.kind = "app"
  BY DEF Frame
<1> HIDE DEF f
<1>3. <<f>> # <<>> /\ Last(<<f>>) = f /\ DOMAIN <<f>> = {1} /\ <<f>>[1] = f
  BY DEF Last
<1>4. \A t \in Threads \ {Dispatcher} : stack[t] = <<f>>
  BY <1>1 DEF f
<1>5. \A t \in Threads : Where(t) \in {"none", "idle"}
  BY <1>1, <1>2, <1>3, <1>4 DEF Where, Top
<1>6. Sections
  <2>1. \A t \in Threads : popped[t] = NoMessage
    BY <1>1
  <2> QED BY <1>1, <1>5, <2>1 DEF Sections, Ready
<1>7. Numbered
  <2>1. \A t \in Threads : \A i \in DOMAIN stack[t] :
          stack[t][i].kind # "request"
    <3>1. DOMAIN stack[Dispatcher] = {}
      BY <1>1
    <3> QED BY <1>2, <1>3, <1>4, <3>1
  <2>2. <<>> \in Seq(started) /\ <<>> \in Seq(Received)
    BY EmptySeq
  <2> QED BY <1>1, <2>1, <2>2 DEF Numbered
<1>8. InOrder
  <2>1. InHand = <<>>
    BY <1>1, HandsEmpty
  <2>2. <<>> \o <<>> = <<>>
    <3>1. <<>> \in Seq(Message)
      BY EmptySeq
    <3> QED BY <3>1, ConcatEmptySeq
  <2> QED BY <1>1, <2>1, <2>2 DEF InOrder
<1> QED BY <1>1, <1>6, <1>7, <1>8, ControlInit DEF Safe, NoFault

LEMMA SafeStep ==
  ASSUME OneDrives, TypeInv, Safe, [Next]_vars
  PROVE  Safe'
<1> USE DEF Safe
<1>1. Control'
  BY ControlStep
<1>2. ASSUME NEW t \in Threads, PollStep(t)
      PROVE  Safe'
  <2>1. Sections' /\ NoFault' /\ KeptRequests
    BY <1>2, PollSafe
  <2>2. Numbered' /\ InOrder'
    BY <1>2, <2>1, PollNumbered, PollOrder
  <2> QED BY <1>1, <2>1, <2>2
<1>3. ASSUME NEW t \in Threads, DispatchStep(t)
      PROVE  Safe'
  <2>1. Sections' /\ NoFault' /\ KeptRequests
    BY <1>3, DispatchSafe
  <2>2. Numbered' /\ InOrder'
    BY <1>3, <2>1, DispatchNumbered, DispatchOrder
  <2> QED BY <1>1, <2>1, <2>2
<1>4. ASSUME NEW t \in Threads,
             RequestStep(t) \/ LoopStep(t) \/ Stop(t) \/ SpuriousWake(t)
      PROVE  Safe'
  <2>1. Sections' /\ NoFault' /\ KeptRequests
    BY <1>4, LoopSafe, OtherSafe
  <2>2. Numbered'
    BY <1>4, <2>1, OtherNumbered
  <2>3. InOrder'
    <3>1. UNCHANGED <<handled, popped, messages, inbound, toClient, sent>>
      <4>1. CASE RequestStep(t)
        BY <4>1 DEF RequestStep, StoreSeq, Serialise, SetPollout,
               RegisterReply, WaitReturn, ChooseWait, EnterPoll, LeavePoll,
               inVars, netVars
      <4>2. CASE LoopStep(t)
        BY <4>2 DEF LoopStep, BeginRun, RunLoop, ResetStopping, Finish,
               BeginThreaded, CreateDispatcher, PollerLoop, DecideSignal,
               SignalDispatcher, JoinDispatcher, DispatcherLoop,
               DispatcherWait, inVars, netVars
      <4>3. CASE Stop(t) \/ SpuriousWake(t)
        BY <4>3 DEF Stop, SpuriousWake, inVars, netVars
      <4> QED BY <1>4, <4>1, <4>2, <4>3
    <3> QED BY <3>1, SameOrder
  <2> QED BY <1>1, <2>1, <2>2, <2>3
<1>5. ASSUME NEW t \in Threads, NEW r \in Requests, BeginRequest(t, r)
      PROVE  Safe'
  <2>1. Sections' /\ NoFault' /\ Numbered'
    BY <1>5, BeginSafe, BeginNumbered
  <2>2. InOrder'
    BY <1>5, SameOrder DEF BeginRequest, inVars, netVars
  <2> QED BY <1>1, <2>1, <2>2
<1>6. CASE Serve \/ SendEvent
  <2>1. Sections' /\ NoFault' /\ KeptRequests
    BY <1>6, ServerSafe
  <2>2. Numbered' /\ InOrder'
    BY <1>6, <2>1, ServerNumbered, ServerOrder
  <2> QED BY <1>1, <2>1, <2>2
<1>7. CASE UNCHANGED vars
  <2>1. UNCHANGED <<stack, working, revents, toClient, toServer, messages,
                    popped, started, seqOf, outbound, inbound, handled, sent,
                    fault>>
    BY <1>7 DEF vars, seqVars, pollVars, inVars, netVars
  <2>2. (\A u \in Threads : Where(u)' = Where(u)) /\ KeptRequests
    BY <2>1, StandingWhere
  <2>3. Sections'
    BY <2>1, <2>2, QuietSections DEF Quiet
  <2>4. Numbered'
    BY <2>1, <2>2, SameNumbered DEF Numbered
  <2> QED BY <1>1, <2>1, <2>3, <2>4, SameOrder DEF NoFault
<1> QED BY <1>2, <1>3, <1>4, <1>5, <1>6, <1>7 DEF Next, ThreadStep

(* All of this together is inductive.                                      *)
LEMMA AlwaysSafe ==
  ASSUME OneDrives
  PROVE  Spec => [](TypeInv /\ Safe)
<1>1. Init => TypeInv /\ Safe
  BY TypeInit, SafeInit
<1>2. TypeInv /\ Safe /\ [Next]_vars => TypeInv' /\ Safe'
  BY TypeStep, SafeStep
<1> QED BY <1>1, <1>2, PTL DEF Spec

(* Nothing the server sends is lost, duplicated or overtaken on its way to *)
(* processMessage, however many requests are made and events arrive.       *)
THEOREM OrderIsKept ==
  ASSUME OneDrives
  PROVE  Spec => []InOrder
<1>1. TypeInv /\ Safe => InOrder
  BY DEF Safe
<1> QED BY <1>1, AlwaysSafe, PTL

(* doPoll never copies into a list another call has taken, nothing is      *)
(* taken from an empty list of messages, the socket is never read or       *)
(* written when it would block, and run and runThreaded never abort.       *)
THEOREM NeverFaults ==
  ASSUME OneDrives
  PROVE  Spec => []NoFault
<1>1. TypeInv /\ Safe => NoFault
  BY DEF Safe
<1> QED BY <1>1, AlwaysSafe, PTL

-----------------------------------------------------------------------------
(***************************************************************************)
(* From here on no other application thread makes requests: Main may wait  *)
(* for replies as deep in handlers as it likes, in run, in poll and beside *)
(* the threads of runThreaded.  Then no reply is lost, and the connection  *)
(* keeps the contract of RequestReply.                                     *)
(***************************************************************************)
(* One thread at a time is anywhere else than at rest or in the poller.    *)
Active(t) ==
  /\ stack[t] # <<>> /\ Top(t).kind # "poller"
  /\ Top(t).kind = "app" => t \in Callers

LEMMA OneActive ==
  ASSUME Apps \cap Callers = {}, TypeInv, Control,
         NEW t \in Threads, NEW u \in Threads, Active(t), Active(u)
  PROVE  t = u
<1>1. Main \in Threads /\ Dispatcher \in Threads /\ Main # Dispatcher
  BY ThreadsAssumption DEF Threads
<1>2. ASSUME NEW v \in Apps, v \in Threads, Active(v)
      PROVE  FALSE
  <2>1. v # Main /\ v # Dispatcher
    BY ThreadsAssumption
  <2>2. PICK n \in Nat \ {0} : n = Len(stack[v])
    BY <1>2, TopFrame DEF Active, TypeInv
  <2>3. Placed(v, n) /\ Top(v) = stack[v][n]
    BY <1>2, <2>2, TopProper, TopFrame DEF Active, TypeInv
  <2>4. CASE n = 1
    <3>1. Top(v).kind = "app"
      BY <2>1, <2>3, <2>4 DEF Placed
    <3> QED BY <1>2, <3>1 DEF Active
  <2>5. CASE n # 1
    <3>1. Calls(v)
      BY <2>2, <2>5, Depths DEF Calls
    <3>2. v \in Callers
      BY <1>2, <2>1, <3>1, SecondFrame DEF Control, Callings
    <3> QED BY <1>2, <3>2
  <2> QED BY <2>4, <2>5
<1>3. ASSUME Active(Dispatcher), Active(Main)
      PROVE  FALSE
  <2>1. Calls(Main) /\ stack[Main][2].kind = "poller"
    BY <1>3 DEF Active, Control, Loops, InLoop, Calls
  <2>2. PICK n \in Nat \ {0} : n = Len(stack[Main]) /\ Top(Main) = stack[Main][n]
    BY <1>1, <1>3, TopFrame DEF Active, TypeInv
  <2>3. DOMAIN stack[Main] = 1 .. n
    <3>1. stack[Main] \in Seq(Frames)
      BY <1>1 DEF TypeInv, TypeOK
    <3> QED BY <2>2, <3>1
  <2>4. 2 \in DOMAIN stack[Main]
    <3>1. n >= 2
      BY <2>1, <2>2 DEF Calls
    <3> QED BY <2>2, <2>3, <3>1
  <2>5. Placed(Main, 2)
    BY <1>1, <2>4 DEF TypeInv, Stacked, StackOK
  <2>6. n = 2
    BY <2>1, <2>2, <2>5 DEF Placed
  <2> QED BY <1>3, <2>1, <2>2, <2>6 DEF Active
<1> QED BY <1>2, <1>3 DEF Threads

-----------------------------------------------------------------------------
(* On its way from the constructor of the message to registerReply.        *)
Sending == {"store", "serialise", "pollout", "register"}
Sends(t, r) ==
  /\ Where(t) \in Sending /\ Top(t).kind = "request" /\ Top(t).req = r

SendersStay ==
  \A u \in Threads : Where(u) \in Sending => stack'[u] = stack[u]

LEMMA AtSending ==
  ASSUME TypeInv, NEW t \in Threads, Where(t) \in Sending
  PROVE  stack[t] # <<>> /\ Top(t).kind = "request" /\ Active(t)
<1>1. stack[t] # <<>> /\ Top(t).pc \in Sending
  BY DEF Where, Sending
<1>2. Proper(Top(t)) /\ Top(t) \in Frames
  BY <1>1, TopProper, TopFrame DEF TypeInv
<1>3. \A k \in {"app", "handler", "run", "poller", "dispatcher"} :
        KindPcs[k] \cap Sending = {}
  BY DEF KindPcs, PollPcs, DispatchPcs, Sending
<1>4. Top(t).kind = "request"
  BY <1>1, <1>2, <1>3 DEF Proper, Frames
<1> QED BY <1>1, <1>4 DEF Active

(* What a step of t does to its own stack leaves the others' alone.        *)
LEMMA Aside ==
  ASSUME NEW t \in Threads, TypeOK
  PROVE  /\ \A pc : Goto(t, pc) => Others(t)
         /\ \A pc, f : Call(t, pc, f) => Others(t)
         /\ Return(t) => Others(t)
         /\ \A s : stack' = [stack EXCEPT ![t] = s] => Others(t)
         /\ UNCHANGED stack => Others(t)
BY DEF Goto, Call, Return, Others, TypeOK

LEMMA PollAside ==
  ASSUME TypeOK, NEW t \in Threads, PollStep(t)
  PROVE  Others(t) /\ stack[t] # <<>> /\ Where(t) \notin Sending
<1>1. stack[t] # <<>> /\ Top(t).pc \in PollPcs
  BY DEF PollStep, ClaimList, PollSocket, ReadServer, WriteServer,
         CheckOutbound, ClearPollout, ReleaseList, At, PollPcs
<1>2. Others(t)
  BY Aside DEF PollStep, ClaimList, PollSocket, ReadServer, WriteServer,
         CheckOutbound, ClearPollout, ReleaseList
<1> QED BY <1>1, <1>2 DEF Where, PollPcs, Sending

LEMMA DispatchAside ==
  ASSUME TypeOK, NEW t \in Threads, DispatchStep(t)
  PROVE  Others(t) /\ stack[t] # <<>> /\ Where(t) \notin Sending
<1>1. stack[t] # <<>> /\ Top(t).pc \in DispatchPcs \cup {"idle"}
  BY DEF DispatchStep, Unbuffer, ParseOne, TestEmpty, PopMessage,
         ProcessMessage, HandlerReturn, At, DispatchPcs
<1>2. Others(t)
  BY Aside DEF DispatchStep, Unbuffer, ParseOne, TestEmpty, PopMessage,
         ProcessMessage, HandlerReturn
<1> QED BY <1>1, <1>2 DEF Where, DispatchPcs, Sending

LEMMA RequestAside ==
  ASSUME TypeOK, NEW t \in Threads, RequestStep(t)
  PROVE  Others(t) /\ stack[t] # <<>>
<1>1. stack[t] # <<>>
  BY DEF RequestStep, StoreSeq, Serialise, SetPollout, RegisterReply,
         WaitReturn, ChooseWait, EnterPoll, LeavePoll, At
<1>2. CASE EnterPoll(t)
  BY <1>1, <1>2 DEF EnterPoll, Others, TypeOK
<1>3. CASE WaitReturn(t)
  BY <1>1, <1>3, Aside DEF WaitReturn
<1>4. CASE StoreSeq(t) \/ Serialise(t) \/ SetPollout(t) \/ RegisterReply(t)
  BY <1>1, <1>4, Aside DEF StoreSeq, Serialise, SetPollout, RegisterReply
<1>5. CASE ChooseWait(t) \/ LeavePoll(t)
  BY <1>1, <1>5, Aside DEF ChooseWait, LeavePoll
<1> QED BY <1>1, <1>2, <1>3, <1>4, <1>5 DEF RequestStep

(* The poller creates and wakes the dispatcher, which is then in no        *)
(* request; nothing else touches another thread's stack.                   *)
LEMMA LoopSenders ==
  ASSUME TypeInv, Control, NEW t \in Threads, LoopStep(t)
  PROVE  SendersStay
<1>1. stack[t] # <<>> /\ Top(t).pc \notin Sending
  BY DEF LoopStep, BeginRun, RunLoop, ResetStopping, Finish, BeginThreaded,
         CreateDispatcher, PollerLoop, DecideSignal, SignalDispatcher,
         JoinDispatcher, DispatcherLoop, DispatcherWait, At, Sending
<1>2. Where(t) \notin Sending
  BY <1>1 DEF Where
<1>3. CASE CreateDispatcher(t)
  <2>1. t = Main /\ t # Dispatcher /\ Len(stack[t]) = 2
    BY <1>3, PollerIsMain DEF CreateDispatcher, At
  <2>2. stack[Main][2].pc = "create"
    BY <1>1, <1>3, <2>1, TopFrame DEF CreateDispatcher, At, TypeInv
  <2>3. stack[Dispatcher] = <<>>
    BY <2>2 DEF Control, Loops, LoopAt
  <2>4. Where(Dispatcher) \notin Sending
    BY <2>3 DEF Where, Sending
  <2>5. \A u \in Threads \ {t, Dispatcher} : stack'[u] = stack[u]
    BY <1>3 DEF CreateDispatcher, TypeInv, TypeOK
  <2> QED BY <1>2, <2>4, <2>5 DEF SendersStay
<1>4. CASE SignalDispatcher(t)
  <2>1. t # Dispatcher /\ Dispatcher \in Threads
    BY <1>4, PollerIsMain DEF SignalDispatcher, At, Threads
  <2>2. \A u \in Threads \ {t, Dispatcher} : stack'[u] = stack[u]
    BY <1>4 DEF SignalDispatcher, TypeInv, TypeOK
  <2>3. CASE Asleep
    <3>1. Where(Dispatcher) \notin Sending
      BY <2>3 DEF Asleep, Where, Sending
    <3> QED BY <1>2, <2>2, <3>1 DEF SendersStay
  <2>4. CASE ~Asleep
    <3>1. stack'[Dispatcher] = stack[Dispatcher]
      BY <1>4, <2>1, <2>4 DEF SignalDispatcher, TypeInv, TypeOK
    <3> QED BY <1>2, <2>2, <3>1 DEF SendersStay
  <2> QED BY <2>3, <2>4
<1>5. CASE ~(CreateDispatcher(t) \/ SignalDispatcher(t))
  <2>1. Others(t)
    BY <1>5, Aside DEF LoopStep, BeginRun, RunLoop, ResetStopping, Finish,
         BeginThreaded, PollerLoop, DecideSignal, JoinDispatcher,
         DispatcherLoop, DispatcherWait, TypeInv
  <2> QED BY <1>2, <2>1 DEF SendersStay, Others
<1> QED BY <1>3, <1>4, <1>5

LEMMA StopSenders ==
  ASSUME TypeInv, NEW t \in Threads, Stop(t) \/ SpuriousWake(t)
  PROVE  SendersStay
<1>1. stack[t] # <<>> /\ Top(t).pc \in {"idle", "asleep"}
  BY DEF Stop, SpuriousWake, At
<1>2. Where(t) \notin Sending
  BY <1>1 DEF Where, Sending
<1>3. Others(t)
  BY Aside DEF Stop, SpuriousWake, TypeInv
<1> QED BY <1>2, <1>3 DEF SendersStay, Others

(* What each kind of step means to requests on their way.                  *)
LEMMA QuietSenders ==
  ASSUME TypeInv, Control, NEW t \in Threads,
         PollStep(t) \/ DispatchStep(t) \/ LoopStep(t) \/ Stop(t)
           \/ SpuriousWake(t)
  PROVE  SendersStay
<1>1. CASE PollStep(t)
  BY <1>1, PollAside DEF SendersStay, Others, TypeInv
<1>2. CASE DispatchStep(t)
  BY <1>2, DispatchAside DEF SendersStay, Others, TypeInv
<1> QED BY <1>1, <1>2, LoopSenders, StopSenders

-----------------------------------------------------------------------------
(* Sequence numbers.  Between the load and the store of nextSeq one        *)
(* request has the next number; otherwise all numbers have been passed.    *)
Fresh ==
  /\ \A t \in Threads : Where(t) = "store" => seqOf[Top(t).req] = nextSeq + 1
  /\ \A r \in started : seqOf[r] <= nextSeq + 1
  /\ (\A t \in Threads : Where(t) # "store") =>
       \A r \in started : seqOf[r] <= nextSeq
  /\ UniqueSeqs

StoresStay ==
  \A u \in Threads : Where(u) = "store" => Where(u)' = "store"

LEMMA StoresKept ==
  ASSUME TypeInv, TypeInv', KeptRequests, NEW u \in Threads,
         Where(u)' = "store"
  PROVE  Where(u) = "store" /\ Top(u)'.req = Top(u).req
<1>1. stack'[u] # <<>> /\ Top(u)'.pc = "store"
  BY DEF Where
<1>2. PICK m \in Nat \ {0} :
        /\ m = Len(stack'[u]) /\ Top(u)' = stack'[u][m]
        /\ DOMAIN stack'[u] = 1 .. m
  <2>1. stack'[u] \in Seq(Frames)
    BY DEF TypeInv, TypeOK
  <2>2. Len(stack'[u]) \in Nat \ {0}
    BY <1>1, <2>1, EmptySeq
  <2> QED BY <2>1, <2>2 DEF Top, Last
<1>3. stack'[u][m].kind = "request"
  <2>1. Proper(stack'[u][m]) /\ stack'[u][m] \in Frames
    <3>1. m \in DOMAIN stack'[u]
      BY <1>2
    <3>2. stack'[u] \in Seq(Frames)
      BY DEF TypeInv, TypeOK
    <3> QED BY <3>1, <3>2, ElementOfSeq DEF TypeInv, Stacked, StackOK, Proper
  <2>2. \A k \in {"app", "handler", "run", "poller", "dispatcher"} :
          "store" \notin KindPcs[k]
    BY DEF KindPcs, PollPcs, DispatchPcs
  <2> QED BY <1>1, <1>2, <2>1, <2>2 DEF Proper, Frames
<1>4. /\ m \in DOMAIN stack[u] /\ stack[u][m].pc = "store"
      /\ stack'[u][m].req = stack[u][m].req
  BY <1>1, <1>2, <1>3 DEF KeptRequests
<1>5. PICK n \in Nat : n = Len(stack[u]) /\ DOMAIN stack[u] = 1 .. n
  <2>1. stack[u] \in Seq(Frames)
    BY DEF TypeInv, TypeOK
  <2> QED BY <2>1, LenProperties
<1>6. m = n
  <2>1. Placed(u, m)
    BY <1>4 DEF TypeInv, Stacked, StackOK
  <2>2. ~(m < n)
    BY <1>4, <1>5, <2>1 DEF Placed
  <2> QED BY <1>2, <1>4, <1>5, <2>2
<1>7. stack[u] # <<>> /\ Top(u) = stack[u][m]
  <2>1. stack[u] # <<>>
    BY <1>4, <1>5, <1>6
  <2> QED BY <1>5, <1>6, <2>1 DEF Top, Last
<1> QED BY <1>2, <1>4, <1>7 DEF Where

LEMMA SameFresh ==
  ASSUME TypeInv, TypeInv', KeptRequests, StoresStay, Fresh,
         UNCHANGED <<started, nextSeq, seqOf>>
  PROVE  Fresh'
<1>1. \A u \in Threads : Where(u)' = "store" =>
        Where(u) = "store" /\ Top(u)'.req = Top(u).req
  BY StoresKept
<1>2. (\A u \in Threads : Where(u)' # "store") =>
        \A u \in Threads : Where(u) # "store"
  BY DEF StoresStay
<1> QED BY <1>1, <1>2 DEF Fresh, UniqueSeqs

LEMMA OneStore ==
  ASSUME Apps \cap Callers = {}, TypeInv, Control, NEW t \in Threads,
         Active(t)
  PROVE  \A u \in Threads \ {t} : Where(u) \notin Sending
BY OneActive, AtSending

(* The number is stored.                                                   *)
LEMMA StoreFresh ==
  ASSUME Apps \cap Callers = {}, TypeInv, Control, Fresh, NEW t \in Threads,
         StoreSeq(t)
  PROVE  Fresh'
<1>1. /\ stack[t] # <<>> /\ Top(t).pc = "store" /\ Top(t).kind = "request"
      /\ nextSeq' = seqOf[Top(t).req] /\ Goto(t, "serialise")
      /\ UNCHANGED <<started, seqOf>>
  BY DEF StoreSeq, At
<1>2. Where(t) = "store" /\ nextSeq' = nextSeq + 1
  BY <1>1 DEF Fresh, Where
<1>3. \A u \in Threads \ {t} : Where(u) # "store"
  <2>1. Active(t) /\ "store" \in Sending
    BY <1>2, AtSending DEF Sending
  <2> QED BY <2>1, OneStore
<1>4. Where(t)' = "serialise" /\ OthersWhere(t)
  <2>1. "serialise" \in Pcs \ {"store"}
    BY DEF Pcs
  <2> QED BY <1>1, <2>1, GotoWhere DEF TypeInv
<1>5. \A u \in Threads : Where(u)' # "store"
  BY <1>3, <1>4 DEF OthersWhere
<1>6. \A r \in started : seqOf[r] \in Nat
  BY DEF TypeInv, TypeOK
<1>7. nextSeq \in Nat
  BY DEF TypeInv, TypeOK
<1>8. \A r \in started : seqOf[r] <= nextSeq' /\ seqOf[r] <= nextSeq' + 1
  BY <1>2, <1>6, <1>7 DEF Fresh
<1> QED BY <1>1, <1>5, <1>8 DEF Fresh, UniqueSeqs

(* A request is begun: no other is between load and store.                 *)
LEMMA BeginFresh ==
  ASSUME Apps \cap Callers = {}, TypeInv, Control, Fresh, NEW t \in Threads,
         NEW r \in Requests, BeginRequest(t, r)
  PROVE  /\ Fresh' /\ \A q \in started : seqOf[q] <= nextSeq
         /\ Where(t)' = "store" /\ Top(t)' = Frame("request", "store", r)
         /\ Others(t) /\ Active(t)
<1> DEFINE f == Frame("request", "store", r)
<1>1. /\ stack[t] # <<>> /\ started' = started \cup {r} /\ r \notin started
      /\ Top(t).kind \in {"app", "handler"} /\ Top(t).pc = "idle"
      /\ Top(t).kind = "app" => t \in Callers
      /\ seqOf' = [seqOf EXCEPT ![r] = nextSeq + 1]
      /\ UNCHANGED nextSeq
  BY DEF BeginRequest, At
<1>2. Active(t)
  BY <1>1 DEF Active
<1>3. f.req = r /\ f.pc = "store"
  BY DEF Frame
<1>4. Called(t, "idle", f)
  BY BeginTypes
<1>5. Others(t) /\ Top(t)' = f /\ stack'[t] # <<>>
  <2>1. PICK n \in Nat \ {0} : n = Len(stack[t])
    BY <1>1, TopFrame DEF TypeInv
  <2>2. stack'[t] \in Seq(Frames) /\ Len(stack'[t]) = n + 1
        /\ stack'[t][n + 1] = f
    BY <1>4, <2>1 DEF Called
  <2>3. stack'[t] # <<>>
    BY <2>2, EmptySeq
  <2>4. Top(t)' = stack'[t][Len(stack'[t])]
    BY <2>3 DEF Top, Last
  <2> QED BY <1>4, <2>2, <2>3, <2>4 DEF Called
<1> HIDE DEF f
<1>6. Where(t)' = "store" /\ \A u \in Threads \ {t} : Where(u)' = Where(u)
  BY <1>3, <1>5 DEF Where, Others, Top
<1>7. \A u \in Threads : Where(u) # "store"
  <2>1. "store" \in Sending /\ Where(t) = "idle"
    BY <1>1 DEF Sending, Where
  <2> QED BY <1>2, <2>1, OneStore
<1>8. \A q \in started : seqOf[q] <= nextSeq
  BY <1>7 DEF Fresh
<1>9. nextSeq \in Nat /\ seqOf \in [Requests -> Nat] /\ started \subseteq Requests
  BY DEF TypeInv, TypeOK
<1>10. /\ \A q \in started : seqOf'[q] = seqOf[q] /\ seqOf[q] \in Nat
       /\ seqOf'[r] = nextSeq + 1
  BY <1>1, <1>9
<1>11. \A q \in started' : seqOf'[q] <= nextSeq + 1
  BY <1>1, <1>8, <1>9, <1>10
<1>12. UniqueSeqs'
  <2>1. \A q \in started : seqOf[q] # nextSeq + 1
    BY <1>8, <1>9, <1>10
  <2> QED BY <1>1, <1>10, <2>1 DEF Fresh, UniqueSeqs
<1>13. Fresh'
  BY <1>1, <1>3, <1>5, <1>6, <1>7, <1>10, <1>11, <1>12 DEF Fresh
<1> QED BY <1>2, <1>5, <1>6, <1>8, <1>13 DEF f

-----------------------------------------------------------------------------
(* Requests and replies.  What is registered, has a reply or has returned  *)
(* was begun, and was answered under its own number; and as long as a      *)
(* request has no reply it is registered or about to be.                   *)
Replied ==
  /\ \A m \in Range(sent) :
       m.op = "reply" => \E q \in started : m.seq = seqOf[q]
  /\ \A s \in DOMAIN replies :
       replies[s] \in started /\ seqOf[replies[s]] = s
  /\ got \subseteq started
  /\ \A r \in got : Reply(seqOf[r]) \in Range(sent)
  /\ returned \subseteq got

Expected(r) == seqOf[r] \in DOMAIN replies /\ replies[seqOf[r]] = r

Awaited ==
  \A r \in started :
    r \in got \/ Expected(r) \/ \E t \in Threads : Sends(t, r)

LEMMA SameReplied ==
  ASSUME Replied,
         UNCHANGED <<started, seqOf, replies, got, returned, sent>>
  PROVE  Replied'
BY DEF Replied

LEMMA SameAwaited ==
  ASSUME Awaited, SendersStay, UNCHANGED <<started, seqOf, replies>>,
         got \subseteq got'
  PROVE  Awaited'
<1>1. ASSUME NEW u \in Threads, NEW r \in started, Sends(u, r)
      PROVE  Sends(u, r)'
  <2>1. stack'[u] = stack[u]
    BY <1>1 DEF Sends, SendersStay
  <2> QED BY <1>1, <2>1 DEF Sends, Where, Top
<1> QED BY <1>1 DEF Awaited, Expected

LEMMA SameLost ==
  ASSUME NoLostReply, UNCHANGED <<started, seqOf, handled>>,
         got \subseteq got'
  PROVE  NoLostReply'
BY DEF NoLostReply

(* What is or was in a hand was sent.                                      *)
LEMMA OnTheWay ==
  ASSUME TypeInv, InOrder
  PROVE  /\ Range(handled) \subseteq Range(sent)
         /\ Range(InHand) \subseteq Range(sent)
<1>1. /\ handled \in Seq(Message) /\ InHand \in Seq(Message)
      /\ messages \in Seq(Message) /\ inbound \in Seq(Message)
      /\ toClient \in Seq(Message)
  BY HandTypes DEF TypeInv, TypeOK
<1>2. PICK a \in Seq(Message) : a = handled \o InHand
  BY <1>1, ConcatProperties
<1>3. PICK b \in Seq(Message) : b = a \o messages
  BY <1>1, ConcatProperties
<1>4. PICK c \in Seq(Message) : c = b \o inbound
  BY <1>1, ConcatProperties
<1>5. sent = c \o toClient
  BY <1>2, <1>3, <1>4 DEF InOrder
<1>6. Range(a) = Range(handled) \cup Range(InHand)
  BY <1>1, <1>2, RangeConcatenation
<1>7. Range(b) = Range(a) \cup Range(messages)
  BY <1>1, <1>3, RangeConcatenation
<1>8. Range(c) = Range(b) \cup Range(inbound)
  BY <1>1, <1>4, RangeConcatenation
<1>9. Range(sent) = Range(c) \cup Range(toClient)
  BY <1>1, <1>5, RangeConcatenation
<1> QED BY <1>6, <1>7, <1>8, <1>9

LEMMA OneMore ==
  ASSUME NEW S, NEW s \in Seq(S), NEW e \in S
  PROVE  Range(Append(s, e)) = Range(s) \cup {e}
<1>1. <<e>> \in Seq(S) /\ Append(s, e) = s \o <<e>>
  BY AppendIsConcat
<1>2. Range(<<e>>) = {<<e>>[i] : i \in 1 .. Len(<<e>>)}
  BY <1>1, RangeEquality
<1>3. Range(<<e>>) = {e}
  BY <1>2
<1>4. Range(s \o <<e>>) = Range(s) \cup Range(<<e>>)
  BY <1>1, RangeConcatenation
<1> QED BY <1>1, <1>3, <1>4

(* A message is processed: the reply to a request that is begun reaches    *)
(* it, because nothing is between sendMessage and registerReply now.       *)
LEMMA ProcessReplies ==
  ASSUME Apps \cap Callers = {}, TypeInv, Control, Sections, InOrder,
         Replied, Awaited, NoLostReply, NEW t \in Threads, ProcessMessage(t)
  PROVE  Replied' /\ Awaited' /\ NoLostReply'
<1>1. /\ stack[t] # <<>> /\ Top(t).kind \in Dispatching
      /\ Top(t).pc = "process"
      /\ handled' = Append(handled, popped[t])
      /\ UNCHANGED <<started, seqOf, replies, returned, sent>>
  BY DEF ProcessMessage, At, seqVars, netVars
<1>2. PICK m \in Message : m = popped[t]
  BY DEF TypeInv, TypeOK
<1>3. got' = IF m.op = "event" THEN got ELSE Delivered(m)
  BY <1>2 DEF ProcessMessage
<1>4. Where(t) = "process" /\ Active(t)
  BY <1>1 DEF Where, Active, Dispatching
<1>5. m \in Range(sent)
  <2>1. OneDrives /\ "process" \in DispatchPcs
    BY DEF OneDrives, DispatchPcs
  <2>2. InHand = <<m>>
    BY <1>2, <1>4, <2>1, OneHand, HandFull
  <2>3. m \in Range(InHand)
    <3>1. 1 \in DOMAIN <<m>> /\ <<m>>[1] = m
      OBVIOUS
    <3> QED BY <2>2, <3>1 DEF Range
  <2> QED BY <2>3, OnTheWay
<1>6. m.op = "reply" => m = Reply(m.seq)
  BY DEF Message, Reply
<1>7. m.op \in {"reply", "event"}
  BY DEF Message
<1>8. \/ got' = got
      \/ /\ m.op = "reply" /\ m.seq \in DOMAIN replies
         /\ got' = got \cup {replies[m.seq]}
  BY <1>3, <1>7 DEF Delivered
<1>9. Replied'
  <2>1. CASE got' = got
    BY <1>1, <2>1, SameReplied
  <2>2. CASE /\ m.op = "reply" /\ m.seq \in DOMAIN replies
             /\ got' = got \cup {replies[m.seq]}
    <3>1. replies[m.seq] \in started /\ seqOf[replies[m.seq]] = m.seq
      BY <2>2 DEF Replied
    <3>2. Reply(seqOf[replies[m.seq]]) \in Range(sent)
      BY <1>5, <1>6, <2>2, <3>1
    <3> QED BY <1>1, <2>2, <3>1, <3>2 DEF Replied
  <2> QED BY <1>8, <2>1, <2>2
<1>10. got \subseteq got'
  BY <1>8
<1>11. Awaited'
  <2>1. SendersStay
    BY QuietSenders DEF DispatchStep
  <2> QED BY <1>1, <1>10, <2>1, SameAwaited
<1>12. ASSUME NEW r \in started, Reply(seqOf[r]) \in Range(handled')
       PROVE  r \in got'
  <2>1. Range(handled') = Range(handled) \cup {m}
    <3>1. handled \in Seq(Message)
      BY DEF TypeInv, TypeOK
    <3> QED BY <1>1, <1>2, <3>1, OneMore
  <2>2. CASE Reply(seqOf[r]) \in Range(handled)
    <3>1. r \in Requests
      BY DEF TypeInv, TypeOK
    <3> QED BY <1>10, <2>2, <3>1 DEF NoLostReply
  <2>3. CASE Reply(seqOf[r]) = m
    <3>1. m.op = "reply" /\ m.seq = seqOf[r]
      BY <2>3 DEF Reply
    <3>2. CASE Expected(r)
      BY <1>3, <3>1, <3>2 DEF Expected, Delivered
    <3>3. ~ \E u \in Threads : Sends(u, r)
      <4>1. "process" \notin Sending
        BY DEF Sending
      <4> QED BY <1>4, <4>1, OneStore DEF Sends
    <3> QED BY <1>10, <3>2, <3>3 DEF Awaited
  <2> QED BY <1>12, <2>1, <2>2, <2>3
<1>13. NoLostReply'
  BY <1>1, <1>12 DEF NoLostReply
<1> QED BY <1>9, <1>11, <1>13

LEMMA RegisterReplies ==
  ASSUME TypeInv, Numbered, Fresh, Replied, Awaited, NEW t \in Threads,
         RegisterReply(t)
  PROVE  Replied' /\ Awaited'
<1>1. /\ stack[t] # <<>> /\ Top(t).kind = "request"
      /\ replies' = Registered(Top(t).req)
      /\ UNCHANGED <<started, seqOf, got, returned, sent>>
  BY DEF RegisterReply, At, seqVars, netVars
<1>2. PICK r \in started : r = Top(t).req
  <2>1. Top(t) = stack[t][Len(stack[t])] /\ Len(stack[t]) \in DOMAIN stack[t]
    BY <1>1, TopFrame DEF TypeInv
  <2> QED BY <1>1, <2>1 DEF Numbered
<1>3. /\ DOMAIN replies' = DOMAIN replies \cup {seqOf[r]}
      /\ replies'[seqOf[r]] = r
      /\ \A s \in DOMAIN replies \ {seqOf[r]} : replies'[s] = replies[s]
  BY <1>1, <1>2 DEF Registered
<1>4. Replied'
  BY <1>1, <1>3 DEF Replied
<1>5. ASSUME NEW q \in started
      PROVE  q \in got' \/ Expected(q)' \/ \E u \in Threads : Sends(u, q)'
  <2>1. Expected(r)'
    BY <1>1, <1>3 DEF Expected
  <2>2. CASE Expected(q) /\ q # r
    <3>1. seqOf[q] # seqOf[r]
      BY <2>2 DEF Fresh, UniqueSeqs
    <3> QED BY <1>1, <1>3, <2>2, <3>1 DEF Expected
  <2>3. ASSUME NEW u \in Threads, Sends(u, q), u # t
        PROVE  Sends(u, q)'
    <3>1. stack'[u] = stack[u]
      BY <2>3, RequestAside DEF RequestStep, Others, TypeInv
    <3> QED BY <2>3, <3>1 DEF Sends, Where, Top
  <2>4. Sends(t, q) => q = r
    BY <1>2 DEF Sends
  <2> QED BY <1>1, <2>1, <2>2, <2>3, <2>4 DEF Awaited
<1> QED BY <1>1, <1>4, <1>5 DEF Awaited

LEMMA ReturnReplies ==
  ASSUME TypeInv, Fresh, Replied, Awaited, NEW t \in Threads, WaitReturn(t)
  PROVE  Replied' /\ Awaited'
<1>1. /\ stack[t] # <<>> /\ Top(t).pc \in {"wait", "blocked", "again"}
      /\ Top(t).req \in got
      /\ returned' = returned \cup {Top(t).req}
      /\ replies' = DetachReply(Top(t).req)
      /\ UNCHANGED <<started, seqOf, got, sent>>
  BY DEF WaitReturn, At, Answered, seqVars, netVars
<1>2. PICK r \in got : r = Top(t).req
  BY <1>1
<1>3. /\ DOMAIN replies' = DOMAIN replies \ {seqOf[r]}
      /\ \A s \in DOMAIN replies' : replies'[s] = replies[s]
  BY <1>1, <1>2 DEF DetachReply
<1>4. Replied'
  BY <1>1, <1>2, <1>3 DEF Replied
<1>5. ASSUME NEW q \in started
      PROVE  q \in got' \/ Expected(q)' \/ \E u \in Threads : Sends(u, q)'
  <2>1. CASE Expected(q) /\ q # r
    <3>1. r \in started
      BY DEF Replied
    <3>2. seqOf[q] # seqOf[r]
      BY <2>1, <3>1 DEF Fresh, UniqueSeqs
    <3> QED BY <1>1, <1>3, <2>1, <3>2 DEF Expected
  <2>2. ASSUME NEW u \in Threads, Sends(u, q)
        PROVE  Sends(u, q)'
    <3>1. u # t
      BY <1>1, <2>2 DEF Sends, Where, Sending
    <3>2. stack'[u] = stack[u]
      BY <3>1, RequestAside DEF RequestStep, Others, TypeInv
    <3> QED BY <2>2, <3>2 DEF Sends, Where, Top
  <2> QED BY <1>1, <1>2, <2>1, <2>2 DEF Awaited
<1> QED BY <1>1, <1>4, <1>5 DEF Awaited

(* On the way to registerReply, and in the loop of wait.                   *)
LEMMA GoesOnSending ==
  ASSUME TypeInv, NEW t \in Threads, stack[t] # <<>>,
         NEW to \in Sending \ {"store"}, Goto(t, to), NEW r, Sends(t, r)
  PROVE  Sends(t, r)'
<1> DEFINE g == [Top(t) EXCEPT !.pc = to]
<1>1. to \in Pcs \ {"store"}
  BY DEF Sending, Pcs
<1>2. Top(t) \in Frames
  BY TopFrame DEF TypeInv
<1>3. g.kind = Top(t).kind /\ g.req = Top(t).req
  BY <1>2 DEF Frames
<1>4. Moved(t, g)
  BY <1>1, GotoMoves DEF TypeInv
<1> HIDE DEF g
<1>5. Top(t)' = g
  <2>1. PICK n \in Nat \ {0} : n = Len(stack[t])
    BY TopFrame DEF TypeInv
  <2>2. stack'[t] \in Seq(Frames) /\ Len(stack'[t]) = n /\ stack'[t][n] = g
    BY <1>4, <2>1 DEF Moved, NewTop
  <2>3. stack'[t] # <<>>
    BY <2>2, EmptySeq
  <2> QED BY <2>2, <2>3 DEF Top, Last
<1>6. Where(t)' = to
  BY <1>1, GotoWhere DEF TypeInv
<1> QED BY <1>3, <1>5, <1>6 DEF Sends

LEMMA WaitingReplies ==
  ASSUME TypeInv, Replied, Awaited, NEW t \in Threads,
         \/ StoreSeq(t) \/ Serialise(t) \/ SetPollout(t) \/ ChooseWait(t)
         \/ EnterPoll(t) \/ LeavePoll(t)
  PROVE  Replied' /\ Awaited'
<1>1. UNCHANGED <<started, seqOf, replies, got, returned, sent>>
  BY DEF StoreSeq, Serialise, SetPollout, ChooseWait, EnterPoll, LeavePoll,
         seqVars, replyVars, netVars
<1>2. stack[t] # <<>> /\ Others(t)
  BY RequestAside DEF RequestStep, TypeInv
<1>3. ASSUME NEW r, Sends(t, r)
      PROVE  Sends(t, r)'
  <2>1. CASE StoreSeq(t) \/ Serialise(t) \/ SetPollout(t)
    <3>1. \E to \in Sending \ {"store"} : Goto(t, to)
      BY <2>1 DEF StoreSeq, Serialise, SetPollout, Sending
    <3> QED BY <1>2, <1>3, <3>1, GoesOnSending
  <2>2. CASE ChooseWait(t) \/ EnterPoll(t) \/ LeavePoll(t)
    <3>1. Top(t).pc \in {"wait", "again", "leave"}
      BY <2>2 DEF ChooseWait, EnterPoll, LeavePoll, At
    <3> QED BY <1>2, <1>3, <3>1 DEF Sends, Where, Sending
  <2> QED BY <2>1, <2>2
<1>4. \A u \in Threads, r \in started : Sends(u, r) => Sends(u, r)'
  BY <1>2, <1>3 DEF Others, Sends, Where, Top
<1>5. Awaited'
  BY <1>1, <1>4 DEF Awaited, Expected
<1> QED BY <1>1, <1>5, SameReplied

LEMMA RequestLost ==
  ASSUME NoLostReply, NEW t \in Threads, RequestStep(t)
  PROVE  NoLostReply'
<1>1. UNCHANGED <<started, seqOf, handled, got>>
  BY DEF RequestStep, StoreSeq, Serialise, SetPollout, RegisterReply,
         WaitReturn, ChooseWait, EnterPoll, LeavePoll, seqVars, inVars,
         replyVars
<1> QED BY <1>1, SameLost

LEMMA RequestReplies ==
  ASSUME TypeInv, Numbered, Fresh, Replied, Awaited, NoLostReply,
         NEW t \in Threads, RequestStep(t)
  PROVE  Replied' /\ Awaited' /\ NoLostReply'
BY RegisterReplies, ReturnReplies, WaitingReplies, RequestLost
   DEF RequestStep

(* A new request has a number that no reply has had.                       *)
LEMMA BeginReplies ==
  ASSUME Apps \cap Callers = {}, TypeInv, Control, InOrder, Fresh, Replied,
         Awaited, NoLostReply, NEW t \in Threads, NEW r \in Requests,
         BeginRequest(t, r)
  PROVE  Replied' /\ Awaited' /\ NoLostReply' /\ Reply(seqOf'[r]) \notin Range(sent)
<1>1. /\ started' = started \cup {r} /\ r \notin started
      /\ seqOf' = [seqOf EXCEPT ![r] = nextSeq + 1]
      /\ Where(t) \notin Sending
      /\ UNCHANGED <<handled, replies, got, returned, sent>>
  BY DEF BeginRequest, At, Where, Sending, inVars, replyVars, netVars
<1>2. /\ \A q \in started : seqOf[q] <= nextSeq
      /\ Active(t) /\ Where(t)' = "store"
      /\ Top(t)' = Frame("request", "store", r)
  BY BeginFresh
<1>3. /\ nextSeq \in Nat /\ seqOf \in [Requests -> Nat]
      /\ started \subseteq Requests
  BY DEF TypeInv, TypeOK
<1>4. /\ \A q \in started : q # r /\ seqOf'[q] = seqOf[q]
      /\ seqOf'[r] = nextSeq + 1
  BY <1>1, <1>3
<1>5. Replied'
  BY <1>1, <1>4 DEF Replied
<1>6. Sends(t, r)'
  BY <1>2 DEF Sends, Frame, Sending
<1>7. ASSUME NEW q \in started
      PROVE  q \in got \/ Expected(q)'
  <2>1. ~ \E u \in Threads : Sends(u, q)
    BY <1>1, <1>2, OneStore DEF Sends
  <2> QED BY <1>1, <1>4, <2>1 DEF Awaited, Expected
<1>8. Awaited'
  BY <1>1, <1>6, <1>7 DEF Awaited
<1>9. Reply(seqOf'[r]) \notin Range(sent)
  <2>1. SUFFICES ASSUME NEW m \in Range(sent), m = Reply(seqOf'[r])
                 PROVE  FALSE
    OBVIOUS
  <2>2. m.op = "reply" /\ m.seq = nextSeq + 1
    BY <1>4, <2>1 DEF Reply
  <2>3. PICK q \in started : nextSeq + 1 = seqOf[q]
    BY <2>2 DEF Replied
  <2> QED BY <1>2, <1>3, <2>3
<1>10. NoLostReply'
  BY <1>1, <1>4, <1>9, OnTheWay DEF NoLostReply
<1> QED BY <1>5, <1>8, <1>9, <1>10

(* What the server sends: the reply to a request that was begun, under its *)
(* number, or no reply at all.                                             *)
LEMMA Sent ==
  ASSUME TypeInv, Numbered, Serve \/ SendEvent
  PROVE  \/ \E r \in started \ Failing :
              Serve /\ Range(sent') = Range(sent) \cup {Reply(seqOf[r])}
         \/ Serve /\ UNCHANGED sent
         \/ \E m \in Message : SendEvent /\ m.op = "event"
              /\ Range(sent') = Range(sent) \cup {m}
<1>1. sent \in Seq(Message)
  BY DEF TypeInv, TypeOK
<1>2. CASE Serve
  <2>1. Head(toServer) \in started
    BY <1>2, HeadTailProperties DEF Numbered, Serve
  <2>2. PICK r \in started : r = Head(toServer)
    BY <2>1
  <2>3. r \in Requests
    BY DEF TypeInv, TypeOK
  <2>4. PICK m \in Message : m = Reply(seqOf[r])
    BY <2>3 DEF TypeInv, TypeOK, Reply, Message
  <2>5. CASE r \in Failing
    <3>1. sent' = sent \o <<>>
      BY <1>2, <2>2, <2>5 DEF Serve
    <3>2. sent' = sent
      BY <1>1, <3>1, ConcatEmptySeq
    <3> QED BY <1>2, <3>2
  <2>6. CASE r \notin Failing
    <3>1. sent' = sent \o <<m>>
      BY <1>2, <2>2, <2>4, <2>6 DEF Serve
    <3>2. sent' = Append(sent, m)
      BY <1>1, <3>1, AppendIsConcat
    <3>3. Range(sent') = Range(sent) \cup {m}
      BY <1>1, <3>2, OneMore
    <3> QED BY <1>2, <2>4, <2>6, <3>3
  <2> QED BY <2>5, <2>6
<1>3. CASE SendEvent
  <2>1. PICK n \in Nat : n = EventsSent + 1
    BY EventCount DEF TypeInv
  <2>2. PICK m \in Message : m = Event(n)
    BY DEF Event, Message
  <2>3. sent' = Append(sent, m) /\ m.op = "event"
    BY <1>3, <2>1, <2>2 DEF SendEvent, Event
  <2>4. Range(sent') = Range(sent) \cup {m}
    BY <1>1, <2>3, OneMore
  <2> QED BY <1>3, <2>3, <2>4
<1> QED BY <1>2, <1>3

LEMMA ServerReplies ==
  ASSUME TypeInv, Numbered, Replied, Awaited, NoLostReply, Serve \/ SendEvent
  PROVE  Replied' /\ Awaited' /\ NoLostReply'
<1>1. UNCHANGED <<stack, started, seqOf, handled, replies, got, returned>>
  BY DEF Serve, SendEvent, seqVars, inVars, replyVars
<1>2. Replied'
  <2>1. CASE UNCHANGED sent
    BY <1>1, <2>1, SameReplied
  <2>2. ASSUME NEW r \in started,
               Range(sent') = Range(sent) \cup {Reply(seqOf[r])}
        PROVE  Replied'
    BY <1>1, <2>2 DEF Replied, Reply
  <2>3. ASSUME NEW m \in Message, m.op = "event",
               Range(sent') = Range(sent) \cup {m}
        PROVE  Replied'
    BY <1>1, <2>3 DEF Replied
  <2> QED BY <2>1, <2>2, <2>3, Sent
<1>3. Awaited'
  BY <1>1, SameAwaited DEF SendersStay
<1> QED BY <1>1, <1>2, <1>3, SameLost

-----------------------------------------------------------------------------
(* All of it together is inductive.                                        *)
Contracted == Fresh /\ Replied /\ Awaited /\ NoLostReply

LEMMA ContractedInit ==
  ASSUME Init
  PROVE  Contracted
<1>1. /\ started = {} /\ replies = <<>> /\ got = {} /\ returned = {}
      /\ sent = <<>> /\ handled = <<>>
  BY DEF Init
<1>2. \A t \in Threads : Where(t) # "store"
  <2> DEFINE f == Frame("app", "idle", Nobody)
  <2>1. f.pc = "idle"
    BY DEF Frame
  <2>2. Last(<<f>>) = f
    BY DEF Last
  <2>3. \A t \in Threads : stack[t] = <<>> \/ stack[t] = <<f>>
    BY DEF Init
  <2> HIDE DEF f
  <2> QED BY <2>1, <2>2, <2>3 DEF Where, Top
<1>3. Range(sent) = {} /\ DOMAIN replies = {}
  BY <1>1 DEF Range
<1> QED BY <1>1, <1>2, <1>3
        DEF Contracted, Fresh, UniqueSeqs, Replied, Awaited, NoLostReply

(* A step that is not one of a request.                                    *)
LEMMA OtherReplies ==
  ASSUME Apps \cap Callers = {}, TypeInv, Control, Sections, InOrder,
         Replied, Awaited, NoLostReply, NEW t \in Threads,
         PollStep(t) \/ DispatchStep(t) \/ LoopStep(t) \/ Stop(t)
           \/ SpuriousWake(t)
  PROVE  /\ Replied' /\ Awaited' /\ NoLostReply' /\ SendersStay
         /\ UNCHANGED <<started, nextSeq, seqOf, returned, sent>>
<1>1. SendersStay
  BY QuietSenders
<1>2. UNCHANGED <<started, nextSeq, seqOf, returned, sent, replies>>
  <2>1. CASE PollStep(t)
    BY <2>1 DEF PollStep, ClaimList, PollSocket, ReadServer, WriteServer,
         CheckOutbound, ClearPollout, ReleaseList, seqVars, replyVars, netVars
  <2>2. CASE DispatchStep(t)
    BY <2>2 DEF DispatchStep, Unbuffer, ParseOne, TestEmpty, PopMessage,
         ProcessMessage, HandlerReturn, seqVars, replyVars, netVars
  <2>3. CASE LoopStep(t)
    BY <2>3 DEF LoopStep, BeginRun, RunLoop, ResetStopping, Finish,
         BeginThreaded, CreateDispatcher, PollerLoop, DecideSignal,
         SignalDispatcher, JoinDispatcher, DispatcherLoop, DispatcherWait,
         seqVars, replyVars, netVars
  <2>4. CASE Stop(t) \/ SpuriousWake(t)
    BY <2>4 DEF Stop, SpuriousWake, seqVars, replyVars, netVars
  <2> QED BY <2>1, <2>2, <2>3, <2>4
<1>3. CASE ProcessMessage(t)
  BY <1>1, <1>2, <1>3, ProcessReplies
<1>4. CASE UNCHANGED <<got, handled>>
  BY <1>1, <1>2, <1>4, SameReplied, SameAwaited, SameLost
<1>5. ProcessMessage(t) \/ UNCHANGED <<got, handled>>
  <2>1. CASE PollStep(t)
    BY <2>1 DEF PollStep, ClaimList, PollSocket, ReadServer, WriteServer,
         CheckOutbound, ClearPollout, ReleaseList, inVars, replyVars
  <2>2. CASE DispatchStep(t)
    BY <2>2 DEF DispatchStep, Unbuffer, ParseOne, TestEmpty, PopMessage,
         HandlerReturn, inVars, replyVars
  <2>3. CASE LoopStep(t)
    BY <2>3 DEF LoopStep, BeginRun, RunLoop, ResetStopping, Finish,
         BeginThreaded, CreateDispatcher, PollerLoop, DecideSignal,
         SignalDispatcher, JoinDispatcher, DispatcherLoop, DispatcherWait,
         inVars, replyVars
  <2>4. CASE Stop(t) \/ SpuriousWake(t)
    BY <2>4 DEF Stop, SpuriousWake, inVars, replyVars
  <2> QED BY <2>1, <2>2, <2>3, <2>4
<1> QED BY <1>3, <1>4, <1>5

LEMMA SendersStores ==
  ASSUME SendersStay
  PROVE  StoresStay
<1>1. "store" \in Sending
  BY DEF Sending
<1> QED BY <1>1 DEF SendersStay, StoresStay, Where, Top

LEMMA RequestFresh ==
  ASSUME Apps \cap Callers = {}, TypeInv, TypeInv', Control, KeptRequests,
         Fresh, NEW t \in Threads, RequestStep(t)
  PROVE  Fresh'
<1>1. CASE StoreSeq(t)
  BY <1>1, StoreFresh
<1>2. CASE ~StoreSeq(t)
  <2>1. /\ Top(t).pc # "store" /\ stack[t] # <<>>
        /\ UNCHANGED <<started, nextSeq, seqOf>>
    BY <1>2 DEF RequestStep, Serialise, SetPollout, RegisterReply,
         WaitReturn, ChooseWait, EnterPoll, LeavePoll, At, seqVars
  <2>2. Others(t)
    BY RequestAside DEF TypeInv
  <2>3. StoresStay
    BY <2>1, <2>2 DEF StoresStay, Where, Top, Others
  <2> QED BY <2>1, <2>3, SameFresh
<1> QED BY <1>1, <1>2

LEMMA ContractedStep ==
  ASSUME Apps \cap Callers = {}, TypeInv, Safe, Contracted, [Next]_vars
  PROVE  Contracted'
<1> USE DEF Safe, Contracted
<1>1. TypeInv' /\ OneDrives
  BY TypeStep DEF OneDrives
<1>2. ASSUME NEW t \in Threads,
             PollStep(t) \/ DispatchStep(t) \/ LoopStep(t) \/ Stop(t)
               \/ SpuriousWake(t)
      PROVE  Contracted'
  <2>1. KeptRequests
    BY <1>1, <1>2, PollSafe, DispatchSafe, LoopSafe, OtherSafe
  <2>2. /\ Replied' /\ Awaited' /\ NoLostReply' /\ SendersStay
        /\ UNCHANGED <<started, nextSeq, seqOf>>
    BY <1>2, OtherReplies
  <2>3. Fresh'
    BY <1>1, <2>1, <2>2, SendersStores, SameFresh
  <2> QED BY <2>2, <2>3
<1>3. ASSUME NEW t \in Threads, RequestStep(t)
      PROVE  Contracted'
  <2>1. KeptRequests
    BY <1>3, OtherSafe
  <2>2. Fresh'
    BY <1>1, <1>3, <2>1, RequestFresh
  <2> QED BY <1>3, <2>2, RequestReplies
<1>4. ASSUME NEW t \in Threads, NEW r \in Requests, BeginRequest(t, r)
      PROVE  Contracted'
  BY <1>4, BeginFresh, BeginReplies
<1>5. CASE Serve \/ SendEvent
  <2>1. KeptRequests
    BY <1>5, ServerSafe
  <2>2. UNCHANGED <<stack, started, nextSeq, seqOf>>
    BY <1>5 DEF Serve, SendEvent, seqVars
  <2>3. Fresh'
    BY <1>1, <2>1, <2>2, SameFresh DEF StoresStay, Where, Top
  <2> QED BY <1>5, <2>3, ServerReplies
<1>6. CASE UNCHANGED vars
  <2>1. UNCHANGED <<stack, started, nextSeq, seqOf, handled, replies, got,
                    returned, sent>>
    BY <1>6 DEF vars, seqVars, inVars, replyVars, netVars
  <2>2. KeptRequests
    BY <2>1, StandingWhere
  <2>3. Fresh'
    BY <1>1, <2>1, <2>2, SameFresh DEF StoresStay, Where, Top
  <2> QED BY <2>1, <2>3, SameReplied, SameAwaited, SameLost DEF SendersStay
<1> QED BY <1>2, <1>3, <1>4, <1>5, <1>6 DEF Next, ThreadStep

LEMMA AlwaysContracted ==
  ASSUME Apps \cap Callers = {}
  PROVE  Spec => [](TypeInv /\ Safe /\ Contracted)
<1>1. Init => TypeInv /\ Safe /\ Contracted
  BY TypeInit, SafeInit, ContractedInit
<1>2. OneDrives
  BY DEF OneDrives
<1>3. TypeInv /\ Safe /\ Contracted /\ [Next]_vars =>
        TypeInv' /\ Safe' /\ Contracted'
  BY <1>2, TypeStep, SafeStep, ContractedStep
<1> QED BY <1>1, <1>3, PTL DEF Spec

(* Requests have different sequence numbers, although the counter is read  *)
(* and written without a lock (message.cc:44).                             *)
THEOREM NumbersDiffer ==
  ASSUME Apps \cap Callers = {}
  PROVE  Spec => []UniqueSeqs
<1>1. TypeInv /\ Safe /\ Contracted => UniqueSeqs
  BY DEF Contracted, Fresh
<1> QED BY <1>1, AlwaysContracted, PTL

(* No reply comes before its request is registered: what processMessage    *)
(* has seen reached the Reply that waits for it (connection.cc:190).       *)
THEOREM NoReplyIsLost ==
  ASSUME Apps \cap Callers = {}
  PROVE  Spec => []NoLostReply
<1>1. TypeInv /\ Safe /\ Contracted => NoLostReply
  BY DEF Contracted
<1> QED BY <1>1, AlwaysContracted, PTL

-----------------------------------------------------------------------------
(* Each step of the connection is a step of the contract, or none.         *)
LEMMA SamePhase ==
  ASSUME UNCHANGED <<started, seqOf, returned, sent>>
  PROVE  UNCHANGED Phase
BY DEF Phase

LEMMA PhaseInit ==
  ASSUME Init
  PROVE  Contract!Init
<1>1. started = {} /\ returned = {}
  BY DEF Init
<1> QED BY <1>1 DEF Phase, Contract!Init

LEMMA BeginPhase ==
  ASSUME TypeInv, Replied, NEW r \in Requests, r \notin started,
         started' = started \cup {r}, UNCHANGED <<returned, sent>>,
         \A q \in started : seqOf'[q] = seqOf[q],
         Reply(seqOf'[r]) \notin Range(sent)
  PROVE  Contract!Ask(r)
<1>1. r \notin returned
  BY DEF Replied
<1>2. Phase[r] = "new" /\ Phase'[r] = "asked"
  BY <1>1 DEF Phase
<1>3. \A q \in Requests \ {r} : Phase'[q] = Phase[q]
  BY DEF Phase
<1>4. Phase' = [Phase EXCEPT ![r] = "asked"]
  BY <1>2, <1>3 DEF Phase
<1> QED BY <1>2, <1>4 DEF Contract!Ask, Contract!Step

LEMMA ReturnPhase ==
  ASSUME TypeInv, Replied, NEW r \in got, returned' = returned \cup {r},
         UNCHANGED <<started, seqOf, sent>>
  PROVE  r \in Requests /\ (Contract!Return(r) \/ UNCHANGED Phase)
<1>1. r \in Requests /\ r \in started /\ Reply(seqOf[r]) \in Range(sent)
  BY DEF Replied, TypeInv, TypeOK
<1>2. CASE r \in returned
  BY <1>1, <1>2, SamePhase
<1>3. CASE r \notin returned
  <2>1. Phase[r] = "answered" /\ Phase'[r] = "returned"
    BY <1>1, <1>3 DEF Phase
  <2>2. \A q \in Requests \ {r} : Phase'[q] = Phase[q]
    BY DEF Phase
  <2>3. Phase' = [Phase EXCEPT ![r] = "returned"]
    BY <2>1, <2>2 DEF Phase
  <2> QED BY <1>1, <2>1, <2>3 DEF Contract!Return, Contract!Step
<1> QED BY <1>2, <1>3

LEMMA AnswerPhase ==
  ASSUME TypeInv, Replied, UniqueSeqs, NEW r \in started \ Failing,
         Range(sent') = Range(sent) \cup {Reply(seqOf[r])},
         UNCHANGED <<started, seqOf, returned>>
  PROVE  r \in Requests /\ (Contract!Answer(r) \/ UNCHANGED Phase)
<1>1. r \in Requests
  BY DEF TypeInv, TypeOK
<1>2. CASE Reply(seqOf[r]) \in Range(sent)
  <2>1. Range(sent') = Range(sent)
    BY <1>2
  <2> QED BY <1>1, <2>1 DEF Phase
<1>3. CASE Reply(seqOf[r]) \notin Range(sent)
  <2>1. r \notin returned
    BY <1>3 DEF Replied
  <2>2. Phase[r] = "asked" /\ Phase'[r] = "answered"
    BY <1>1, <1>3, <2>1 DEF Phase
  <2>3. ASSUME NEW q \in Requests \ {r}
        PROVE  Phase'[q] = Phase[q]
    <3>1. CASE q \in started
      <4>1. seqOf[q] # seqOf[r]
        BY <2>3, <3>1 DEF UniqueSeqs
      <4>2. Reply(seqOf[q]) # Reply(seqOf[r])
        BY <4>1 DEF Reply
      <4>3. Reply(seqOf[q]) \in Range(sent') <=> Reply(seqOf[q]) \in Range(sent)
        BY <4>2
      <4> QED BY <4>3 DEF Phase
    <3>2. CASE q \notin started
      BY <3>2 DEF Phase
    <3> QED BY <3>1, <3>2
  <2>4. Phase' = [Phase EXCEPT ![r] = "answered"]
    BY <2>2, <2>3 DEF Phase
  <2> QED BY <1>1, <2>2, <2>4 DEF Contract!Answer, Contract!Step
<1> QED BY <1>2, <1>3

LEMMA PhaseStep ==
  ASSUME Apps \cap Callers = {}, TypeInv, Safe, Contracted, [Next]_vars
  PROVE  [Contract!Next]_Phase
<1> USE DEF Safe, Contracted
<1>1. ASSUME NEW t \in Threads,
             PollStep(t) \/ DispatchStep(t) \/ LoopStep(t) \/ Stop(t)
               \/ SpuriousWake(t)
      PROVE  UNCHANGED Phase
  BY <1>1, OtherReplies, SamePhase
<1>2. ASSUME NEW t \in Threads, RequestStep(t)
      PROVE  [Contract!Next]_Phase
  <2>1. CASE WaitReturn(t)
    <3>1. PICK r \in got : r = Top(t).req
      BY <2>1 DEF WaitReturn, Answered
    <3>2. returned' = returned \cup {r} /\ UNCHANGED <<started, seqOf, sent>>
      BY <2>1, <3>1 DEF WaitReturn, seqVars, netVars
    <3> QED BY <3>2, ReturnPhase DEF Contract!Next
  <2>2. CASE ~WaitReturn(t)
    <3>1. UNCHANGED <<started, seqOf, returned, sent>>
      BY <1>2, <2>2 DEF RequestStep, StoreSeq, Serialise, SetPollout,
           RegisterReply, ChooseWait, EnterPoll, LeavePoll, seqVars,
           replyVars, netVars
    <3> QED BY <3>1, SamePhase
  <2> QED BY <2>1, <2>2
<1>3. ASSUME NEW t \in Threads, NEW r \in Requests, BeginRequest(t, r)
      PROVE  Contract!Next
  <2>1. /\ started' = started \cup {r} /\ r \notin started
        /\ seqOf' = [seqOf EXCEPT ![r] = nextSeq + 1]
        /\ UNCHANGED <<returned, sent>>
    BY <1>3 DEF BeginRequest, replyVars, netVars
  <2>2. Reply(seqOf'[r]) \notin Range(sent)
    BY <1>3, BeginReplies
  <2>3. \A q \in started : seqOf'[q] = seqOf[q]
    BY <2>1 DEF TypeInv, TypeOK
  <2> QED BY <2>1, <2>2, <2>3, BeginPhase DEF Contract!Next
<1>4. CASE Serve \/ SendEvent
  <2>1. UNCHANGED <<started, seqOf, returned>>
    BY <1>4 DEF Serve, SendEvent, seqVars, replyVars
  <2>2. CASE UNCHANGED sent
    BY <2>1, <2>2, SamePhase
  <2>3. ASSUME NEW r \in started \ Failing,
               Range(sent') = Range(sent) \cup {Reply(seqOf[r])}
        PROVE  [Contract!Next]_Phase
    BY <2>1, <2>3, AnswerPhase DEF Contract!Next, Fresh
  <2>4. ASSUME NEW m \in Message, m.op = "event",
               Range(sent') = Range(sent) \cup {m}
        PROVE  UNCHANGED Phase
    <3>1. \A r \in Requests :
            Reply(seqOf[r]) \in Range(sent') <=> Reply(seqOf[r]) \in Range(sent)
      BY <2>4 DEF Reply
    <3> QED BY <2>1, <3>1 DEF Phase
  <2> QED BY <1>4, <2>2, <2>3, <2>4, Sent
<1>5. CASE UNCHANGED vars
  BY <1>5, SamePhase DEF vars, seqVars, replyVars, netVars
<1> QED BY <1>1, <1>2, <1>3, <1>4, <1>5 DEF Next, ThreadStep

(* The connection implements the contract of requests and replies, but for *)
(* its liveness: a request is answered at most once, never if it fails,    *)
(* and a wait returns after the answer to its own request.                 *)
THEOREM ImplementsContract ==
  ASSUME Apps \cap Callers = {}
  PROVE  Spec => Contract!Spec
<1>1. Init => Contract!Init
  BY PhaseInit
<1>2. TypeInv /\ Safe /\ Contracted /\ [Next]_vars => [Contract!Next]_Phase
  BY PhaseStep
<1> QED BY <1>1, <1>2, AlwaysContracted, PTL DEF Spec, Contract!Spec
=============================================================================
