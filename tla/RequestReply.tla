---------------------------- MODULE RequestReply ----------------------------
(***************************************************************************)
(* What the client library promises to the code that makes a request and   *)
(* waits for its reply: a request is answered at most once, and the wait   *)
(* returns, after the answer.                                              *)
(***************************************************************************)
CONSTANTS
  Requests,   \* requests
  Failing     \* requests that the server never answers

VARIABLE phase    \* of each request: "new", "asked", "answered", "returned"

Init == phase = [r \in Requests |-> "new"]

Step(r, from, to) == phase[r] = from /\ phase' = [phase EXCEPT ![r] = to]

Ask(r) == Step(r, "new", "asked")
Answer(r) == r \notin Failing /\ Step(r, "asked", "answered")
Return(r) == Step(r, "answered", "returned")

Next == \E r \in Requests : Ask(r) \/ Answer(r) \/ Return(r)

Fairness ==
  \A r \in Requests : WF_phase(Answer(r)) /\ WF_phase(Return(r))

Spec == Init /\ [][Next]_phase
FairSpec == Spec /\ Fairness
=============================================================================
