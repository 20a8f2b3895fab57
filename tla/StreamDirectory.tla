-------------------------- MODULE StreamDirectory --------------------------
(***************************************************************************)
(* What the cameras of the server promise those who play them: a directory *)
(* of streams.  A stream that was added is offered until it is over, and   *)
(* only a stream that is over is taken out, after which its tag is free.   *)
(***************************************************************************)
CONSTANT Tags

VARIABLE stream

TypeOK == stream \in [Tags -> {"absent", "offered", "over"}]

Init == stream = [t \in Tags |-> "absent"]

Becomes(t, from, to) ==
  /\ stream[t] = from
  /\ stream' = [stream EXCEPT ![t] = to]

Offer(t) == Becomes(t, "absent", "offered")
GiveUp(t) == Becomes(t, "offered", "over")
Withdraw(t) == Becomes(t, "over", "absent")

Next == \E t \in Tags : Offer(t) \/ GiveUp(t) \/ Withdraw(t)

Spec == Init /\ [][Next]_stream
=============================================================================
