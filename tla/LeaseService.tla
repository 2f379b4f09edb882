---------------------------- MODULE LeaseService ----------------------------
(***************************************************************************)
(* What the GPU resource manager promises to its consumers: a call either  *)
(* never gets a lease or gets one exactly once, and at any time at most    *)
(* one call is inside its lease.                                           *)
(***************************************************************************)
CONSTANT Calls

VARIABLE stage      \* stage[p]: before its lease, inside it, or past it

Init == stage = [p \in Calls |-> "before"]

Enter(p) ==
    /\ stage[p] = "before"
    /\ \A q \in Calls : stage[q] # "inside"
    /\ stage' = [stage EXCEPT ![p] = "inside"]

\* A lease ends by release, by loss or with its process.
Leave(p) ==
    /\ stage[p] = "inside"
    /\ stage' = [stage EXCEPT ![p] = "past"]

\* A call may fail without ever having had a lease.
GiveUp(p) ==
    /\ stage[p] = "before"
    /\ stage' = [stage EXCEPT ![p] = "past"]

Next == \E p \in Calls : Enter(p) \/ Leave(p) \/ GiveUp(p)

Spec == Init /\ [][Next]_stage
=============================================================================
