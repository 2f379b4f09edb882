---------------------------- MODULE MCGpuManager ----------------------------
(* Instances of GpuManager for TLC. *)
EXTENDS GpuManager

CONSTANTS p1, p2, p3

\* Three calls; p1 and p2 have one priority, p3 a better one.
ThreePriorities == [p \in Calls |-> IF p = p3 THEN 0 ELSE 2]
\* Priorities outside the configured range, which clamp_priority brings back.
OddPriorities == [p \in Calls |-> IF p = p1 THEN 7 ELSE -3]
=============================================================================
