--------------------------- MODULE MCInfraStatus ----------------------------
(* InfraStatus with every fault there may be, one at a time. *)
EXTENDS InfraStatus, TLC

MCSymmetry == Permutations(Queries)

MCHealthy ==
    [qdrant |-> "green", dense |-> "serves", sparse |-> "serves", mineru |-> "healthy",
     minio |-> "ok", redis |-> Databases, workers |-> DOMAIN Queues, gpu |-> "managed",
     enrich |-> "serves", visual |-> "on", dspace |-> "rest", flower |-> "ok",
     disk |-> "free"]
MCFaults ==
    UNION {{[service |-> f, state |-> v] : v \in States[f] \ {MCHealthy[f]}} :
              f \in DOMAIN States}
\* What the caches hold depends on the store alone.  Any other fault is followed for one
\* query at a time, and for as long as it takes and its answer is cached.
MCStoreFaults == {[service |-> "minio", state |-> v] : v \in {"down", "unlistable"}}
MCFocus ==
    \/ {before, after} \subseteq MCStoreFaults \cup {NoFault}
    \/ now <= 1 /\ \E q \in Queries : query[q] = None
MCFragile == {"gpu"}
MCOptions == {[probe |-> TRUE, artifacts |-> TRUE]}

\* The table of what can be derived; to see that it is one, TLC fills it in before it starts.
Derivation ==
    [status : {"ok", "degraded", "down"}, can : SUBSET DOMAIN Needs,
     store : {"ok", "degraded", "down", "not_configured", "unknown"}]
ASSUME DerivedAssumption == Derived \in [Ways -> [Moments -> SUBSET Derivation]]
=============================================================================
