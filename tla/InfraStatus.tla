---------------------------- MODULE InfraStatus -----------------------------
(***************************************************************************)
(* GET /api/status: thirteen checks, each in a thread of its own, of the   *)
(* services that the pipeline depends on; what the pipeline can do, derived *)
(* from them; and two caches, of whole answers and of the count of the     *)
(* artifacts.  The services fail and recover while they are checked.       *)
(*                                                                         *)
(* A world is the state of every service, and of the settings that decide  *)
(* whether it is used.  A check sees the services of one moment between its   *)
(* query's start and end; its verdict is a status and the details that the *)
(* capabilities are derived from.                                          *)
(***************************************************************************)
EXTENDS Integers, FiniteSets

CONSTANTS
    Queries,        \* the requests
    Options,        \* the options of a query: probe and artifacts
    Healthy,        \* the world in which nothing is wrong
    Faults,         \* what may be wrong: a service and its state
    WriteProbe,     \* MINIO_HEALTHCHECK_WRITE
    Ttl,            \* STATUS_CACHE_TTL_SECONDS
    ScanTtl,        \* STATUS_ARTIFACT_SCAN_TTL_SECONDS
    Fragile,        \* the checks that may raise
    Slowest,        \* how long the slowest check takes
    MaxTime         \* bound on the clock

VARIABLES
    now,            \* the clock
    before,         \* what is wrong at first
    after,          \* what is wrong after a change
    changed,        \* has it come?
    entries,        \* _snapshot_cache: the last answer to each kind of query
    scan,           \* _artifact_cache: when the artifacts were counted
    query,          \* query: when it began, and in which world
    answer          \* the last answer that was given

vars == <<now, before, after, changed, entries, scan, query, answer>>

-----------------------------------------------------------------------------
(* The services *)

Queues == [light |-> {"download", "extract", "llm"}, gpu |-> {"gpu"}]
Lanes == {"download", "extract", "llm", "gpu"}
Databases == {"broker", "job_store", "gpu_manager"}

States ==
    [qdrant  |-> {"down", "absent", "novector", "mismatch", "odd", "empty", "yellow",
                 "green"},
     dense   |-> {"down", "other", "broken", "unnormalised", "serves"},
     sparse  |-> {"down", "other", "broken", "serves"},
     mineru  |-> {"down", "foreign", "unhealthy", "healthy"},
     minio   |-> {"other", "down", "nobucket", "unreadable", "readonly", "unlistable",
                 "ok"},
     redis   |-> SUBSET Databases,
     workers |-> SUBSET DOMAIN Queues,
     gpu     |-> {"unmanaged", "managed"},
     enrich  |-> {"keyless", "down", "rejected", "odd", "other", "manual", "serves"},
     visual  |-> {"off", "keyless", "on"},
     dspace  |-> {"down", "html", "rest"},
     flower  |-> {"unset", "down", "refuses", "ok"},
     disk    |-> {"unmeasured", "full", "low", "free"}]
Components ==
    {"qdrant", "embedder", "mineru", "minio", "redis", "celery", "gpu", "llm_enrich",
     "llm_visual", "dspace", "flower", "jobs", "disk"}

ASSUME StatusAssumption ==
    /\ WriteProbe \in BOOLEAN
    /\ {Ttl, ScanTtl, Slowest, MaxTime} \subseteq Nat
    /\ Options \subseteq [probe : BOOLEAN, artifacts : BOOLEAN]
    /\ DOMAIN Healthy = DOMAIN States /\ \A s \in DOMAIN States : Healthy[s] \in States[s]
    /\ \A f \in Faults : f.service \in DOMAIN States /\ f.state \in States[f.service]
    /\ Fragile \subseteq Components

-----------------------------------------------------------------------------
(* The checks *)

Verdict(status, detail) == [status |-> status, detail |-> detail]
Grade(fact, down, degraded) ==
    IF fact \in down THEN "down" ELSE IF fact \in degraded THEN "degraded" ELSE "ok"

\* A dense vector of another dimension, or of another distance, is only degraded.
CheckQdrant(w) ==
    Verdict(Grade(w.qdrant, {"down", "absent", "novector"},
                  {"mismatch", "odd", "empty", "yellow"}),
            IF w.qdrant \in {"down", "absent", "empty"} THEN {} ELSE {"chunks"})

\* The round trip of probe=true is what tells a broken endpoint from one that serves.
ProbeEmbedding(w) ==
    IF "broken" \in {w.dense, w.sparse} THEN "down"
    ELSE Grade(w.dense, {}, {"unnormalised"})
CheckEmbedder(w, probe) ==
    Verdict(IF {w.dense, w.sparse} \cap {"down", "other"} # {} THEN "down"
            ELSE IF probe THEN ProbeEmbedding(w) ELSE "ok", {})

CheckMineru(w) == Verdict(Grade(w.mineru, {"down", "foreign"}, {"unhealthy"}), {})

\* ArtifactStore.healthcheck: what can be done with the bucket.
Healthcheck(w) ==
    (CASE w.minio \in {"down", "nobucket"} -> {}
       [] w.minio = "unreadable" -> {"write"}
       [] w.minio = "readonly" -> {"read"}
       [] OTHER -> {"read", "write"})
    \ IF WriteProbe THEN {} ELSE {"write"}
\* Another ARTIFACT_STORE_BACKEND is not_configured, although no store is built for it.
CheckMinio(w, failed) ==
    LET can == Healthcheck(w)
    IN  IF w.minio = "other" THEN Verdict("not_configured", {})
        ELSE Verdict(IF "read" \notin can \/ (WriteProbe /\ "write" \notin can) THEN "down"
                     ELSE IF failed THEN "degraded" ELSE "ok",
                     can)

CheckRedis(w) ==
    Verdict(CASE Databases \subseteq w.redis -> "ok"
              [] Databases \ w.redis = {"job_store"} -> "degraded"
              [] OTHER -> "down", w.redis)

\* Of the four broadcasts, active_queues lists the queues of a worker and the others
\* only say that it is there.  One that answers none in time is taken for absent.
Replies == [heard : SUBSET DOMAIN Queues, listed : SUBSET DOMAIN Queues]
CheckCelery(w, replies) ==
    LET up == IF "broker" \in w.redis THEN w.workers ELSE {}
        online == up \cap (replies.heard \cup replies.listed)
        covered == UNION {Queues[k] : k \in up \cap replies.listed}
    IN  Verdict(CASE online = {} -> "down"
                  [] online # {} /\ Lanes \ covered # {} -> "degraded"
                  [] OTHER -> "ok", covered)

CheckGpu(w) ==
    Verdict(CASE w.gpu = "unmanaged" -> "not_configured"
              [] "gpu_manager" \in w.redis -> "ok"
              [] OTHER -> "down", {})
CheckLlmEnrich(w) ==
    Verdict(IF w.enrich = "keyless" THEN "not_configured"
            ELSE Grade(w.enrich, {"down", "rejected"}, {"odd", "other", "manual"}), {})
CheckLlmVisual(w) ==
    Verdict(IF w.visual = "off" THEN "not_configured"
            ELSE Grade(w.visual, {}, {"keyless"}), {})
CheckDspace(w) == Verdict(Grade(w.dspace, {"down", "html"}, {}), {})
CheckFlower(w) ==
    Verdict(IF w.flower = "unset" THEN "not_configured"
            ELSE Grade(w.flower, {"down"}, {"refuses"}), {})
CheckJobs(w) == Verdict(IF "job_store" \in w.redis THEN "ok" ELSE "degraded", {})
CheckDisk(w) ==
    Verdict(IF w.disk = "unmeasured" THEN "unknown" ELSE Grade(w.disk, {"full"}, {"low"}),
            {})

\* A check goes its way: with or without the probe, with a listing that failed or not.
Ways == [probe : BOOLEAN, failed : BOOLEAN]
Registry(c, w, way, replies) ==
    CASE c = "qdrant" -> CheckQdrant(w)
      [] c = "embedder" -> CheckEmbedder(w, way.probe)
      [] c = "mineru" -> CheckMineru(w)
      [] c = "minio" -> CheckMinio(w, way.failed)
      [] c = "redis" -> CheckRedis(w)
      [] c = "celery" -> CheckCelery(w, replies)
      [] c = "gpu" -> CheckGpu(w)
      [] c = "llm_enrich" -> CheckLlmEnrich(w)
      [] c = "llm_visual" -> CheckLlmVisual(w)
      [] c = "dspace" -> CheckDspace(w)
      [] c = "flower" -> CheckFlower(w)
      [] c = "jobs" -> CheckJobs(w)
      [] c = "disk" -> CheckDisk(w)

\* A check that raises says nothing of its service.
Crashed(c) == Verdict("unknown", {})

-----------------------------------------------------------------------------
(* What is derived from the verdicts *)

\* Without the GPU manager, its component is not_configured and never down.
Critical == {"qdrant", "embedder", "mineru", "minio", "redis", "celery", "gpu"}
Blocking(comps) == {c \in DOMAIN comps : comps[c].status = "down" /\ c \in Critical}
Summary(comps) ==
    CASE Blocking(comps) # {} -> "down"
      [] \E c \in DOMAIN comps : comps[c].status \in {"down", "degraded", "unknown"}
            -> "degraded"
      [] OTHER -> "ok"

Up(comps, c) == comps[c].status \in {"ok", "degraded"}
CoveredIfUp(comps, q) == Up(comps, "celery")
Covered(comps, q) == Up(comps, "celery") /\ q \in comps["celery"].detail
Writable(comps) == Up(comps, "minio") /\ "write" \in comps["minio"].detail
GpuUp(comps) == Up(comps, "gpu")
GpuOk(comps) == Up(comps, "gpu") \/ comps["gpu"].status = "not_configured"

Capabilities(comps) ==
    (IF /\ Up(comps, "qdrant") /\ "chunks" \in comps["qdrant"].detail
        /\ Up(comps, "embedder")
     THEN {"busca"} ELSE {})
    \cup (IF /\ "broker" \in comps["redis"].detail /\ Covered(comps, "download")
             /\ Up(comps, "dspace") /\ Writable(comps)
          THEN {"ingestao"} ELSE {})
    \cup (IF /\ Up(comps, "mineru") /\ Covered(comps, "extract")
             /\ GpuOk(comps) /\ Writable(comps)
          THEN {"extracao"} ELSE {})
    \cup (IF /\ Up(comps, "embedder") /\ Up(comps, "qdrant")
             /\ Covered(comps, "gpu") /\ Writable(comps)
          THEN {"indexacao"} ELSE {})
    \cup (IF comps["llm_enrich"].status = "ok" /\ Covered(comps, "llm")
          THEN {"enriquecimento_llm"} ELSE {})

-----------------------------------------------------------------------------
(* The caches and the queries *)

\* A world is one fault away from the healthy one; a change breaks or repairs it.
NoFault == [service |-> "none"]
World(f) == IF f = NoFault THEN Healthy ELSE [Healthy EXCEPT ![f.service] = f.state]
Moments ==
    UNION {{<<f, f>>, <<f, NoFault>>, <<NoFault, f>>} : f \in Faults \cup {NoFault}}
Current == IF changed THEN after ELSE before

None == [moment |-> 0 - 1]
Never == 0 - 1
Listing == 0 - 2

\* What was put at a moment is valid for ttl; a ttl of 0 never ends.
AlwaysValid(moment, ttl) == moment # Never
Valid(moment, ttl) == moment # Never /\ ~(ttl > 0 /\ now - moment > ttl)

Init ==
    /\ now = 0
    /\ \E m \in Moments : before = m[1] /\ after = m[2]
    /\ changed = FALSE
    /\ entries = [o \in Options |-> None]
    /\ scan = Never
    /\ query = [q \in Queries |-> None]
    /\ answer = None

\* The threads are started, unless the cache has a valid answer.  The options and
\* fresh are those that are granted to who asks (a query through the proxy gets
\* neither probe nor fresh).
Ask(q) ==
    /\ query[q] = None
    /\ \E opts \in Options, fresh \in BOOLEAN :
          IF ~fresh /\ Valid(entries[opts].moment, Ttl)
          THEN /\ answer' = [entries[opts] EXCEPT !.moment = now]
               /\ UNCHANGED query
          ELSE /\ query' = [query EXCEPT ![q] =
                               [moment |-> now, opts |-> opts, fault |-> Current,
                                counted |-> Never]]
               /\ UNCHANGED answer
    /\ UNCHANGED <<now, before, after, changed, entries, scan>>

\* contar_artefatos, once the bucket was found in order: the count that is cached, if it
\* is valid now, also when the query is fresh; or else a listing,
Count(q) ==
    /\ query[q] # None
    /\ query[q].opts.artifacts /\ query[q].counted = Never
    /\ CheckMinio(World(Current), FALSE).status = "ok"
    /\ query' = [query EXCEPT ![q].counted = IF Valid(scan, ScanTtl) THEN scan ELSE Listing]
    /\ UNCHANGED <<now, before, after, changed, entries, scan, answer>>
\* which is cached when it ends.  One that has not ended when the query does has failed.
Listed(q) ==
    /\ query[q] # None
    /\ query[q].counted = Listing
    /\ World(Current).minio # "unlistable" /\ CheckMinio(World(Current), FALSE).status = "ok"
    /\ scan' = now
    /\ query' = [query EXCEPT ![q].counted = now]
    /\ UNCHANGED <<now, before, after, changed, entries, answer>>

\* run_check of every component: each saw its world early or late,
Seen(way, early, lately, replies) ==
    LET first == [c \in Components |-> Registry(c, early, way, replies)]
        last == [c \in Components |-> Registry(c, lately, way, replies)]
    IN  {[c \in Components |-> IF c \in old THEN first[c] ELSE last[c]] :
            old \in SUBSET {c \in Components : first[c] # last[c]}}
\* and one of them may have raised.
Checked(way, early, lately, replies) ==
    LET all == Seen(way, early, lately, replies)
    IN  all \cup {[comps EXCEPT ![c] = Crashed(c)] : comps \in all, c \in Fragile}

\* What is derived from the verdicts, by the worlds at both ends of the checks.
Derived ==
    [way \in Ways |-> [m \in Moments |->
        {[status |-> Summary(comps), can |-> Capabilities(comps),
          store |-> comps["minio"].status] :
            comps \in UNION {Checked(way, World(m[1]), World(m[2]), replies) :
                                replies \in Replies}}]]

\* A store was counted that was found in order, and only such a store.
Counts(asked, store) ==
    asked.opts.artifacts => /\ store = "ok" <=> asked.counted \in Nat
                            /\ store = "degraded" <=> asked.counted = Listing

Finish(q) ==
    /\ query[q] # None
    /\ LET asked == query[q]
           way == [probe |-> asked.opts.probe, failed |-> asked.counted = Listing]
       IN  \E sum \in Derived[way][<<asked.fault, Current>>] :
              LET entry == [moment |-> now, began |-> asked.moment,
                            probe |-> asked.opts.probe,
                            faults |-> {asked.fault, Current},
                            status |-> sum.status, can |-> sum.can,
                            counted |-> IF asked.counted \in Nat
                                        THEN asked.counted ELSE now]
              IN  /\ Counts(asked, sum.store)
                  /\ entries' = [entries EXCEPT ![asked.opts] = entry]
                  /\ answer' = entry
    /\ query' = [query EXCEPT ![q] = None]
    /\ UNCHANGED <<now, before, after, changed, scan>>

\* A service fails or recovers.
Change ==
    /\ ~changed
    /\ changed' = TRUE
    /\ UNCHANGED <<now, before, after, entries, scan, query, answer>>

Tick ==
    /\ now < MaxTime
    /\ \A q \in Queries : query[q] # None => now - query[q].moment < Slowest
    /\ now' = now + 1
    /\ answer' = None
    /\ UNCHANGED <<before, after, changed, entries, scan, query>>

Next ==
    \/ \E q \in Queries : Ask(q) \/ Count(q) \/ Listed(q) \/ Finish(q)
    \/ Change
    \/ Tick

Spec == Init /\ [][Next]_vars

-----------------------------------------------------------------------------
(* Properties *)

\* What an operation needs of the services, from the code that carries it out, and what
\* it also needs but capabilities does not look at: the dimension of the vectors, the
\* temporary directory of the tasks and the lock of the manifest.
Needs == [busca |-> {"points", "vectors"},
          ingestao |-> {"broker", "download", "source", "store"},
          extracao |-> {"parser", "extract", "lease", "store"},
          indexacao |-> {"vectors", "collection", "gpu", "store"},
          enriquecimento_llm |-> {"provider", "llm"}]
Overlooked == [busca |-> {"dimension"},
               ingestao |-> {"room", "lock"},
               extracao |-> {"room", "lock"},
               indexacao |-> {"dimension", "room", "lock"},
               enriquecimento_llm |-> {"store", "lock"}]
Optional == {"enriquecimento_llm"}

Given(need, w, probe) ==
    CASE need = "points" -> w.qdrant \in {"mismatch", "odd", "yellow", "green"}
      [] need = "collection" -> w.qdrant \in {"mismatch", "odd", "empty", "yellow", "green"}
      [] need = "dimension" -> w.qdrant # "mismatch"
      [] need = "vectors" -> /\ {w.dense, w.sparse} \cap {"down", "other"} = {}
                             /\ probe => "broken" \notin {w.dense, w.sparse}
      [] need = "broker" -> "broker" \in w.redis
      [] need = "lock" -> "job_store" \in w.redis
      [] need = "source" -> w.dspace = "rest"
      [] need = "store" -> w.minio \in {"unlistable", "ok"}
      [] need = "parser" -> w.mineru \in {"unhealthy", "healthy"}
      [] need = "lease" -> w.gpu = "unmanaged" \/ "gpu_manager" \in w.redis
      [] need = "provider" -> w.enrich = "serves"
      [] need = "room" -> w.disk # "full"
      [] OTHER -> "broker" \in w.redis /\ \E k \in w.workers : need \in Queues[k]
Met(a, need) == \E f \in a.faults : Given(need, World(f), a.probe)

Answers == {answer} \ {None}
\* The store was written to, in whichever world its check was made.
Probed(a) == WriteProbe /\ \A f \in a.faults : World(f).minio # "other"

\* A capability that an answer grants is no empty promise: everything that its
\* requirements name was there at some moment of the checks, whichever check raised,
\* whichever worker was slow and whatever changed meanwhile; and where the operation
\* needs more than they name, a capability that is granted in vain never comes with a
\* status of ok (capabilities, _resumo).
CapabilitiesHold ==
    \A a \in Answers : \A cap \in a.can :
        /\ \A need \in Needs[cap] : Met(a, need)
        /\ \A need \in Overlooked[cap] :
              Met(a, need) \/ a.status # "ok" \/ (need = "store" /\ ~Probed(a))

\* However queries overlap, what an answer says was measured within the lifetime of
\* the cache and the time of the checks, and the artifacts were counted within that
\* of both caches (the count is kept inside of the cached snapshot).
AnswersAreRecent ==
    \A a \in Answers :
        /\ a.moment - a.began <= Ttl + Slowest
        /\ a.moment - a.counted <= Ttl + Slowest + ScanTtl

\* While every check is content the search answers, and if the store is MinIO and is
\* tried by writing to it, what is not optional can be done: the capabilities ("o que o
\* sistema CONSEGUE fazer agora") and the status of an answer agree that far, with the
\* GPU manager or without it.
HealthyIsCapable ==
    \A a \in Answers : a.status = "ok" =>
        /\ "busca" \in a.can
        /\ Probed(a) => DOMAIN Needs \ Optional \subseteq a.can
=============================================================================
