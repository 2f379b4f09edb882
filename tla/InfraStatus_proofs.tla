------------------------- MODULE InfraStatus_proofs -------------------------
(* Proofs about the status of the infrastructure: what an answer says was measured
   lately, and its capabilities follow from what the checks saw.  The checks are
   taken one by one in a world of which only the states of the services are known. *)
EXTENDS InfraStatus, TLAPS

----------------------------------------------------------------------------
(* The checks *)

\* A world gives every service one of its states.
Sane(w) == \A s \in DOMAIN States : w[s] \in States[s]

\* Every world of the model does.
LEMMA WorldsAreSane ==
    ASSUME StatusAssumption, NEW f \in Faults \cup {NoFault}
    PROVE  Sane(World(f))
<1>1. CASE f = NoFault
  BY <1>1 DEF World, Sane, StatusAssumption
<1>2. CASE f # NoFault
  <2>1. f \in Faults /\ World(f) = [Healthy EXCEPT ![f.service] = f.state]
    BY <1>2 DEF World
  <2>2. \A s \in DOMAIN States : World(f)[s] = IF s = f.service THEN f.state ELSE Healthy[s]
    BY <2>1 DEF StatusAssumption
  <2>3. QED
    BY <2>1, <2>2 DEF Sane, StatusAssumption
<1>3. QED
  BY <1>1, <1>2

\* The states of the services, one by one.
LEMMA SaneStates ==
    ASSUME NEW w, Sane(w)
    PROVE  /\ w.qdrant \in {"down", "absent", "novector", "mismatch", "odd", "empty", "yellow",
                            "green"}
           /\ w.dense \in {"down", "other", "broken", "unnormalised", "serves"}
           /\ w.sparse \in {"down", "other", "broken", "serves"}
           /\ w.mineru \in {"down", "foreign", "unhealthy", "healthy"}
           /\ w.minio \in {"other", "down", "nobucket", "unreadable", "readonly", "unlistable",
                           "ok"}
           /\ w.redis \in SUBSET Databases
           /\ w.workers \in SUBSET DOMAIN Queues
           /\ w.gpu \in {"unmanaged", "managed"}
           /\ w.enrich \in {"keyless", "down", "rejected", "odd", "other", "manual", "serves"}
           /\ w.dspace \in {"down", "html", "rest"}
           /\ w.disk \in {"unmeasured", "full", "low", "free"}
<1>1. DOMAIN States = {"qdrant", "dense", "sparse", "mineru", "minio", "redis", "workers", "gpu",
                       "enrich", "visual", "dspace", "flower", "disk"}
  BY DEF States
<1>2. /\ w["qdrant"] \in States["qdrant"] /\ w["dense"] \in States["dense"]
      /\ w["sparse"] \in States["sparse"] /\ w["mineru"] \in States["mineru"]
      /\ w["minio"] \in States["minio"] /\ w["redis"] \in States["redis"]
      /\ w["workers"] \in States["workers"] /\ w["gpu"] \in States["gpu"]
      /\ w["enrich"] \in States["enrich"] /\ w["dspace"] \in States["dspace"]
      /\ w["disk"] \in States["disk"]
  BY <1>1 DEF Sane
<1>3. QED
  BY <1>2 DEF States

UpStatus == {"ok", "degraded"}

\* A collection that is not down is there; one that has chunks has points, and one that
\* is content has chunks, and vectors of the right dimension.
LEMMA QdrantSays ==
    ASSUME NEW w, Sane(w), NEW v, v = CheckQdrant(w), NEW probe
    PROVE  /\ v.status \in UpStatus /\ "chunks" \in v.detail => Given("points", w, probe)
           /\ v.status \in UpStatus => Given("collection", w, probe)
           /\ v.status = "ok" => "chunks" \in v.detail /\ Given("dimension", w, probe)
BY SaneStates DEF CheckQdrant, Verdict, Grade, Given, UpStatus

\* An embedder that is not down gives vectors, as far as it was asked to.
LEMMA EmbedderSays ==
    ASSUME NEW w, Sane(w), NEW probe \in BOOLEAN, NEW v, v = CheckEmbedder(w, probe)
    PROVE  v.status \in UpStatus => Given("vectors", w, probe)
BY SaneStates DEF CheckEmbedder, ProbeEmbedding, Verdict, Grade, Given, UpStatus

\* A MinerU that is not down is the parser.
LEMMA MineruSays ==
    ASSUME NEW w, Sane(w), NEW v, v = CheckMineru(w), NEW probe
    PROVE  v.status \in UpStatus => Given("parser", w, probe)
BY SaneStates DEF CheckMineru, Verdict, Grade, Given, UpStatus

\* A store that was written to keeps what is written, and one that is content is MinIO and
\* was written to if it was tried at all.
LEMMA MinioSays ==
    ASSUME NEW w, Sane(w), NEW failed, NEW v, v = CheckMinio(w, failed), NEW probe
    PROVE  /\ v.status \in UpStatus /\ "write" \in v.detail => Given("store", w, probe)
           /\ v.status \in {"ok", "not_configured"} /\ WriteProbe /\ w.minio # "other" =>
                 v.status = "ok" /\ "write" \in v.detail
<1>1. CASE w.minio = "other"
  BY <1>1 DEF CheckMinio, Verdict, UpStatus
<1>2. CASE w.minio # "other"
  <2>1. v.detail = Healthcheck(w)
    BY <1>2 DEF CheckMinio, Verdict
  <2>2. v.status \in UpStatus => "read" \in Healthcheck(w)
    BY <1>2 DEF CheckMinio, Verdict, UpStatus
  <2>3. "read" \in Healthcheck(w) /\ "write" \in Healthcheck(w)
          => w.minio \in {"unlistable", "ok"}
    BY <1>2, SaneStates DEF Healthcheck
  <2>4. /\ v.status # "not_configured"
        /\ v.status = "ok" /\ WriteProbe => "write" \in Healthcheck(w)
    BY <1>2 DEF CheckMinio, Verdict
  <2>5. QED
    BY <2>1, <2>2, <2>3, <2>4 DEF Given
<1>3. QED
  BY <1>1, <1>2

\* The databases that were reached are there, all of them if Redis is content.
LEMMA RedisSays ==
    ASSUME NEW w, Sane(w), NEW v, v = CheckRedis(w), NEW probe
    PROVE  /\ "broker" \in v.detail => Given("broker", w, probe)
           /\ v.status = "ok" => "broker" \in v.detail /\ Given("lock", w, probe)
BY DEF CheckRedis, Verdict, Given, Databases

\* A queue that is covered has a worker, and every queue is if Celery is content.
LEMMA CelerySays ==
    ASSUME NEW w, Sane(w), NEW replies, NEW v, v = CheckCelery(w, replies), NEW probe,
           NEW q \in Lanes
    PROVE  /\ q \in v.detail => Given(q, w, probe)
           /\ v.status = "ok" => q \in v.detail
<1> DEFINE up == IF "broker" \in w.redis THEN w.workers ELSE {}
           covered == UNION {Queues[k] : k \in up \cap replies.listed}
<1>1. v.detail = covered
  BY DEF CheckCelery, Verdict
<1>2. Given(q, w, probe) <=> "broker" \in w.redis /\ \E k \in w.workers : q \in Queues[k]
  BY DEF Given, Lanes
<1>3. v.status = "ok" => Lanes \ covered = {}
  BY DEF CheckCelery, Verdict
<1>4. QED
  BY <1>1, <1>2, <1>3

\* The GPU is leased unless its manager is down: without the manager it need not be.
LEMMA GpuSays ==
    ASSUME NEW w, Sane(w), NEW v, v = CheckGpu(w), NEW probe
    PROVE  v.status \in UpStatus \cup {"not_configured"} => Given("lease", w, probe)
BY DEF CheckGpu, Verdict, Given, UpStatus

\* A provider that is content serves.
LEMMA EnrichSays ==
    ASSUME NEW w, Sane(w), NEW v, v = CheckLlmEnrich(w), NEW probe
    PROVE  v.status = "ok" => Given("provider", w, probe)
BY SaneStates DEF CheckLlmEnrich, Verdict, Grade, Given

\* A repository that is not down is a source of documents.
LEMMA DspaceSays ==
    ASSUME NEW w, Sane(w), NEW v, v = CheckDspace(w), NEW probe
    PROVE  v.status \in UpStatus => Given("source", w, probe)
BY SaneStates DEF CheckDspace, Verdict, Grade, Given, UpStatus

\* A disk that is content is not full.
LEMMA DiskSays ==
    ASSUME NEW w, Sane(w), NEW v, v = CheckDisk(w), NEW probe
    PROVE  v.status = "ok" => Given("room", w, probe)
BY SaneStates DEF CheckDisk, Verdict, Grade, Given

----------------------------------------------------------------------------
(* The checks of a query *)

\* A check saw the world early or late, or raised.
Saw(v, c, o, w1, w2, replies) ==
    \/ v = Registry(c, w1, o, replies)
    \/ v = Registry(c, w2, o, replies)
    \/ v = Crashed(c)

\* Each of the checks of a query did.
LEMMA EachIsSeen ==
    ASSUME StatusAssumption, NEW o, NEW w1, NEW w2, NEW replies,
           NEW comps \in Checked(o, w1, w2, replies)
    PROVE  DOMAIN comps = Components /\ \A c \in Components : Saw(comps[c], c, o, w1, w2, replies)
<1> DEFINE first == [c \in Components |-> Registry(c, w1, o, replies)]
           last == [c \in Components |-> Registry(c, w2, o, replies)]
           all == Seen(o, w1, w2, replies)
<1>1. /\ DOMAIN first = Components /\ DOMAIN last = Components
      /\ \A c \in Components : /\ first[c] = Registry(c, w1, o, replies)
                              /\ last[c] = Registry(c, w2, o, replies)
  OBVIOUS
<1>2. ASSUME NEW cs \in all
      PROVE  DOMAIN cs = Components /\ \A c \in Components : cs[c] = first[c] \/ cs[c] = last[c]
  <2>1. PICK old \in SUBSET {c \in Components : first[c] # last[c]} :
            cs = [c \in Components |-> IF c \in old THEN first[c] ELSE last[c]]
    BY DEF Seen
  <2> HIDE DEF first, last
  <2>2. QED
    BY <2>1
<1>3. comps \in all \/ \E cs \in all, c \in Fragile : comps = [cs EXCEPT ![c] = Crashed(c)]
  <2> HIDE DEF all
  <2>1. comps \in all \cup {[cs EXCEPT ![c] = Crashed(c)] : cs \in all, c \in Fragile}
    BY DEF Checked, all
  <2>2. QED
    BY <2>1
<1> HIDE DEF first, last, all
<1>4. CASE comps \in all
  BY <1>1, <1>2, <1>4 DEF Saw
<1>5. CASE \E cs \in all, c \in Fragile : comps = [cs EXCEPT ![c] = Crashed(c)]
  <2>1. PICK cs \in all, d \in Fragile : comps = [cs EXCEPT ![d] = Crashed(d)]
    BY <1>5
  <2>2. DOMAIN cs = Components /\ \A c \in Components : cs[c] = first[c] \/ cs[c] = last[c]
    BY <1>2
  <2>3. \A c \in Components : comps[c] = IF c = d THEN Crashed(d) ELSE cs[c]
    BY <2>1, <2>2
  <2>4. QED
    BY <1>1, <2>1, <2>2, <2>3 DEF Saw
<1>6. QED
  BY <1>3, <1>4, <1>5

\* The verdicts of the components that the capabilities are derived from.
LEMMA WhatIsSeen ==
    ASSUME NEW o, NEW w1, NEW w2, NEW replies, NEW comps,
           \A c \in Components : Saw(comps[c], c, o, w1, w2, replies)
    PROVE  /\ comps["qdrant"] \in {CheckQdrant(w1), CheckQdrant(w2), Verdict("unknown", {})}
           /\ comps["embedder"] \in {CheckEmbedder(w1, o.probe), CheckEmbedder(w2, o.probe),
                                     Verdict("unknown", {})}
           /\ comps["mineru"] \in {CheckMineru(w1), CheckMineru(w2), Verdict("unknown", {})}
           /\ comps["minio"] \in {CheckMinio(w1, o.failed), CheckMinio(w2, o.failed),
                                  Verdict("unknown", {})}
           /\ comps["redis"] \in {CheckRedis(w1), CheckRedis(w2), Verdict("unknown", {})}
           /\ comps["celery"] \in {CheckCelery(w1, replies), CheckCelery(w2, replies),
                                   Verdict("unknown", {})}
           /\ comps["gpu"] \in {CheckGpu(w1), CheckGpu(w2), Verdict("unknown", {})}
           /\ comps["llm_enrich"] \in {CheckLlmEnrich(w1), CheckLlmEnrich(w2),
                                       Verdict("unknown", {})}
           /\ comps["dspace"] \in {CheckDspace(w1), CheckDspace(w2), Verdict("unknown", {})}
           /\ comps["disk"] \in {CheckDisk(w1), CheckDisk(w2), Verdict("unknown", {})}
<1>1. \A c \in Components : comps[c] \in {Registry(c, w1, o, replies), Registry(c, w2, o, replies),
                                           Verdict("unknown", {})}
  BY DEF Saw, Crashed
<1>2. {"qdrant", "embedder", "mineru", "minio", "redis", "celery", "gpu", "llm_enrich", "dspace",
       "disk"} \subseteq Components
  BY DEF Components
<1>3. \A w : /\ Registry("qdrant", w, o, replies) = CheckQdrant(w)
            /\ Registry("embedder", w, o, replies) = CheckEmbedder(w, o.probe)
            /\ Registry("mineru", w, o, replies) = CheckMineru(w)
            /\ Registry("minio", w, o, replies) = CheckMinio(w, o.failed)
            /\ Registry("redis", w, o, replies) = CheckRedis(w)
            /\ Registry("celery", w, o, replies) = CheckCelery(w, replies)
            /\ Registry("gpu", w, o, replies) = CheckGpu(w)
            /\ Registry("llm_enrich", w, o, replies) = CheckLlmEnrich(w)
            /\ Registry("dspace", w, o, replies) = CheckDspace(w)
            /\ Registry("disk", w, o, replies) = CheckDisk(w)
  BY DEF Registry
<1>4. QED
  BY <1>1, <1>2, <1>3

\* A need was met early or late.
MetIn(need, w1, w2, probe) == Given(need, w1, probe) \/ Given(need, w2, probe)

\* What the verdicts that are not down say of the two worlds.
LEMMA UpIsMet ==
    ASSUME StatusAssumption, NEW o \in Ways, NEW w1, Sane(w1), NEW w2, Sane(w2), NEW replies,
           NEW comps, \A c \in Components : Saw(comps[c], c, o, w1, w2, replies)
    PROVE  /\ Up(comps, "qdrant") /\ "chunks" \in comps["qdrant"].detail
                => MetIn("points", w1, w2, o.probe)
           /\ Up(comps, "qdrant") => MetIn("collection", w1, w2, o.probe)
           /\ Up(comps, "embedder") => MetIn("vectors", w1, w2, o.probe)
           /\ Up(comps, "mineru") => MetIn("parser", w1, w2, o.probe)
           /\ Writable(comps) => MetIn("store", w1, w2, o.probe)
           /\ "broker" \in comps["redis"].detail => MetIn("broker", w1, w2, o.probe)
           /\ \A q \in Lanes : Covered(comps, q) => MetIn(q, w1, w2, o.probe)
           /\ GpuOk(comps) => MetIn("lease", w1, w2, o.probe)
           /\ comps["llm_enrich"].status = "ok" => MetIn("provider", w1, w2, o.probe)
           /\ Up(comps, "dspace") => MetIn("source", w1, w2, o.probe)
<1>0. o.probe \in BOOLEAN
  BY DEF Ways
<1>1. /\ Verdict("unknown", {}).status \notin UpStatus \cup {"not_configured"}
      /\ Verdict("unknown", {}).detail = {}
  BY DEF Verdict, UpStatus
<1>2. \A c : Up(comps, c) <=> comps[c].status \in UpStatus
  BY DEF Up, UpStatus
<1>3. Up(comps, "qdrant") /\ "chunks" \in comps["qdrant"].detail => MetIn("points", w1, w2, o.probe)
  <2>1. \A w \in {w1, w2} : LET v == CheckQdrant(w)
                          IN  v.status \in UpStatus /\ "chunks" \in v.detail
                                => Given("points", w, o.probe)
    BY QdrantSays
  <2>2. comps["qdrant"] \in {CheckQdrant(w1), CheckQdrant(w2), Verdict("unknown", {})}
    BY WhatIsSeen
  <2>3. QED
    BY <1>1, <1>2, <2>1, <2>2 DEF MetIn
<1>4. Up(comps, "qdrant") => MetIn("collection", w1, w2, o.probe)
  <2>1. \A w \in {w1, w2} : CheckQdrant(w).status \in UpStatus => Given("collection", w, o.probe)
    BY QdrantSays
  <2>2. comps["qdrant"] \in {CheckQdrant(w1), CheckQdrant(w2), Verdict("unknown", {})}
    BY WhatIsSeen
  <2>3. QED
    BY <1>1, <1>2, <2>1, <2>2 DEF MetIn
<1>5. Up(comps, "embedder") => MetIn("vectors", w1, w2, o.probe)
  <2>1. \A w \in {w1, w2} :
            CheckEmbedder(w, o.probe).status \in UpStatus => Given("vectors", w, o.probe)
    BY <1>0, EmbedderSays
  <2>2. comps["embedder"] \in {CheckEmbedder(w1, o.probe), CheckEmbedder(w2, o.probe),
                              Verdict("unknown", {})}
    BY WhatIsSeen
  <2>3. QED
    BY <1>1, <1>2, <2>1, <2>2 DEF MetIn
<1>6. Up(comps, "mineru") => MetIn("parser", w1, w2, o.probe)
  BY WhatIsSeen, MineruSays, <1>1, <1>2 DEF MetIn
<1>7. Writable(comps) => MetIn("store", w1, w2, o.probe)
  BY WhatIsSeen, MinioSays, <1>1, <1>2 DEF MetIn, Writable
<1>8. "broker" \in comps["redis"].detail => MetIn("broker", w1, w2, o.probe)
  BY WhatIsSeen, RedisSays, <1>1 DEF MetIn
<1>9. ASSUME NEW q \in Lanes, Covered(comps, q)
      PROVE  MetIn(q, w1, w2, o.probe)
  <2>1. \A w \in {w1, w2} : q \in CheckCelery(w, replies).detail => Given(q, w, o.probe)
    BY CelerySays
  <2>2. comps["celery"] \in {CheckCelery(w1, replies), CheckCelery(w2, replies),
                            Verdict("unknown", {})}
    BY WhatIsSeen
  <2>3. q \in comps["celery"].detail
    BY <1>9 DEF Covered
  <2>4. QED
    BY <1>1, <2>1, <2>2, <2>3 DEF MetIn
<1>10. GpuOk(comps) => MetIn("lease", w1, w2, o.probe)
  BY WhatIsSeen, GpuSays, <1>1, <1>2 DEF MetIn, GpuOk
<1>11. comps["llm_enrich"].status = "ok" => MetIn("provider", w1, w2, o.probe)
  BY WhatIsSeen, EnrichSays, <1>1 DEF MetIn, UpStatus
<1>12. Up(comps, "dspace") => MetIn("source", w1, w2, o.probe)
  BY WhatIsSeen, DspaceSays, <1>1, <1>2 DEF MetIn
<1>13. QED
  BY <1>3, <1>4, <1>5, <1>6, <1>7, <1>8, <1>9, <1>10, <1>11, <1>12

\* A capability that is derived from the checks of a query has all that it needs.
LEMMA CapabilitiesFollow ==
    ASSUME StatusAssumption, NEW o \in Ways, NEW w1, Sane(w1), NEW w2, Sane(w2), NEW replies,
           NEW comps \in Checked(o, w1, w2, replies),
           NEW cap \in Capabilities(comps), NEW need \in Needs[cap]
    PROVE  MetIn(need, w1, w2, o.probe)
<1>1. \A c \in Components : Saw(comps[c], c, o, w1, w2, replies)
  BY EachIsSeen
<1>2. {"download", "extract", "gpu", "llm"} = Lanes
  BY DEF Lanes
<1>3. CASE cap = "busca" /\ Up(comps, "qdrant") /\ "chunks" \in comps["qdrant"].detail
              /\ Up(comps, "embedder")
  <2>1. need \in {"points", "vectors"}
    BY <1>3 DEF Needs
  <2>2. QED
    BY <1>1, <1>3, <2>1, UpIsMet
<1>4. CASE cap = "ingestao" /\ "broker" \in comps["redis"].detail /\ Covered(comps, "download")
              /\ Up(comps, "dspace") /\ Writable(comps)
  <2>1. need \in {"broker", "download", "source", "store"}
    BY <1>4 DEF Needs
  <2>2. QED
    BY <1>1, <1>2, <1>4, <2>1, UpIsMet
<1>5. CASE cap = "extracao" /\ Up(comps, "mineru") /\ Covered(comps, "extract")
              /\ GpuOk(comps) /\ Writable(comps)
  <2>1. need \in {"parser", "extract", "lease", "store"}
    BY <1>5 DEF Needs
  <2>2. QED
    BY <1>1, <1>2, <1>5, <2>1, UpIsMet
<1>6. CASE cap = "indexacao" /\ Up(comps, "embedder") /\ Up(comps, "qdrant")
              /\ Covered(comps, "gpu") /\ Writable(comps)
  <2>1. need \in {"vectors", "collection", "gpu", "store"}
    BY <1>6 DEF Needs
  <2>2. QED
    BY <1>1, <1>2, <1>6, <2>1, UpIsMet
<1>7. CASE cap = "enriquecimento_llm" /\ comps["llm_enrich"].status = "ok" /\ Covered(comps, "llm")
  <2>1. need \in {"provider", "llm"}
    BY <1>7 DEF Needs
  <2>2. QED
    BY <1>1, <1>2, <1>7, <2>1, UpIsMet
<1>8. QED
  BY <1>3, <1>4, <1>5, <1>6, <1>7 DEF Capabilities

\* A summary that is ok leaves no component down, degraded or unknown.
LEMMA NoneIsBad ==
    ASSUME NEW o \in Ways, NEW w1, NEW w2, NEW replies, NEW comps, DOMAIN comps = Components,
           \A c \in Components : Saw(comps[c], c, o, w1, w2, replies), Summary(comps) = "ok"
    PROVE  /\ comps["qdrant"].status = "ok" /\ comps["embedder"].status = "ok"
           /\ comps["mineru"].status = "ok" /\ comps["redis"].status = "ok"
           /\ comps["celery"].status = "ok" /\ comps["dspace"].status = "ok"
           /\ comps["minio"].status \in {"ok", "not_configured"}
           /\ comps["gpu"].status \in {"ok", "not_configured"}
           /\ comps["disk"].status = "ok"
<1>1. \A c \in Components : comps[c].status \notin {"down", "degraded", "unknown"}
  BY DEF Summary
<1>2. {"qdrant", "embedder", "mineru", "minio", "redis", "celery", "gpu", "dspace", "disk"}
        \subseteq Components
  BY DEF Components
<1>3. \A w : /\ CheckQdrant(w).status \in {"down", "degraded", "ok"}
            /\ CheckEmbedder(w, o.probe).status \in {"down", "degraded", "ok"}
            /\ CheckMineru(w).status \in {"down", "degraded", "ok"}
            /\ CheckMinio(w, o.failed).status \in {"not_configured", "down", "degraded", "ok"}
            /\ CheckRedis(w).status \in {"down", "degraded", "ok"}
            /\ CheckCelery(w, replies).status \in {"down", "degraded", "ok"}
            /\ CheckDspace(w).status \in {"down", "degraded", "ok"}
            /\ CheckGpu(w).status \in {"not_configured", "down", "ok"}
            /\ CheckDisk(w).status \in {"unknown", "down", "degraded", "ok"}
  BY DEF CheckQdrant, CheckEmbedder, CheckMineru, CheckMinio, CheckRedis, CheckCelery,
         CheckDspace, CheckGpu, CheckDisk, ProbeEmbedding, Grade, Verdict
<1>4. Verdict("unknown", {}).status = "unknown"
  BY DEF Verdict
<1>5. /\ comps["qdrant"] \in {CheckQdrant(w1), CheckQdrant(w2), Verdict("unknown", {})}
      /\ comps["embedder"] \in {CheckEmbedder(w1, o.probe), CheckEmbedder(w2, o.probe),
                               Verdict("unknown", {})}
      /\ comps["mineru"] \in {CheckMineru(w1), CheckMineru(w2), Verdict("unknown", {})}
      /\ comps["minio"] \in {CheckMinio(w1, o.failed), CheckMinio(w2, o.failed),
                            Verdict("unknown", {})}
      /\ comps["redis"] \in {CheckRedis(w1), CheckRedis(w2), Verdict("unknown", {})}
      /\ comps["celery"] \in {CheckCelery(w1, replies), CheckCelery(w2, replies),
                             Verdict("unknown", {})}
      /\ comps["gpu"] \in {CheckGpu(w1), CheckGpu(w2), Verdict("unknown", {})}
      /\ comps["dspace"] \in {CheckDspace(w1), CheckDspace(w2), Verdict("unknown", {})}
      /\ comps["disk"] \in {CheckDisk(w1), CheckDisk(w2), Verdict("unknown", {})}
  BY WhatIsSeen
<1>6. /\ comps["qdrant"].status = "ok" /\ comps["embedder"].status = "ok"
      /\ comps["mineru"].status = "ok" /\ comps["dspace"].status = "ok"
  BY <1>1, <1>2, <1>3, <1>4, <1>5
<1>7. /\ comps["redis"].status = "ok" /\ comps["celery"].status = "ok"
      /\ comps["disk"].status = "ok"
  BY <1>1, <1>2, <1>3, <1>4, <1>5
<1>8. /\ comps["minio"].status \in {"ok", "not_configured"}
      /\ comps["gpu"].status \in {"ok", "not_configured"}
  BY <1>1, <1>2, <1>3, <1>4, <1>5
<1>9. QED
  BY <1>6, <1>7, <1>8

\* With a summary that is ok, what the capabilities overlook is there: the vectors have the
\* right dimension, the disk has room and the lock of the manifest its database.  A store
\* that was written to is there as well.
LEMMA OverlookedFollows ==
    ASSUME StatusAssumption, NEW o \in Ways, NEW w1, Sane(w1), NEW w2, Sane(w2), NEW replies,
           NEW comps \in Checked(o, w1, w2, replies), Summary(comps) = "ok"
    PROVE  /\ MetIn("dimension", w1, w2, o.probe)
           /\ MetIn("room", w1, w2, o.probe)
           /\ MetIn("lock", w1, w2, o.probe)
           /\ WriteProbe /\ w1.minio # "other" /\ w2.minio # "other"
                => MetIn("store", w1, w2, o.probe) /\ Writable(comps)
<1>1. DOMAIN comps = Components /\ \A c \in Components : Saw(comps[c], c, o, w1, w2, replies)
  BY EachIsSeen
<1>2. /\ comps["qdrant"].status = "ok" /\ comps["redis"].status = "ok"
      /\ comps["disk"].status = "ok" /\ comps["minio"].status \in {"ok", "not_configured"}
  BY <1>1, NoneIsBad
<1>3. Verdict("unknown", {}).status = "unknown"
  BY DEF Verdict
<1>4. MetIn("dimension", w1, w2, o.probe)
  <2>1. \A w \in {w1, w2} : CheckQdrant(w).status = "ok" => Given("dimension", w, o.probe)
    BY QdrantSays
  <2>2. comps["qdrant"] \in {CheckQdrant(w1), CheckQdrant(w2), Verdict("unknown", {})}
    BY <1>1, WhatIsSeen
  <2>3. QED
    BY <1>2, <1>3, <2>1, <2>2 DEF MetIn
<1>5. MetIn("room", w1, w2, o.probe)
  <2>1. \A w \in {w1, w2} : CheckDisk(w).status = "ok" => Given("room", w, o.probe)
    BY DiskSays
  <2>2. comps["disk"] \in {CheckDisk(w1), CheckDisk(w2), Verdict("unknown", {})}
    BY <1>1, WhatIsSeen
  <2>3. QED
    BY <1>2, <1>3, <2>1, <2>2 DEF MetIn
<1>6. MetIn("lock", w1, w2, o.probe)
  <2>1. \A w \in {w1, w2} : CheckRedis(w).status = "ok" => Given("lock", w, o.probe)
    BY RedisSays
  <2>2. comps["redis"] \in {CheckRedis(w1), CheckRedis(w2), Verdict("unknown", {})}
    BY <1>1, WhatIsSeen
  <2>3. QED
    BY <1>2, <1>3, <2>1, <2>2 DEF MetIn
<1>7. ASSUME WriteProbe, w1.minio # "other", w2.minio # "other"
      PROVE  MetIn("store", w1, w2, o.probe) /\ Writable(comps)
  <2>1. \A w \in {w1, w2} :
            CheckMinio(w, o.failed).status \in {"ok", "not_configured"} =>
              CheckMinio(w, o.failed).status = "ok" /\ "write" \in CheckMinio(w, o.failed).detail
    BY <1>7, MinioSays
  <2>2. comps["minio"] \in {CheckMinio(w1, o.failed), CheckMinio(w2, o.failed),
                           Verdict("unknown", {})}
    BY <1>1, WhatIsSeen
  <2>3. comps["minio"].status = "ok" /\ "write" \in comps["minio"].detail
    BY <1>2, <1>3, <2>1, <2>2
  <2>4. Writable(comps)
    BY <2>3 DEF Writable, Up
  <2>5. QED
    BY <1>1, <2>4, UpIsMet
<1>8. QED
  BY <1>4, <1>5, <1>6, <1>7

\* A summary that is ok grants the search, and every capability but the optional one if the
\* store was written to.
LEMMA SummaryFollows ==
    ASSUME StatusAssumption, NEW o \in Ways, NEW w1, Sane(w1), NEW w2, Sane(w2), NEW replies,
           NEW comps \in Checked(o, w1, w2, replies), Summary(comps) = "ok"
    PROVE  /\ "busca" \in Capabilities(comps)
           /\ WriteProbe /\ w1.minio # "other" /\ w2.minio # "other"
                => DOMAIN Needs \ Optional \subseteq Capabilities(comps)
<1>1. DOMAIN comps = Components /\ \A c \in Components : Saw(comps[c], c, o, w1, w2, replies)
  BY EachIsSeen
<1>2. /\ comps["qdrant"].status = "ok" /\ comps["embedder"].status = "ok"
      /\ comps["mineru"].status = "ok" /\ comps["redis"].status = "ok"
      /\ comps["celery"].status = "ok" /\ comps["dspace"].status = "ok"
      /\ comps["gpu"].status \in {"ok", "not_configured"}
  BY <1>1, NoneIsBad
<1>3. Verdict("unknown", {}).status = "unknown"
  BY DEF Verdict
<1>4. "chunks" \in comps["qdrant"].detail
  <2>1. \A w \in {w1, w2} : CheckQdrant(w).status = "ok" => "chunks" \in CheckQdrant(w).detail
    BY QdrantSays
  <2>2. comps["qdrant"] \in {CheckQdrant(w1), CheckQdrant(w2), Verdict("unknown", {})}
    BY <1>1, WhatIsSeen
  <2>3. QED
    BY <1>2, <1>3, <2>1, <2>2
<1>5. "broker" \in comps["redis"].detail
  <2>1. \A w \in {w1, w2} : CheckRedis(w).status = "ok" => "broker" \in CheckRedis(w).detail
    BY RedisSays
  <2>2. comps["redis"] \in {CheckRedis(w1), CheckRedis(w2), Verdict("unknown", {})}
    BY <1>1, WhatIsSeen
  <2>3. QED
    BY <1>2, <1>3, <2>1, <2>2
<1>6. Lanes \subseteq comps["celery"].detail
  <2>1. \A q \in Lanes, w \in {w1, w2} :
            CheckCelery(w, replies).status = "ok" => q \in CheckCelery(w, replies).detail
    BY CelerySays
  <2>2. comps["celery"] \in {CheckCelery(w1, replies), CheckCelery(w2, replies),
                            Verdict("unknown", {})}
    BY <1>1, WhatIsSeen
  <2>3. QED
    BY <1>2, <1>3, <2>1, <2>2
<1>7. /\ \A c \in {"qdrant", "embedder", "mineru", "redis", "celery", "dspace"} : Up(comps, c)
      /\ \A q \in Lanes : Covered(comps, q)
      /\ GpuOk(comps)
  BY <1>2, <1>6 DEF Up, Covered, GpuOk
<1>8. "busca" \in Capabilities(comps)
  BY <1>4, <1>7 DEF Capabilities
<1>9. ASSUME WriteProbe, w1.minio # "other", w2.minio # "other"
      PROVE  DOMAIN Needs \ Optional \subseteq Capabilities(comps)
  <2>1. DOMAIN Needs \ Optional = {"busca", "ingestao", "extracao", "indexacao"}
    BY DEF Needs, Optional
  <2>2. Writable(comps)
    BY <1>9, OverlookedFollows
  <2>3. QED
    BY <1>4, <1>5, <1>7, <2>1, <2>2 DEF Capabilities, Lanes
<1>10. QED
  BY <1>8, <1>9

----------------------------------------------------------------------------
(* Types *)

Faulty == Faults \cup {NoFault}
Granted == DOMAIN Needs
Asked == [moment : Nat, opts : Options, fault : Faulty, counted : Nat \cup {Never, Listing}]
Entry == [moment : Nat, began : Nat, probe : BOOLEAN, faults : SUBSET Faulty,
          status : {"down", "degraded", "ok"}, can : SUBSET Granted, counted : Nat]

\* The type invariant.
TypeOK ==
    /\ now \in Nat
    /\ before \in Faulty /\ after \in Faulty /\ <<before, after>> \in Moments
    /\ changed \in BOOLEAN
    /\ entries \in [Options -> Entry \cup {None}]
    /\ scan \in Nat \cup {Never}
    /\ query \in [Queries -> Asked \cup {None}]
    /\ answer \in Entry \cup {None}

\* A query saw the first world, or the last one if it began after the change.
FaultInv ==
    \A q \in Queries : query[q] # None =>
        query[q].fault = before \/ (changed /\ query[q].fault = after)

\* None is no answer and no query, and has the moment of what was never put.
LEMMA NoneIsNothing ==
    None \notin Entry /\ None \notin Asked /\ None.moment = Never
    /\ Never \notin Nat /\ Listing \notin Nat
<1>1. /\ None.moment = 0 - 1 /\ Never = 0 - 1 /\ 0 - 1 \notin Nat
      /\ Listing = 0 - 2 /\ 0 - 2 \notin Nat
  BY DEF None, Never, Listing
<1>2. \A e \in Entry \cup Asked : e.moment \in Nat
  BY DEF Entry, Asked
<1>3. QED
  BY <1>1, <1>2

\* Two moments of one query are moments of the model.
LEMMA MomentsOfAQuery ==
    ASSUME TypeOK, FaultInv, NEW q \in Queries, query[q] # None
    PROVE  /\ <<query[q].fault, Current>> \in Moments
           /\ query[q].fault \in Faulty /\ Current \in Faulty
<1>1. \A f \in Faulty : <<f, f>> \in Moments
  BY DEF Moments, Faulty
<1>2. CASE changed
  BY <1>1, <1>2 DEF TypeOK, FaultInv, Current
<1>3. CASE ~changed
  BY <1>1, <1>3 DEF TypeOK, FaultInv, Current
<1>4. QED
  BY <1>2, <1>3

\* What a query may derive comes from checks of the worlds at both of its ends.
LEMMA DerivedFromChecks ==
    ASSUME NEW o \in Ways, NEW f, NEW g, <<f, g>> \in Moments,
           NEW sum \in Derived[o][<<f, g>>]
    PROVE  \E replies, comps :
              /\ comps \in Checked(o, World(f), World(g), replies)
              /\ sum.status = Summary(comps) /\ sum.can = Capabilities(comps)
<1>1. sum \in {[status |-> Summary(comps), can |-> Capabilities(comps),
                store |-> comps["minio"].status] :
                  comps \in UNION {Checked(o, World(f), World(g), replies) :
                                      replies \in Replies}}
  BY DEF Derived
<1>2. PICK comps \in UNION {Checked(o, World(f), World(g), replies) : replies \in Replies} :
          sum = [status |-> Summary(comps), can |-> Capabilities(comps),
                 store |-> comps["minio"].status]
  BY <1>1
<1>3. PICK replies \in Replies : comps \in Checked(o, World(f), World(g), replies)
  OBVIOUS
<1>4. QED
  BY <1>2, <1>3

\* What an entry says follows from what the checks of its query saw.  Its capabilities have
\* what they need in one of the worlds, what they overlook as well if its status is ok, and
\* its status is of a piece with them.
Sound(e) ==
    /\ \A cap \in e.can : \A need \in Needs[cap] : Met(e, need)
    /\ \A cap \in e.can : \A need \in Overlooked[cap] :
          Met(e, need) \/ e.status # "ok" \/ (need = "store" /\ ~Probed(e))
    /\ e.status = "ok" => "busca" \in e.can
    /\ e.status = "ok" /\ Probed(e) => Granted \ Optional \subseteq e.can

\* An entry that is derived from the checks of a query is sound.
LEMMA DerivedIsSound ==
    ASSUME StatusAssumption, NEW o \in Ways, NEW f \in Faulty, NEW g \in Faulty,
           <<f, g>> \in Moments, NEW sum \in Derived[o][<<f, g>>], NEW e,
           e.status = sum.status, e.can = sum.can, e.faults = {f, g}, e.probe = o.probe
    PROVE  /\ sum.status \in {"down", "degraded", "ok"} /\ sum.can \subseteq Granted
           /\ Sound(e)
<1>1. PICK replies, comps : /\ comps \in Checked(o, World(f), World(g), replies)
                            /\ e.status = Summary(comps) /\ e.can = Capabilities(comps)
  BY DerivedFromChecks
<1>2. Sane(World(f)) /\ Sane(World(g))
  BY WorldsAreSane DEF Faulty
<1>3. \A need : MetIn(need, World(f), World(g), o.probe) => Met(e, need)
  BY DEF Met, MetIn
<1>4. Probed(e) => WriteProbe /\ World(f).minio # "other" /\ World(g).minio # "other"
  BY DEF Probed
<1>5. Granted = {"busca", "ingestao", "extracao", "indexacao", "enriquecimento_llm"}
  BY DEF Granted, Needs
<1>6. sum.status \in {"down", "degraded", "ok"} /\ sum.can \subseteq Granted
  BY <1>1, <1>5 DEF Summary, Capabilities
<1>7. ASSUME NEW cap \in e.can, NEW need \in Needs[cap]
      PROVE  Met(e, need)
  BY <1>1, <1>2, <1>3, <1>7, CapabilitiesFollow
<1>8. ASSUME NEW cap \in e.can, NEW need \in Overlooked[cap], e.status = "ok"
      PROVE  Met(e, need) \/ (need = "store" /\ ~Probed(e))
  <2>1. need \in {"dimension", "room", "lock", "store"}
    BY <1>5, <1>6, <1>8 DEF Overlooked
  <2>2. /\ MetIn("dimension", World(f), World(g), o.probe)
        /\ MetIn("room", World(f), World(g), o.probe)
        /\ MetIn("lock", World(f), World(g), o.probe)
        /\ Probed(e) => MetIn("store", World(f), World(g), o.probe)
    BY <1>1, <1>2, <1>4, <1>8, OverlookedFollows
  <2>3. QED
    BY <1>3, <2>1, <2>2
<1>9. ASSUME e.status = "ok"
      PROVE  "busca" \in e.can /\ (Probed(e) => Granted \ Optional \subseteq e.can)
  <2>1. /\ "busca" \in Capabilities(comps)
        /\ WriteProbe /\ World(f).minio # "other" /\ World(g).minio # "other"
              => DOMAIN Needs \ Optional \subseteq Capabilities(comps)
    BY <1>1, <1>2, <1>9, SummaryFollows
  <2>2. QED
    BY <1>1, <1>4, <2>1 DEF Granted
<1>10. \A cap \in e.can : \A need \in Overlooked[cap] :
          Met(e, need) \/ e.status # "ok" \/ (need = "store" /\ ~Probed(e))
  BY <1>8, Zenon
<1>11. Sound(e)
  BY <1>7, <1>9, <1>10, Zenon DEF Sound
<1>12. QED
  BY <1>6, <1>11

\* The entry that Finish puts.
Measured(q, sum) ==
    [moment |-> now, began |-> query[q].moment, probe |-> query[q].opts.probe,
     faults |-> {query[q].fault, Current}, status |-> sum.status, can |-> sum.can,
     counted |-> IF query[q].counted \in Nat THEN query[q].counted ELSE now]

\* The way of the checks of a query.
WayOf(q) == [probe |-> query[q].opts.probe, failed |-> query[q].counted = Listing]

\* Finish in terms of that entry.
FinishWith(q, sum) ==
    /\ query[q] # None
    /\ sum \in Derived[WayOf(q)][<<query[q].fault, Current>>]
    /\ entries' = [entries EXCEPT ![query[q].opts] = Measured(q, sum)]
    /\ answer' = Measured(q, sum)
    /\ query' = [query EXCEPT ![q] = None]
    /\ UNCHANGED <<now, before, after, changed, scan>>

\* Ask, when the cache answers and when it does not.
AskCached(q) ==
    /\ query[q] = None
    /\ \E opts \in Options :
          /\ Valid(entries[opts].moment, Ttl)
          /\ answer' = [entries[opts] EXCEPT !.moment = now]
    /\ UNCHANGED <<now, before, after, changed, entries, scan, query>>
AskChecks(q) ==
    /\ query[q] = None
    /\ \E opts \in Options :
          query' = [query EXCEPT ![q] = [moment |-> now, opts |-> opts, fault |-> Current,
                                         counted |-> Never]]
    /\ UNCHANGED <<now, before, after, changed, entries, scan, answer>>

\* A count comes from the cache, is being listed, or has been listed just now.
CountCached(q) ==
    /\ query[q] # None /\ Valid(scan, ScanTtl)
    /\ query' = [query EXCEPT ![q].counted = scan]
    /\ UNCHANGED <<now, before, after, changed, entries, scan, answer>>
CountLists(q) ==
    /\ query[q] # None
    /\ query' = [query EXCEPT ![q].counted = Listing]
    /\ UNCHANGED <<now, before, after, changed, entries, scan, answer>>

\* The steps, one by one.
LEMMA Steps ==
    ASSUME [Next]_vars
    PROVE  \/ \E q \in Queries : AskCached(q) \/ AskChecks(q)
           \/ \E q \in Queries : CountCached(q) \/ CountLists(q) \/ Listed(q)
           \/ \E q \in Queries : \E sum : FinishWith(q, sum)
           \/ Change
           \/ Tick
           \/ UNCHANGED vars
<1>1. ASSUME NEW q \in Queries, Ask(q)
      PROVE  AskCached(q) \/ AskChecks(q)
  BY <1>1 DEF Ask, AskCached, AskChecks
<1>2. ASSUME NEW q \in Queries, Count(q)
      PROVE  CountCached(q) \/ CountLists(q)
  BY <1>2 DEF Count, CountCached, CountLists
<1>3. ASSUME NEW q \in Queries, Finish(q)
      PROVE  \E sum : FinishWith(q, sum)
  <2>1. PICK sum \in Derived[WayOf(q)][<<query[q].fault, Current>>] :
            /\ entries' = [entries EXCEPT ![query[q].opts] = Measured(q, sum)]
            /\ answer' = Measured(q, sum)
    BY <1>3 DEF Finish, Measured, WayOf
  <2>2. QED
    BY <1>3, <2>1 DEF Finish, FinishWith
<1>4. QED
  BY <1>1, <1>2, <1>3 DEF Next

\* An entry that comes from the cache is the one that was put, but for its moment.
LEMMA FromTheCache ==
    ASSUME TypeOK, NEW opts \in Options, Valid(entries[opts].moment, Ttl)
    PROVE  /\ entries[opts] \in Entry
           /\ LET a == [entries[opts] EXCEPT !.moment = now]
              IN  /\ a \in Entry /\ a.moment = now
                  /\ a.began = entries[opts].began /\ a.probe = entries[opts].probe
                  /\ a.faults = entries[opts].faults /\ a.status = entries[opts].status
                  /\ a.can = entries[opts].can /\ a.counted = entries[opts].counted
<1>1. entries[opts] \in Entry
  BY NoneIsNothing DEF TypeOK, Valid
<1>2. now \in Nat
  BY DEF TypeOK
<1>3. QED
  BY <1>1, <1>2 DEF Entry

\* What Finish puts is an entry, and a sound one.
LEMMA MeasuredIsEntry ==
    ASSUME StatusAssumption, TypeOK, FaultInv, NEW q \in Queries, NEW sum, FinishWith(q, sum)
    PROVE  /\ query[q] \in Asked
           /\ Measured(q, sum) \in Entry /\ Sound(Measured(q, sum))
<1>1. query[q] \in Asked /\ now \in Nat
  BY DEF TypeOK, FinishWith
<1>2. /\ query[q].moment \in Nat /\ query[q].opts \in Options /\ query[q].fault \in Faulty
      /\ query[q].opts.probe \in BOOLEAN
  BY <1>1 DEF Asked, StatusAssumption
<1>3. /\ WayOf(q) \in Ways /\ WayOf(q).probe = query[q].opts.probe
  <2>1. (query[q].counted = Listing) \in BOOLEAN
    OBVIOUS
  <2>2. QED
    BY <1>2, <2>1 DEF WayOf, Ways
<1>4. <<query[q].fault, Current>> \in Moments /\ Current \in Faulty
  BY MomentsOfAQuery DEF FinishWith
<1>5. sum \in Derived[WayOf(q)][<<query[q].fault, Current>>]
  BY DEF FinishWith
<1>6. /\ Measured(q, sum).can = sum.can /\ Measured(q, sum).status = sum.status
      /\ Measured(q, sum).faults = {query[q].fault, Current}
      /\ Measured(q, sum).probe = query[q].opts.probe
  BY DEF Measured
<1>7. /\ sum.status \in {"down", "degraded", "ok"} /\ sum.can \subseteq Granted
      /\ Sound(Measured(q, sum))
  BY <1>2, <1>3, <1>4, <1>5, <1>6, DerivedIsSound
<1>8. (IF query[q].counted \in Nat THEN query[q].counted ELSE now) \in Nat
  BY <1>1
<1>9. Measured(q, sum) \in Entry
  BY <1>1, <1>2, <1>4, <1>7, <1>8 DEF Measured, Entry
<1>10. QED
  BY <1>1, <1>7, <1>9

\* A count changes a query in nothing else.
LEMMA CountsOnly ==
    ASSUME TypeOK, NEW q \in Queries, query[q] # None, NEW n \in Nat \cup {Listing},
           query' = [query EXCEPT ![q].counted = n]
    PROVE  /\ query' \in [Queries -> Asked \cup {None}]
           /\ \A r \in Queries : r # q => query'[r] = query[r]
           /\ query'[q].moment = query[q].moment /\ query'[q].fault = query[q].fault
           /\ query'[q].counted = n
<1>1. query[q] \in Asked
  BY DEF TypeOK
<1>2. [query[q] EXCEPT !.counted = n] \in Asked
  BY <1>1 DEF Asked
<1>3. query' = [query EXCEPT ![q] = [query[q] EXCEPT !.counted = n]]
  OBVIOUS
<1>4. QED
  BY <1>1, <1>2, <1>3 DEF TypeOK, Asked

\* Every state is of its type, and the world that a query saw when it began is one of the
\* two that there have been.
THEOREM TypesHold == Spec => [](TypeOK /\ FaultInv)
<1> USE StatusAssumption
<1>1. Init => TypeOK /\ FaultInv
  <2>1. SUFFICES ASSUME Init PROVE TypeOK /\ FaultInv
    OBVIOUS
  <2>2. before \in Faulty /\ after \in Faulty /\ <<before, after>> \in Moments
    <3>1. PICK m \in Moments : before = m[1] /\ after = m[2]
      BY <2>1 DEF Init
    <3>2. PICK f \in Faulty : m \in {<<f, f>>, <<f, NoFault>>, <<NoFault, f>>}
      BY DEF Moments, Faulty
    <3>3. QED
      BY <3>1, <3>2 DEF Faulty
  <2>3. entries \in [Options -> Entry \cup {None}] /\ query \in [Queries -> Asked \cup {None}]
    BY <2>1 DEF Init
  <2>4. QED
    BY <2>1, <2>2, <2>3 DEF Init, TypeOK, FaultInv
<1>2. ASSUME TypeOK, FaultInv, [Next]_vars
      PROVE  TypeOK' /\ FaultInv'
  <2>1. ASSUME NEW q \in Queries, AskCached(q)
        PROVE  TypeOK' /\ FaultInv'
    <3>1. answer' \in Entry
      BY <1>2, <2>1, FromTheCache DEF AskCached
    <3>2. QED
      BY <1>2, <2>1, <3>1 DEF AskCached, TypeOK, FaultInv
  <2>2. ASSUME NEW q \in Queries, AskChecks(q)
        PROVE  TypeOK' /\ FaultInv'
    <3>1. PICK opts \in Options :
            query' = [query EXCEPT ![q] = [moment |-> now, opts |-> opts, fault |-> Current,
                                           counted |-> Never]]
      BY <2>2 DEF AskChecks
    <3>2. Current \in {before, after} /\ (Current = before \/ changed)
      BY DEF Current
    <3>3. [moment |-> now, opts |-> opts, fault |-> Current, counted |-> Never] \in Asked
      BY <1>2, <3>2 DEF TypeOK, Asked
    <3>4. TypeOK'
      BY <1>2, <2>2, <3>1, <3>3 DEF AskChecks, TypeOK
    <3>5. FaultInv'
      <4>1. SUFFICES ASSUME NEW r \in Queries, query'[r] # None
                     PROVE  query'[r].fault = before \/ (changed /\ query'[r].fault = after)
        BY <2>2 DEF FaultInv, AskChecks
      <4>2. CASE r = q
        BY <1>2, <3>1, <3>2, <4>2 DEF TypeOK, Current
      <4>3. CASE r # q
        BY <1>2, <3>1, <4>1, <4>3 DEF TypeOK, FaultInv
      <4>4. QED
        BY <4>2, <4>3
    <3>6. QED
      BY <3>4, <3>5
  <2>3. ASSUME NEW q \in Queries, NEW sum, FinishWith(q, sum)
        PROVE  TypeOK' /\ FaultInv'
    <3>1. query[q] \in Asked /\ Measured(q, sum) \in Entry
      BY <1>2, <2>3, MeasuredIsEntry
    <3>2. entries' \in [Options -> Entry \cup {None}]
      BY <1>2, <2>3, <3>1 DEF TypeOK, FinishWith
    <3>3. query' \in [Queries -> Asked \cup {None}]
      BY <1>2, <2>3 DEF TypeOK, FinishWith
    <3>4. scan' \in Nat \cup {Never} /\ answer' \in Entry
      BY <1>2, <2>3, <3>1 DEF TypeOK, FinishWith
    <3>5. FaultInv'
      BY <1>2, <2>3 DEF TypeOK, FinishWith, FaultInv
    <3>6. QED
      BY <1>2, <2>3, <3>2, <3>3, <3>4, <3>5 DEF TypeOK, FinishWith
  <2>4. CASE Change
    BY <1>2, <2>4 DEF Change, TypeOK, FaultInv
  <2>5. CASE Tick
    BY <1>2, <2>5 DEF Tick, TypeOK, FaultInv
  <2>6. CASE UNCHANGED vars
    BY <1>2, <2>6 DEF vars, TypeOK, FaultInv
  <2>7. ASSUME NEW q \in Queries, NEW n \in Nat \cup {Listing}, query[q] # None,
               query' = [query EXCEPT ![q].counted = n], scan' \in Nat \cup {Never},
               UNCHANGED <<now, before, after, changed, entries, answer>>
        PROVE  TypeOK' /\ FaultInv'
    <3>1. /\ query' \in [Queries -> Asked \cup {None}]
          /\ \A r \in Queries : r # q => query'[r] = query[r]
          /\ query'[q].fault = query[q].fault
      BY <1>2, <2>7, CountsOnly
    <3>2. TypeOK'
      BY <1>2, <2>7, <3>1 DEF TypeOK
    <3>3. ASSUME NEW r \in Queries, query'[r] # None
          PROVE  query'[r].fault = before \/ (changed /\ query'[r].fault = after)
      <4>1. query[r] # None /\ query'[r].fault = query[r].fault
        BY <2>7, <3>1, <3>3
      <4>2. QED
        BY <1>2, <4>1 DEF FaultInv
    <3>4. FaultInv'
      BY <2>7, <3>3 DEF FaultInv
    <3>5. QED
      BY <3>2, <3>4
  <2>8. ASSUME NEW q \in Queries, CountCached(q) \/ CountLists(q) \/ Listed(q)
        PROVE  TypeOK' /\ FaultInv'
    <3>1. Valid(scan, ScanTtl) => scan \in Nat
      BY <1>2 DEF TypeOK, Valid
    <3>2. now \in Nat /\ scan \in Nat \cup {Never}
      BY <1>2 DEF TypeOK
    <3>3. QED
      BY <2>7, <2>8, <3>1, <3>2 DEF CountCached, CountLists, Listed
  <2>9. QED
    BY <1>2, <2>1, <2>2, <2>3, <2>4, <2>5, <2>6, <2>8, Steps
<1>3. QED
  BY <1>1, <1>2, PTL DEF Spec

----------------------------------------------------------------------------
(* What an answer says follows from what was seen *)

\* Sound is what is in the cache, and the last answer.
SoundInv ==
    /\ \A o \in Options : entries[o] # None => Sound(entries[o])
    /\ answer # None => Sound(answer)

\* Cached or not, answers are sound at every moment.
LEMMA SoundHolds == Spec => []SoundInv
<1> USE StatusAssumption
<1>1. Init => SoundInv
  BY DEF Init, SoundInv
<1>2. ASSUME TypeOK, FaultInv, SoundInv, [Next]_vars
      PROVE  SoundInv'
  <2>1. ASSUME NEW q \in Queries, AskCached(q)
        PROVE  SoundInv'
    <3>1. PICK opts \in Options : /\ Valid(entries[opts].moment, Ttl)
                                  /\ answer' = [entries[opts] EXCEPT !.moment = now]
      BY <2>1 DEF AskCached
    <3>2. /\ entries[opts] \in Entry /\ answer'.can = entries[opts].can
          /\ answer'.status = entries[opts].status /\ answer'.faults = entries[opts].faults
          /\ answer'.probe = entries[opts].probe
      BY <1>2, <3>1, FromTheCache
    <3>3. Sound(entries[opts])
      BY <1>2, <3>2, NoneIsNothing DEF SoundInv
    <3>4. Sound(answer')
      BY <3>2, <3>3 DEF Sound, Met, Probed
    <3>5. QED
      BY <1>2, <2>1, <3>4 DEF SoundInv, AskCached
  <2>2. ASSUME NEW q \in Queries, AskChecks(q)
        PROVE  SoundInv'
    BY <1>2, <2>2 DEF SoundInv, AskChecks
  <2>3. ASSUME NEW q \in Queries, NEW sum, FinishWith(q, sum)
        PROVE  SoundInv'
    <3>1. Sound(Measured(q, sum))
      BY <1>2, <2>3, MeasuredIsEntry
    <3>2. ASSUME NEW o \in Options
          PROVE  entries'[o] = entries[o] \/ entries'[o] = Measured(q, sum)
      BY <1>2, <2>3 DEF TypeOK, FinishWith
    <3>3. answer' = Measured(q, sum)
      BY <2>3 DEF FinishWith
    <3>4. QED
      BY <1>2, <3>1, <3>2, <3>3 DEF SoundInv
  <2>4. CASE Change
    BY <1>2, <2>4 DEF Change, SoundInv
  <2>5. CASE Tick
    BY <1>2, <2>5 DEF Tick, SoundInv
  <2>6. CASE UNCHANGED vars
    BY <1>2, <2>6 DEF vars, SoundInv
  <2>7. ASSUME NEW q \in Queries, CountCached(q) \/ CountLists(q) \/ Listed(q)
        PROVE  SoundInv'
    BY <1>2, <2>7 DEF SoundInv, CountCached, CountLists, Listed
  <2>8. QED
    BY <1>2, <2>1, <2>2, <2>3, <2>4, <2>5, <2>6, <2>7, Steps
<1>3. QED
  BY <1>1, <1>2, TypesHold, PTL DEF Spec

\* A capability that an answer grants had all that its requirements name at some moment of
\* the checks, with any number of overlapping queries and whatever fails or recovers
\* meanwhile; and with a status of ok it had what the requirements overlook as well: the
\* dimension of the vectors, the room on the disk, the lock of the manifest (capabilities).
THEOREM CapabilitiesHoldHolds == Spec => []CapabilitiesHold
<1>1. SoundInv => CapabilitiesHold
  BY DEF SoundInv, CapabilitiesHold, Answers, Sound
<1>2. QED
  BY <1>1, SoundHolds, PTL

\* An answer whose status is ok grants the search, and with MinIO written to by its check
\* every capability that is not optional: that far capabilities and _resumo, which read the
\* same verdicts, agree.
THEOREM HealthyIsCapableHolds == Spec => []HealthyIsCapable
<1>1. SoundInv => HealthyIsCapable
  BY DEF SoundInv, HealthyIsCapable, Answers, Sound, Granted
<1>2. QED
  BY <1>1, SoundHolds, PTL

----------------------------------------------------------------------------
(* What an answer says was measured lately *)

\* No query lasts longer than the slowest check, none has a count older than the lifetime of
\* one, no entry is older than its query by more,
\* and a count is older than its entry by no more than that and the lifetime of a count.
RecentInv ==
    /\ \A q \in Queries : query[q] # None =>
          /\ query[q].moment <= now /\ now - query[q].moment <= Slowest
          /\ query[q].counted \in Nat => /\ query[q].counted <= now
                                         /\ query[q].moment - query[q].counted <= ScanTtl
    /\ scan # Never => scan <= now
    /\ \A o \in Options : entries[o] # None =>
          /\ entries[o].moment <= now
          /\ entries[o].moment - entries[o].began <= Slowest
          /\ entries[o].moment - entries[o].counted <= Slowest + ScanTtl
    /\ answer # None =>
          /\ answer.moment - answer.began <= Ttl + Slowest
          /\ answer.moment - answer.counted <= Ttl + Slowest + ScanTtl

\* A query, a count and an entry age within those limits.
LEMMA RecentHolds ==
    ASSUME Ttl > 0, ScanTtl > 0
    PROVE  Spec => []RecentInv
<1> USE StatusAssumption
<1>0. Ttl \in Nat /\ ScanTtl \in Nat /\ Slowest \in Nat
  BY DEF StatusAssumption
<1>1. Init => RecentInv
  BY DEF Init, RecentInv
<1>2. ASSUME TypeOK, FaultInv, RecentInv, [Next]_vars
      PROVE  RecentInv'
  <2>1. ASSUME NEW q \in Queries, AskCached(q)
        PROVE  RecentInv'
    <3>1. PICK opts \in Options : /\ Valid(entries[opts].moment, Ttl)
                                  /\ answer' = [entries[opts] EXCEPT !.moment = now]
      BY <2>1 DEF AskCached
    <3>2. /\ entries[opts] \in Entry /\ answer'.moment = now
          /\ answer'.began = entries[opts].began /\ answer'.counted = entries[opts].counted
      BY <1>2, <3>1, FromTheCache
    <3>3. now \in Nat /\ now - entries[opts].moment <= Ttl
      BY <1>0, <1>2, <3>1, <3>2 DEF Valid, TypeOK, Entry
    <3>4. /\ entries[opts].moment - entries[opts].began <= Slowest
          /\ entries[opts].moment - entries[opts].counted <= Slowest + ScanTtl
      BY <1>2, <3>2, NoneIsNothing DEF RecentInv
    <3>5. /\ now - entries[opts].began <= Ttl + Slowest
          /\ now - entries[opts].counted <= Ttl + Slowest + ScanTtl
      BY <1>0, <3>2, <3>3, <3>4 DEF Entry
    <3>6. QED
      BY <1>2, <2>1, <3>2, <3>5 DEF RecentInv, AskCached
  <2>2. ASSUME NEW q \in Queries, AskChecks(q)
        PROVE  RecentInv'
    <3>1. PICK opts \in Options :
            query' = [query EXCEPT ![q] = [moment |-> now, opts |-> opts, fault |-> Current,
                                           counted |-> Never]]
      BY <2>2 DEF AskChecks
    <3>2. ASSUME NEW r \in Queries, query'[r] # None
          PROVE  /\ query'[r].moment <= now /\ now - query'[r].moment <= Slowest
                 /\ query'[r].counted \in Nat =>
                      /\ query'[r].counted <= now
                      /\ query'[r].moment - query'[r].counted <= ScanTtl
      <4>1. CASE r = q
        BY <1>0, <1>2, <3>1, <4>1, NoneIsNothing DEF TypeOK
      <4>2. CASE r # q
        BY <1>2, <3>1, <3>2, <4>2 DEF TypeOK, RecentInv
      <4>3. QED
        BY <4>1, <4>2
    <3>3. QED
      BY <1>2, <2>2, <3>2 DEF RecentInv, AskChecks
  <2>3. ASSUME NEW q \in Queries, NEW sum, FinishWith(q, sum)
        PROVE  RecentInv'
    <3> DEFINE e == Measured(q, sum)
    <3>1. query[q] \in Asked /\ e \in Entry /\ now \in Nat
      BY <1>2, <2>3, MeasuredIsEntry DEF TypeOK
    <3>2. /\ e.moment = now /\ e.began = query[q].moment
          /\ e.counted = IF query[q].counted \in Nat THEN query[q].counted ELSE now
      BY DEF Measured
    <3>3. /\ query[q].moment \in Nat /\ query[q].moment <= now
          /\ now - query[q].moment <= Slowest
          /\ query[q].counted \in Nat => /\ query[q].counted <= now
                                         /\ query[q].moment - query[q].counted <= ScanTtl
      BY <1>2, <2>3, <3>1 DEF RecentInv, FinishWith, Asked
    <3>4. now - e.counted <= Slowest + ScanTtl
      <4>1. CASE query[q].counted \in Nat
        BY <1>0, <3>1, <3>2, <3>3, <4>1
      <4>2. CASE query[q].counted \notin Nat
        BY <1>0, <3>1, <3>2, <4>2
      <4>3. QED
        BY <4>1, <4>2
    <3>5. /\ now' = now /\ answer' = e /\ query' = [query EXCEPT ![q] = None] /\ scan' = scan
          /\ entries' = [entries EXCEPT ![query[q].opts] = e]
      BY <2>3 DEF FinishWith
    <3> HIDE DEF e
    <3>6. \A r \in Queries : query'[r] # None => query'[r] = query[r]
      BY <1>2, <3>5 DEF TypeOK
    <3>7. \A o \in Options : entries'[o] = entries[o] \/ entries'[o] = e
      BY <1>2, <3>5 DEF TypeOK
    <3>8. /\ e.moment = now /\ e.moment - e.began <= Slowest
          /\ e.moment - e.counted <= Slowest + ScanTtl
      BY <3>2, <3>3, <3>4
    <3>9. e.moment - e.began <= Ttl + Slowest /\ e.moment - e.counted <= Ttl + Slowest + ScanTtl
      <4>1. e.counted \in Nat /\ e.began \in Nat /\ e.moment \in Nat
        BY <3>1 DEF Entry
      <4>2. QED
        BY <1>0, <3>8, <4>1
    <3>10. QED
      BY <1>2, <3>1, <3>5, <3>6, <3>7, <3>8, <3>9 DEF RecentInv
  <2>4. CASE Change
    BY <1>2, <2>4 DEF Change, RecentInv
  <2>5. CASE Tick
    <3>1. now \in Nat /\ now' = now + 1 /\ answer' = None /\ UNCHANGED <<entries, scan, query>>
      BY <1>2, <2>5 DEF Tick, TypeOK
    <3>2. \A r \in Queries : query[r] # None => query[r].moment \in Nat
      BY <1>2 DEF TypeOK, Asked
    <3>3. \A r \in Queries : query[r] # None =>
              /\ query[r].moment <= now + 1 /\ now + 1 - query[r].moment <= Slowest
              /\ query[r].counted \in Nat =>
                    /\ query[r].counted <= now + 1
                    /\ query[r].moment - query[r].counted <= ScanTtl
      BY <1>0, <1>2, <2>5, <3>1, <3>2 DEF Tick, RecentInv
    <3>4. scan # Never => scan <= now + 1
      BY <1>2, <3>1 DEF RecentInv, TypeOK
    <3>5. \A o \in Options : entries[o] # None => entries[o].moment <= now + 1
      BY <1>2, <3>1 DEF RecentInv, TypeOK, Entry
    <3>6. \A o \in Options : entries[o] # None =>
              /\ entries[o].moment - entries[o].began <= Slowest
              /\ entries[o].moment - entries[o].counted <= Slowest + ScanTtl
      BY <1>2 DEF RecentInv
    <3>7. \A r \in Queries : query'[r] # None =>
              /\ query'[r].moment <= now' /\ now' - query'[r].moment <= Slowest
              /\ query'[r].counted \in Nat =>
                    /\ query'[r].counted <= now'
                    /\ query'[r].moment - query'[r].counted <= ScanTtl
      BY <1>0, <3>1, <3>2, <3>3
    <3>8. scan' # Never => scan' <= now'
      BY <3>1, <3>4
    <3>9. \A o \in Options : entries'[o] # None =>
              /\ entries'[o].moment <= now'
              /\ entries'[o].moment - entries'[o].began <= Slowest
              /\ entries'[o].moment - entries'[o].counted <= Slowest + ScanTtl
      BY <3>1, <3>5, <3>6
    <3>10. answer' = None
      BY <3>1
    <3>11. QED
      BY <3>7, <3>8, <3>9, <3>10 DEF RecentInv
  <2>6. CASE UNCHANGED vars
    BY <1>2, <2>6 DEF vars, RecentInv
  <2>7. ASSUME NEW q \in Queries, NEW n \in Nat \cup {Listing}, query[q] # None,
               query' = [query EXCEPT ![q].counted = n],
               n \in Nat => n <= now /\ now - n <= ScanTtl,
               scan' = scan \/ scan' = now, UNCHANGED <<now, entries, answer>>
        PROVE  RecentInv'
    <3>1. /\ \A r \in Queries : r # q => query'[r] = query[r]
          /\ query'[q].moment = query[q].moment /\ query'[q].counted = n
      BY <1>2, <2>7, CountsOnly
    <3>2. query[q].moment \in Nat /\ now \in Nat
      BY <1>2, <2>7 DEF TypeOK, Asked
    <3>3. query[q].moment <= now /\ now - query[q].moment <= Slowest
      BY <1>2, <2>7 DEF RecentInv
    <3>4. n \in Nat => query[q].moment - n <= ScanTtl
      BY <1>0, <2>7, <3>2, <3>3
    <3>5. \A r \in Queries : query'[r] # None =>
              /\ query'[r].moment <= now /\ now - query'[r].moment <= Slowest
              /\ query'[r].counted \in Nat =>
                    /\ query'[r].counted <= now
                    /\ query'[r].moment - query'[r].counted <= ScanTtl
      BY <1>2, <2>7, <3>1, <3>3, <3>4 DEF RecentInv
    <3>6. scan' # Never => scan' <= now
      BY <1>2, <2>7, <3>2 DEF RecentInv
    <3>7. QED
      BY <1>2, <2>7, <3>5, <3>6 DEF RecentInv
  <2>8. ASSUME NEW q \in Queries, CountCached(q) \/ CountLists(q) \/ Listed(q)
        PROVE  RecentInv'
    <3>1. now \in Nat /\ now <= now /\ now - now <= ScanTtl /\ Listing \notin Nat
      BY <1>0, <1>2, NoneIsNothing DEF TypeOK
    <3>2. CASE CountCached(q)
      <4>1. scan \in Nat /\ scan <= now /\ now - scan <= ScanTtl
        BY <1>0, <1>2, <3>1, <3>2 DEF CountCached, Valid, TypeOK, RecentInv
      <4>2. QED
        BY <2>7, <3>2, <4>1 DEF CountCached
    <3>3. CASE CountLists(q)
      BY <2>7, <3>1, <3>3 DEF CountLists
    <3>4. CASE Listed(q)
      BY <2>7, <3>1, <3>4 DEF Listed
    <3>5. QED
      BY <2>8, <3>2, <3>3, <3>4
  <2>9. QED
    BY <1>2, <2>1, <2>2, <2>3, <2>4, <2>5, <2>6, <2>8, Steps
<1>3. QED
  BY <1>1, <1>2, TypesHold, PTL DEF Spec

\* However queries overlap, an answer says what was measured within the lifetime of the
\* cache and the time of the checks, and counts within that of both caches, as long as
\* both lifetimes are set: one of 0 never ends (_TtlCache.get).
THEOREM AnswersAreRecentHolds ==
    ASSUME Ttl > 0, ScanTtl > 0
    PROVE  Spec => []AnswersAreRecent
<1>1. RecentInv => AnswersAreRecent
  BY DEF RecentInv, AnswersAreRecent, Answers
<1>2. QED
  BY <1>1, RecentHolds, PTL
=============================================================================
