# Formal model of evidencia_pipe

TLA+ models of evidencia_pipe: the GPU resource manager, the artifact manifest, the
ingestion chain and its follow-ups, the wait for items and the job store, the
extraction, the indexing of a document's structure, the summary with its cache, the
synchronisation script, and the status of the infrastructure.  Each module is
translated from the source; the properties are model-checked with TLC on small
instances, and every safety property that a run finds to hold is proved with TLAPS for every
value of the constants; what is left to TLC alone is liveness.

To check an instance: `tlc -config GpuPunctual.cfg MCGpuManager.tla`; to check
proofs: `tlapm GpuManager_proofs.tla`.  `PROJECT.json` lists the runs, and maps
every definition to the lines of code that it stands for.

Paths below are relative to the root of the repository; `gpu_resource_manager/`
stands for `packages/gpu_resource_manager/src/gpu_resource_manager/`.

## 1. The system

A DSpace item has PDF bitstreams.  For each one a document goes through a Celery
chain: `baixar_dspace` (download) → `extrair_mineru` (MinerU extracts Markdown and
a content list on the GPU) → `indexar_qdrant` (chunks, embeddings, points in
Qdrant), followed by two linked tasks that nobody waits for: `enrich_after_index`
(LLM metadata) and `classify_after_index` (discourse roles).  A FastAPI process
enqueues chains, reports status and answers searches.

| Component | State it keeps | Operations | Talks to |
|---|---|---|---|
| GPU resource manager (`gpu_resource_manager/`) | Redis keys `lock`, `owner`, `queue`, `request:{id}`, `sequence`; per call: the polling loop, the heartbeat thread, local flags of the lease | `acquire_lease`, `ensure_valid`, `release`, `cancel_request`, heartbeat | Redis (Lua scripts); used by `mineru_service` |
| Manifest repository (`backend/services/manifest_repository.py`) | one JSON object per document in the artifact store; a lock key in Redis | `create`, `update` (and `start_stage`, `complete_stage`, `fail_stage` on top of it) | artifact store, Redis; called by every stage |
| Document pipeline (`backend/tasks.py`, `services/pipeline_stages.py`, `celery_app.py`) | messages in Celery's queues; the manifest's stages and artifacts; the extraction | the three tasks, `on_failure`, retries, the two follow-ups | job store, manifest, artifact store, MinerU, Qdrant, LLM |
| Ingestion service and routes (`services/ingest_service.py`, `api/routes/files.py`) | none of its own | enqueue a chain, reprocess, wait for an item (`resolver_item_dspace`), stages on demand | job store, Celery, DSpace |
| Job store (`services/job_store.py`) | `job:{id}` records, `jobs:failed`, `jobs:active`, `jobs:succeeded`; a copy in memory when Redis is away | `set_status`, `add_failed`, `clear_failed`, `track_*`, prune | Redis |
| Structural indexing (`indexing/index_chunks.py`) | the points of a document in Qdrant; the index generation | upsert then remove old points; payload updates | Qdrant, embedder, summary cache |
| Summary service and cache (`services/summary_service.py`, `summary_cache.py`) | cached summaries keyed by the generation of the index; calls in flight | summarise, bump the generation | Redis, LLM, Qdrant |
| Synchronisation script (`scripts/sincronizar_novos_itens.py`) | watermark, queue of handles to retry, CSV of what was sent; of a round, the answers that no line tells of yet | one round from cron | OAI-PMH, the API |
| Extraction (`services/mineru_service.py`, `stage_mineru`, `services/artifact_store.py`) | the server's tasks; objects under fixed keys | wait for the lease, submit, poll, fetch, put, name in the manifest | GPU manager, MinerU, artifact store, manifest |
| Document structure and chunking (`indexing/document_blocks.py`, `section_classifier.py`, `cross_page_reconstruction.py`, `structural_token_chunker.py`, `chunk_quality_filters.py`) | none | blocks → sections → chunks → filtered chunks | – |
| Vectors and profiles (`indexing/index_chunks.py`, `services/embedder.py`, `indexing/retrieval_profile.py`, `services/qdrant_client.py`) | none | embed in batches, payload of a point, filter of a query | embedding API, Qdrant |
| Infrastructure status (`services/infra_status.py`) | two caches in the API's process | thirteen checks in threads, capabilities, cached answers | every service |
| Everything else | – | legacy chunks, authentication, prompts, deployment, scripts run by hand | see `PROJECT.json`, components marked `not_modelled` |

What is hard in it, and what correct means:

* **GPU manager** – processes on several hosts poll one Redis; any request or reply may
  be lost, any process may be killed or suspended while TTLs run on, an administrator
  may cancel a request that is being polled.  Correct: at most one lease is valid, the
  order is fair and ages, waiting is bounded, no lock or request outlives its owner.
* **Manifest** – several workers read, change and write back one object; the lock that
  serialises them has a TTL and may be unavailable.  Correct: no update is lost, a
  conflict is noticed.
* **Pipeline** – the stages overwrite artifacts in place, mark stages as completed so that
  later chains skip them, retry, fail, lose their worker and are delivered again
  (`task_acks_late`); an index failure does not fail the task; follow-ups run after the
  chain has ended, perhaps while the next one runs.  Correct: what a job reports is what
  happened, a document never falls out of the index, a skipped stage's result is really
  there, every job ends.
* **Job store** – read-merge-write without a transaction, indexes derived from it, a fallback
  that each process keeps for ever.  Correct: the indexes agree with the records.
* **Wait for an item** – check-then-act on the job record, retries scheduled with a
  countdown.  Correct: one wait per item, and it ends.
* **Extraction** – a server that cannot cancel, a lease that must cover the parse, timeouts that
  nest, executions of one document that overlap in a store with fixed keys.  Correct: one
  parse at a time, a clean end before the soft limit, a manifest that names one extraction as far
  as that extraction has the artifacts.
* **Structure, chunking, vectors** – folds with many special cases over heterogeneous blocks,
  batches that are retried and answered out of order.  Correct: the path of every block is right,
  no text is lost, sizes hold, each point has its own vectors, what a profile lists it finds.
* **Synchronisation** – a watermark that only advances, an index that shows items late, rounds
  that overlap, fail half way or are killed with answers in memory.  Correct: no item is missed, none is
  sent again that a round or the CSV knows as taken.
* **Status** – checks in threads that see different moments, raise or hang; cached answers.
  Correct: what is said to be possible was, status and capabilities agree, answers have a maximal age.
* **Summary cache** – a generation counter read before the retrieval and written after the
  upsert.  Correct: no summary of an index that has changed is served, nobody who waits for
  one is stranded, what is stored has no reasoning and cites what exists.

`PROJECT.json` lists 40 hazards at the lines where they bite, each with the properties that
cover it.

## 2. Modules

| Module | Role |
|---|---|
| `LeaseService` | abstract: what the GPU manager promises, one call inside its lease at a time, each at most once |
| `GpuManager` | the manager: Redis keys, polling loop, lease, heartbeat, release, cancellation, faults, time |
| `ManifestRepository` | `create` and `update` as requests to the store and to the lock |
| `DocumentPipeline` | chains, follow-ups, stages on demand, failures of one document |
| `JobStore` | records and indexes, request by request; the part of `ItemIngestion` that it calls |
| `ItemIngestion` | the POST of an item, its chains, and the wait for an item that DSpace does not answer for |
| `Extraction` | `extrair_mineru` in detail, over `LeaseService` and an artifact store |
| `DocumentStructure` | operators: raw blocks → blocks with paths, kinds, joined paragraphs |
| `StructuralChunker` | operators: blocks → drafts of chunks |
| `Indexing` | the stages of indexing a document: parse, chunk, filter, embed, points; profiles and filters |
| `SummaryText` | operators: evidence of a retrieval, sanitising of an answer |
| `SummaryService` | the summary's requests, its single flight, its cache, the writers of the index |
| `SyncWatermark` | rounds of the synchronisation script |
| `InfraStatus` | checks, capabilities, caches |
| `MC…` | the values of the constants for TLC, one for each module that is run |
| `GpuManager_proofs`, `ManifestRepository_proofs`, `DocumentPipeline_proofs`, `Extraction_proofs`, `SyncWatermark_proofs`, `ItemIngestion_proofs`, `InfraStatus_proofs` | theorems about the module they are named after |
| `IndexAndSummary_proofs` | what `FoldLeft` computes, and theorems about `Indexing` and `SummaryService`, which both fold over texts |

Composition: `GpuManager` implements `LeaseService`, on which `Extraction` is built;
`ItemIngestion` extends `JobStore`, whose calls its handlers and tasks make;
`Indexing` extends `StructuralChunker`, that extends `DocumentStructure`; `SummaryService`
extends `SummaryText`.  `Indexing` has names of its own for its specification
(`IndexingInit`, `IndexingNext`, `IndexingSpec`), so that one module of proofs can extend it
next to `SummaryService`.  `DocumentPipeline` takes updates of the manifest and of the job
store as atomic, which `ManifestRepository` and `JobStore` break up, and the extraction as
two steps, which `Extraction` does.

### GpuManager

One action per Lua script (`lua_scripts.py`: `ENQUEUE`, `TRY_ACQUIRE`, `WAIT_HEARTBEAT`,
`RENEW`, `RELEASE`, `CANCEL`), because Redis executes a script as one step; everything a
process does between two scripts is in the action of the script before or after it.
`pc[p]` is where a call of `acquire_lease` is: `enqueue` → `try` → (`heartbeat`,
`requeue`) → `sleep` → `try` … → `granted` → `holding` → `joining` → `released`, or one of the
ways to fail.  Keys with a TTL are records whose `ttl` counts down in `Tick`.

* `TryAcquire`, `TryWait`, `TryGone` are the three answers of `TRY_ACQUIRE`; each removes
  the orphans of the queue, as the script does.
* `Enqueue` occurs twice in the loop: the second time when the wait heartbeat finds the
  request key gone (`manager.py:158-168`).
* `StartLease` separates taking the lock from the existence of the lease: between the two
  `acquire_lease` reads the queue for a metric, and that request may fail.
* `Renew` may run while `release()` joins the heartbeat thread.
* A fault is `request_lost` (the script did not run) or `reply_lost` (it did);
  `RedisBackend._run` raises `GPUBackendUnavailable` for both.  `Crash` is `kill -9`.
* `Punctual = TRUE` describes a system whose processes act when they have to: time passes
  only when every process sleeps or holds a lease with no cycle of its heartbeat due,
  and a renewal fails only when the next cycle is still within the TTL (`MayFail`).  With
  `Punctual = FALSE` a process may be suspended for any time between any two steps.

Abstractions: one clock (no skew between hosts; it would only change the order of waiting
requests), one tick is one polling interval, jitter and the metrics are left out, the
score of the queue's ZSET is left out because `TRY_ACQUIRE` recomputes the order from the
request hashes.  A request's age is counted up to `WaitCap`.

### ManifestRepository

Each writer makes at most one `create` (only `stage_download` does) and one `update`.
`update` is the requests of the code in its order: take the lock (`SET NX PX`, spinning
up to the TTL), `stat`, `load`, re-`stat` (only without the lock), `put`, release (a Lua
script that compares the token).  A manifest is its ETag, its revision and the set of
writers whose change it contains.  `Unlocked` are the writers of processes whose first
connection to Redis failed: `_get_client` memoises that for the life of the process.
`Abort` is any exception inside the cycle; `Crash` the death of the process anywhere.  `LockFails` is a `SET` without
an answer: it may have been executed, and then its key stays, with nobody's token, until
the TTL.
`Punctual` means here that a lock's TTL does not expire while its holder is inside the
cycle.

### DocumentPipeline

`N` chains of one document, and the requests for a stage on demand (`OnDemand`, at most one
of each kind).  Each chain has the state of its current task (`task`, `pc`), the
follow-ups of each chain have theirs (`fpc`).  Shared: the job's `record` and whether it is
in `jobs:failed`, the manifest's `stages` and the extraction it names (`content`), the
extraction in the store (`object`), the versions with points in Qdrant and which of them
carry the payload of a follow-up (`points`, `marked`).

* An extraction is its version and what it leaves to index (`Yields`): chunks; structural blocks
  of which none becomes a chunk (`rejected`); or no block at all (`blank`).  It is stored under a
  fixed key (`StoreExtraction`) before the manifest names it, and `Extract` names the put of its own
  task, whatever the key holds by then.
* An index stage without chunks reports `empty` if there were blocks and `ok` if there were none
  (`Unindexable`, `pipeline_stages.py:551-552`): a document of zero blocks is a success, and
  `SuccessMeansIndexed` says so.
* `StartDownload`, `StartMineru` and `StartIndex` have the early return for a completed
  stage when the chain is not forced.  `Embed` reads the artifact that the manifest named
  when the task began, whose checksum must match.
* `stage_index` upserts the new points before it removes the others, best-effort
  (`RemoveOld`); a failure anywhere in it does not fail the task (`FailIndex`,
  `ListUnindexed`, `ConcludeUnindexed`).
* `FailDownload`, `FailMineru` and `TaskFailed` are the task's `except` branch and
  `PipelineTask.on_failure`.  `RetryDownload` covers the retries of `baixar_dspace`.
* `Redeliver`: the worker of a task is lost and the broker delivers the task again.  `Kill`:
  only the pool process that executes a stage is killed; Celery acknowledges the task,
  nothing runs, the chain stops.
* `GpuWorkerFree`: the queue `gpu` has one worker with concurrency 1
  (`deploy/systemd/evidencia-worker-gpu.service:16`).  The guard is on the tasks that
  index; the extraction, which the same worker executes, is left without it, so the model
  allows more interleavings than the system has.
* A stage on demand (`RunOnDemand`) is the follow-up of a caller of its own, `OfApi`, forced:
  `stage_enrich` and `stage_classify_discourse` in the API's process.

Abstractions: calls of `set_status` and updates of the manifest are atomic here (what
`JobStore` and `ManifestRepository` are about); an upsert is all
the chunks of a version or none, since a partial upsert followed by a failure is a
document that is in the index either way; chunk ids of different extractions are
distinct; a worker dies before it hands the chain on, never between the publication of
the next task and the acknowledgement; the download of the same bitstream gives the
same PDF, so it has no version; the cause of a failure of the download before its first
request is recorded as the code does for an error it caught.

### JobStore and ItemIngestion

Every call of the store that an actor has to make is in its `todo`; `CallStore` takes one
request of the first of them.  `set_status` reads, merges and writes, then updates two
indexes from its merged copy; the listings read an entry and prune it with a request of its
own.  A request that Redis does not answer (`up = FALSE`) goes to the memory of the process,
which nobody else sees.

`PostItem`, `LookForWait` and `ReprocessItem` are the routes, with their check of
`item_wait_is_alive` before they act; `Take` begins a task that a worker receives,
`Continues` and `Acknowledge` end it, `Die` loses the worker and leaves the message to be
delivered again, `Abort` is an error between two calls, `Overdue` the passing of `next_retry_at`.  The
delays between attempts are not timed: a message may be taken at any time.

### Extraction

`stage` is the variable of `LeaseService`; one call per attempt of an execution.  An
execution goes `queued` → `download` → `waiting` → `submit` → `poll` → `fetch` → `put` ⇄ `stat` →
`update` → `done`.  The server works on (`zombies`) when nobody waits any more, because its API
cannot cancel.  Which of the optional artifacts an extraction has, its markdown and its images
with their index, is chosen when it is fetched (`found`); the manifest is updated with what there is,
and keeps the names of an earlier extraction for the rest.  Time is counted in HTTP timeouts from the start of `process_pdf`; the deadline
counts the wait for the lease (`Overdue`), as the code does.  `Put` is one object of the fixed keys, with the
retries of `_retry`, whose failed attempts may have been carried out.  Objects are named by the
attempt that wrote them, so mixed extractions can be told apart.

### DocumentStructure, StructuralChunker, Indexing

A document is a sequence of raw blocks.  What the parser reads off a text with a regular
expression (which kind a title announces, the depth of its number, whether a paragraph ends
open or starts like a continuation) is a field of the block; what it does with it is an
operator: `DropRepeatedFurniture`, `AssignSections`, `PromoteFrontMatterOnly`,
`ReconstructCrossPage`; then `BuildDrafts` groups, splits, merges and overlaps.  A text is
its paragraphs, and a sentence the tokens it has and the blocks it is of.  The lines of a table
are its header, its rows and perhaps a note with its source; a table that fits is represented by its
first rows, each with the header (`RowRepresentation`), if that fits too (`ByRows`), and by its text otherwise;
one that does not fit is split by rows under a repeated header.  The caption that a table has is not a
line of its own, and the pieces that the tokenizer cuts a sentence into are taken to count, again, no more
than the limit (`token_counter.py:127-129` may cut by words instead).  `Indexing`
is a state machine, since batches fail and are repeated: `Parse` → `Chunk` → `Reject` or
`Materialize` per draft → `Batch` and `Retry` for dense, then sparse vectors → `indexed`.
`Answered` allows the API any order of its answers; the code sorts what it was given by index (`Ranked`, `Sorted`).
`RetrievalProfile` gives a chunk its profiles, `DetectQueryProfile` and `BuildQueryFilter` a query its filter.

### SummaryText and SummaryService

A request reads the generation (`ReadKey`), looks the key up (`Lookup`), joins or starts a
synthesis (`JoinOrStart`), and may be cancelled (`Disconnect`).  A synthesis
retrieves, calls the model once or twice, stores and settles in separate steps (`Work`).
The index is its number of writes (`version`); `covered[g]` remembers what had been written
when generation `g` began.  `IndexDocument` writes and bumps later; `SetPayload` writes and
does not.  What a retrieval may bring and what a model may answer are computed by `SummaryText` for
every input within the bounds, and `FoundSome` and `AnswersUsable` are what can come of them.
`Reasoning` is what the docstring of `_strip_reasoning` calls so: a word is in it while more opens than closes
came before, or when a close without an open comes after.  `RemoveBlocks` is the regular expression, which
takes the first close as the end of every open; the two differ when an answer is cut inside
a block around one that was closed (`Unfinished`).  An answer that is only white space after its invalid
citations were removed is empty here and stored by the code; no property tells the two apart.
A loop of the code that carries something from one element to the next is a `FoldLeft` over a
step with a name of its own, here (`UniqueOne`, `DedupOne`, `RemoveOne`, …) as in the chunker
(`GroupOne`, `SplitOne`, `PackOne`, `MergeOne`, `OverlapOne`, `DraftOne`, …): the proofs argue about
the step.

### SyncWatermark

A round reads the state and tries the lock, harvests, sends items one after the other with
several in flight, and saves watermark and queue together (`Terminar`).  The answer of a send
(`Enviado`, `Recusado`, `Falhou`) stays in memory until `Colher` comes to it, which happens when
`Batch` tasks wait (40 in the code) or when all have ended; only then the line of the CSV is written.
`Publish` is a change in DSpace with its datestamp, which OAI shows up to `Lateness` later.
What is in the CSV survives an interruption; the answers that wait do not, and their items are sent
again by the next round.

### InfraStatus

The world is the state of every service and of the settings that decide whether it is used
(an artifact store that is not MinIO, no GPU manager, no key): healthy or with one fault, that may appear,
vanish or change while a query runs (`Change`).  A query begins (`Ask`) and ends (`Finish`); each of its
thirteen checks has seen the world of the beginning or of the end, and one check may have raised.
Of the four broadcasts to the workers, a worker may answer any: `heard` are those that answered one of the
three that only show it is there, `listed` those whose queues are known.  The count of the artifacts has
steps of its own: its cache is judged when the check starts (`Count`) and filled when the listing ends
(`Listed`).  `Capabilities` and `Summary` derive the answer, as `capabilities` and `_resumo` do.

`Needs` is what an operation needs of the services and its requirements name; `Overlooked` what it needs as
well, from the code that carries it out, and they do not: the dimension of the vectors, room in the temporary
directory, the database of the manifest's lock, the store for the enrichment.

## 3. Runs

| Run | Configuration | Question | States | Result |
|---|---|---|---|---|
| `gpu_punctual` | `GpuPunctual.cfg` | three calls, two priorities, lost requests and replies, crashes, one cancellation, punctual | 335 thousand | holds: exclusion, place kept while polling, first come first served, aging, implements `LeaseService` |
| `gpu_pauses` | `GpuPauses.cfg` | two calls, processes may pause for any time | 18 thousand | holds: owner = lock, holder out of the queue, only the holder or the TTL ends a lock, waiting ends, lock recovered |
| `manifest_updates` | `ManifestUpdates.cfg` | two locked writers and one without the lock | 103 thousand | holds: no lost update among locked writers, revision counts updates, revalidation is about the copy in hand, lock of a dead writer freed |
| `pipeline_chains` | `PipelineChains.cfg` | two forced chains, one after the other, of chunks, rejected blocks or no block, follow-ups, failures, retries, a death | 79 thousand | holds: list of failures, success means indexed, completed extraction is the stored one, every job ends |
| `pipeline_overlap` | `PipelineOverlap.cfg` | two chains, forced or not, and both follow-ups on demand, that overlap in every way, extractions without a chunk or without a block | 6.4 million | holds: the index never loses the document |
| `pipeline_success` | `PipelineSuccess.cfg` | `tasks.py:289`, `job_store.py:32-34`: an empty index is no success | 3 thousand | refuted: a reprocess without force finds the index stage completed and clears the failure |
| `item_waits` | `ItemWaits.cfg` | requests and reprocesses of an item that DSpace does not answer for, two workers, redelivery, an outage or a refusal | 1.4 million | holds: resolved means sent, an accepted item is not forgotten, the indexes follow the records |
| `summary_fresh` | `SummaryFresh.cfg` | two requests of one question, two writes of the index, an outage, disconnections | 142 thousand | holds: no answer older than its generation, clean and cited text (of answers that are not cut in a block around a closed one), every request ends |
| `sync_rounds` | `SyncRounds.cfg` | two rounds that overlap, late or modified or refused items, answers that wait for their line of the CSV, two faults | 1.1 million | holds: nothing skipped, nothing sent again that the CSV or a running round knows as taken, every item sent in the end |
| `indexing` | `IndexingDocuments.cfg` | every outline, section and page sequence within bounds, failing and shuffled batches | 1.9 million | holds: paths, no text lost but what the rows of a table leave out, sizes, vectors, profiles |
| `extraction` | `ExtractionOverlap.cfg` | two executions, one death, hanging servers, retried puts, extractions with and without markdown and images | 3.5 million | holds: one live parse, clean end of a hang, names of one extraction |
| `status` | `StatusChecks.cfg` | two queries, every single fault or setting appearing or vanishing meanwhile, a check that raises, workers that miss broadcasts | 748 thousand | holds: granted capabilities had what their requirements name, and with a status of ok what they overlook; healthy is capable; answers are recent |

`SuccessMeansIndexed` is one property with two answers: it holds as long as every chain is
forced (`pipeline_chains`, and the theorem `SuccessIsIndexed`), and fails once one is not
(`pipeline_success`).

**Bounds.**  TTLs and heartbeats are the smallest values that leave room for one missed
renewal (`LockTTL = 3`, `Heartbeat = 1`) or for none (`GpuPauses`); `WaitTimeout` is longer
than the request's TTL, so that requests expire, are renewed and are re-enqueued within
it.  Three calls are needed for two waiters of different priority behind a holder.  Three
writers: two that contend for the lock and one that ignores it.  `N = 2` chains: a chain
and the one that finds what it left behind; `MaxRetries = 1` instead of 3 since every retry is
alike; `MaxDeaths = 1`.  Items: two requests find each other's wait, two attempts are the
first and the last, one document suffices since chains of several are sent in a sequence that
may stop between them (with `MaxRequests` and a redelivery, twice).  Extraction: the timeouts
keep the relation of the defaults, wait < timeout, timeout + 1 < soft limit, in units of one HTTP timeout;
two executions and one redelivery give three attempts on the same keys.  Indexing: limits of 2 to 10
tokens and sentences of 1 to 11, below, at and beyond each limit; four blocks make every
pair of headings with something before, between and after; three pages are what
furniture needs to recur; the limit of rows is 3 instead of 40, so that tables have more and fewer.  Summary: two writes, so that a bump of one can fall after the other; one
process, since processes share only Redis.  Synchronisation: two items of which one is refused, three
datestamps, so that one falls into the overlap and one before it, two sends that may wait instead of 40, two
faults, which may cost one item all its tries or interrupt both rounds; that two handles may be of one
item is left to the proofs.  Status: single faults, of every service and of every kind.  What the
caches hold depends on the store alone (its count), so only its faults are followed until both caches have
expired, under two queries that overlap; any other fault for one query at a time, until its
answer has been cached and given again (`MCFocus`).

`CHECK_DEADLOCK FALSE` stands in every configuration whose processes may end: when all
is over nothing is left to do.

**Fairness.**  `GpuManager`: weak fairness of each call's steps (a process that is up runs its
loop and its heartbeat thread) and of `Tick`; none for the beginning of a release, for crashes
or for cancellations.  `ManifestRepository`: weak fairness of the writers' steps and
of time; `DocumentPipeline`: of the work of each chain and follow-up (the workers of both
queues are supervised by systemd units that restart them), not of deaths, nor of
enqueueing.  `SummaryService`: of a request's steps and of a synthesis (the event loop runs what
can run, and every call it waits for has a timeout), not of writes, bumps or disconnections.
`SyncWatermark`: of the steps of each round (all of which change that round, so that `WF_(round[r])` is
weak fairness) and of the passing of weeks (cron starts the script again and
again), not of any fault.  `ItemIngestion`, `Extraction`, `Indexing` and `InfraStatus` are checked for safety only.
No action of the environment is fair, but time.

## 4. Proofs

All theorems hold for any number of calls, writers, chains, requests and executions and any
values of the constants that the named assumptions allow.

`GpuManager_proofs` (assumptions `CallsAssumption`, `ConfigAssumption`: what
`GPUManagerConfig._validate` enforces)

* `TypeCorrect`, `OwnerMirrors`, `TokenSafetyHolds`, `HolderLeft`: for any timing.  The type
  invariant says that a key exists exactly while its TTL runs; with it the owner key equal to
  the lock is inductive, and a change of the lock can be traced to expiry or to the release
  of its holder.
* `ExclusiveLeaseHolds` (assumes `Punctual`).  Exclusion is not inductive: a valid lease holds
  the lock because the next heartbeat comes before the TTL ends.  `LeaseInv` makes that
  explicit: the lock's remaining TTL plus the time since the last renewal that the
  lease knows of is at least `LockTTL`, and that time plus one heartbeat stays below `LockTTL` plus
  the age of the heartbeat; a call that was just granted has the full TTL; the clocks
  of a lease stand still outside it.
* `ManagerImplementsService` (assumes `Punctual`): every step changes the stage of at most one
  call, in the way `LeaseService` allows, or stutters.

* `PollingKeepsPlaceHolds` (assumes `Punctual`).  `WaitInv`: the request's remaining TTL and the
  time since the last wait heartbeat together reach the request's TTL, and the heartbeat comes
  before that time does.
* `FirstComeFirstServedHolds`, `AgingEndsOvertakingHolds` (assume `Punctual`).  `OrderInv`:
  a call that waits keeps its first number, and who came earlier has waited at least as long.
  With lemmas on the integer division of the ageing, an earlier call of a base priority at least
  as good ranks before a later one, and so does one that has aged to the floor.

`ManifestRepository_proofs` (assumption `ManifestAssumption`)

* `TypeCorrect`.
* `NoUpdateLost`, `RevisionCounts` (assume `Punctual` and at most one creator; section 5 says what
  happens otherwise).  `ManifestInv`: an update inside the lock
  holds its key; as long as no process without the lock has stored, the copy a writer is
  about to put has the changes of the object in the store; each writer stores once.
* `RevalidationIsFresh`: no assumption on timing or locks.  `CopiesDated`: a copy is at
  least as recent as the ETag taken before it, and ETags only grow.

`DocumentPipeline_proofs` (assumption `PipelineAssumption`)

* `TypeCorrect`.
* `IndexStaysFilled`: any number of overlapping chains, with follow-ups and stages on demand.
  `IndexInv`: at most one run executes its
  index task, and between its upsert and the removal of the old points its own points are
  there.  The exclusion comes from the concurrency of the queue `gpu`; without it two
  runs could remove each other's points.
* `FailuresListed`, `ExtractionStored`, `SuccessIsIndexed`: chains that do not overlap (the last one
  also: every chain forced).  The last one says that a success has points of the extraction in the
index or that this has no block.  `Sequential` says that while a run works all others have ended
  or not begun, which leaves one run to argue about; `ListedInv`, `ExtractionInv` and `SuccessInv` say
  what each step of it has established so far.

`Extraction_proofs` (assumption `ExtractionAssumption`)

* `LiveParseAlone`: whoever talks to the server is inside its lease, of which `LeaseService`
  has one (`HolderInv`); an attempt that dies inside leaves its lease to expire, and its successor
  has another.
* `HangsEndCleanly`: an execution that polls is at most one request past its deadline
  (`ClockInv`); that the wait is shorter than the timeout is needed at the submission.
* `NamesTogether`: an execution that has put *n* artifacts holds references to the first *n* keys of its
  own order, which depends on what it found, and to nothing else (`PutInv`); the one update that names them
  does it together and leaves the names of what was not found.  So content and metrics are of one
  attempt, the images and their index of one, and an optional artifact of another attempt than the content only
  if the content's attempt had none.  `TypeCorrect` rests on it for the number of artifacts.

`IndexAndSummary_proofs`, folds

* The theorems on induction in the library take a predicate as parameter, which the provers cannot
  instantiate.  The first part of the module takes a set instead: a set of numbers has a least one
  (from well-foundedness), so there is no first prefix at which a fold leaves a set that its step
  keeps (`FoldKeeps`).  `FoldIsRun` says that the recursive function inside `FoldLeft` is the one
  that is defined prefix by prefix (`Run`).  Every fold of the two models has one lemma `…IsRun` and one
  for what its step keeps; what is kept is a relation between the elements seen and the accumulator.

`IndexAndSummary_proofs`, the index (assumptions `IndexingAssumption`: every document is a sequence of raw
blocks, `RawBlock`, each with a sentence, every sentence with a token; and `ChunkingAssumption`: the limits
are related as `validate_chunking_config` has it)

* `PathsFollowHeadingsHolds`, `NothingLostHolds`, `TextFitsHolds` rest on one inductive invariant, `TextInv`: the
  blocks are those of a document, well pathed (`WellPathed`), and the drafts of the stage `filter` are
  `BuildDrafts` of them.  It is needed because the properties speak of the state after the chunking only, while
  what they say is settled in the parse.
* Paths: the fold of `AssignSections` keeps its stack equal to the headings that are open, ascending in
  level and in place (`AssignOneHolds`; `FeedHolds` for the machine of sections).  Promotion changes
  no path, and joining paragraphs across pages drops blocks that are no headings (`ReconstructOnePaths`).
* Texts: each of splitting, grouping, packing, overlap and merging has a lemma with both halves, that what goes
  in is within what comes out and that what comes out fits; `OwnText` leaves out what a draft only
  repeats, so that an overlap does not count as coverage.  `Omissible` is what the representation of a table by its
  rows leaves out: the rows after the limit and the cells without a header (a note is not in `Own`).  `DraftOneHolds` joins them: a
  block is drafted or pending, in its own section.
* `VectorsMatchHolds`: for any document, size of batches and number of attempts.  `VectorInv`: between
  two requests both lists hold the vectors of exactly the chunks before the batch, and between the
  dense and the sparse request of a batch the first list holds those of the batch too; an attempt that failed
  may leave any vectors, for the next one begins with none.
* `ListedIsFoundHolds`: by cases over the kinds and types, the profiles that `classify_retrieval`
  writes and the conditions of the filters agree on every chunk there could be, whatever produced it.

`IndexAndSummary_proofs`, the summary (assumptions `SummaryAssumption`, `SummaryTextAssumption`)

* `TypeCorrect`, `AnswersFresh`: for any requests, processes, questions, writes and outages.  Every
  version on its way (in a cache, in a synthesis, in a request) is at least what its generation
  covers.  It is inductive because the key of a synthesis holds the generation read before the
  retrieval, and a generation, once begun, covers the same writes for ever.
* `StoredIsCleanHolds`: for answers, requests and retrievals of any length.  For the reasoning, the fold of
  `RemoveBlocks` has the invariant `Removed`: what it put out are the words outside of the blocks
  that an open begins (`Heard`), and what it holds back are those of the block that is not closed yet (`Unclosed`).  With the
  lemmas on `AfterLast` and `BeforeFirst` a word that is left has no tag that would make it reasoning, if the model is
  consistent (`Consistent`) and the answer is not cut in a block around one that was closed (`Unfinished`):
  there the first close hides from the regular expression that a block is still open.  For the evidence, `InOrder` and `InOrderOf` carry the order of the request
  through three folds: its documents without repetition, their points, the numbering.

`SyncWatermark_proofs` (assumption `SyncAssumption`: handles are a finite set of numbers)

* `NotResentHolds`: `Exclusive` says that the round with the lock is the only one that has
  anything to send, and knows every item that has a line of the CSV, an answer that waits for its line, or a
  send in flight, although its state may be stale.  Of an item whose answer was lost nothing is claimed.
* `NothingSkippedHolds` (assumes no dry run, and an overlap of at least `Lateness`; section 5 says what
  dry runs do).  `NothingForgotten`: the state on disk and every state a round holds cover all items that OAI
  shows and nobody sent; a round that sends covers what it has tried at the mark it will save,
  and all of its harvest if it finishes (`Sending`).  An item that appears late falls into the
  overlap, since no mark is in the future.

`ItemIngestion_proofs` (assumption `ItemAssumption`: no document of an item has the
name of the item's own job, and no worker is an API process)

* `TypesHold`: an actor's `todo` is what is left of a list of calls that some handler or task makes.
* `IndexesFollowRecordsHolds`: `IndexInv`.  A job whose calls did not overlap has at most one actor in the middle
  of one; that actor's merged copy is the record, and the index it has passed is right.
* `ResolvedMeansSentHolds`: `ProgramInv`.  In what is left of every list of calls, the ones that call the item resolved
  come after the chains of its documents that were not sent yet, and so does a copy that is
  about to be written (`CopyInv`).
* `WaitNotForgottenHolds`: `KeptInv`.  An item that a client was told is waiting, or would be told so
  from its record, has its chains, a message, an actor whose calls will carry it on, or a place in the list of failures.
  The invariant has to speak of the record too, since a second request relies on what the first one wrote.

`InfraStatus_proofs` (assumption `StatusAssumption`: `Healthy` and `Faults` give services states they have)

* `CapabilitiesHoldHolds`: what every check says of a service follows from the states that service can
  have; each verdict was taken in one of the two worlds of its query or is `unknown` (`EachIsSeen`); so each need
  that the requirements of a granted capability name was met in one of them (`UpIsMet`).  With a summary that is
  ok the needs they overlook were met as well (`OverlookedFollows`), but for a store that is not written to.  `SoundInv`
  carries both through the cache.
* `HealthyIsCapableHolds`: an `ok` summary leaves no verdict down, degraded or unknown (`SummaryFollows`).  It
  assumes nothing of the settings; the property itself says that what writes to the store is granted
  if the store is MinIO and its check wrote to it (`Probed`).
* `AnswersAreRecentHolds` (assumes lifetimes above 0, since one of 0 never ends).  `RecentInv`: a query
  is at most `Slowest` old, an entry that much older than its moment, and a count older
  than its entry by at most `ScanTtl` more.

Only model-checked: liveness (`WaitEnds`, `LockRecovered`, `LockFreed`, `JobEnds`, `RequestEnds`,
`EveryItemSent`), which the proof system does not cover under fairness.
`SuccessMeansIndexed` is proved for forced chains, and refuted without (`pipeline_success`).

## 5. Observations

What modelling showed about the code, next to the finding of `pipeline_success`.  No run stands for
these; each can be reproduced from the module named, and where a promise of the repository does not hold, the
property that is checked names the case it excepts.

GPU manager (`GpuManager`)
: `ensure_valid` reads local flags only, so a process suspended for longer than the TTL
  passes it once (the package's `README.md:45` says it confirms possession).  A cancelled waiter whose
  wait heartbeat is the first to find its key gone enqueues itself again and is granted
  (`README.md:57` against `manager.py:158-168`).  `TRY_ACQUIRE` is given `int(aging_interval)`, the
  Python side divides by the configured float (`redis_backend.py:148`).

Manifest (`ManifestRepository`)
: The module's docstring (11-12) has every update revalidate the ETag; line 198 does so
  only without the lock, so a writer whose lock has expired overwrites.  `create` keeps an
  existing manifest "if it exists" with a load and a put without condition (132-148): the slower of two
  creators writes revision 0 over updates.

Pipeline (`DocumentPipeline`)
: After a forced reprocess the metadata of the enrichment never reach the new points
  (`pipeline_stages.py:371-372`, `495-498` against `331-334`, `373-374`).  The enrichment is completed
  before its push, whose error is only logged (366).  A chain whose process was killed by the hard
  limit stays `processando`, and nothing takes it up (`Kill`).  A document of zero blocks is a
  success that indexes nothing, and leaves the points of an earlier extraction in the index
  (`pipeline_stages.py:551-552`, 583).

Items (`ItemIngestion`)
: A refusal of the broker after `na_fila` was written leaves a wait that looks alive until
  its `next_retry_at` is overdue: repeated POSTs answer 202 although nothing is queued
  (`ingest_service.py:137`).  `WaitNotForgotten` excludes it by `errors = 0`.

Extraction (`Extraction`)
: `config.py:583-584` says that the VRAM is released at the timeout; the server goes on with the
  task (`mineru_service.py:144-146`) while the lease is given back: `zombies`.  Objects are put in place,
  so an execution that dies leaves the manifest naming objects that were replaced (`NamesOfOneAttempt` is about
  the names; that the object behind a name is the named one fails for overlapping executions, and readers
  check the checksum).  An extraction for which no `.md` was found is completed all the same, and
  `artifacts.update(refs)` (`pipeline_stages.py:298`) keeps the markdown of an earlier one, which the enrichment
  (336) and the legacy indexing (502) then read as the document's; the same holds for the images.

Indexing (`Indexing`)
: The overlap is applied twice to the parts of an oversized block.  The source note of a table that is
  split is in no part, and a table that fits is indexed by `table_row_representation`
  (`structural_token_chunker.py:483-486`): without the note, without cells beyond the header, and without the
  rows after the 40th, although its `row_end` counts them all.  A list item or a figure beyond `FORCE_SPLIT` fails the whole document at
  every attempt (`structural_token_chunker.py:659`).  A document of unnumbered headings followed
  by an annex or references yields no chunk (`document_blocks.py:605`).  `SEARCH_DEFAULT_PROFILE` is never
  used (`qdrant_client.py:159`), and any one `SEARCH_EXCLUDE_*` flag turns the whole filter on.

Summary (`SummaryText`, `SummaryService`)
: A search that fails brings no point and no error, so a summary made while one of its queries
  failed is cached as whole.  `set_payload` of the follow-ups does not bump the generation
  (`index_chunks.py:784` against `summary_cache.py:11-12`): `AnswersAreFresh` is about the bumps.  Reasoning
  between delimiters that are not tags survives when these do not pair (`summary_service.py:246-252`);
  `CleanText` assumes `Consistent` answers.  An answer that opens a block within a block and is cut after
  it closed the inner one keeps what follows, although the docstring (245-246) has it that from an
  opening without a close on nothing is answer (254-262): `Unfinished` excepts it.

Synchronisation (`SyncWatermark`)
: With `--reprocessar-modificados` an item that was sent once and fails when it is sent
  again is taken out of the retries, because the CSV has its first 2xx (437).  `--max-itens 1`
  can starve an item (474).  `--sem-envio` advances the watermark.  The lines of the CSV are written by
  `colher`, when 40 tasks wait or the candidates have ended (568-579), so an interruption loses those of up to
  40 items that the API took, and the next round posts them again; `extrair_e_enviar_uuids.py:17-19` calls
  the CSV written "linha por linha", surviving a fall, and `sincronizar_novos_itens.py:45-46` has no item sent
  again.  `NotResent` is about what the CSV has or a running round still holds.

Status (`InfraStatus`)
: A TTL of 0 never expires (`infra_status.py:184` against `config.py:609`).
  `MINIO_HEALTHCHECK_WRITE=false`, or an `ARTIFACT_STORE_BACKEND` other than `minio` (543-547: `not_configured`,
  although no other store can be built), leaves ingestion, extraction and indexing reported as blocked
  (1310) while the status is ok and nothing is blocking, against `DEPLOY.md:382`: `HealthyIsCapable` is about
  the stores that were written to.  A full disk blocks no capability: `extracao` is granted (1335-1340)
  although 1180 and 1183-1184 say that it fails then.  A dense vector of the wrong dimension only degrades Qdrant
  (339-344), and search and indexing are granted; the database of the manifest's lock is asked for by none of
  them, and the store not by `enriquecimento_llm`.  In all these the status is not ok, but for the last
  one in a store that is not written to: `CapabilitiesHold` claims the overlooked needs under that status only.
  A slow, older measurement may replace a newer one in the cache.

## 6. What is not modelled, and why

Regular expressions over text (OCR normalisation, the kind of a title, cut sentences, the
table of contents, the quality of a text), prompts, and the ranking of a search are functions of strings
whose outcome is data of the modules above.  Authentication, the proxy prefix and the routes that only
read keep no state that others depend on.  The snapshots, metrics and command line of the
GPU manager read keys that are modelled.  The legacy chunker and the command-line indexing are kept for old
documents.  Scripts run by hand are outside of the queues; two of them call `stage_index` without the
queue's concurrency limit, the assumption on which `IndexStaysFilled` rests.  The clock is one for
all hosts; skew would change the order of waiting requests.  The delays between retries are
not timed.  `PROJECT.json` has the reason for every component.

## 7. Plan

1. **Proofs** – that the pipeline's atomic updates of the manifest are what `ManifestRepository`
   implements, as a refinement of an abstract manifest.
2. **Composition** – the pipeline over `JobStore`, where two chains of one document interleave the
   requests of their status records.
3. **Bounds** – two documents of an item and two processes of the API, when their symmetry
   allows it.
