-------------------------- MODULE DocumentPipeline --------------------------
(***************************************************************************)
(* The ingestion of one document: the Celery chain baixar_dspace,          *)
(* extrair_mineru, indexar_qdrant, and the follow-ups linked to its last   *)
(* task.  The tasks share the job's record, the manifest and artifacts of  *)
(* the document and its points in Qdrant.  The chain may be enqueued again *)
(* (a new POST, a reprocess) and every task may fail, or lose its worker   *)
(* and be delivered again.                                                 *)
(*                                                                         *)
(* The result of an extraction is its version and what the chunker gets    *)
(* from it: chunks; none, because the policy rejects every block; or none, *)
(* because there is no block (a blank PDF).  Calls of set_status and       *)
(* updates of the manifest are atomic here (see ManifestRepository for the *)
(* latter).                                                                *)
(***************************************************************************)
EXTENDS Integers, FiniteSets

CONSTANTS
    N,              \* how often the chain is enqueued
    Forces,         \* the values of force it is enqueued with
    Overlap,        \* TRUE: it may be enqueued again before it has ended
    Yields,         \* what an extraction may leave to index
    QdrantFails,    \* TRUE: best-effort requests to Qdrant may fail
    FollowUps,      \* the follow-ups that are enabled
    OnDemand,       \* those that the API is asked for
    MaxRetries,     \* max_retries of baixar_dspace
    MaxDeaths       \* bound on the workers that die

ASSUME PipelineAssumption ==
    /\ N \in Nat \ {0}
    /\ Forces \subseteq BOOLEAN
    /\ Overlap \in BOOLEAN
    /\ Yields \subseteq {"chunks", "rejected", "blank"}
    /\ QdrantFails \in BOOLEAN
    /\ FollowUps \subseteq {"enrichment", "discourse"}
    /\ OnDemand \subseteq {"enrichment", "discourse"}
    /\ MaxRetries \in Nat
    /\ MaxDeaths \in Nat

VARIABLES
    record,         \* the job's record: status, and whether index_error is set
    failed,         \* is the job in jobs:failed?
    stages,         \* manifest.stages
    content,        \* manifest.artifacts["mineru_content_list"]
    object,         \* the content list in the artifact store
    points,         \* the versions that have points in Qdrant
    marked,         \* follow-up: the versions whose points have its payload
    pc,             \* run of the chain: where its current task is
    task,           \* run: its current task
    force,          \* run: context.force
    retries,        \* run: request.retries of its current task
    copy,           \* run: the content list that its task has put or loaded
    result,         \* run: how it ended
    fpc,            \* follow-up of a run: where it is
    indexed,        \* follow-up of a run: was the document indexed when it began?
    seen,           \* follow-up of a run: the points it has read
    deaths          \* number of workers that died

jobVars == <<record, failed>>
documentVars == <<stages, content, object>>
indexVars == <<points, marked>>
chainVars == <<pc, task, force, retries, copy, result>>
followVars == <<fpc, indexed, seen>>
vars == <<jobVars, documentVars, indexVars, chainVars, followVars, deaths>>

Runs == 1 .. N
Kinds == {"enrichment", "discourse"}
OfApi == 0           \* not of a run: a request of the API, at most one of each kind
Calls == (Runs \X FollowUps) \cup ({OfApi} \X OnDemand)
NoContent == [version |-> 0, yields |-> "none"]

\* A worker executes the current task of the run.
Executing == {"running", "stored", "upserted", "indexed", "concluding", "listing",
              "failing", "unindexed", "warning"}
Idle(r) == pc[r] \in {"new", "over"}

\* set_status: the fields that it is not given keep their values.
SetStatus(status) == record' = [record EXCEPT !.status = status]

Go(r, step) == pc' = [pc EXCEPT ![r] = step]
Advance(r, step) ==
    /\ Go(r, step)
    /\ UNCHANGED <<task, force, retries, copy, result, followVars, deaths>>

\* The task returns and Celery publishes the next one.
NextTask(r, t) ==
    /\ Go(r, "queued")
    /\ task' = [task EXCEPT ![r] = t]
    /\ retries' = [retries EXCEPT ![r] = 0]
    /\ UNCHANGED <<force, copy, result>>
End(r, how) ==
    /\ Go(r, "over")
    /\ result' = [result EXCEPT ![r] = how]
    /\ UNCHANGED <<task, force, retries, copy>>

SetStage(s, status) == stages' = [stages EXCEPT ![s] = status]

\* start_stage
StartUnmarked(s) == UNCHANGED stages
StartStage(s) == SetStage(s, "RUNNING")

\* fail_stage: an error while it records the failure is only logged.
FailStage(s) == SetStage(s, "FAILED") \/ UNCHANGED stages

Completed(s) == stages[s] = "COMPLETED"

Init ==
    /\ record = [status |-> "unknown", indexError |-> FALSE]
    /\ failed = FALSE
    /\ stages = [s \in {"download", "mineru", "indexing", "enrichment", "discourse"}
                    |-> "PENDING"]
    /\ content = NoContent
    /\ object = NoContent
    /\ points = {}
    /\ marked = [f \in Kinds |-> {}]
    /\ pc = [r \in Runs |-> "new"]
    /\ task = [r \in Runs |-> "download"]
    /\ force \in [Runs -> Forces]
    /\ retries = [r \in Runs |-> 0]
    /\ copy = [r \in Runs |-> NoContent]
    /\ result = [r \in Runs |-> "none"]
    /\ fpc = [c \in Calls |-> "none"]
    /\ indexed = [c \in Calls |-> FALSE]
    /\ seen = [c \in Calls |-> {}]
    /\ deaths = 0

-----------------------------------------------------------------------------
(* Enqueueing, by the API or by resolver_item_dspace *)

Enqueue(r) ==
    /\ pc[r] = "new"
    /\ \A q \in Runs : q < r =>
          IF Overlap THEN pc[q] # "new" ELSE pc[q] = "over"
    /\ SetStatus("na_fila")
    /\ Advance(r, "clear")
    /\ UNCHANGED <<failed, documentVars, indexVars>>

\* enqueue_chain
ClearFailed == failed' = FALSE

Send(r) ==
    /\ pc[r] = "clear"
    /\ ClearFailed
    /\ \/ NextTask(r, "download")
       \/ End(r, "unsent")      \* the broker fails: the request does, too
    /\ UNCHANGED <<record, documentVars, indexVars, followVars, deaths>>

-----------------------------------------------------------------------------
(* baixar_dspace *)

StartDownload(r) ==
    /\ pc[r] = "queued" /\ task[r] = "download"
    /\ SetStatus("processando")
    /\ IF ~force[r] /\ Completed("download")
       THEN NextTask(r, "mineru") /\ UNCHANGED stages
       ELSE /\ StartStage("download")
            /\ Go(r, "running")
            /\ UNCHANGED <<task, force, retries, copy, result>>
    /\ UNCHANGED <<failed, content, object, indexVars, followVars, deaths>>

Download(r) ==
    /\ pc[r] = "running" /\ task[r] = "download"
    /\ SetStage("download", "COMPLETED")
    /\ SetStatus("processando")
    /\ NextTask(r, "mineru")
    /\ UNCHANGED <<failed, content, object, indexVars, followVars, deaths>>

\* HTTP 5xx or no connection, while there are retries left.
RetriesUnlimited(r) == TRUE
RetriesLeft(r) == retries[r] < MaxRetries
RetryUncounted(r) == UNCHANGED retries
CountRetry(r) == retries' = [retries EXCEPT ![r] = @ + 1]

RetryDownload(r) ==
    /\ pc[r] = "running" /\ task[r] = "download"
    /\ RetriesLeft(r)
    /\ CountRetry(r)
    /\ Go(r, "queued")
    /\ UNCHANGED <<jobVars, documentVars, indexVars, task, force, copy, result,
                   followVars, deaths>>

\* Any other failure, the task's first requests included.
FailDownload(r) ==
    /\ pc[r] \in {"queued", "running"} /\ task[r] = "download"
    /\ SetStatus("erro")
    /\ Advance(r, "failing")
    /\ UNCHANGED <<failed, documentVars, indexVars>>

\* PipelineTask.on_failure
OnFailureUnlisted == SetStatus("erro") /\ UNCHANGED failed
OnFailure == SetStatus("erro") /\ failed' = TRUE

TaskFailed(r) ==
    /\ pc[r] = "failing"
    /\ OnFailure
    /\ End(r, "error")
    /\ UNCHANGED <<documentVars, indexVars, followVars, deaths>>

-----------------------------------------------------------------------------
(* extrair_mineru *)

StartMineru(r) ==
    /\ pc[r] = "queued" /\ task[r] = "mineru"
    /\ SetStatus("processando")
    /\ IF ~force[r] /\ Completed("mineru") /\ content # NoContent
       THEN NextTask(r, "index") /\ UNCHANGED stages
       ELSE /\ StartStage("mineru")
            /\ Go(r, "running")
            /\ UNCHANGED <<task, force, retries, copy, result>>
    /\ UNCHANGED <<failed, content, object, indexVars, followVars, deaths>>

\* The extraction is put under its fixed key, then named by the manifest.
StoreExtraction(r) ==
    /\ pc[r] = "running" /\ task[r] = "mineru"
    /\ \E y \in Yields : object' = [version |-> object.version + 1, yields |-> y]
    /\ copy' = [copy EXCEPT ![r] = object']
    /\ Go(r, "stored")
    /\ UNCHANGED <<jobVars, stages, content, indexVars, task, force, retries, result,
                   followVars, deaths>>

Extract(r) ==
    /\ pc[r] = "stored"
    /\ content' = copy[r]
    /\ SetStage("mineru", "COMPLETED")
    /\ NextTask(r, "index")
    /\ UNCHANGED <<jobVars, object, indexVars, followVars, deaths>>

FailMineru(r) ==
    /\ pc[r] \in {"queued", "running", "stored"} /\ task[r] = "mineru"
    /\ SetStatus("erro")
    /\ FailStage("mineru")
    /\ Advance(r, "failing")
    /\ UNCHANGED <<failed, content, object, indexVars>>

-----------------------------------------------------------------------------
(* indexar_qdrant *)

\* The worker of the queue gpu has a concurrency of 1.
GpuWorkerFree(r) ==
    \A q \in Runs \ {r} : ~(task[q] = "index" /\ pc[q] \in Executing)

StartIndex(r) ==
    /\ pc[r] = "queued" /\ task[r] = "index"
    /\ GpuWorkerFree(r)
    /\ SetStatus("processando")
    /\ IF ~force[r] /\ Completed("indexing")
       THEN /\ Go(r, "concluding")
            /\ result' = [result EXCEPT ![r] = "ok"]
            /\ UNCHANGED <<copy, stages>>
       ELSE /\ Go(r, "running")
            /\ copy' = [copy EXCEPT ![r] = content]
            /\ StartStage("indexing")
            /\ UNCHANGED result
    /\ UNCHANGED <<failed, content, object, indexVars, task, force, retries,
                   followVars, deaths>>

\* The artifact read must have the checksum that the manifest names.  The points
\* of the same version are written again, without the payload of the follow-ups.
\* No chunk although there are blocks is an anomaly, an empty index; a document of
\* no blocks is a success.  Neither touches the points of an earlier extraction.
Upsert(r) ==
    /\ points' = points \cup {copy[r].version}
    /\ marked' = [f \in Kinds |-> marked[f] \ {copy[r].version}]

UnindexableOk(r) == "ok"
Unindexable(r) == IF copy[r].yields = "blank" THEN "ok" ELSE "empty"
Embed(r) ==
    /\ pc[r] = "running" /\ task[r] = "index"
    /\ copy[r] = object
    /\ IF copy[r].yields = "chunks"
       THEN /\ Upsert(r)
            /\ Go(r, "upserted")
            /\ UNCHANGED result
       ELSE /\ Go(r, "indexed")
            /\ result' = [result EXCEPT ![r] = Unindexable(r)]
            /\ UNCHANGED indexVars
    /\ UNCHANGED <<jobVars, documentVars, task, force, retries, copy, followVars, deaths>>

\* The points of other index runs are removed last; that is best-effort.
KeptNone(r) == {}
Kept(r) == points \cap {copy[r].version}

RemoveOld(r) ==
    /\ pc[r] = "upserted"
    /\ \/ points' = Kept(r)
       \/ QdrantFails /\ UNCHANGED points
    /\ Go(r, "indexed")
    /\ result' = [result EXCEPT ![r] = "ok"]
    /\ UNCHANGED <<jobVars, documentVars, marked, task, force, retries, copy,
                   followVars, deaths>>

CompleteIndex(r) ==
    /\ pc[r] = "indexed"
    /\ SetStage("indexing", "COMPLETED")
    /\ Advance(r, "concluding")
    /\ UNCHANGED <<jobVars, content, object, indexVars>>

Conclude(r) ==
    /\ pc[r] = "concluding"
    /\ record' = [status |-> "concluido", indexError |-> result[r] = "empty"]
    /\ Advance(r, "listing")
    /\ UNCHANGED <<failed, documentVars, indexVars>>

\* The follow-ups are linked to the last task of the chain.
PublishFollowUps(r) ==
    /\ fpc' = [c \in Calls |-> IF c[1] = r THEN "queued" ELSE fpc[c]]
    /\ UNCHANGED <<indexed, seen>>

ListFailure(r) ==
    /\ pc[r] = "listing"
    /\ failed' = (result[r] = "empty")
    /\ End(r, result[r])
    /\ PublishFollowUps(r)
    /\ UNCHANGED <<record, documentVars, indexVars, deaths>>

\* A failure anywhere in stage_index, after part of the points was written too.
FailIndex(r) ==
    /\ task[r] = "index"
    /\ \/ pc[r] = "queued" /\ GpuWorkerFree(r)
       \/ pc[r] \in {"running", "upserted", "indexed"}
    /\ FailStage("indexing")
    /\ Advance(r, "unindexed")
    /\ UNCHANGED <<jobVars, content, object, indexVars>>

ListUnindexed(r) ==
    /\ pc[r] = "unindexed"
    /\ failed' = TRUE
    /\ Advance(r, "warning")
    /\ UNCHANGED <<record, documentVars, indexVars>>

\* The task does not fail: the Markdown is there.
ConcludeUnindexed(r) ==
    /\ pc[r] = "warning"
    /\ record' = [status |-> "concluido", indexError |-> TRUE]
    /\ End(r, "index_error")
    /\ PublishFollowUps(r)
    /\ UNCHANGED <<failed, documentVars, indexVars, deaths>>

-----------------------------------------------------------------------------
(* The worker of a task dies *)

\* task_acks_late: the broker delivers the task again.
Redeliver(r) ==
    /\ pc[r] \in Executing
    /\ deaths < MaxDeaths
    /\ deaths' = deaths + 1
    /\ Go(r, "queued")
    /\ UNCHANGED <<jobVars, documentVars, indexVars, task, force, retries, copy,
                   result, followVars>>

\* Only the process that executes a stage is killed (task_time_limit, no memory):
\* Celery acknowledges the task, on_failure does not run and the chain stops.
Kill(r) ==
    /\ pc[r] \in {"running", "stored", "upserted", "indexed"}
    /\ deaths < MaxDeaths
    /\ deaths' = deaths + 1
    /\ End(r, "killed")
    /\ UNCHANGED <<jobVars, documentVars, indexVars, followVars>>

-----------------------------------------------------------------------------
(* enrich_after_index and classify_after_index, and the same on demand *)

FollowGo(c, step) == fpc' = [fpc EXCEPT ![c] = step]

\* Both read the manifest anew, with force = FALSE.  The enrichment needs an
\* extraction, the classification an indexed document.
Lacks(f) ==
    \/ f = "enrichment" /\ content = NoContent
    \/ f = "discourse" /\ ~Completed("indexing")
Skips(f) == Completed(f) \/ Lacks(f)

Starts(c) ==
    /\ StartStage(c[2])
    /\ indexed' = [indexed EXCEPT ![c] = Completed("indexing")]
    /\ FollowGo(c, "running")
    /\ UNCHANGED <<jobVars, content, object, indexVars, chainVars, seen, deaths>>

StartFollowUp(c) == fpc[c] = "queued" /\ ~Skips(c[2]) /\ Starts(c)

\* The routes of the API run the stage in their request, with force = TRUE; the job's
\* record is not touched.  (A job without a manifest is enriched from local files.)
RunOnDemand(c) == c[1] = OfApi /\ fpc[c] = "none" /\ ~Lacks(c[2]) /\ Starts(c)

\* It has nothing to do, or fails before it has marked the stage.
SkipFollowUp(c) ==
    /\ fpc[c] = "queued"
    /\ FollowGo(c, "over")
    /\ UNCHANGED <<jobVars, documentVars, indexVars, chainVars, indexed, seen, deaths>>

\* A task with warnings has them written in the job's record.
Warned(c) == IF c[1] = OfApi THEN "over" ELSE "warned"

\* The stage is recorded; it may have warnings.
Complete(c, step) ==
    /\ SetStage(c[2], "COMPLETED")
    /\ FollowGo(c, step)
    /\ UNCHANGED <<jobVars, content, object, indexVars, chainVars, indexed, seen, deaths>>

\* stage_enrich: the manifest first, then the payload of all the points of the
\* document.  An error of Qdrant is only logged.
Enrich(c) ==
    /\ fpc[c] = "running" /\ c[2] = "enrichment"
    /\ IF indexed[c] THEN Complete(c, "pushing")
                     ELSE \E step \in {"over", Warned(c)} : Complete(c, step)

PushMetadata(c) ==
    /\ fpc[c] = "pushing"
    /\ \/ marked' = [marked EXCEPT ![c[2]] = points]
       \/ QdrantFails /\ UNCHANGED marked
    /\ \E step \in {"over", Warned(c)} : FollowGo(c, step)
    /\ UNCHANGED <<jobVars, documentVars, points, chainVars, indexed, seen, deaths>>

\* stage_classify_discourse: the payload of the points it has read, which may be
\* gone by then, then the manifest.
ReadChunks(c) ==
    /\ fpc[c] = "running" /\ c[2] = "discourse"
    /\ seen' = [seen EXCEPT ![c] = points]
    /\ FollowGo(c, "read")
    /\ UNCHANGED <<jobVars, documentVars, indexVars, chainVars, indexed, deaths>>

PushRoles(c) ==
    /\ fpc[c] = "read"
    /\ marked' = [marked EXCEPT ![c[2]] = @ \cup (seen[c] \cap points)]
    /\ FollowGo(c, "pushed")
    /\ UNCHANGED <<jobVars, documentVars, points, chainVars, indexed, seen, deaths>>

Classify(c) ==
    /\ fpc[c] = "pushed"
    /\ \E step \in {"over", Warned(c)} : Complete(c, step)

FailFollowUp(c) ==
    /\ fpc[c] \in {"running", "read", "pushed"}
    /\ FailStage(c[2])
    /\ FollowGo(c, Warned(c))
    /\ UNCHANGED <<jobVars, content, object, indexVars, chainVars, indexed, seen, deaths>>

WarnFollowUp(c) ==
    /\ fpc[c] = "warned"
    /\ SetStatus("concluido")
    /\ FollowGo(c, "over")
    /\ UNCHANGED <<failed, documentVars, indexVars, chainVars, indexed, seen, deaths>>

\* Its worker dies: it is delivered again, or gone; a request of the API is gone.
KillFollowUp(c) ==
    /\ fpc[c] \in {"running", "pushing", "read", "pushed", "warned"}
    /\ deaths < MaxDeaths
    /\ deaths' = deaths + 1
    /\ \E step \in IF c[1] = OfApi THEN {"over"} ELSE {"queued", "over"} : FollowGo(c, step)
    /\ UNCHANGED <<jobVars, documentVars, indexVars, chainVars, indexed, seen>>

-----------------------------------------------------------------------------
\* What the workers do of themselves.
Work(r) ==
    \/ Send(r)
    \/ StartDownload(r) \/ Download(r) \/ RetryDownload(r) \/ FailDownload(r)
    \/ StartMineru(r) \/ StoreExtraction(r) \/ Extract(r) \/ FailMineru(r)
    \/ TaskFailed(r)
    \/ StartIndex(r) \/ Embed(r) \/ RemoveOld(r) \/ CompleteIndex(r)
    \/ Conclude(r) \/ ListFailure(r)
    \/ FailIndex(r) \/ ListUnindexed(r) \/ ConcludeUnindexed(r)

FollowUpWork(c) ==
    \/ StartFollowUp(c) \/ SkipFollowUp(c) \/ Enrich(c) \/ PushMetadata(c)
    \/ ReadChunks(c) \/ PushRoles(c) \/ Classify(c) \/ FailFollowUp(c)
    \/ WarnFollowUp(c)

Next ==
    \/ \E r \in Runs : Enqueue(r) \/ Work(r) \/ Redeliver(r) \/ Kill(r)
    \/ \E c \in Calls : FollowUpWork(c) \/ KillFollowUp(c) \/ RunOnDemand(c)

Spec == Init /\ [][Next]_vars

\* The workers that are up execute the tasks in their queues.
FairSpec ==
    /\ Spec
    /\ \A r \in Runs : WF_vars(Work(r))
    /\ \A c \in Calls : WF_vars(FollowUpWork(c))

-----------------------------------------------------------------------------
(* Properties *)

Contents == [version : Nat, yields : Yields \cup {"none"}]

\* Type invariant.
TypeOK ==
    /\ record \in [status : {"unknown", "na_fila", "processando", "concluido", "erro"},
                   indexError : BOOLEAN]
    /\ failed \in BOOLEAN
    /\ stages \in [{"download", "mineru", "indexing", "enrichment", "discourse"}
                      -> {"PENDING", "RUNNING", "COMPLETED", "FAILED"}]
    /\ content \in Contents /\ object \in Contents
    /\ points \subseteq Nat
    /\ marked \in [Kinds -> SUBSET Nat]
    /\ pc \in [Runs -> {"new", "clear", "queued", "over"} \cup Executing]
    /\ task \in [Runs -> {"download", "mineru", "index"}]
    /\ force \in [Runs -> BOOLEAN]
    /\ retries \in [Runs -> 0 .. MaxRetries]
    /\ copy \in [Runs -> Contents]
    /\ result \in [Runs -> {"none", "ok", "empty", "index_error", "error", "killed",
                            "unsent"}]
    /\ fpc \in [Calls -> {"none", "queued", "running", "pushing", "read", "pushed",
                          "warned", "over"}]
    /\ indexed \in [Calls -> BOOLEAN]
    /\ seen \in [Calls -> SUBSET Nat]
    /\ deaths \in 0 .. MaxDeaths

\* No chain is under way and r, the last one, reported how it ended.
Reported(r) ==
    /\ \A q \in Runs : Idle(q)
    /\ pc[r] = "over" /\ result[r] \notin {"killed", "unsent"}
    /\ \A q \in Runs : q > r => pc[q] = "new"

\* The list of failures holds the job exactly when its last chain has failed, has
\* left nothing to index or could not index, whatever earlier chains and their
\* follow-ups, deliveries of a task again and retries did before.
FailureListed ==
    \A r \in Runs : Reported(r) => (failed <=> result[r] # "ok")

\* job_store.py, tasks.py: a job is a success when it is concluded without
\* index_error, and an empty index of a document that has blocks is no success.  So
\* after a chain that reports success the points in Qdrant include those of the
\* document's extraction, unless that extraction has no block at all: the code takes
\* a blank document for a success, and leaves the points of earlier extractions.
SuccessMeansIndexed ==
    \A r \in Runs : (Reported(r) /\ result[r] = "ok") =>
        content.version \in points \/ content.yields = "blank"

\* A stage marked as completed, which a later chain takes as it is, names the very
\* extraction that is in the store, although a chain overwrites it in place and may
\* stop before it updates the manifest.
CompletedExtractionIsStored == Completed("mineru") => content = object

\* A document that can be found in the index stays so: the points of an earlier
\* extraction go only when those of the new one are there, also when a chain is
\* enqueued while another runs.
IndexNeverEmptied == [][points # {} => points' # {}]_vars

\* Every chain that is enqueued ends, and so does every follow-up, also one that the API
\* was asked for.
JobEnds ==
    /\ \A r \in Runs : pc[r] = "clear" ~> pc[r] = "over"
    /\ \A c \in Calls : fpc[c] # "none" ~> fpc[c] = "over"

=============================================================================
