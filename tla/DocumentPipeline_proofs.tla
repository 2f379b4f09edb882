---------------------- MODULE DocumentPipeline_proofs ----------------------
(***************************************************************************)
(* Proofs about DocumentPipeline, for any number of chains, follow-ups,    *)
(* retries and worker deaths.                                              *)
(***************************************************************************)
EXTENDS DocumentPipeline, TLAPS

Stages == {"download", "mineru", "indexing", "enrichment", "discourse"}
PC == {"new", "clear", "queued", "over"} \cup Executing

\* What the actions of a run say of its own control state and of that of others.
LEMMA ConstantsType ==
    /\ Runs \subseteq Nat
    /\ \A c \in Calls : c[2] \in Kinds /\ c[2] \in Stages
<1>1. Runs \subseteq Nat
  BY PipelineAssumption DEF Runs
<1>2. ASSUME NEW c \in Calls
      PROVE  c[2] \in Kinds
  BY PipelineAssumption DEF Calls, Kinds
<1>3. Kinds \subseteq Stages
  BY DEF Kinds, Stages
<1>4. QED
  BY <1>1, <1>2, <1>3

-----------------------------------------------------------------------------
(* Type correctness *)

\* Type correctness of the document pipeline.
THEOREM TypeCorrect == Spec => []TypeOK
<1>1. Init => TypeOK
  <2>1. NoContent \in Contents
    BY DEF NoContent, Contents
  <2>2. Init => force \in [Runs -> BOOLEAN]
    BY PipelineAssumption, Zenon DEF Init
  <2>3. Init => marked \in [Kinds -> SUBSET Nat] /\ seen \in [Calls -> SUBSET Nat]
    BY DEF Init
  <2>4. Init => /\ pc \in [Runs -> {"new", "clear", "queued", "over"} \cup Executing]
                /\ task \in [Runs -> {"download", "mineru", "index"}]
                /\ retries \in [Runs -> 0 .. MaxRetries]
                /\ copy \in [Runs -> Contents]
                /\ result \in [Runs -> {"none", "ok", "empty", "index_error", "error",
                                        "killed", "unsent"}]
    BY <2>1, PipelineAssumption DEF Init
  <2>5. Init => indexed \in [Calls -> BOOLEAN]
    BY Zenon DEF Init
  <2>6. Init => fpc \in [Calls -> {"none", "queued", "running", "pushing", "read",
                                   "pushed", "warned", "over"}]
    BY DEF Init
  <2>7. Init => /\ record \in [status : {"unknown", "na_fila", "processando",
                                          "concluido", "erro"}, indexError : BOOLEAN]
                /\ stages \in [{"download", "mineru", "indexing", "enrichment",
                                "discourse"}
                                  -> {"PENDING", "RUNNING", "COMPLETED", "FAILED"}]
    BY DEF Init
  <2>8. Init => failed \in BOOLEAN /\ content \in Contents /\ object \in Contents
    BY <2>1, Zenon DEF Init
  <2>9. Init => points \subseteq Nat /\ deaths \in 0 .. MaxDeaths
    BY PipelineAssumption DEF Init
  <2>10. QED
    BY <2>2, <2>3, <2>4, <2>5, <2>6, <2>7, <2>8, <2>9 DEF TypeOK
<1>2. TypeOK /\ [Next]_vars => TypeOK'
  <2> SUFFICES ASSUME TypeOK, [Next]_vars PROVE TypeOK'
    OBVIOUS
  <2> USE PipelineAssumption, ConstantsType
      DEF TypeOK, Executing, Stages, Go, Advance, NextTask, End, SetStatus, SetStage,
          StartStage, FailStage, jobVars, documentVars, indexVars, chainVars,
          followVars
  <2>1. ASSUME NEW r \in Runs, Enqueue(r) PROVE TypeOK'
    BY <2>1 DEF Enqueue
  <2>2. ASSUME NEW r \in Runs, Send(r) PROVE TypeOK'
    <3>1. failed' \in BOOLEAN /\ (NextTask(r, "download") \/ End(r, "unsent"))
            /\ UNCHANGED <<record, documentVars, indexVars, followVars, deaths>>
      BY <2>2, Zenon DEF Send, ClearFailed
    <3>2. CASE NextTask(r, "download")
      BY <3>1, <3>2
    <3>3. CASE End(r, "unsent")
      BY <3>1, <3>3
    <3>4. QED
      BY <3>1, <3>2, <3>3
  <2>3. ASSUME NEW r \in Runs, StartDownload(r) PROVE TypeOK'
    BY <2>3 DEF StartDownload
  <2>4. ASSUME NEW r \in Runs, Download(r) PROVE TypeOK'
    BY <2>4 DEF Download
  <2>5. ASSUME NEW r \in Runs, RetryDownload(r) PROVE TypeOK'
    BY <2>5 DEF RetryDownload, RetriesLeft, CountRetry
  <2>6. ASSUME NEW r \in Runs, FailDownload(r) PROVE TypeOK'
    BY <2>6 DEF FailDownload
  <2>7. ASSUME NEW r \in Runs, TaskFailed(r) PROVE TypeOK'
    BY <2>7 DEF TaskFailed, OnFailure
  <2>8. ASSUME NEW r \in Runs, StartMineru(r) PROVE TypeOK'
    <3>1. CASE ~force[r] /\ Completed("mineru") /\ content # NoContent
      BY <2>8, <3>1 DEF StartMineru
    <3>2. CASE ~(~force[r] /\ Completed("mineru") /\ content # NoContent)
      BY <2>8, <3>2 DEF StartMineru
    <3>3. QED
      BY <3>1, <3>2
  <2>9. ASSUME NEW r \in Runs, StoreExtraction(r) PROVE TypeOK'
    <3>1. object' \in Contents
      <4>1. PICK y \in Yields : object' = [version |-> object.version + 1, yields |-> y]
        BY <2>9, Zenon DEF StoreExtraction
      <4>2. object.version + 1 \in Nat
        BY DEF Contents
      <4>3. QED
        BY <4>1, <4>2 DEF Contents
    <3>2. QED
      BY <2>9, <3>1 DEF StoreExtraction
  <2>10. ASSUME NEW r \in Runs, Extract(r) PROVE TypeOK'
    BY <2>10 DEF Extract
  <2>11. ASSUME NEW r \in Runs, FailMineru(r) PROVE TypeOK'
    BY <2>11 DEF FailMineru
  <2>12. ASSUME NEW r \in Runs, StartIndex(r) PROVE TypeOK'
    <3>1. CASE ~force[r] /\ Completed("indexing")
      BY <2>12, <3>1 DEF StartIndex
    <3>2. CASE ~(~force[r] /\ Completed("indexing"))
      <4>1. /\ Go(r, "running") /\ StartStage("indexing") /\ UNCHANGED result
            /\ copy' = [copy EXCEPT ![r] = content]
        <5> HIDE DEF TypeOK, Go, StartStage
        <5>1. QED
          BY <2>12, <3>2, Zenon DEF StartIndex
      <4>2. /\ SetStatus("processando")
            /\ UNCHANGED <<failed, content, object, indexVars, task, force, retries,
                           followVars, deaths>>
        BY <2>12 DEF StartIndex
      <4>3. QED
        BY <4>1, <4>2
    <3>3. QED
      BY <3>1, <3>2
  <2>13. ASSUME NEW r \in Runs, Embed(r) PROVE TypeOK'
    <3>1. copy[r].version \in Nat
      BY DEF Contents
    <3>2. CASE copy[r].yields = "chunks"
      <4>1. points' \subseteq Nat /\ marked' \in [Kinds -> SUBSET Nat]
        <5>1. Upsert(r)
          BY <2>13, <3>2, Zenon DEF Embed
        <5>2. points \subseteq Nat /\ marked \in [Kinds -> SUBSET Nat]
          OBVIOUS
        <5>3. points' \subseteq Nat
          <6> HIDE DEF TypeOK
          <6>1. QED
            BY <3>1, <5>1, <5>2 DEF Upsert
        <5>4. marked' \in [Kinds -> SUBSET Nat]
          <6> HIDE DEF TypeOK
          <6>1. QED
            BY <5>1, <5>2 DEF Upsert
        <5>5. QED
          BY <5>3, <5>4
      <4>2. Go(r, "upserted") /\ UNCHANGED result
        BY <2>13, <3>2, Zenon DEF Embed
      <4>3. UNCHANGED <<jobVars, documentVars, task, force, retries, copy, followVars,
                        deaths>>
        BY <2>13 DEF Embed
      <4>4. QED
        BY <4>1, <4>2, <4>3
    <3>3. CASE copy[r].yields # "chunks"
      <4>1. /\ Go(r, "indexed") /\ UNCHANGED indexVars
            /\ \E how \in {"ok", "empty"} : result' = [result EXCEPT ![r] = how]
        BY <2>13, <3>3, Zenon DEF Embed, Unindexable
      <4>2. UNCHANGED <<jobVars, documentVars, task, force, retries, copy, followVars,
                        deaths>>
        BY <2>13 DEF Embed
      <4>3. QED
        BY <4>1, <4>2
    <3>4. QED
      BY <3>2, <3>3
  <2>14. ASSUME NEW r \in Runs, RemoveOld(r) PROVE TypeOK'
    BY <2>14 DEF RemoveOld, Kept
  <2>15. ASSUME NEW r \in Runs, CompleteIndex(r) PROVE TypeOK'
    BY <2>15 DEF CompleteIndex
  <2>16. ASSUME NEW r \in Runs, Conclude(r) PROVE TypeOK'
    BY <2>16 DEF Conclude
  <2>17. ASSUME NEW r \in Runs, ListFailure(r) PROVE TypeOK'
    BY <2>17 DEF ListFailure, PublishFollowUps
  <2>18. ASSUME NEW r \in Runs, FailIndex(r) PROVE TypeOK'
    BY <2>18 DEF FailIndex
  <2>19. ASSUME NEW r \in Runs, ListUnindexed(r) PROVE TypeOK'
    BY <2>19 DEF ListUnindexed
  <2>20. ASSUME NEW r \in Runs, ConcludeUnindexed(r) PROVE TypeOK'
    BY <2>20 DEF ConcludeUnindexed, PublishFollowUps
  <2>21. ASSUME NEW r \in Runs, Redeliver(r) PROVE TypeOK'
    BY <2>21 DEF Redeliver
  <2>22. ASSUME NEW r \in Runs, Kill(r) PROVE TypeOK'
    BY <2>22 DEF Kill
  <2>23. ASSUME NEW c \in Calls, StartFollowUp(c) \/ RunOnDemand(c) \/ SkipFollowUp(c)
                  \/ FailFollowUp(c) \/ WarnFollowUp(c) \/ KillFollowUp(c)
         PROVE  TypeOK'
    <3> USE DEF FollowGo
    <3>1. CASE StartFollowUp(c) \/ RunOnDemand(c)
      <4>1. Starts(c)
        BY <3>1, Zenon DEF StartFollowUp, RunOnDemand
      <4>2. QED
        BY <4>1 DEF Starts, Completed
    <3>2. CASE SkipFollowUp(c)
      BY <3>2 DEF SkipFollowUp
    <3>3. CASE FailFollowUp(c)
      BY <3>3 DEF FailFollowUp, Warned
    <3>4. CASE WarnFollowUp(c)
      BY <3>4 DEF WarnFollowUp
    <3>5. CASE KillFollowUp(c)
      BY <3>5 DEF KillFollowUp
    <3>6. QED
      BY <2>23, <3>1, <3>2, <3>3, <3>4, <3>5
  <2>24. ASSUME NEW c \in Calls, Enrich(c) \/ Classify(c) PROVE TypeOK'
    <3>1. PICK step \in {"pushing", "over", "warned"} : Complete(c, step)
      BY <2>24 DEF Enrich, Classify, Warned
    <3>2. QED
      BY <3>1 DEF Complete, FollowGo
  <2>25. ASSUME NEW c \in Calls, PushMetadata(c) \/ ReadChunks(c) \/ PushRoles(c)
         PROVE  TypeOK'
    <3> USE DEF FollowGo
    <3>1. CASE PushMetadata(c)
      <4>1. marked' \in [Kinds -> SUBSET Nat]
        <5>1. points \subseteq Nat /\ marked \in [Kinds -> SUBSET Nat]
          OBVIOUS
        <5>2. marked' = [marked EXCEPT ![c[2]] = points] \/ marked' = marked
          BY <3>1, Zenon DEF PushMetadata
        <5>3. QED
          <6> HIDE DEF TypeOK
          <6>1. QED
            BY <5>1, <5>2
      <4>2. PICK step \in {"over", "warned"} : FollowGo(c, step)
        BY <3>1 DEF PushMetadata, Warned
      <4>3. QED
        BY <3>1, <4>1, <4>2 DEF PushMetadata
    <3>2. CASE ReadChunks(c)
      BY <3>2 DEF ReadChunks
    <3>3. CASE PushRoles(c)
      BY <3>3 DEF PushRoles
    <3>4. QED
      BY <2>25, <3>1, <3>2, <3>3
  <2>26. CASE UNCHANGED vars
    BY <2>26 DEF vars
  <2>27. QED
    BY <2>1, <2>2, <2>3, <2>4, <2>5, <2>6, <2>7, <2>8, <2>9, <2>10, <2>11, <2>12,
       <2>13, <2>14, <2>15, <2>16, <2>17, <2>18, <2>19, <2>20, <2>21, <2>22,
       <2>23, <2>24, <2>25, <2>26 DEF Next, Work, FollowUpWork
<1>3. QED
  BY <1>1, <1>2, PTL DEF Spec

-----------------------------------------------------------------------------
(* What a step leaves alone *)

\* A step of the chain of one run leaves the control state of the others alone.
OthersUnchanged(r) ==
    \A q \in Runs \ {r} :
       pc'[q] = pc[q] /\ task'[q] = task[q] /\ copy'[q] = copy[q] /\ result'[q] = result[q]

RunStep(r) == Enqueue(r) \/ Work(r) \/ Redeliver(r) \/ Kill(r)
FollowUpStep(c) == FollowUpWork(c) \/ KillFollowUp(c) \/ RunOnDemand(c)

LEMMA StepOfRun ==
    ASSUME TypeOK, NEW r \in Runs, RunStep(r)
    PROVE  OthersUnchanged(r) /\ force' = force
<1> USE DEF TypeOK, Go, Advance, NextTask, End, chainVars, OthersUnchanged
<1>1. CASE Enqueue(r)
  BY <1>1 DEF Enqueue
<1>2. CASE Send(r)
  BY <1>2 DEF Send
<1>3. CASE StartDownload(r) \/ Download(r) \/ RetryDownload(r) \/ FailDownload(r)
  BY <1>3 DEF StartDownload, Download, RetryDownload, CountRetry, FailDownload
<1>4. CASE StartMineru(r) \/ StoreExtraction(r) \/ Extract(r) \/ FailMineru(r)
  <2>1. CASE StartMineru(r)
    BY <2>1 DEF StartMineru
  <2>2. CASE StoreExtraction(r)
    BY <2>2 DEF StoreExtraction
  <2>3. CASE Extract(r) \/ FailMineru(r)
    BY <2>3 DEF Extract, FailMineru
  <2>4. QED
    BY <1>4, <2>1, <2>2, <2>3
<1>5. CASE TaskFailed(r) \/ Redeliver(r) \/ Kill(r)
  BY <1>5 DEF TaskFailed, Redeliver, Kill
<1>6. CASE StartIndex(r) \/ RemoveOld(r) \/ CompleteIndex(r)
  BY <1>6 DEF StartIndex, RemoveOld, CompleteIndex
<1>7. CASE Embed(r)
  <2>1. /\ \E step \in {"upserted", "indexed"} : Go(r, step)
        /\ result' = result \/ result' = [result EXCEPT ![r] = Unindexable(r)]
        /\ UNCHANGED <<task, force, copy>>
    BY <1>7, Zenon DEF Embed
  <2>2. QED
    BY <2>1
<1>8. CASE Conclude(r) \/ ListFailure(r)
  BY <1>8 DEF Conclude, ListFailure
<1>9. CASE FailIndex(r) \/ ListUnindexed(r) \/ ConcludeUnindexed(r)
  BY <1>9 DEF FailIndex, ListUnindexed, ConcludeUnindexed
<1>10. QED
  BY <1>1, <1>2, <1>3, <1>4, <1>5, <1>6, <1>7, <1>8, <1>9 DEF RunStep, Work

\* The stages of the chain.
ChainStages == {"download", "mineru", "indexing"}

LEMMA StepOfFollowUp ==
    ASSUME TypeOK, NEW c \in Calls, FollowUpStep(c)
    PROVE  /\ UNCHANGED <<chainVars, failed, content, object, points>>
           /\ \A s \in ChainStages : stages'[s] = stages[s]
<1>1. c[2] \in {"enrichment", "discourse"}
  BY ConstantsType DEF Kinds
<1> USE <1>1 DEF TypeOK, SetStage, StartStage, FailStage, Complete, documentVars,
                 jobVars, indexVars, ChainStages
<1>2. CASE StartFollowUp(c) \/ RunOnDemand(c) \/ SkipFollowUp(c) \/ FailFollowUp(c)
  BY <1>2 DEF StartFollowUp, RunOnDemand, Starts, SkipFollowUp, FailFollowUp
<1>3. CASE Enrich(c) \/ Classify(c)
  BY <1>3 DEF Enrich, Classify
<1>4. CASE PushMetadata(c) \/ ReadChunks(c) \/ PushRoles(c)
  BY <1>4 DEF PushMetadata, ReadChunks, PushRoles
<1>5. CASE WarnFollowUp(c) \/ KillFollowUp(c)
  BY <1>5 DEF WarnFollowUp, KillFollowUp
<1>6. QED
  BY <1>2, <1>3, <1>4, <1>5 DEF FollowUpStep, FollowUpWork

LEMMA NextSteps ==
    ASSUME [Next]_vars
    PROVE  \/ \E r \in Runs : RunStep(r)
           \/ \E c \in Calls : FollowUpStep(c)
           \/ UNCHANGED vars
BY DEF Next, RunStep, FollowUpStep

-----------------------------------------------------------------------------
(* A document that is in the index stays in it *)

InIndex(r) == task[r] = "index" /\ pc[r] \in Executing

\* At most one run executes its index task; between its upsert and the removal of
\* the old points, its own points are there, since no other run removes any.
IndexInv ==
    /\ \A q, r \in Runs : q # r => ~(InIndex(q) /\ InIndex(r))
    /\ \A r \in Runs : pc[r] = "upserted" =>
          task[r] = "index" /\ copy[r].version \in points

\* All the steps of a run but those that enter the index task or change points.
LEMMA StepOffIndex ==
    ASSUME TypeOK, NEW r \in Runs, RunStep(r),
           ~StartIndex(r), ~FailIndex(r), ~Embed(r), ~RemoveOld(r)
    PROVE  /\ points' = points
           /\ pc'[r] # "upserted"
           /\ InIndex(r)' => InIndex(r)
<1> USE DEF TypeOK, Go, Advance, NextTask, End, InIndex, Executing, indexVars
<1>1. CASE Enqueue(r) \/ Send(r)
  BY <1>1 DEF Enqueue, Send
<1>2. CASE StartDownload(r) \/ Download(r) \/ RetryDownload(r) \/ FailDownload(r)
  BY <1>2 DEF StartDownload, Download, RetryDownload, FailDownload
<1>3. CASE StartMineru(r) \/ StoreExtraction(r) \/ Extract(r) \/ FailMineru(r)
  <2>1. UNCHANGED points
    BY <1>3 DEF StartMineru, StoreExtraction, Extract, FailMineru
  <2>2. CASE StartMineru(r)
    <3>1. \/ NextTask(r, "index")
          \/ Go(r, "running") /\ UNCHANGED <<task, force, retries, copy, result>>
      <4> HIDE DEF TypeOK, NextTask, Go
      <4>1. QED
        BY <2>2, Zenon DEF StartMineru
    <3>2. task[r] = "mineru"
      BY <2>2 DEF StartMineru
    <3>3. QED
      BY <2>1, <3>1, <3>2
  <2>3. CASE StoreExtraction(r) \/ Extract(r) \/ FailMineru(r)
    <3>1. task[r] = "mineru" \/ NextTask(r, "index")
      BY <2>3 DEF StoreExtraction, Extract, FailMineru
    <3>2. \/ NextTask(r, "index")
          \/ Go(r, "stored") /\ UNCHANGED task
          \/ Advance(r, "failing")
      <4> HIDE DEF TypeOK, NextTask, Advance, Go
      <4>1. QED
        BY <2>3, Zenon DEF StoreExtraction, Extract, FailMineru
    <3>3. QED
      BY <2>1, <3>1, <3>2
  <2>4. QED
    BY <1>3, <2>2, <2>3
<1>4. CASE TaskFailed(r) \/ Redeliver(r) \/ Kill(r)
  BY <1>4 DEF TaskFailed, Redeliver, Kill
<1>5. CASE CompleteIndex(r) \/ Conclude(r) \/ ListFailure(r)
  BY <1>5 DEF CompleteIndex, Conclude, ListFailure
<1>6. CASE ListUnindexed(r) \/ ConcludeUnindexed(r)
  BY <1>6 DEF ListUnindexed, ConcludeUnindexed
<1>7. QED
  BY <1>1, <1>2, <1>3, <1>4, <1>5, <1>6 DEF RunStep, Work

LEMMA IndexInvStep ==
    ASSUME TypeOK, IndexInv, NEW r \in Runs, RunStep(r)
    PROVE  IndexInv' /\ (points # {} => points' # {})
<1> USE DEF TypeOK
<1>1. OthersUnchanged(r)
  BY StepOfRun
<1>2. ASSUME NEW q \in Runs, q # r
      PROVE  /\ InIndex(q)' <=> InIndex(q)
             /\ pc'[q] = pc[q] /\ task'[q] = task[q] /\ copy'[q] = copy[q]
  BY <1>1, <1>2 DEF OthersUnchanged, InIndex
<1>3. CASE ~StartIndex(r) /\ ~FailIndex(r) /\ ~Embed(r) /\ ~RemoveOld(r)
  <2>1. points' = points /\ pc'[r] # "upserted" /\ (InIndex(r)' => InIndex(r))
    BY <1>3, StepOffIndex
  <2>2. QED
    BY <1>2, <2>1 DEF IndexInv
<1>4. CASE StartIndex(r) \/ FailIndex(r)
  <2>1. points' = points /\ pc'[r] # "upserted"
    BY <1>4 DEF StartIndex, FailIndex, Go, Advance, indexVars
  <2>2. InIndex(r) \/ GpuWorkerFree(r)
    BY <1>4 DEF StartIndex, FailIndex, InIndex, Executing
  <2>3. \A q \in Runs : q # r => ~InIndex(q)
    BY <2>2 DEF GpuWorkerFree, InIndex, IndexInv
  <2>4. QED
    BY <1>2, <2>1, <2>3 DEF IndexInv
<1>5. CASE Embed(r)
  <2>1. /\ InIndex(r) /\ task' = task /\ copy' = copy
        /\ \/ pc'[r] = "upserted" /\ points' = points \cup {copy[r].version}
           \/ pc'[r] = "indexed" /\ points' = points
    BY <1>5 DEF Embed, Upsert, InIndex, Executing, Go, indexVars
  <2>2. \A q \in Runs : q # r => ~InIndex(q)
    BY <2>1 DEF IndexInv
  <2>3. QED
    BY <1>2, <2>1, <2>2 DEF IndexInv, InIndex
<1>6. CASE RemoveOld(r)
  <2>1. /\ pc[r] = "upserted" /\ pc'[r] = "indexed" /\ task' = task /\ copy' = copy
        /\ points' = points \cap {copy[r].version} \/ points' = points
    BY <1>6 DEF RemoveOld, Kept, Go
  <2>2. task[r] = "index" /\ copy[r].version \in points
    BY <2>1 DEF IndexInv
  <2>3. InIndex(r)
    BY <2>1, <2>2 DEF InIndex, Executing
  <2>4. \A q \in Runs : q # r => ~InIndex(q) /\ pc[q] # "upserted"
    BY <2>3 DEF IndexInv, InIndex, Executing
  <2>5. QED
    BY <1>2, <2>1, <2>2, <2>4 DEF IndexInv
<1>7. QED
  BY <1>3, <1>4, <1>5, <1>6

LEMMA IndexInvariance == Spec => []IndexInv
<1>1. Init => IndexInv
  BY DEF Init, IndexInv, InIndex, Executing
<1>2. TypeOK /\ IndexInv /\ [Next]_vars => IndexInv'
  <2> SUFFICES ASSUME TypeOK, IndexInv, [Next]_vars PROVE IndexInv'
    OBVIOUS
  <2>1. ASSUME NEW r \in Runs, RunStep(r) PROVE IndexInv'
    BY <2>1, IndexInvStep
  <2>2. ASSUME NEW c \in Calls, FollowUpStep(c) PROVE IndexInv'
    <3>1. UNCHANGED <<pc, task, copy, points>>
      BY <2>2, StepOfFollowUp DEF chainVars
    <3>2. QED
      BY <3>1 DEF IndexInv, InIndex
  <2>3. CASE UNCHANGED vars
    BY <2>3 DEF vars, chainVars, indexVars, IndexInv, InIndex
  <2>4. QED
    BY <2>1, <2>2, <2>3, NextSteps
<1>3. QED
  BY <1>1, <1>2, TypeCorrect, PTL DEF Spec

\* A document that can be found in the index stays so, however its chains overlap,
\* fail, lose their workers or leave nothing to index.
THEOREM IndexStaysFilled == Spec => IndexNeverEmptied
<1>1. ASSUME TypeOK, IndexInv, [Next]_vars
      PROVE  points # {} => points' # {}
  <2>1. ASSUME NEW r \in Runs, RunStep(r) PROVE points # {} => points' # {}
    BY <1>1, <2>1, IndexInvStep
  <2>2. ASSUME NEW c \in Calls, FollowUpStep(c) PROVE points # {} => points' # {}
    BY <1>1, <2>2, StepOfFollowUp
  <2>3. CASE UNCHANGED vars
    BY <2>3 DEF vars, indexVars
  <2>4. QED
    BY <1>1, <2>1, <2>2, <2>3, NextSteps
<1>2. TypeOK /\ IndexInv /\ [Next]_vars => [points # {} => points' # {}]_vars
  BY <1>1
<1>3. QED
  BY <1>2, TypeCorrect, IndexInvariance, PTL DEF Spec, IndexNeverEmptied

-----------------------------------------------------------------------------
(* Chains that do not overlap *)

\* A chain is enqueued only when the earlier ones have ended.
Sequential == \A q, r \in Runs : (q < r /\ pc[r] # "new") => pc[q] = "over"

LEMMA StepOfActive ==
    ASSUME TypeOK, NEW r \in Runs, RunStep(r)
    PROVE  /\ pc[r] # "over" /\ pc'[r] # "new"
           /\ pc[r] = "new" => Enqueue(r)
<1> USE DEF TypeOK, Go, Advance, NextTask, End, Executing
<1>1. CASE Enqueue(r) \/ Send(r)
  BY <1>1 DEF Enqueue, Send
<1>2. CASE StartDownload(r) \/ Download(r) \/ RetryDownload(r) \/ FailDownload(r)
  BY <1>2 DEF StartDownload, Download, RetryDownload, FailDownload
<1>3. CASE StartMineru(r)
  BY <1>3 DEF StartMineru
<1>4. CASE StoreExtraction(r) \/ Extract(r) \/ FailMineru(r)
  <2>1. pc[r] \in {"running", "stored", "queued"}
    <3> HIDE DEF TypeOK
    <3>1. QED
      BY <1>4 DEF StoreExtraction, Extract, FailMineru
  <2>2. Go(r, "stored") \/ Go(r, "queued") \/ Go(r, "failing")
    <3> HIDE DEF TypeOK, Go
    <3>1. QED
      BY <1>4, Zenon DEF StoreExtraction, Extract, FailMineru
  <2>3. QED
    BY <2>1, <2>2
<1>5. CASE TaskFailed(r) \/ Redeliver(r) \/ Kill(r)
  BY <1>5 DEF TaskFailed, Redeliver, Kill
<1>6. CASE StartIndex(r) \/ Embed(r) \/ RemoveOld(r)
  BY <1>6 DEF StartIndex, Embed, RemoveOld
<1>7. CASE CompleteIndex(r) \/ Conclude(r) \/ ListFailure(r)
  BY <1>7 DEF CompleteIndex, Conclude, ListFailure
<1>8. CASE FailIndex(r) \/ ListUnindexed(r) \/ ConcludeUnindexed(r)
  BY <1>8 DEF FailIndex, ListUnindexed, ConcludeUnindexed
<1>9. QED
  BY <1>1, <1>2, <1>3, <1>4, <1>5, <1>6, <1>7, <1>8 DEF RunStep, Work

\* While a run takes a step, every other run has ended or is still to come.
LEMMA StepAlone ==
    ASSUME ~Overlap, TypeOK, Sequential, NEW r \in Runs, RunStep(r)
    PROVE  /\ \A q \in Runs : q < r => pc[q] = "over" /\ pc'[q] = "over"
           /\ \A q \in Runs : q > r => pc[q] = "new" /\ pc'[q] = "new"
<1>1. pc[r] # "over" /\ (pc[r] = "new" => Enqueue(r)) /\ OthersUnchanged(r)
  BY StepOfActive, StepOfRun
<1>2. \A q \in Runs : q < r => pc[q] = "over"
  BY <1>1 DEF Enqueue, Sequential
<1>3. \A q \in Runs : q > r => pc[q] = "new"
  BY <1>1, ConstantsType DEF Sequential
<1>4. \A q \in Runs : (q < r \/ q > r) => q \in Runs \ {r}
  BY ConstantsType
<1>5. QED
  BY <1>1, <1>2, <1>3, <1>4 DEF OthersUnchanged

LEMMA SequentialInvariance ==
    ASSUME ~Overlap
    PROVE  Spec => []Sequential
<1>1. Init => Sequential
  BY DEF Init, Sequential
<1>2. TypeOK /\ Sequential /\ [Next]_vars => Sequential'
  <2> SUFFICES ASSUME TypeOK, Sequential, [Next]_vars PROVE Sequential'
    OBVIOUS
  <2>1. ASSUME NEW r \in Runs, RunStep(r) PROVE Sequential'
    <3> SUFFICES ASSUME NEW p \in Runs, NEW q \in Runs, p < q, pc'[q] # "new"
                 PROVE  pc'[p] = "over"
      BY DEF Sequential
    <3>1. /\ \A n \in Runs : n < r => pc'[n] = "over"
          /\ \A n \in Runs : n > r => pc'[n] = "new"
      BY <2>1, StepAlone
    <3>2. p \in Nat /\ q \in Nat /\ r \in Nat
      BY ConstantsType
    <3>3. QED
      BY <3>1, <3>2
  <2>2. ASSUME NEW c \in Calls, FollowUpStep(c) PROVE Sequential'
    BY <2>2, StepOfFollowUp DEF chainVars, Sequential
  <2>3. CASE UNCHANGED vars
    BY <2>3 DEF vars, chainVars, Sequential
  <2>4. QED
    BY <2>1, <2>2, <2>3, NextSteps
<1>3. QED
  BY <1>1, <1>2, TypeCorrect, PTL DEF Spec

-----------------------------------------------------------------------------
(* The list of failures *)

\* No chain has been enqueued after r.
Latest(r) == \A q \in Runs : q > r => pc[q] = "new"

\* What the list of failures owes to one run: its task has listed the job before it
\* concludes with an error, and its result says whether the index is empty.
ListedInv(r) ==
    /\ pc[r] = "warning" => failed
    /\ pc[r] \in {"indexed", "concluding", "listing"} => result[r] \in {"ok", "empty"}
    /\ (pc[r] = "over" /\ result[r] \notin {"killed", "unsent"} /\ Latest(r))
          => (failed <=> result[r] # "ok")

\* Each step of a run keeps what it owes.
LEMMA ListedStep ==
    ASSUME TypeOK, NEW r \in Runs, ListedInv(r), RunStep(r)
    PROVE  ListedInv(r)'
<1> USE DEF ListedInv, TypeOK, Go, Advance, NextTask, End, Executing
<1>1. CASE Enqueue(r)
  BY <1>1 DEF Enqueue
<1>2. CASE Send(r)
  BY <1>2 DEF Send
<1>3. CASE StartDownload(r)
  BY <1>3 DEF StartDownload
<1>4. CASE Download(r) \/ RetryDownload(r) \/ FailDownload(r)
  BY <1>4 DEF Download, RetryDownload, FailDownload
<1>5. CASE TaskFailed(r)
  BY <1>5 DEF TaskFailed, OnFailure
<1>6. CASE StartMineru(r)
  <2>1. pc'[r] \in {"queued", "running"}
    BY <1>6 DEF StartMineru
  <2>2. QED
    BY <2>1
<1>7. CASE StoreExtraction(r) \/ Extract(r) \/ FailMineru(r)
  <2>1. Go(r, "stored") \/ Go(r, "queued") \/ Go(r, "failing")
    <3> HIDE DEF TypeOK, Go
    <3>1. QED
      BY <1>7, Zenon DEF StoreExtraction, Extract, FailMineru
  <2>2. QED
    BY <2>1
<1>8. CASE StartIndex(r)
  <2>1. (pc'[r] = "concluding" /\ result'[r] = "ok") \/ pc'[r] = "running"
    <3>1. \/ /\ Go(r, "concluding")
             /\ result' = [result EXCEPT ![r] = "ok"]
          \/ Go(r, "running")
      <4> HIDE DEF TypeOK, Go
      <4>1. QED
        BY <1>8, Zenon DEF StartIndex
    <3>2. QED
      BY <3>1
  <2>2. QED
    BY <2>1
<1>9. CASE Embed(r)
  <2>1. pc'[r] = "upserted" \/ (pc'[r] = "indexed" /\ result'[r] \in {"ok", "empty"})
    <3>1. \/ Go(r, "upserted")
          \/ /\ Go(r, "indexed")
             /\ \E how \in {"ok", "empty"} : result' = [result EXCEPT ![r] = how]
      <4> HIDE DEF TypeOK, Go
      <4>1. QED
        BY <1>9, Zenon DEF Embed, Unindexable
    <3>2. QED
      BY <3>1
  <2>2. QED
    BY <2>1
<1>10. CASE RemoveOld(r)
  BY <1>10 DEF RemoveOld
<1>11. CASE CompleteIndex(r) \/ Conclude(r)
  <2>1. CASE CompleteIndex(r)
    BY <2>1 DEF CompleteIndex
  <2>2. CASE Conclude(r)
    BY <2>2 DEF Conclude
  <2>3. QED
    BY <1>11, <2>1, <2>2
<1>12. CASE ListFailure(r)
  <2>1. /\ pc[r] = "listing" /\ failed' = (result[r] = "empty")
        /\ pc'[r] = "over" /\ result'[r] = result[r]
    BY <1>12 DEF ListFailure
  <2>2. QED
    BY <2>1
<1>13. CASE FailIndex(r) \/ ListUnindexed(r)
  BY <1>13 DEF FailIndex, ListUnindexed
<1>14. CASE ConcludeUnindexed(r)
  BY <1>14 DEF ConcludeUnindexed
<1>15. CASE Redeliver(r) \/ Kill(r)
  BY <1>15 DEF Redeliver, Kill
<1>16. QED
  BY <1>1, <1>2, <1>3, <1>4, <1>5, <1>6, <1>7, <1>8, <1>9, <1>10, <1>11, <1>12,
     <1>13, <1>14, <1>15 DEF RunStep, Work

\* When chains do not overlap, the list of failures holds the job exactly when its
\* last chain has failed, has left nothing to index or could not index.
THEOREM FailuresListed ==
    ASSUME ~Overlap
    PROVE  Spec => []FailureListed
<1> DEFINE Inv == \A r \in Runs : ListedInv(r)
<1>1. Init => Inv
  BY DEF Init, ListedInv
<1>2. TypeOK /\ Sequential /\ Inv /\ [Next]_vars => Inv'
  <2> SUFFICES ASSUME TypeOK, Sequential, Inv, [Next]_vars PROVE Inv'
    OBVIOUS
  <2>1. ASSUME NEW r \in Runs, RunStep(r) PROVE Inv'
    <3> SUFFICES ASSUME NEW q \in Runs PROVE ListedInv(q)'
      OBVIOUS
    <3>1. CASE q = r
      BY <2>1, <3>1, ListedStep
    <3>2. CASE q < r
      <4>1. pc'[q] = "over" /\ pc'[r] # "new"
        BY <2>1, <3>2, StepAlone, StepOfActive
      <4>2. ~Latest(q)'
        BY <3>2, <4>1, ConstantsType DEF Latest
      <4>3. QED
        BY <4>1, <4>2 DEF ListedInv
    <3>3. CASE q > r
      BY <2>1, <3>3, StepAlone DEF ListedInv
    <3>4. QED
      BY <3>1, <3>2, <3>3, ConstantsType
  <2>2. ASSUME NEW c \in Calls, FollowUpStep(c) PROVE Inv'
    <3>1. UNCHANGED <<pc, result, failed>>
      BY <2>2, StepOfFollowUp DEF chainVars
    <3>2. QED
      BY <3>1 DEF ListedInv, Latest
  <2>3. CASE UNCHANGED vars
    BY <2>3 DEF vars, chainVars, jobVars, ListedInv, Latest
  <2>4. QED
    BY <2>1, <2>2, <2>3, NextSteps
<1>3. Inv => FailureListed
  BY DEF FailureListed, Reported, ListedInv, Latest
<1>4. QED
  BY <1>1, <1>2, <1>3, TypeCorrect, SequentialInvariance, PTL DEF Spec

-----------------------------------------------------------------------------
(* The extraction *)

\* While the task that replaces the extraction runs, its stage is not completed, and
\* what it has put is what is in the store.
ExtractionInv ==
    /\ CompletedExtractionIsStored
    /\ \A r \in Runs :
          /\ pc[r] = "stored" => task[r] = "mineru" /\ copy[r] = object
          /\ (pc[r] \in {"running", "stored"} /\ task[r] = "mineru")
                => ~Completed("mineru")

\* The steps of a run that neither replace the extraction nor tell the manifest.
LEMMA StepOffExtraction ==
    ASSUME TypeOK, NEW r \in Runs, RunStep(r),
           ~StartMineru(r), ~StoreExtraction(r), ~Extract(r), ~FailMineru(r)
    PROVE  /\ UNCHANGED <<content, object>>
           /\ stages'["mineru"] = stages["mineru"]
           /\ pc'[r] # "stored"
           /\ ~(pc'[r] = "running" /\ task'[r] = "mineru")
<1> USE DEF TypeOK, Go, Advance, NextTask, End, Executing, SetStage, StartStage,
            FailStage, documentVars
<1>1. CASE Enqueue(r) \/ Send(r)
  BY <1>1 DEF Enqueue, Send
<1>2. CASE StartDownload(r)
  BY <1>2 DEF StartDownload
<1>3. CASE Download(r) \/ RetryDownload(r) \/ FailDownload(r)
  BY <1>3 DEF Download, RetryDownload, FailDownload
<1>4. CASE TaskFailed(r) \/ Redeliver(r) \/ Kill(r)
  BY <1>4 DEF TaskFailed, Redeliver, Kill
<1>5. CASE StartIndex(r)
  BY <1>5 DEF StartIndex
<1>6. CASE Embed(r)
  <2>1. UNCHANGED <<stages, content, object, task>> /\ pc'[r] \in {"upserted", "indexed"}
    BY <1>6 DEF Embed
  <2>2. QED
    BY <2>1
<1>7. CASE RemoveOld(r) \/ CompleteIndex(r) \/ Conclude(r) \/ ListFailure(r)
  BY <1>7 DEF RemoveOld, CompleteIndex, Conclude, ListFailure
<1>8. CASE FailIndex(r)
  BY <1>8 DEF FailIndex
<1>9. CASE ListUnindexed(r) \/ ConcludeUnindexed(r)
  BY <1>9 DEF ListUnindexed, ConcludeUnindexed
<1>10. QED
  BY <1>1, <1>2, <1>3, <1>4, <1>5, <1>6, <1>7, <1>8, <1>9 DEF RunStep, Work

LEMMA ExtractionStep ==
    ASSUME ~Overlap, TypeOK, Sequential, ExtractionInv, NEW r \in Runs, RunStep(r)
    PROVE  ExtractionInv'
<1> USE DEF TypeOK, Go, Advance, NextTask, SetStage, Completed, ExtractionInv,
            CompletedExtractionIsStored
<1>1. \A q \in Runs : q # r => pc'[q] \in {"new", "over"}
  BY StepAlone, ConstantsType
<1>2. CASE ~StartMineru(r) /\ ~StoreExtraction(r) /\ ~Extract(r) /\ ~FailMineru(r)
  BY <1>1, <1>2, StepOffExtraction
<1>3. CASE StartMineru(r)
  <2>1. /\ UNCHANGED <<content, object>>
        /\ task[r] = "mineru"
        /\ \/ pc'[r] = "queued" /\ stages' = stages
           \/ pc'[r] = "running" /\ stages'["mineru"] = "RUNNING"
    <3>1. \/ NextTask(r, "index") /\ UNCHANGED stages
          \/ StartStage("mineru") /\ Go(r, "running")
      <4> HIDE DEF TypeOK, NextTask, Go, Completed
      <4>1. QED
        BY <1>3, Zenon DEF StartMineru
    <3>2. task[r] = "mineru" /\ UNCHANGED <<content, object>>
      BY <1>3 DEF StartMineru
    <3>3. QED
      BY <3>1, <3>2 DEF StartStage
  <2>2. QED
    BY <1>1, <2>1
<1>4. CASE StoreExtraction(r)
  <2>1. /\ pc[r] = "running" /\ task[r] = "mineru" /\ pc'[r] = "stored"
        /\ UNCHANGED <<stages, task>> /\ copy'[r] = object'
    BY <1>4 DEF StoreExtraction
  <2>2. QED
    BY <1>1, <2>1
<1>5. CASE Extract(r)
  <2>1. content' = object /\ object' = object /\ pc'[r] = "queued"
    BY <1>5 DEF Extract, ExtractionInv
  <2>2. QED
    BY <1>1, <2>1
<1>6. CASE FailMineru(r)
  <2>1. /\ UNCHANGED <<content, object>> /\ pc'[r] = "failing"
        /\ stages' = stages \/ stages'["mineru"] = "FAILED"
    BY <1>6 DEF FailMineru, FailStage
  <2>2. QED
    BY <1>1, <2>1
<1>7. QED
  BY <1>2, <1>3, <1>4, <1>5, <1>6

\* When chains do not overlap, a completed extraction names the one in the store.
THEOREM ExtractionStored ==
    ASSUME ~Overlap
    PROVE  Spec => []CompletedExtractionIsStored
<1>1. Init => ExtractionInv
  BY DEF Init, ExtractionInv, CompletedExtractionIsStored, Completed
<1>2. TypeOK /\ Sequential /\ ExtractionInv /\ [Next]_vars => ExtractionInv'
  <2> SUFFICES ASSUME TypeOK, Sequential, ExtractionInv, [Next]_vars
               PROVE  ExtractionInv'
    OBVIOUS
  <2>1. ASSUME NEW r \in Runs, RunStep(r) PROVE ExtractionInv'
    BY <2>1, ExtractionStep
  <2>2. ASSUME NEW c \in Calls, FollowUpStep(c) PROVE ExtractionInv'
    <3>1. /\ UNCHANGED <<pc, task, copy, content, object>>
          /\ stages'["mineru"] = stages["mineru"]
      BY <2>2, StepOfFollowUp DEF chainVars, ChainStages
    <3>2. QED
      BY <3>1 DEF ExtractionInv, CompletedExtractionIsStored, Completed
  <2>3. CASE UNCHANGED vars
    BY <2>3 DEF vars, chainVars, documentVars, ExtractionInv,
                CompletedExtractionIsStored, Completed
  <2>4. QED
    BY <2>1, <2>2, <2>3, NextSteps
<1>3. ExtractionInv => CompletedExtractionIsStored
  BY DEF ExtractionInv
<1>4. QED
  BY <1>1, <1>2, <1>3, TypeCorrect, SequentialInvariance, PTL DEF Spec

-----------------------------------------------------------------------------
(* What a success promises *)

\* The document's extraction has its points, or no block that could have any.
Indexed == content.version \in points \/ content.yields = "blank"

\* Every chain is forced, so it indexes the extraction that it stored itself; once
\* its points are there they stay until the next chain.
SuccessInv(r) ==
    /\ force[r]
    /\ (task[r] = "index" /\ pc[r] = "running") \/ pc[r] = "upserted" => copy[r] = content
    /\ (pc[r] \in {"indexed", "concluding", "listing"} /\ result[r] = "ok")
          => Indexed
    /\ (pc[r] = "over" /\ result[r] = "ok" /\ Latest(r)) => Indexed

\* Each step of a run keeps what its success promises.
LEMMA SuccessStep ==
    ASSUME TypeOK, IndexInv, NEW r \in Runs, SuccessInv(r), RunStep(r)
    PROVE  SuccessInv(r)'
<1> USE DEF TypeOK, Go, Advance, NextTask, End, Executing, SuccessInv, Indexed,
            documentVars, indexVars
<1>1. force'[r] = force[r]
  BY StepOfRun
<1>2. CASE Enqueue(r) \/ Send(r)
  BY <1>1, <1>2 DEF Enqueue, Send
<1>3. CASE StartDownload(r)
  <2>1. \/ pc'[r] = "queued"
        \/ pc'[r] = "running" /\ task'[r] = "download"
    BY <1>3 DEF StartDownload
  <2>2. QED
    BY <1>1, <2>1
<1>4. CASE Download(r) \/ RetryDownload(r) \/ FailDownload(r) \/ TaskFailed(r)
  BY <1>1, <1>4 DEF Download, RetryDownload, FailDownload, TaskFailed
<1>5. CASE StartMineru(r)
  <2>1. pc'[r] = "queued" \/ (pc'[r] = "running" /\ task'[r] = "mineru")
    <3>1. \/ NextTask(r, "index")
          \/ Go(r, "running") /\ UNCHANGED task
      <4> HIDE DEF TypeOK, NextTask, Go
      <4>1. QED
        BY <1>5, Zenon DEF StartMineru
    <3>2. task[r] = "mineru"
      BY <1>5 DEF StartMineru
    <3>3. QED
      BY <3>1, <3>2
  <2>2. QED
    BY <1>1, <2>1
<1>6. CASE StoreExtraction(r) \/ Extract(r) \/ FailMineru(r)
  <2>1. Go(r, "stored") \/ Go(r, "queued") \/ Go(r, "failing")
    <3> HIDE DEF TypeOK, Go
    <3>1. QED
      BY <1>6, Zenon DEF StoreExtraction, Extract, FailMineru
  <2>2. QED
    BY <1>1, <2>1
<1>7. CASE StartIndex(r)
  <2>1. pc'[r] = "running" /\ copy'[r] = content /\ content' = content
    <3>1. Go(r, "running") /\ copy' = [copy EXCEPT ![r] = content] /\ content' = content
      <4> HIDE DEF TypeOK, Go
      <4>1. QED
        BY <1>7, Zenon DEF StartIndex
    <3>2. QED
      BY <3>1
  <2>2. QED
    BY <1>1, <2>1
<1>8. CASE Embed(r)
  <2>1. /\ UNCHANGED <<content, copy>>
        /\ pc[r] = "running" /\ task[r] = "index"
        /\ \/ pc'[r] = "upserted"
           \/ pc'[r] = "indexed" /\ result'[r] = Unindexable(r)
    <3>1. \/ Go(r, "upserted")
          \/ /\ Go(r, "indexed")
             /\ result' = [result EXCEPT ![r] = Unindexable(r)]
      <4> HIDE DEF TypeOK, Go
      <4>1. QED
        BY <1>8, Zenon DEF Embed
    <3>2. UNCHANGED <<content, copy>> /\ pc[r] = "running" /\ task[r] = "index"
      BY <1>8 DEF Embed
    <3>3. QED
      BY <3>1, <3>2
  <2>2. QED
    BY <1>1, <2>1 DEF Unindexable
<1>9. CASE RemoveOld(r)
  <2>1. /\ pc[r] = "upserted" /\ pc'[r] = "indexed" /\ content' = content
        /\ points' = points \cap {copy[r].version} \/ points' = points
    BY <1>9 DEF RemoveOld, Kept
  <2>2. copy[r].version \in points
    BY <2>1 DEF IndexInv
  <2>3. QED
    BY <1>1, <2>1, <2>2
<1>10. CASE CompleteIndex(r) \/ Conclude(r)
  BY <1>1, <1>10 DEF CompleteIndex, Conclude
<1>11. CASE ListFailure(r)
  <2>1. /\ UNCHANGED <<content, points>> /\ pc[r] = "listing"
        /\ pc'[r] = "over" /\ result'[r] = result[r]
    BY <1>11 DEF ListFailure
  <2>2. QED
    BY <1>1, <2>1
<1>12. CASE FailIndex(r) \/ ListUnindexed(r) \/ ConcludeUnindexed(r)
  BY <1>1, <1>12 DEF FailIndex, ListUnindexed, ConcludeUnindexed
<1>13. CASE Redeliver(r) \/ Kill(r)
  BY <1>1, <1>13 DEF Redeliver, Kill
<1>14. QED
  BY <1>2, <1>3, <1>4, <1>5, <1>6, <1>7, <1>8, <1>9, <1>10, <1>11, <1>12, <1>13
     DEF RunStep, Work

\* When chains are forced and do not overlap, one that reports success has left the
\* points of the document's extraction in the index, or that extraction has no block.
THEOREM SuccessIsIndexed ==
    ASSUME ~Overlap, Forces = {TRUE}
    PROVE  Spec => []SuccessMeansIndexed
<1> DEFINE Inv == \A r \in Runs : SuccessInv(r)
<1>1. Init => Inv
  BY DEF Init, SuccessInv
<1>2. TypeOK /\ Sequential /\ IndexInv /\ Inv /\ [Next]_vars => Inv'
  <2> SUFFICES ASSUME TypeOK, Sequential, IndexInv, Inv, [Next]_vars PROVE Inv'
    OBVIOUS
  <2>1. ASSUME NEW r \in Runs, RunStep(r) PROVE Inv'
    <3> SUFFICES ASSUME NEW q \in Runs PROVE SuccessInv(q)'
      OBVIOUS
    <3>1. force'[q] = force[q]
      BY <2>1, StepOfRun
    <3>2. CASE q = r
      BY <2>1, <3>2, SuccessStep
    <3>3. CASE q < r
      <4>1. pc'[q] = "over" /\ pc'[r] # "new"
        BY <2>1, <3>3, StepAlone, StepOfActive
      <4>2. ~Latest(q)'
        BY <3>3, <4>1, ConstantsType DEF Latest
      <4>3. QED
        BY <3>1, <4>1, <4>2 DEF SuccessInv
    <3>4. CASE q > r
      BY <2>1, <3>1, <3>4, StepAlone DEF SuccessInv
    <3>5. QED
      BY <3>2, <3>3, <3>4, ConstantsType
  <2>2. ASSUME NEW c \in Calls, FollowUpStep(c) PROVE Inv'
    <3>1. UNCHANGED <<pc, task, force, copy, result, content, points>>
      BY <2>2, StepOfFollowUp DEF chainVars
    <3>2. QED
      BY <3>1 DEF SuccessInv, Indexed, Latest
  <2>3. CASE UNCHANGED vars
    BY <2>3 DEF vars, chainVars, documentVars, indexVars, SuccessInv, Indexed,
                Latest
  <2>4. QED
    BY <2>1, <2>2, <2>3, NextSteps
<1>3. Inv => SuccessMeansIndexed
  BY DEF SuccessMeansIndexed, Reported, SuccessInv, Indexed, Latest
<1>4. QED
  BY <1>1, <1>2, <1>3, TypeCorrect, SequentialInvariance, IndexInvariance, PTL DEF Spec
=============================================================================
