----------------------------- MODULE Extraction -----------------------------
(***************************************************************************)
(* The second task of the chain, extrair_mineru, executed several times    *)
(* for one document: chains that overlap, and tasks that are delivered     *)
(* again.  An execution waits for the GPU, has the MinerU server parse the *)
(* PDF while it holds the lease, puts what it extracted into the artifact  *)
(* store under the document's fixed keys and names it in the manifest.     *)
(*                                                                         *)
(* The lease is what LeaseService promises.  Time is counted in units of   *)
(* the timeout of an HTTP request, from the start of process_pdf to the    *)
(* end of the lease; later the soft limit may strike at any request.  The  *)
(* manifest's updates are atomic (see ManifestRepository).                 *)
(***************************************************************************)
EXTENDS Integers, Sequences

CONSTANTS
    N,              \* the executions
    Forces,         \* the values of force they are given
    LeaseWait,      \* GPU_MANAGER_WAIT_TIMEOUT_SECONDS
    Timeout,        \* MINERU_TIMEOUT_SECONDS
    Soft,           \* CELERY_TASK_SOFT_TIME_LIMIT
    MaxTries,       \* MINIO_MAX_RETRIES
    MaxDeaths       \* bound on the workers that die

ASSUME ExtractionAssumption ==
    /\ N \in Nat \ {0}
    /\ Forces \subseteq BOOLEAN
    /\ {LeaseWait, Timeout, Soft, MaxTries} \subseteq Nat \ {0}
    /\ LeaseWait < Timeout /\ Timeout + 1 < Soft
    /\ MaxDeaths \in Nat

VARIABLES
    stage,          \* the leases, as LeaseService has them
    server,         \* execution: the task it waits for on the server
    zombies,        \* tasks on the server that nobody waits for any more
    pc,             \* execution: where it is
    age,            \* execution: time since process_pdf began
    late,           \* execution: its current request has taken a unit of time
    force,          \* execution: context.force
    deaths,         \* execution: how often its worker died
    found,          \* call: the optional artifacts of its extraction
    done,           \* execution: the number of its artifacts that are stored
    tries,          \* execution: failed attempts of its current request
    refs,           \* execution: the references of what it has put
    objects,        \* the attempt that wrote each object of the document
    manifest        \* the state of the stage MINERU and the named artifacts

timeVars == <<age, late>>
putVars == <<found, done, tries, refs>>
storeVars == <<objects, manifest>>
vars == <<stage, server, zombies, pc, timeVars, force, deaths, putVars, storeVars>>

Executions == 1 .. N
Calls == Executions \X (0 .. MaxDeaths)
Lease == INSTANCE LeaseService

\* An object, a reference and a name stand for the call that extracted what they are of:
\* metrics and images are never the same twice.
Call(e) == <<e, deaths[e]>>
None == <<0, 0>>

Keys == {"content", "markdown", "metrics", "images", "index"}
NoRefs == [k \in Keys |-> None]

\* The artifacts of an extraction in the order in which they are put.
Optional == {"markdown", "images"}
Order(e) ==
    LET some(k, keys) == IF k \in found[Call(e)] THEN keys ELSE <<>>
    IN  <<"content">> \o some("markdown", <<"markdown">>)
            \o <<"metrics">> \o some("images", <<"images", "index">>)
Key(e) == Order(e)[done[e] + 1]

\* Nobody works on the execution.
Ended == {"done", "failed", "killed"}
Requesting == {"submit", "poll", "fetch"}
Timed == Requesting \cup {"waiting"}

Init ==
    /\ Lease!Init
    /\ server = [e \in Executions |-> "none"]
    /\ zombies = 0
    /\ pc = [e \in Executions |-> "queued"]
    /\ age = [e \in Executions |-> 0]
    /\ late = [e \in Executions |-> FALSE]
    /\ force \in [Executions -> Forces]
    /\ deaths = [e \in Executions |-> 0]
    /\ found = [c \in Calls |-> {}]
    /\ done = [e \in Executions |-> 0]
    /\ tries = [e \in Executions |-> 0]
    /\ refs = [e \in Executions |-> NoRefs]
    /\ objects = NoRefs
    /\ manifest = [status |-> "PENDING", names |-> NoRefs]

Go(e, step) == pc' = [pc EXCEPT ![e] = step]

\* The next request is sent at once.
Request(e, step) == Go(e, step) /\ late' = [late EXCEPT ![e] = FALSE]

\* The lease ends, and its holder's clock with it.
Leave(e) ==
    /\ Lease!Leave(Call(e))
    /\ age' = [age EXCEPT ![e] = 0]
    /\ late' = [late EXCEPT ![e] = FALSE]

\* The API of the server cannot cancel: it works on.
Abandon(e) ==
    /\ server' = [server EXCEPT ![e] = "none"]
    /\ zombies' = zombies + IF server[e] = "processing" THEN 1 ELSE 0

-----------------------------------------------------------------------------
(* stage_mineru, up to the lease *)

Reusable(e) ==
    ~force[e] /\ manifest.status = "COMPLETED" /\ manifest.names["content"] # None

Start(e) ==
    /\ pc[e] = "queued"
    /\ IF Reusable(e)
       THEN Go(e, "done") /\ UNCHANGED manifest
       ELSE Go(e, "download") /\ manifest' = [manifest EXCEPT !.status = "RUNNING"]
    /\ UNCHANGED <<stage, server, zombies, timeVars, force, deaths, putVars, objects>>

Download(e) ==
    /\ pc[e] = "download"
    /\ Go(e, "waiting")
    /\ UNCHANGED <<stage, server, zombies, timeVars, force, deaths, putVars, storeVars>>

Acquire(e) ==
    /\ pc[e] = "waiting"
    /\ Lease!Enter(Call(e))
    /\ Request(e, "submit")
    /\ UNCHANGED <<server, zombies, age, force, deaths, putVars, storeVars>>

\* At the end of the wait, or with any error of the GPU manager.
GiveUp(e) ==
    /\ pc[e] = "waiting"
    /\ Lease!GiveUp(Call(e))
    /\ Go(e, "failing")
    /\ age' = [age EXCEPT ![e] = 0]
    /\ UNCHANGED <<server, zombies, late, force, deaths, putVars, storeVars>>

-----------------------------------------------------------------------------
(* process_pdf, inside of the lease *)

SubmitAndLeave(e) ==
    /\ pc[e] = "submit"
    /\ server' = [server EXCEPT ![e] = "processing"]
    /\ Lease!Leave(Call(e))
    /\ Request(e, "poll")
    /\ UNCHANGED <<zombies, age, force, deaths, putVars, storeVars>>
Submit(e) ==
    /\ pc[e] = "submit"
    /\ server' = [server EXCEPT ![e] = "processing"]
    /\ Request(e, "poll")
    /\ UNCHANGED <<stage, zombies, age, force, deaths, putVars, storeVars>>

\* The server has taken the task, but its answer is lost.
SubmitUnanswered(e) ==
    /\ pc[e] = "submit"
    /\ zombies' = zombies + 1
    /\ Leave(e)
    /\ Go(e, "failing")
    /\ UNCHANGED <<server, force, deaths, putVars, storeVars>>

OverdueAfterLease(e) == age[e] > LeaseWait + Timeout
Overdue(e) == age[e] > Timeout

PollAgain(e) ==
    /\ pc[e] = "poll" /\ server[e] = "processing"
    /\ ~Overdue(e)
    /\ Request(e, "poll")
    /\ UNCHANGED <<stage, server, zombies, age, force, deaths, putVars, storeVars>>

PollDone(e) ==
    /\ pc[e] = "poll" /\ server[e] = "completed"
    /\ Request(e, "fetch")
    /\ UNCHANGED <<stage, server, zombies, age, force, deaths, putVars, storeVars>>

\* The server reports a failure, or the deadline has passed.
PollFailed(e) ==
    /\ pc[e] = "poll"
    /\ server[e] = "failed" \/ (server[e] = "processing" /\ Overdue(e))
    /\ Abandon(e)
    /\ Leave(e)
    /\ Go(e, "failing")
    /\ UNCHANGED <<force, deaths, putVars, storeVars>>

Fetch(e) ==
    /\ pc[e] = "fetch"
    /\ Abandon(e)
    /\ Leave(e)
    /\ \E some \in SUBSET Optional : found' = [found EXCEPT ![Call(e)] = some]
    /\ Go(e, "put")
    /\ UNCHANGED <<force, deaths, done, tries, refs, storeVars>>

\* An error of a request, or the soft time limit in the middle of it.
RequestFails(e) ==
    /\ pc[e] \in Requesting
    /\ Abandon(e)
    /\ Leave(e)
    /\ Go(e, "failing")
    /\ UNCHANGED <<force, deaths, putVars, storeVars>>

-----------------------------------------------------------------------------
(* The artifact store *)

\* _retry: the attempt failed, whether or not the store has carried it out.
Retry(e) ==
    /\ tries[e] + 1 < MaxTries
    /\ tries' = [tries EXCEPT ![e] = @ + 1]
    /\ UNCHANGED <<pc, found>>

Write(e) == objects' = [objects EXCEPT ![Key(e)] = Call(e)]

\* With an error what was extracted is removed (_work_dir).
Discard(e) == Go(e, "failing") /\ found' = [found EXCEPT ![Call(e)] = {}]

\* put_file, put_json: the object is written, then asked for.
Put(e) ==
    /\ pc[e] = "put"
    /\ \/ Write(e) /\ Go(e, "stat") /\ tries' = [tries EXCEPT ![e] = 0] /\ UNCHANGED found
       \/ (Write(e) \/ UNCHANGED objects) /\ Retry(e)
       \/ Write(e) /\ Discard(e) /\ UNCHANGED tries
    /\ UNCHANGED <<stage, server, zombies, timeVars, force, deaths, done, refs, manifest>>

\* The checksum of a reference is that of the bytes that were put.
ReferenceOfStored(e) == objects[Key(e)]
Reference(e) == Call(e)

Stat(e) ==
    /\ pc[e] = "stat"
    /\ refs' = [refs EXCEPT ![e][Key(e)] = Reference(e)]
    /\ done' = [done EXCEPT ![e] = @ + 1]
    /\ Go(e, IF done[e] + 1 = Len(Order(e)) THEN "update" ELSE "put")
    /\ UNCHANGED <<stage, server, zombies, timeVars, force, deaths, found, tries,
                   storeVars>>

\* What the new extraction lacks stays named.
Update(e) ==
    /\ pc[e] = "update"
    /\ manifest' = [status |-> "COMPLETED",
                    names |-> [k \in Keys |-> IF refs[e][k] = None THEN manifest.names[k]
                                              ELSE refs[e][k]]]
    /\ Go(e, "done")
    /\ UNCHANGED <<stage, server, zombies, timeVars, force, deaths, putVars, objects>>

\* Any other error: of the source, the archive, the store, the lock, the soft limit.
Fails(e) ==
    /\ pc[e] \in {"queued", "download", "put", "stat", "update"}
    /\ Discard(e)
    /\ UNCHANGED <<stage, server, zombies, timeVars, force, deaths, done, tries, refs,
                   storeVars>>

\* extrair_mineru: an error while the failure is recorded is only logged.
RecordFailure(e) ==
    /\ pc[e] = "failing"
    /\ manifest' = [manifest EXCEPT !.status = "FAILED"] \/ UNCHANGED manifest
    /\ Go(e, "failed")
    /\ UNCHANGED <<stage, server, zombies, timeVars, force, deaths, putVars, objects>>

-----------------------------------------------------------------------------
(* The server, the clock, and the workers that die *)

Parse(e) ==
    /\ server[e] = "processing"
    /\ \E end \in {"completed", "failed"} : server' = [server EXCEPT ![e] = end]
    /\ UNCHANGED <<stage, zombies, pc, timeVars, force, deaths, putVars, storeVars>>

ParseZombie ==
    /\ zombies > 0
    /\ zombies' = zombies - 1
    /\ UNCHANGED <<stage, server, pc, timeVars, force, deaths, putVars, storeVars>>

\* A request ends within a unit of time, a wait for the lease at its timeout, and
\* an execution at the soft limit.
Tick ==
    /\ \E e \in Executions : pc[e] \in Timed
    /\ \A e \in Executions :
          /\ pc[e] \in Requesting => ~late[e] /\ age[e] < Soft
          /\ pc[e] = "waiting" => age[e] < LeaseWait
    /\ age' = [e \in Executions |-> age[e] + IF pc[e] \in Timed THEN 1 ELSE 0]
    /\ late' = [e \in Executions |-> pc[e] \in Requesting]
    /\ UNCHANGED <<stage, server, zombies, pc, force, deaths, putVars, storeVars>>

Dies(e) ==
    /\ pc[e] \notin Ended \cup {"queued"}
    /\ \A q \in Executions : deaths[q] < MaxDeaths
    /\ Abandon(e)
    /\ deaths' = [deaths EXCEPT ![e] = @ + 1]
    /\ age' = [age EXCEPT ![e] = 0]
    /\ late' = [late EXCEPT ![e] = FALSE]
    /\ done' = [done EXCEPT ![e] = 0]
    /\ tries' = [tries EXCEPT ![e] = 0]
    /\ refs' = [refs EXCEPT ![e] = NoRefs]
    /\ found' = [found EXCEPT ![Call(e)] = {}]
    /\ UNCHANGED <<stage, force, storeVars>>

\* The worker dies: the task is delivered again.
Redeliver(e) == Dies(e) /\ Go(e, "queued")

\* The process of the task is killed: it is not.
Kill(e) == Dies(e) /\ Go(e, "killed")

\* The lease of a dead process expires.
Expire(e) ==
    /\ \E d \in 0 .. deaths[e] - 1 : Lease!Leave(<<e, d>>)
    /\ UNCHANGED <<server, zombies, pc, timeVars, force, deaths, putVars, storeVars>>

Next ==
    \/ \E e \in Executions :
          \/ Start(e) \/ Download(e) \/ Acquire(e) \/ GiveUp(e)
          \/ Submit(e) \/ SubmitUnanswered(e) \/ PollAgain(e) \/ PollDone(e)
          \/ PollFailed(e) \/ Fetch(e) \/ RequestFails(e)
          \/ Put(e) \/ Stat(e) \/ Update(e) \/ Fails(e) \/ RecordFailure(e)
          \/ Parse(e) \/ Redeliver(e) \/ Kill(e) \/ Expire(e)
    \/ ParseZombie
    \/ Tick

Spec == Init /\ [][Next]_vars

-----------------------------------------------------------------------------
(* Properties *)

\* Every variable has its type; no clock passes the soft limit of the task.
TypeOK ==
    /\ stage \in [Calls -> {"before", "inside", "past"}]
    /\ server \in [Executions -> {"none", "processing", "completed", "failed"}]
    /\ zombies \in Nat
    /\ pc \in [Executions -> Timed \cup Ended
                    \cup {"queued", "download", "put", "stat", "update", "failing"}]
    /\ age \in [Executions -> 0 .. Soft]
    /\ late \in [Executions -> BOOLEAN]
    /\ force \in [Executions -> Forces]
    /\ deaths \in [Executions -> 0 .. MaxDeaths]
    /\ found \in [Calls -> SUBSET Optional]
    /\ done \in [Executions -> 0 .. 5]
    /\ tries \in [Executions -> 0 .. MaxTries - 1]
    /\ refs \in [Executions -> [Keys -> {None} \cup Calls]]
    /\ objects \in [Keys -> {None} \cup Calls]
    /\ manifest \in [status : {"PENDING", "RUNNING", "COMPLETED", "FAILED"},
                     names : [Keys -> {None} \cup Calls]]

\* The lease keeps the parses of the GPU apart: no two executions ever wait for
\* tasks that the server works on (mineru_service.process_pdf holds the lease from
\* the submission to the result, and gives it back on every error).
OneLiveParse ==
    \A e, q \in Executions :
        server[e] = "processing" /\ server[q] = "processing" => e = q

\* However long it waited for the GPU, an execution whose server hangs ends with its
\* own timeout, never with the soft limit of the task ("falha limpo ANTES do soft
\* limit", core/config.py): the deadline counts from before the wait.
HangEndsCleanly ==
    \A e \in Executions : server[e] = "processing" => age[e] < Soft

\* Every artifact that the named extraction has is named with it, however executions
\* of the document overlap in the store: references are taken from what was put and
\* named by one update (stage_mineru).  Only an artifact that it lacks, its markdown or
\* its images, may be named of an earlier one (artifacts.update keeps it), and the
\* images and their index are of one extraction in any case.
NamesOfOneAttempt ==
    LET names == manifest.names
        named == names["content"]
    IN  /\ names["metrics"] = named
        /\ \A k \in Optional : named # None /\ names[k] # named => k \notin found[named]
        /\ names["images"] = names["index"]
=============================================================================
