--------------------------- MODULE SummaryService ---------------------------
(* The AI summary and its cache (backend/services/summary_service.py and
   summary_cache.py).  A summary is kept under a key that holds the generation of
   the index, which indexing bumps after it has written; the same question asked
   twice at a time is synthesised once; without Redis a process keeps summaries in
   its own memory, under a generation that no other process can bump. *)
EXTENDS SummaryText

CONSTANTS
    Requests, Processes, Questions,
    Home, Asks,      \* the process that serves a request and what it asks
    Local,           \* the generation a process has without Redis ("m0")
    MaxWrites,       \* bound: writes to the index
    MaxOutages       \* bound: requests that Redis fails to answer

ASSUME SummaryAssumption ==
    /\ Home \in [Requests -> Processes]
    /\ Asks \in [Requests -> Questions]
    /\ MaxWrites \in Nat /\ MaxOutages \in Nat
    /\ Local \notin Nat

VARIABLES
    version,         \* writes to the index so far: what a retrieval sees
    gen,             \* summary:index_gen in Redis
    covered,         \* history: covered[g], the version when generation g began
    pending,         \* writers that have written and not yet bumped
    shared,          \* shared[k]: version of the summary in Redis, Miss if none
    memory,          \* memory[p][k]: the same in the memory of process p
    task,            \* task[p][k]: the synthesis in _inflight
    req,             \* req[r]: progress of a request, its generation, its answer
    outages

vars == <<version, gen, covered, pending, shared, memory, task, req, outages>>
index == <<version, gen, covered, pending>>

Miss == 0                                  \* versions of the index start at 1
Generations == (0 .. MaxWrites) \cup {Local}
Keys == Questions \X Generations
NoTask == [step |-> "none", version |-> Miss]
KeyAlone(r) == <<Asks[r], 0>>
Key(r) == <<Asks[r], req[r].gen>>
Flight(r) == task[Home[r]][Key(r)]

Init ==
    /\ version = 1 /\ gen = 0 /\ pending = 0
    /\ covered = [g \in 0 .. MaxWrites |-> IF g = 0 THEN 1 ELSE Miss]
    /\ shared = [k \in Keys |-> Miss]
    /\ memory = [p \in Processes |-> [k \in Keys |-> Miss]]
    /\ task = [p \in Processes |-> [k \in Keys |-> NoTask]]
    /\ req = [r \in Requests |-> [pc |-> "idle", gen |-> Local, version |-> Miss]]
    /\ outages = 0

(* Redis answers (up), or the call goes on without it until a later one. *)
Answers(up) ==
    \/ up /\ UNCHANGED outages
    \/ ~up /\ outages < MaxOutages /\ outages' = outages + 1

(* ------------------------------ the indexing side -------------------------- *)
Write(bumps) ==
    /\ version <= MaxWrites
    /\ version' = version + 1
    /\ pending' = IF bumps THEN pending + 1 ELSE pending
    /\ UNCHANGED <<gen, covered, shared, memory, task, req, outages>>

IndexDocument == Write(TRUE)
SetPayload == Write(FALSE)   \* push_llm_metadata_to_qdrant, push_discourse_roles_to_qdrant

BumpIndexGeneration ==
    /\ pending > 0
    /\ pending' = pending - 1
    /\ gen' = gen + 1
    /\ covered' = [covered EXCEPT ![gen + 1] = version]
    /\ UNCHANGED <<version, shared, memory, task, req, outages>>

(* The worker dies before it, or cannot reach Redis: best effort, the TTL covers. *)
BumpLost ==
    /\ pending > 0
    /\ pending' = pending - 1
    /\ UNCHANGED <<version, gen, covered, shared, memory, task, req, outages>>

(* ------------------------------ requests: summarize ------------------------ *)
Moves(r, pc) == req' = [req EXCEPT ![r].pc = pc]

IndexGeneration(up) == IF up THEN gen ELSE Local

ReadKey(r, up) ==
    /\ req[r].pc = "idle"
    /\ Answers(up)
    /\ req' = [req EXCEPT ![r] = [pc |-> "get", gen |-> IndexGeneration(up), version |-> Miss]]
    /\ UNCHANGED <<index, shared, memory, task>>

Cached(r, up) == IF up THEN shared[Key(r)] ELSE memory[Home[r]][Key(r)]

Lookup(r, up) ==
    /\ req[r].pc = "get"
    /\ Answers(up)
    /\ req' = [req EXCEPT ![r].pc = IF Cached(r, up) = Miss THEN "miss" ELSE "answered",
                          ![r].version = Cached(r, up)]
    /\ UNCHANGED <<index, shared, memory, task>>

(* One step of the event loop: whoever finds no synthesis in flight starts one. *)
JoinOrStart(r) ==
    /\ req[r].pc = "miss"
    /\ Moves(r, "waiting")
    /\ task' = IF Flight(r) = NoTask
               THEN [task EXCEPT ![Home[r]][Key(r)] = [step |-> "retrieve", version |-> Miss]]
               ELSE task
    /\ UNCHANGED <<index, shared, memory, outages>>

(* The client disconnects; the synthesis it waits for is shielded from that. *)
Disconnect(r) ==
    /\ req[r].pc \in {"get", "miss", "waiting"}
    /\ Moves(r, "gone")
    /\ UNCHANGED <<index, shared, memory, task, outages>>

(* --------------------- tasks: _summarize_and_store ------------------------- *)
Does(p, k, step, v) == task' = [task EXCEPT ![p][k] = [step |-> step, version |-> v]]

(* Retrieval; without evidence the answer is empty and the model is not called.  The
   version is the one its first query sees: later ones can only see a newer. *)
Retrieve(p, k) ==
    /\ task[p][k].step = "retrieve"
    /\ \E some \in FoundSome : Does(p, k, IF some THEN "first" ELSE "settle", version)
    /\ UNCHANGED <<index, shared, memory, req, outages>>

(* A call of the model: a usable summary is stored; an empty or contaminated one is
   asked for once more; the second unusable one is returned and not stored. *)
CallLlm(p, k) ==
    /\ task[p][k].step \in {"first", "second"}
    /\ \E usable \in AnswersUsable :
          Does(p, k, IF usable THEN "store" ELSE IF task[p][k].step = "first" THEN "second" ELSE "settle",
               task[p][k].version)
    /\ UNCHANGED <<index, shared, memory, req, outages>>

Store(p, k, up) ==
    /\ task[p][k].step = "store"
    /\ Answers(up)
    /\ IF up THEN shared' = [shared EXCEPT ![k] = task[p][k].version] /\ UNCHANGED memory
             ELSE memory' = [memory EXCEPT ![p][k] = task[p][k].version] /\ UNCHANGED shared
    /\ Does(p, k, "settle", task[p][k].version)
    /\ UNCHANGED <<index, req>>

Waits(r, p, k) == req[r].pc = "waiting" /\ Home[r] = p /\ Key(r) = k

NeverPopped(p, k) == [task EXCEPT ![p][k].step = "over"]
Popped(p, k) == [task EXCEPT ![p][k] = NoTask]

(* The task ends, leaves _inflight, and everyone who waits for it has its result. *)
Ends(p, k, pc, v) ==
    /\ task' = Popped(p, k)
    /\ req' = [r \in Requests |->
                  IF Waits(r, p, k) THEN [req[r] EXCEPT !.pc = pc, !.version = v] ELSE req[r]]
    /\ UNCHANGED <<index, shared, memory, outages>>

Settle(p, k) == task[p][k].step = "settle" /\ Ends(p, k, "answered", task[p][k].version)
Fails(p, k) == task[p][k].step \in {"retrieve", "first", "second"} /\ Ends(p, k, "failed", Miss)

(* The TTL, or the limit of entries of a process. *)
Expire(k) ==
    /\ \/ /\ shared[k] # Miss
          /\ shared' = [shared EXCEPT ![k] = Miss] /\ UNCHANGED memory
       \/ \E p \in Processes :
             /\ memory[p][k] # Miss
             /\ memory' = [memory EXCEPT ![p][k] = Miss] /\ UNCHANGED shared
    /\ UNCHANGED <<index, task, req, outages>>

Work(p, k) ==
    Retrieve(p, k) \/ CallLlm(p, k) \/ (\E up \in BOOLEAN : Store(p, k, up)) \/ Settle(p, k) \/ Fails(p, k)
Proceed(r) == (\E up \in BOOLEAN : Lookup(r, up)) \/ JoinOrStart(r)

Next ==
    \/ IndexDocument \/ SetPayload \/ BumpIndexGeneration \/ BumpLost
    \/ \E r \in Requests : (\E up \in BOOLEAN : ReadKey(r, up)) \/ Proceed(r) \/ Disconnect(r)
    \/ \E p \in Processes, k \in Keys : Work(p, k)
    \/ \E k \in Keys : Expire(k)

(* The event loop runs handlers and tasks that can go on, and the calls they wait
   for have timeouts. *)
Spec == /\ Init /\ [][Next]_vars
        /\ \A r \in Requests : WF_vars(Proceed(r))
        /\ \A p \in Processes, k \in Keys : WF_vars(Work(p, k))

(* -------------------------------- properties ------------------------------- *)
Version == 0 .. MaxWrites + 1
TypeOK ==
    /\ version \in 1 .. MaxWrites + 1
    /\ gen \in 0 .. MaxWrites /\ pending \in 0 .. MaxWrites
    /\ gen + pending < version
    /\ covered \in [0 .. MaxWrites -> Version]
    /\ shared \in [Keys -> Version]
    /\ memory \in [Processes -> [Keys -> Version]]
    /\ task \in [Processes -> [Keys -> [step : {"none", "retrieve", "first", "second", "store", "settle"},
                                        version : Version]]]
    /\ req \in [Requests -> [pc : {"idle", "get", "miss", "waiting", "answered", "failed", "gone"},
                             gen : Generations, version : Version]]
    /\ outages \in 0 .. MaxOutages

(* A summary that answers a request, cached, joined or new, was made from an index
   that holds every write whose bump came before the request: no interleaving of
   writers, bumps and syntheses files an old summary under a new generation. *)
AnswersAreFresh ==
    \A r \in Requests :
        req[r].pc = "answered" /\ req[r].gen # Local => req[r].version >= covered[req[r].gen]

Waiting(r) == req[r].pc \in {"get", "miss", "waiting"}

(* Whoever asks is answered, told of a failure, or gone: the disconnection of the
   client that started a synthesis, or its failure, strands nobody who joined it. *)
RequestEnds == \A r \in Requests : Waiting(r) ~> ~Waiting(r)

Storing == \E p \in Processes, k \in Keys : task[p][k].step = "store"

(* What is stored has none of the model's reasoning, unless the answer was cut in a block
   around one that was closed, and cites evidences that are there, once each. *)
StoredIsClean == Storing => CleanText /\ DistinctEvidence
=============================================================================
