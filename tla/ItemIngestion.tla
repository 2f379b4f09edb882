---------------------------- MODULE ItemIngestion ----------------------------
(* Ingestion of an item of DSpace (POST /api/files/dspace/item/{uuid}): its PDFs
   are resolved and one chain is sent for each; an item that DSpace does not
   answer for waits in the queue, where resolver_item_dspace asks again after a
   delay.  The wait and the documents have records in the job store. *)
EXTENDS JobStore, Bags

CONSTANTS
    Item,         \* the record "item:{uuid}"
    Pdfs,         \* its documents, in the order of the bundle
    Api, Workers, \* the actors: request handlers and worker slots
    Forces,       \* values of ?force= that clients send
    MaxAttempts,  \* DSPACE_ITEM_RETRY_MAX_ATTEMPTS
    MaxRequests,  \* bound: requests of clients
    MaxFaults     \* bound: dead workers, errors of the API or the broker, outages of Redis

ASSUME ItemAssumption ==
    /\ Pdfs \in Seq(Jobs)
    /\ Jobs = {Item} \cup {Pdfs[i] : i \in DOMAIN Pdfs}
    /\ \A i \in DOMAIN Pdfs : Pdfs[i] # Item    \* no file is named "item:{uuid}.pdf"
    /\ Actors = Api \cup Workers
    /\ Api \cap Workers = {}
    /\ MaxAttempts \in Nat \ {0}

VARIABLES
    queue,        \* the bag of messages in the broker
    held,         \* held[w]: the message w executes and has not acknowledged
    accepted,     \* history: a client was told 202, "aguardando_dspace"
    chains,       \* history: documents whose chain was sent
    requests, deaths, errors

vars == <<storeVars, queue, held, accepted, chains, requests, deaths, errors>>
None == "none"
NoMessage == [task |-> None, job |-> Item, attempt |-> 0]

(* -------------------------------- enqueueing ------------------------------- *)
Send(task, job, attempt) == [op |-> "send", task |-> task, job |-> job, attempt |-> attempt]

EnqueueItemPdfs ==      \* three calls for each document
    [k \in 1 .. 3 * Len(Pdfs) |->
        LET j == Pdfs[(k + 2) \div 3]
        IN  CASE k % 3 = 1 -> SetStatus(j, [status |-> "na_fila"])
              [] k % 3 = 2 -> ClearFailed(j)
              [] OTHER -> Send("chain", j, 0)]

(* due stands for next_retry_at: ahead, or passed by more than an interval *)
ScheduleItemResolution(attempt) ==
    << SetStatus(Item, [status |-> "na_fila", source |-> "pending", due |-> "ahead"]),
       ClearFailed(Item), Send("resolve", Item, attempt + 1) >>

ItemWaitIsAlive(job) ==
    /\ Get(job, "source") = "pending"
    /\ Get(job, "status") \in {"na_fila", "processando"}
    /\ Get(job, "due") = "ahead"

Init ==
    /\ InitStore
    /\ queue = EmptyBag
    /\ held = [w \in Workers |-> NoMessage]
    /\ accepted = FALSE
    /\ chains = {}
    /\ requests = 0 /\ deaths = 0 /\ errors = 0

MoreFaults == deaths + errors + outages < MaxFaults
Does(a, calls) == todo' = [todo EXCEPT ![a] = calls]

(* ------------------------------- API requests ------------------------------ *)
Asked(p) ==
    /\ todo[p] = <<>> /\ requests < MaxRequests
    /\ requests' = requests + 1
    /\ UNCHANGED <<redis, phase, copy, outages, disturbed, queue, held, accepted, chains, deaths, errors>>

(* resolve_item_pdfs ends in the PDFs, in an error that may pass, or in one that is
   final (answered with 502, nothing recorded). *)
PostItem(p) ==
    \/ Asked(p) /\ Does(p, EnqueueItemPdfs)
    \/ \E force \in Forces :
          Asked(p) /\ Does(p, <<[op |-> "look", job |-> Item, force |-> force]>>)

(* _aguardar_item: the record is read, and a wait that is alive is not duplicated. *)
LookForWait(p) ==
    /\ Calls(p, "look")
    /\ \E up \in BOOLEAN :
          /\ Answers(up)
          /\ IF ~Call(p).force /\ up /\ ItemWaitIsAlive(record[Item])
             THEN Does(p, <<>>) /\ accepted' = TRUE
             ELSE Does(p, ScheduleItemResolution(1)) /\ UNCHANGED accepted
    /\ UNCHANGED <<redis, phase, copy, disturbed, queue, held, chains, requests, deaths, errors>>

(* reprocess_job of the item's record: whether a wait is alive is not asked. *)
ReprocessItem(p) ==
    /\ Get(record[Item], "source") = "pending"
    /\ Asked(p) /\ Does(p, ScheduleItemResolution(1))

GetJobs(p) ==
    \E index \in {"active", "succeeded"} :
        \E j \in Entries(index) : Asked(p) /\ Does(p, <<ListIndex(j, index)>>)

(* --------------------------------- messages -------------------------------- *)
ApplyAsync(a) ==
    /\ Calls(a, "send")
    /\ LET c == Call(a) IN
       /\ queue' = queue (+) SetToBag({[task |-> c.task, job |-> c.job, attempt |-> c.attempt]})
       /\ chains' = IF c.task = "chain" THEN chains \cup {c.job} ELSE chains
       /\ accepted' = (accepted \/ (a \in Api /\ c.task = "resolve"))
    /\ Returns(a)
    /\ UNCHANGED <<redis, copy, outages, disturbed, held, requests, deaths, errors>>

(* The broker refuses a message, or the process of the API ends: the exception, or
   the end, leaves the rest undone.  resolver_item_dspace has no on_failure. *)
Abort(a) ==
    /\ MoreFaults
    /\ Calls(a, "send") \/ (a \in Api /\ todo[a] # <<>>)
    /\ errors' = errors + 1
    /\ Stop(a)
    /\ UNCHANGED <<queue, held, accepted, chains, requests, deaths>>

(* ---------------------------------- workers -------------------------------- *)
(* What a task asks of the store when it starts; the rest depends on what it finds. *)
Starts(msg) ==
    << SetStatus(msg.job, IF msg.task = "resolve"
                          THEN [status |-> "processando", source |-> "pending"]
                          ELSE [status |-> "processando"]),
       [op |-> msg.task, job |-> msg.job] >>

Take(w) ==
    \E msg \in BagToSet(queue) :
        /\ held[w] = NoMessage
        /\ queue' = queue (-) SetToBag({msg})
        /\ held' = [held EXCEPT ![w] = msg]
        /\ Does(w, Starts(msg))
        /\ UNCHANGED <<redis, phase, copy, outages, disturbed, accepted, chains,
                       requests, deaths, errors>>

Concludes == << SetStatus(Item, [status |-> "resolvido", due |-> "none"]), ClearFailed(Item) >>
ResolvedFirst == Concludes \o EnqueueItemPdfs
Resolved == EnqueueItemPdfs \o Concludes
GivesUpUnlisted == << SetStatus(Item, [status |-> "erro", due |-> "none"]) >>
GivesUp == << SetStatus(Item, [status |-> "erro", due |-> "none"]), AddFailed(Item) >>
MoreAttempts(attempt) == attempt < MaxAttempts
StillWaits(attempt) ==
    IF MoreAttempts(attempt) THEN ScheduleItemResolution(attempt) ELSE GivesUp

(* The documents' chain is one step here (DocumentPipeline has its stages): it ends
   in a success, a failure of the index stage, or an error; a follow-up with
   warnings writes concluido again and says nothing of the index. *)
ChainEnds(j) == {
    << SetStatus(j, [status |-> "concluido", index_error |-> "none"]), ClearFailed(j) >>,
    << AddFailed(j), SetStatus(j, [status |-> "concluido", index_error |-> "some"]),
       SetStatus(j, [status |-> "concluido"]) >>,
    << SetStatus(j, [status |-> "erro"]), AddFailed(j) >> }

Continues(w) ==
    /\ \/ /\ Calls(w, "resolve")
          /\ \E calls \in {Resolved, StillWaits(held[w].attempt), GivesUp} : Does(w, calls)
       \/ /\ Calls(w, "chain")
          /\ \E calls \in ChainEnds(Call(w).job) : Does(w, calls)
    /\ UNCHANGED <<redis, phase, copy, outages, disturbed, queue, held,
                   accepted, chains, requests, deaths, errors>>

Acknowledge(w) ==
    /\ held[w] # NoMessage /\ todo[w] = <<>>
    /\ held' = [held EXCEPT ![w] = NoMessage]
    /\ UNCHANGED <<storeVars, queue, accepted, chains, requests, deaths, errors>>

(* A worker dies: its message was not acknowledged and is delivered again. *)
Die(w) ==
    /\ held[w] # NoMessage /\ MoreFaults
    /\ deaths' = deaths + 1
    /\ queue' = queue (+) SetToBag({held[w]})
    /\ held' = [held EXCEPT ![w] = NoMessage]
    /\ Stop(w)
    /\ UNCHANGED <<accepted, chains, requests, errors>>

Resolving(a) == \E i \in DOMAIN todo[a] : todo[a][i].job = Item
Asking == \E msg \in BagToSet(queue) : msg.task = "resolve"
InProgress == \/ \E a \in Actors : Resolving(a)
              \/ \E w \in Workers : held[w] # NoMessage /\ held[w].task = "resolve"

(* The next attempt of a wait that nobody works on is long overdue. *)
Overdue ==
    /\ Get(record[Item], "due") = "ahead"
    /\ ~Asking /\ ~InProgress
    /\ record' = [record EXCEPT ![Item].due = "past"]
    /\ UNCHANGED <<active, succeeded, failed, todo, phase, copy, outages, disturbed, queue, held, accepted,
                   chains, requests, deaths, errors>>

CallStore(a) ==
    /\ StoreCall(a)
    /\ outages' > outages => MoreFaults
    /\ UNCHANGED <<queue, held, accepted, chains, requests, deaths, errors>>

Next ==
    \/ \E p \in Api : PostItem(p) \/ LookForWait(p) \/ ReprocessItem(p) \/ GetJobs(p)
    \/ \E w \in Workers : Take(w) \/ Continues(w) \/ Acknowledge(w) \/ Die(w)
    \/ \E a \in Actors : CallStore(a) \/ ApplyAsync(a) \/ Abort(a)
    \/ Overdue

Spec == Init /\ [][Next]_vars

(* -------------------------------- properties ------------------------------- *)
AllSent == \A i \in DOMAIN Pdfs : Pdfs[i] \in chains

(* An item whose record says "resolvido" has had the chain of each of its documents
   although a task may stop between two of them and be delivered again. *)
ResolvedMeansSent ==
    Get(record[Item], "status") = "resolvido" => AllSent

(* Unless the broker, the API or Redis failed, an item that a client was told is
   waiting has its documents or is on its way, or is in the list of failures,
   from where it can be reprocessed: no order of repeated requests, late deliveries
   and dead workers loses it. *)
WaitNotForgotten ==
    accepted /\ errors = 0 /\ outages = 0 =>
        AllSent \/ Asking \/ InProgress \/ Item \in failed
=============================================================================
