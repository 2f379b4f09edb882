------------------------------ MODULE JobStore ------------------------------
(* The job store (backend/services/job_store.py): one record per job and three
   indexes over the records, in Redis.  A writer merges a record and derives the
   indexes from it with separate requests, so writers of one job interleave.  A
   request that Redis does not answer is served from the memory of the caller's
   process, which no other process sees; that memory is taken to be empty.  Times
   are left out: the age of an entry only orders the listings. *)
EXTENDS Naturals, Sequences

CONSTANTS
    Jobs,
    Actors,       \* requests of the API and tasks that call the store
    MaxOutages    \* bound: requests that Redis fails to answer

ASSUME StoreAssumption == MaxOutages \in Nat

VARIABLES
    record,       \* record[j]: the fields stored for j, <<>> when there are none
    active, succeeded, failed,   \* the indexes
    todo,         \* todo[a]: the calls a has still to make
    phase,        \* phase[a]: how far a is with the first of them
    copy,         \* copy[a]: the record that a holds between two requests
    outages,
    disturbed     \* history: jobs whose last writers overlapped or were cut short

redis == <<record, active, succeeded, failed>>
storeVars == <<redis, todo, phase, copy, outages, disturbed>>

Get(job, field) == IF field \in DOMAIN job THEN job[field] ELSE "none"

IsActive(job) == Get(job, "status") \in {"na_fila", "processando"}
IsSucceeded(job) == Get(job, "status") = "concluido" /\ Get(job, "index_error") = "none"

SetStatus(j, extra) == [op |-> "set_status", job |-> j, extra |-> extra]
AddFailed(j) == [op |-> "add_failed", job |-> j]
ClearFailed(j) == [op |-> "clear_failed", job |-> j]
ListIndex(j, index) == [op |-> "list", job |-> j, index |-> index]

Calls(a, op) == todo[a] # <<>> /\ Head(todo[a]).op = op
Call(a) == Head(todo[a])

InitStore ==
    /\ record = [j \in Jobs |-> <<>>]
    /\ active = {} /\ succeeded = {} /\ failed = {}
    /\ todo = [a \in Actors |-> <<>>]
    /\ phase = [a \in Actors |-> "start"]
    /\ copy = [a \in Actors |-> <<>>]
    /\ outages = 0
    /\ disturbed = {}

(* Redis answers a request (up), or the memory of the process stands in for it. *)
Answers(up) ==
    \/ up /\ UNCHANGED outages
    \/ ~up /\ outages < MaxOutages /\ outages' = outages + 1

Within(a, j) == phase[a] # "start" /\ Call(a).job = j
Alone(a, j) == \A b \in Actors \ {a} : ~Within(b, j)

(* A writer alone with the job, from its first request on, puts the indexes right. *)
Enters(a, up, j) ==
    disturbed' = IF up /\ Alone(a, j) THEN disturbed \ {j} ELSE disturbed \cup {j}
Stays(up, j) == disturbed' = IF up THEN disturbed ELSE disturbed \cup {j}

Goes(a, p) == phase' = [phase EXCEPT ![a] = p]
Returns(a) == /\ todo' = [todo EXCEPT ![a] = Tail(@)]
              /\ phase' = [phase EXCEPT ![a] = "start"]
Keeps(a, job) == copy' = [copy EXCEPT ![a] = job]

(* ------------------------------- set_status ------------------------------- *)
Merged(old, extra) ==
    [f \in DOMAIN old \cup DOMAIN extra |-> IF f \in DOMAIN extra THEN extra[f] ELSE old[f]]

ReadRecord(a, up) ==
    /\ Calls(a, "set_status") /\ phase[a] = "start"
    /\ Answers(up)
    /\ Enters(a, up, Call(a).job)
    /\ Keeps(a, Merged(IF up THEN record[Call(a).job] ELSE <<>>, Call(a).extra))
    /\ Goes(a, IF up THEN "put" ELSE "active")
    /\ UNCHANGED <<redis, todo>>

WriteRecord(a, up) ==
    /\ Calls(a, "set_status") /\ phase[a] = "put"
    /\ Answers(up)
    /\ Stays(up, Call(a).job)
    /\ \/ up /\ record' = [record EXCEPT ![Call(a).job] = copy[a]] /\ UNCHANGED copy
       \/ ~up /\ Keeps(a, Merged(<<>>, Call(a).extra)) /\ UNCHANGED record
    /\ Goes(a, "active")
    /\ UNCHANGED <<active, succeeded, failed, todo>>

UpdateIndex(index, j, member) == IF member THEN index \cup {j} ELSE index \ {j}

(* The indexes are derived from the merged record, not from what this call sets. *)
DerivedAlone(a) == Call(a).extra
Derived(a) == copy[a]

TrackActive(a, up) ==
    /\ Calls(a, "set_status") /\ phase[a] = "active"
    /\ Answers(up)
    /\ Stays(up, Call(a).job)
    /\ active' = IF up THEN UpdateIndex(active, Call(a).job, IsActive(Derived(a))) ELSE active
    /\ Goes(a, "succeeded")
    /\ UNCHANGED <<record, succeeded, failed, todo, copy>>

TrackSucceeded(a, up) ==
    /\ Calls(a, "set_status") /\ phase[a] = "succeeded"
    /\ Answers(up)
    /\ Stays(up, Call(a).job)
    /\ succeeded' = IF up THEN UpdateIndex(succeeded, Call(a).job, IsSucceeded(Derived(a)))
                    ELSE succeeded
    /\ Keeps(a, <<>>)
    /\ Returns(a)
    /\ UNCHANGED <<record, active, failed>>

(* --------------------------- the list of failures ------------------------- *)
MarkFailed(a, up) ==
    /\ Calls(a, "add_failed") \/ Calls(a, "clear_failed")
    /\ Answers(up)
    /\ failed' = IF up THEN UpdateIndex(failed, Call(a).job, Call(a).op = "add_failed") ELSE failed
    /\ Returns(a)
    /\ UNCHANGED <<record, active, succeeded, copy, disturbed>>

(* ------------------- list_active, list_succeeded: pruning ------------------ *)
Entries(index) == IF index = "active" THEN active ELSE succeeded
IsListed(index, job) == IF index = "active" THEN IsActive(job) ELSE IsSucceeded(job)

(* One entry of a listing: its record is read, and an entry whose record does not
   belong in the index is pruned with a request of its own. *)
ResolveEntry(a, up) ==
    /\ Calls(a, "list") /\ phase[a] = "start"
    /\ Answers(up)
    /\ LET c == Call(a)
           stale == ~IsListed(c.index, IF up THEN record[c.job] ELSE <<>>)
       IN  \/ /\ stale /\ Goes(a, "prune") /\ UNCHANGED todo
              /\ disturbed' = IF up /\ Alone(a, c.job) THEN disturbed ELSE disturbed \cup {c.job}
           \/ ~stale /\ Returns(a) /\ UNCHANGED disturbed
    /\ UNCHANGED <<redis, copy>>

Prune(a, up) ==
    /\ Calls(a, "list") /\ phase[a] = "prune"
    /\ Answers(up)
    /\ Stays(up, Call(a).job)
    /\ LET remains(index) == IF up /\ Call(a).index = index THEN Entries(index) \ {Call(a).job}
                                                           ELSE Entries(index)
       IN  active' = remains("active") /\ succeeded' = remains("succeeded")
    /\ Returns(a)
    /\ UNCHANGED <<record, failed, copy>>

(* The actor stops, wherever it is: the calls it has still to make are never made. *)
Stop(a) ==
    /\ todo' = [todo EXCEPT ![a] = <<>>]
    /\ phase' = [phase EXCEPT ![a] = "start"]
    /\ copy' = [copy EXCEPT ![a] = <<>>]
    /\ disturbed' = disturbed \cup {j \in Jobs : Within(a, j)}
    /\ UNCHANGED <<redis, outages>>

StoreCall(a) ==
    \E up \in BOOLEAN :
        \/ ReadRecord(a, up) \/ WriteRecord(a, up)
        \/ TrackActive(a, up) \/ TrackSucceeded(a, up)
        \/ MarkFailed(a, up)
        \/ ResolveEntry(a, up) \/ Prune(a, up)

(* -------------------------------- properties ------------------------------- *)
(* The indexes of running and of successful jobs say what the record says, for
   every job whose writers and listings did not overlap and were not cut short:
   they are derived from the merged record, so that a call that does not mention
   the index error of the job cannot turn the job into a success. *)
IndexesFollowRecords ==
    \A j \in Jobs \ disturbed :
        (\A a \in Actors : ~Within(a, j)) =>
            /\ j \in active <=> IsActive(record[j])
            /\ j \in succeeded <=> IsSucceeded(record[j])
=============================================================================
