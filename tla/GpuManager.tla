----------------------------- MODULE GpuManager -----------------------------
(***************************************************************************)
(* The GPU resource manager: processes that share one GPU coordinate over  *)
(* one Redis database.  A call to acquire_lease enqueues a request, polls  *)
(* TRY_ACQUIRE until it is the next request and the lock is free, and then *)
(* holds a lease whose heartbeat renews the lock key until release.  Every *)
(* server-side operation is one Lua script, hence one action; between two  *)
(* of them any other process may run, time may pass, and a script's        *)
(* request or its reply may be lost.                                       *)
(*                                                                         *)
(* Time is counted in polling intervals.  A key with a TTL is a record     *)
(* whose ttl field counts down at every Tick; ttl = 0 means that the key   *)
(* does not exist.  Each call has its own request id and token, so a call  *)
(* identifies both.                                                        *)
(***************************************************************************)
EXTENDS Integers, FiniteSets

CONSTANTS
    Calls,              \* calls to acquire_lease (one request id and token each)
    NoCall,             \* the value of a lock or owner key that does not exist
    Priority,           \* Priority[p]: the priority argument of call p
    MinPriority, MaxPriority,
    AgingEnabled, AgingInterval, AgingStep, MinEffective,
    LockTTL, Heartbeat, RequestTTL, RequestHeartbeat, WaitTimeout,
    WaitCap,            \* bound: ages of requests are not counted beyond it
    Cancellable,        \* the calls an administrator may cancel
    Faults,             \* how a script call may fail: "request_lost", "reply_lost"
    Punctual            \* TRUE: time passes only once every process has done
                        \* what it has to do now (no pauses, no late heartbeat)

ASSUME CallsAssumption ==
    /\ NoCall \notin Calls
    /\ Cancellable \subseteq Calls
    /\ Faults \subseteq {"request_lost", "reply_lost"}
    /\ Punctual \in BOOLEAN

\* GPUManagerConfig._validate
ASSUME ConfigAssumption ==
    /\ Heartbeat \in Nat \ {0} /\ LockTTL \in Nat /\ LockTTL > Heartbeat
    /\ RequestHeartbeat \in Nat \ {0} /\ RequestTTL \in Nat
    /\ RequestTTL > RequestHeartbeat
    /\ WaitTimeout \in Nat \ {0} /\ WaitCap \in Nat \ {0}
    /\ AgingInterval \in Nat \ {0} /\ AgingStep \in Nat
    /\ AgingEnabled \in BOOLEAN
    /\ MinPriority \in Int /\ MaxPriority \in Int /\ MinPriority <= MaxPriority
    /\ MinEffective \in Int /\ MinEffective >= MinPriority
    /\ Priority \in [Calls -> Int]

VARIABLES
    \* Redis
    lock,           \* gpu:{resource}:lock, the only source of exclusion
    owner,          \* gpu:{resource}:owner, who holds the lock, for diagnosis
    queue,          \* gpu:{resource}:queue, the ids that wait
    request,        \* gpu:{resource}:request:{id}
    sequence,       \* gpu:{resource}:sequence
    \* each call
    pc,             \* where the call is in acquire_lease, its lease or release
    elapsed,        \* time since it began to wait
    requestAge,     \* time since its last wait_heartbeat
    heartbeatAge,   \* time since the heartbeat thread's last cycle
    lockLost,       \* GPULease._lock_lost
    \* history
    leaseAge,       \* time since the last renewal the lease knows succeeded
    arrival,        \* the sequence number of the call's first enqueue
    cancelled       \* the calls cancel_request returned True for

redisVars == <<lock, owner, queue, request, sequence>>
waitVars == <<elapsed, requestAge>>
leaseVars == <<heartbeatAge, lockLost, leaseAge>>
historyVars == <<arrival, cancelled>>
vars == <<redisVars, pc, waitVars, leaseVars, historyVars>>

-----------------------------------------------------------------------------
(* Values *)

Expired == [token |-> NoCall, ttl |-> 0]
NoRequest == [ttl |-> 0, waited |-> 0, seq |-> 0]

Waiting == {"try", "heartbeat", "requeue", "timeout", "sleep"}
Leased == {"holding", "joining"}
Over == {"released", "release_error", "cancelled", "timed_out", "unavailable",
         "crashed"}
Resting == {"idle", "sleep", "holding"} \cup Over

Larger(a, b) == IF a >= b THEN a ELSE b
Smaller(a, b) == IF a <= b THEN a ELSE b

\* GPUManagerConfig.clamp_priority
Base(p) == Larger(MinPriority, Smaller(MaxPriority, Priority[p]))

\* effective_priority, and the same formula inside TRY_ACQUIRE: a request's
\* priority improves by AgingStep for every AgingInterval it has waited.
EffectiveUnaged(p) == Base(p)
Effective(p) ==
    IF AgingEnabled
    THEN Larger(MinEffective,
                Base(p) - (request[p].waited \div AgingInterval) * AgingStep)
    ELSE Base(p)

Live(p) == p \in queue /\ request[p].ttl > 0

\* The lock key does not exist.
LockFreeUnchecked == TRUE
LockFree == lock.token = NoCall

\* The comparison function of table.sort in TRY_ACQUIRE.
BeforeLastIn(p, q) ==
    IF Effective(p) = Effective(q) THEN request[p].seq > request[q].seq
                                   ELSE Effective(p) < Effective(q)
Before(p, q) ==
    IF Effective(p) = Effective(q) THEN request[p].seq < request[q].seq
                                   ELSE Effective(p) < Effective(q)

IsNext(p) == Live(p) /\ \A q \in Calls \ {p} : Live(q) => Before(p, q)

\* GPULease.is_valid, the local flags that ensure_valid reads
Valid(p) == pc[p] = "holding" /\ ~lockLost[p]

\* RedisBackend._run raises for a lost request and for a lost reply alike, but
\* only in the second case has the script run.
Outcome == {"ok"} \cup Faults
Ran(o) == o # "request_lost"

-----------------------------------------------------------------------------
Init ==
    /\ lock = Expired
    /\ owner = Expired
    /\ queue = {}
    /\ request = [p \in Calls |-> NoRequest]
    /\ sequence = 0
    /\ pc = [p \in Calls |-> "idle"]
    /\ elapsed = [p \in Calls |-> 0]
    /\ requestAge = [p \in Calls |-> 0]
    /\ heartbeatAge = [p \in Calls |-> 0]
    /\ lockLost = [p \in Calls |-> FALSE]
    /\ leaseAge = [p \in Calls |-> 0]
    /\ arrival = [p \in Calls |-> 0]
    /\ cancelled = {}

Goto(p, step) == pc' = [pc EXCEPT ![p] = step]

\* A call leaves acquire_lease: its waiting clocks no longer matter.
Leave(p, step) ==
    /\ Goto(p, step)
    /\ elapsed' = [elapsed EXCEPT ![p] = 0]
    /\ requestAge' = [requestAge EXCEPT ![p] = 0]

(* acquire_lease: ensure_available pings Redis before anything else. *)
Begin(p) ==
    /\ pc[p] = "idle"
    /\ \/ Goto(p, "enqueue")
       \/ Faults # {} /\ Goto(p, "unavailable")
    /\ UNCHANGED <<redisVars, waitVars, leaseVars, historyVars>>

(* The ENQUEUE script. *)
EnqueueScript(p) ==
    /\ sequence' = sequence + 1
    /\ request' = [request EXCEPT
           ![p] = [ttl |-> RequestTTL, waited |-> 0, seq |-> sequence + 1]]
    /\ queue' = queue \cup {p}
    /\ arrival' = [arrival EXCEPT ![p] = IF @ = 0 THEN sequence + 1 ELSE @]

\* acquire_lease enqueues once before its loop, and again inside the loop when
\* the wait heartbeat finds that the request key is gone.
Enqueue(p) ==
    /\ pc[p] \in {"enqueue", "requeue"}
    /\ \E o \in Outcome :
          /\ IF Ran(o)
             THEN EnqueueScript(p)
             ELSE UNCHANGED <<sequence, request, queue, arrival>>
          /\ IF o # "ok" THEN Leave(p, "unavailable")
             ELSE /\ Goto(p, IF pc[p] = "enqueue" THEN "try" ELSE "sleep")
                  /\ UNCHANGED waitVars
    /\ UNCHANGED <<lock, owner, leaseVars, cancelled>>

\* What the loop does after TRY_ACQUIRE has answered 0.
AfterPollNoTimeout(p) ==
    IF requestAge[p] >= RequestHeartbeat THEN "heartbeat" ELSE "sleep"
AfterPoll(p) ==
    IF elapsed[p] >= WaitTimeout THEN "timeout"
    ELSE IF requestAge[p] >= RequestHeartbeat THEN "heartbeat"
    ELSE "sleep"

\* The members whose request key is gone are removed from the queue, whatever
\* TRY_ACQUIRE then answers.
Orphans == {q \in queue : request[q].ttl = 0}

AcquireScriptNoZrem(p) ==
    /\ lock' = [token |-> p, ttl |-> LockTTL]
    /\ owner' = [token |-> p, ttl |-> LockTTL]
    /\ queue' = queue \ Orphans
    /\ request' = [request EXCEPT ![p] = NoRequest]
AcquireScript(p) ==
    /\ lock' = [token |-> p, ttl |-> LockTTL]
    /\ owner' = [token |-> p, ttl |-> LockTTL]
    /\ queue' = (queue \ Orphans) \ {p}
    /\ request' = [request EXCEPT ![p] = NoRequest]

(* TRY_ACQUIRE answers 1: the caller is next and the lock key is absent. *)
TryAcquire(p) ==
    /\ pc[p] = "try"
    /\ IsNext(p)
    /\ LockFree
    /\ \E o \in Outcome :
          /\ IF Ran(o)
             THEN AcquireScript(p)
             ELSE UNCHANGED <<lock, owner, queue, request>>
          /\ Leave(p, IF o = "ok" THEN "granted" ELSE "unavailable")
    /\ UNCHANGED <<sequence, leaseVars, arrival, cancelled>>

(* TRY_ACQUIRE answers 0 (not_next or locked). *)
TryWait(p) ==
    /\ pc[p] = "try"
    /\ Live(p)
    /\ ~(IsNext(p) /\ LockFree)
    /\ \E o \in Outcome :
          /\ queue' = IF Ran(o) THEN queue \ Orphans ELSE queue
          /\ IF o # "ok" THEN Leave(p, "unavailable")
             ELSE /\ Goto(p, AfterPoll(p))
                  /\ requestAge' = [requestAge EXCEPT
                         ![p] = IF AfterPoll(p) = "heartbeat" THEN 0 ELSE @]
                  /\ UNCHANGED elapsed
    /\ UNCHANGED <<lock, owner, request, sequence, leaseVars, historyVars>>

(* TRY_ACQUIRE answers -1 (not_queued): GPURequestCancelled is raised. *)
TryGone(p) ==
    /\ pc[p] = "try"
    /\ ~Live(p)
    /\ \E o \in Outcome :
          /\ queue' = IF Ran(o) THEN queue \ Orphans ELSE queue
          /\ Leave(p, IF o = "ok" THEN "cancelled" ELSE "unavailable")
    /\ UNCHANGED <<lock, owner, request, sequence, leaseVars, historyVars>>

(* The WAIT_HEARTBEAT script: it extends the request key if there is one. *)
WaitHeartbeatScriptNoExpire(p) == UNCHANGED request
WaitHeartbeatScript(p) ==
    request' = IF request[p].ttl > 0
               THEN [request EXCEPT ![p].ttl = RequestTTL]
               ELSE request

WaitHeartbeat(p) ==
    /\ pc[p] = "heartbeat"
    /\ \E o \in Outcome :
          /\ IF Ran(o) THEN WaitHeartbeatScript(p) ELSE UNCHANGED request
          /\ IF o # "ok" THEN Leave(p, "unavailable")
             ELSE /\ Goto(p, IF request[p].ttl > 0 THEN "sleep" ELSE "requeue")
                  /\ UNCHANGED waitVars
    /\ UNCHANGED <<lock, owner, queue, sequence, leaseVars, historyVars>>

CancelScript(p) ==
    /\ queue' = queue \ {p}
    /\ request' = [request EXCEPT ![p] = NoRequest]

(* _on_timeout: the request is removed at best effort, then the call fails. *)
TimeOut(p) ==
    /\ pc[p] = "timeout"
    /\ \E o \in Outcome :
          IF Ran(o) THEN CancelScript(p) ELSE UNCHANGED <<queue, request>>
    /\ Leave(p, "timed_out")
    /\ UNCHANGED <<lock, owner, sequence, leaseVars, historyVars>>

(* The lock is taken; the queue is read for the metrics, and only then does  *)
(* the lease exist.  When that read fails nobody releases the lock.          *)
StartLease(p) ==
    /\ pc[p] = "granted"
    /\ \/ Goto(p, "holding")
       \/ Faults # {} /\ Goto(p, "unavailable")
    /\ UNCHANGED <<redisVars, waitVars, leaseVars, historyVars>>

-----------------------------------------------------------------------------
(* The lease *)

HeartbeatDue(p) ==
    pc[p] \in Leased /\ ~lockLost[p] /\ heartbeatAge[p] >= Heartbeat

\* In a punctual system a renewal fails only if the next one is still in time.
MayFail(p) == Punctual => leaseAge[p] + Heartbeat < LockTTL

RenewScriptOwnerOnly(p) ==
    /\ owner' = IF lock.token = p THEN [token |-> p, ttl |-> LockTTL] ELSE owner
    /\ UNCHANGED lock
RenewScriptNoToken(p) ==
    /\ lock' = [lock EXCEPT !.ttl = LockTTL]
    /\ owner' = [owner EXCEPT !.ttl = LockTTL]
RenewScript(p) ==
    IF lock.token = p
    THEN /\ lock' = [lock EXCEPT !.ttl = LockTTL]
         /\ owner' = [token |-> p, ttl |-> LockTTL]
    ELSE UNCHANGED <<lock, owner>>

(* One cycle of _heartbeat_loop.  A backend failure is retried one interval  *)
(* later; the answer 0 marks the lease lost and ends the thread.  A cycle    *)
(* that was due when release() began may still run before the join returns.  *)
Renew(p) ==
    /\ HeartbeatDue(p)
    /\ \E o \in Outcome :
          /\ o # "ok" => MayFail(p)
          /\ IF Ran(o) THEN RenewScript(p) ELSE UNCHANGED <<lock, owner>>
          /\ heartbeatAge' = [heartbeatAge EXCEPT ![p] = 0]
          /\ lockLost' = [lockLost EXCEPT ![p] = o = "ok" /\ lock.token # p]
          /\ leaseAge' = [leaseAge EXCEPT
                 ![p] = IF o = "ok" /\ lock.token = p THEN 0 ELSE @]
    /\ UNCHANGED <<queue, request, sequence, pc, waitVars, historyVars>>

(* release() begins: the lease is invalid from here on, the thread stops. *)
BeginRelease(p) ==
    /\ pc[p] = "holding"
    /\ Goto(p, "joining")
    /\ UNCHANGED <<redisVars, waitVars, leaseVars, historyVars>>

ReleaseScriptNoToken(p) == lock' = Expired /\ owner' = Expired
ReleaseScript(p) ==
    IF lock.token = p
    THEN /\ lock' = Expired
         /\ owner' = IF owner.token = p THEN Expired ELSE owner
    ELSE UNCHANGED <<lock, owner>>

(* release() after the join: nothing is sent when the lock was lost. *)
FinishRelease(p) ==
    /\ pc[p] = "joining"
    /\ IF lockLost[p]
       THEN Goto(p, "released") /\ UNCHANGED <<lock, owner>>
       ELSE \E o \in Outcome :
               /\ IF Ran(o) THEN ReleaseScript(p) ELSE UNCHANGED <<lock, owner>>
               /\ Goto(p, IF o = "ok" THEN "released" ELSE "release_error")
    /\ heartbeatAge' = [heartbeatAge EXCEPT ![p] = 0]
    /\ leaseAge' = [leaseAge EXCEPT ![p] = 0]
    /\ UNCHANGED <<queue, request, sequence, waitVars, lockLost, historyVars>>

-----------------------------------------------------------------------------
(* The administrator, failures and time *)

(* cancel_request from another process; it never touches the lock. *)
CancelRequest(p) ==
    /\ p \in Cancellable
    /\ p \in queue \/ request[p].ttl > 0
    /\ CancelScript(p)
    /\ cancelled' = cancelled \cup {p}
    /\ UNCHANGED <<lock, owner, sequence, pc, waitVars, leaseVars, arrival>>

(* kill -9 of the process: its heartbeat thread dies with it. *)
Crash(p) ==
    /\ Faults # {}
    /\ pc[p] \notin Over \cup {"idle"}
    /\ Leave(p, "crashed")
    /\ heartbeatAge' = [heartbeatAge EXCEPT ![p] = 0]
    /\ leaseAge' = [leaseAge EXCEPT ![p] = 0]
    /\ UNCHANGED <<redisVars, lockLost, historyVars>>

Quiet ==
    \A p \in Calls :
       pc[p] \in Resting /\ ~(pc[p] = "holding" /\ HeartbeatDue(p))

\* A TTL that runs out removes the key.
Older(key) == IF key.ttl <= 1 THEN Expired ELSE [key EXCEPT !.ttl = @ - 1]
OlderRequest(r) ==
    IF r.ttl <= 1 THEN NoRequest
    ELSE [ttl |-> r.ttl - 1, waited |-> Smaller(r.waited + 1, WaitCap),
          seq |-> r.seq]

(* One polling interval passes; the calls that sleep wake up. *)
Tick ==
    /\ Punctual => Quiet
    /\ lock' = Older(lock)
    /\ owner' = Older(owner)
    /\ request' = [p \in Calls |-> OlderRequest(request[p])]
    /\ pc' = [p \in Calls |-> IF pc[p] = "sleep" THEN "try" ELSE pc[p]]
    /\ elapsed' = [p \in Calls |->
           IF pc[p] \in Waiting THEN Smaller(elapsed[p] + 1, WaitTimeout) ELSE 0]
    /\ requestAge' = [p \in Calls |->
           IF pc[p] \in Waiting
           THEN Smaller(requestAge[p] + 1, RequestHeartbeat) ELSE 0]
    /\ heartbeatAge' = [p \in Calls |->
           IF pc[p] = "holding" THEN Smaller(heartbeatAge[p] + 1, Heartbeat)
                                ELSE heartbeatAge[p]]
    /\ leaseAge' = [p \in Calls |->
           IF pc[p] \in Leased THEN Smaller(leaseAge[p] + 1, LockTTL) ELSE 0]
    /\ UNCHANGED <<queue, sequence, lockLost, arrival, cancelled>>

-----------------------------------------------------------------------------
Step(p) ==
    \/ Begin(p) \/ Enqueue(p) \/ TryAcquire(p) \/ TryWait(p) \/ TryGone(p)
    \/ WaitHeartbeat(p) \/ TimeOut(p) \/ StartLease(p) \/ Renew(p)
    \/ FinishRelease(p)

Next ==
    \/ \E p \in Calls :
          Step(p) \/ BeginRelease(p) \/ CancelRequest(p) \/ Crash(p)
    \/ Tick

Spec == Init /\ [][Next]_vars

(* A process that is up keeps running its polling loop, its heartbeat and a  *)
(* release it has begun, and time passes.  Nothing forces the holder of a    *)
(* lease to release it.                                                      *)
Fairness ==
    /\ WF_vars(Tick)
    /\ \A p \in Calls : WF_vars(Step(p))

FairSpec == Spec /\ Fairness
-----------------------------------------------------------------------------
(* Properties of every execution, punctual or not *)

Key(TTL) == {k \in [token : Calls \cup {NoCall}, ttl : 0 .. TTL] :
                k.ttl = 0 <=> k.token = NoCall}
PC == {"idle", "enqueue", "granted"} \cup Waiting \cup Leased \cup Over

\* Type invariant: keys exist exactly while their TTL runs, clocks stay within
\* the intervals they are compared with.
TypeOK ==
    /\ lock \in Key(LockTTL)
    /\ owner \in Key(LockTTL)
    /\ queue \subseteq Calls
    /\ request \in [Calls ->
           [ttl : 0 .. RequestTTL, waited : 0 .. WaitCap, seq : Nat]]
    /\ sequence \in Nat
    /\ pc \in [Calls -> PC]
    /\ elapsed \in [Calls -> 0 .. WaitTimeout]
    /\ requestAge \in [Calls -> 0 .. RequestHeartbeat]
    /\ heartbeatAge \in [Calls -> 0 .. Heartbeat]
    /\ lockLost \in [Calls -> BOOLEAN]
    /\ leaseAge \in [Calls -> 0 .. LockTTL]
    /\ arrival \in [Calls -> Nat]
    /\ cancelled \subseteq Calls

\* The owner key that status and the CLI report always names the token of the
\* lock key and expires with it, although six scripts write one or the other.
OwnerMirrorsLock == owner = lock

\* Whoever holds the lock key no longer waits: its request is gone from the
\* queue and its call cannot enqueue again, so no call ever competes with
\* itself, even when the reply to TRY_ACQUIRE was lost.
HolderLeftQueue ==
    \A p \in Calls :
       lock.token = p => /\ p \notin queue /\ request[p].ttl = 0
                         /\ pc[p] \notin Waiting \cup {"idle", "enqueue"}

\* Nobody takes the lock from its holder: the key changes only when its TTL
\* runs out or in its own holder's release, and the holder's next state never
\* goes straight to another token (scripts RELEASE and RENEW check the token,
\* CANCEL never touches the lock, TRY_ACQUIRE needs an absent key).
LockTaken(p) == lock.token = p /\ lock'.token # p
TokenSafety ==
    [][\A p \in Calls : LockTaken(p) =>
          /\ lock'.token = NoCall
          /\ \/ lock.ttl = 1 /\ sequence' = sequence /\ UNCHANGED <<queue, cancelled>>
             \/ pc[p] = "joining" /\ pc'[p] \in {"released", "release_error"}]_vars

-----------------------------------------------------------------------------
(* Properties of a punctual system *)

\* Mutual exclusion as the consumer sees it: a lease that ensure_valid accepts
\* holds the lock key, hence there is at most one such lease, even when
\* renewals fail for a while, requests or replies are lost and processes die.
ExclusiveLease == \A p \in Calls : Valid(p) => lock.token = p

Granted(q) == lock.token # q /\ lock'.token = q
StillWaits(p) == pc[p] \in Waiting /\ p \notin cancelled

\* First come, first served: a call that arrived earlier with at least as good
\* a priority is never overtaken while its process keeps waiting (the wait
\* heartbeat keeps its request alive and aging never favours the newcomer).
FirstComeFirstServed ==
    [][\A p, q \in Calls :
          (Granted(q) /\ p # q /\ StillWaits(p) /\ Base(p) <= Base(q))
             => arrival[q] < arrival[p]]_vars

\* The request has waited long enough for aging to take it to the floor.
AgedOut(p) ==
    /\ AgingEnabled
    /\ Base(p) - (request[p].waited \div AgingInterval) * AgingStep
          <= MinEffective

\* Aging ends starvation: once a waiting request has aged to the floor of the
\* effective priority, no later arrival overtakes it, whatever its priority.
AgingEndsOvertaking ==
    [][\A p, q \in Calls :
          (Granted(q) /\ p # q /\ StillWaits(p) /\ AgedOut(p))
             => arrival[q] < arrival[p]]_vars

\* Polling keeps the place in the queue: the request of a process that waits
\* never expires between two wait heartbeats, so the process is never told that
\* it was cancelled, nor re-enqueued at the end, unless somebody cancelled it.
PollingKeepsPlace == \A p \in Calls : StillWaits(p) => Live(p)

\* The manager implements the lease service: seen through ensure_valid, a call
\* enters its lease at most once, alone, and leaves it for good when it is
\* released, lost or its process dies.
Stage ==
    [p \in Calls |->
        IF Valid(p) THEN "inside"
        ELSE IF pc[p] \in {"idle", "enqueue", "granted"} \cup Waiting
        THEN "before" ELSE "past"]
Service == INSTANCE LeaseService WITH stage <- Stage
ImplementsLeaseService == Service!Spec

-----------------------------------------------------------------------------
(* Liveness *)

\* Waiting is bounded: every call of acquire_lease gets its lease or raises,
\* even if the holder of the lock never releases it and keeps renewing it;
\* re-enqueueing cannot keep a call waiting beyond its timeout.
WaitEnds == \A p \in Calls : pc[p] = "enqueue" ~> pc[p] \in {"holding"} \cup Over

\* The lock is recovered: once its holder is no longer inside a lease (a lost
\* reply to TRY_ACQUIRE, a failed release, kill -9) the lock key goes away.
LockRecovered ==
    \A p \in Calls :
       (lock.token = p /\ pc[p] \notin {"granted", "holding"})
          ~> lock.token # p

=============================================================================
