-------------------------- MODULE GpuManager_proofs --------------------------
(***************************************************************************)
(* Proofs about GpuManager, for any calls, priorities and TTLs.            *)
(***************************************************************************)
EXTENDS GpuManager, TLAPS

-----------------------------------------------------------------------------
(* Type correctness *)

\* The named groups of program counter values are values of pc.
LEMMA PCValues ==
    /\ Waiting \subseteq PC /\ Leased \subseteq PC /\ Over \subseteq PC
    /\ {"idle", "enqueue", "granted"} \subseteq PC
BY DEF PC, Waiting, Leased, Over

\* A call that leaves acquire_lease keeps its program counter and its waiting
\* clocks in their types.
LEMMA LeaveType ==
    ASSUME TypeOK, NEW p \in Calls, NEW step \in PC, Leave(p, step)
    PROVE  /\ pc' \in [Calls -> PC]
           /\ elapsed' \in [Calls -> 0 .. WaitTimeout]
           /\ requestAge' \in [Calls -> 0 .. RequestHeartbeat]
BY ConfigAssumption DEF TypeOK, Leave, Goto

\* Moving a call to another step of acquire_lease or release keeps pc in its type.
LEMMA GotoType ==
    ASSUME TypeOK, NEW p \in Calls, NEW step \in PC, Goto(p, step)
    PROVE  pc' \in [Calls -> PC]
BY DEF TypeOK, Goto

\* A key that gets older is still a key: absent exactly when its TTL has run out.
LEMMA OlderKey ==
    ASSUME NEW T \in Nat, NEW k \in Key(T)
    PROVE  Older(k) \in Key(T)
BY CallsAssumption DEF Key, Older, Expired

Request == [ttl : 0 .. RequestTTL, waited : 0 .. WaitCap, seq : Nat]

\* A request key that gets older is still a request, or the record of no request.
LEMMA OlderRequestType ==
    ASSUME NEW r \in Request
    PROVE  OlderRequest(r) \in Request
BY ConfigAssumption DEF Request, OlderRequest, NoRequest, Smaller

\* The PEXPIRE of WAIT_HEARTBEAT keeps a request key a request.
LEMMA RenewedRequestType ==
    ASSUME NEW r \in Request
    PROVE  [r EXCEPT !.ttl = RequestTTL] \in Request
BY ConfigAssumption DEF Request

\* Type correctness: keys exist exactly while their TTL runs, and every clock
\* of a call stays within the interval it is compared with.
THEOREM TypeCorrect == Spec => []TypeOK
<1>1. Init => TypeOK
  BY CallsAssumption, ConfigAssumption
  DEF Init, TypeOK, Key, Expired, NoRequest, PC
<1>2. TypeOK /\ [Next]_vars => TypeOK'
  <2> SUFFICES ASSUME TypeOK, [Next]_vars PROVE TypeOK'
    OBVIOUS
  <2> USE CallsAssumption, ConfigAssumption DEF TypeOK
  <2>1. ASSUME NEW p \in Calls, Begin(p) PROVE TypeOK'
    BY <2>1, PCValues DEF Begin, Goto, redisVars, waitVars, leaseVars, historyVars, Over
  <2>2. ASSUME NEW p \in Calls, Enqueue(p) PROVE TypeOK'
    <3>1. request' \in [Calls -> Request]
      BY <2>2 DEF Enqueue, EnqueueScript, Request
    <3>2. sequence' \in Nat /\ queue' \subseteq Calls /\ arrival' \in [Calls -> Nat]
      BY <2>2 DEF Enqueue, EnqueueScript
    <3>3. /\ pc' \in [Calls -> PC]
          /\ elapsed' \in [Calls -> 0 .. WaitTimeout]
          /\ requestAge' \in [Calls -> 0 .. RequestHeartbeat]
      <4>1. {"unavailable", "try", "sleep"} \subseteq PC
        BY DEF PC, Over, Waiting
      <4>2. \/ Leave(p, "unavailable")
            \/ (Goto(p, "try") \/ Goto(p, "sleep")) /\ UNCHANGED waitVars
        BY <2>2 DEF Enqueue
      <4>3. QED
        BY <4>1, <4>2, LeaveType, GotoType DEF waitVars
    <3>4. UNCHANGED <<lock, owner, leaseVars, cancelled>>
      BY <2>2 DEF Enqueue
    <3>5. QED
      BY <3>1, <3>2, <3>3, <3>4 DEF leaseVars, Request
  <2>3. ASSUME NEW p \in Calls, TryAcquire(p) PROVE TypeOK'
    <3>1. /\ pc' \in [Calls -> PC]
          /\ elapsed' \in [Calls -> 0 .. WaitTimeout]
          /\ requestAge' \in [Calls -> 0 .. RequestHeartbeat]
      <4>1. {"granted", "unavailable"} \subseteq PC
        BY PCValues DEF Over
      <4>2. Leave(p, "granted") \/ Leave(p, "unavailable")
        BY <2>3 DEF TryAcquire
      <4>3. QED
        BY <4>1, <4>2, LeaveType
    <3>2. request' \in [Calls -> Request]
      BY <2>3 DEF TryAcquire, AcquireScript, NoRequest, Request
    <3>3. lock' \in Key(LockTTL) /\ owner' \in Key(LockTTL) /\ queue' \subseteq Calls
      BY <2>3 DEF TryAcquire, AcquireScript, Key
    <3>4. QED
      BY <2>3, <3>1, <3>2, <3>3 DEF TryAcquire, leaseVars, Request
  <2>4. ASSUME NEW p \in Calls, TryWait(p) PROVE TypeOK'
    <3>1. AfterPoll(p) \in PC
      BY DEF AfterPoll, PC, Waiting
    <3>2. PICK o \in Outcome :
              /\ queue' = IF Ran(o) THEN queue \ Orphans ELSE queue
              /\ IF o # "ok" THEN Leave(p, "unavailable")
                 ELSE /\ Goto(p, AfterPoll(p))
                      /\ requestAge' = [requestAge EXCEPT
                             ![p] = IF AfterPoll(p) = "heartbeat" THEN 0 ELSE @]
                      /\ UNCHANGED elapsed
      BY <2>4 DEF TryWait
    <3>3. CASE o = "ok"
      <4>1. pc' \in [Calls -> PC]
        BY <3>1, <3>2, <3>3, GotoType
      <4>2. requestAge' \in [Calls -> 0 .. RequestHeartbeat]
        BY <3>2, <3>3
      <4>3. QED
        BY <2>4, <3>2, <3>3, <4>1, <4>2 DEF TryWait, leaseVars, historyVars
    <3>4. CASE o # "ok"
      BY <2>4, <3>2, <3>4, LeaveType, PCValues DEF TryWait, leaseVars, historyVars, Over
    <3>5. QED
      BY <3>3, <3>4
  <2>5. ASSUME NEW p \in Calls, TryGone(p) PROVE TypeOK'
    BY <2>5, PCValues DEF TryGone, Goto, Leave, leaseVars, historyVars, Over, Orphans
  <2>6. ASSUME NEW p \in Calls, WaitHeartbeat(p) PROVE TypeOK'
    <3>1. request' \in [Calls -> Request]
      <4>1. request \in [Calls -> Request] /\ request[p] \in Request
        BY DEF Request
      <4>2. \/ request' = request
            \/ request' = [request EXCEPT ![p] = [request[p] EXCEPT !.ttl = RequestTTL]]
        BY <2>6 DEF WaitHeartbeat, WaitHeartbeatScript
      <4>3. QED
        BY <4>1, <4>2, RenewedRequestType
    <3>2. /\ pc' \in [Calls -> PC]
          /\ elapsed' \in [Calls -> 0 .. WaitTimeout]
          /\ requestAge' \in [Calls -> 0 .. RequestHeartbeat]
      BY <2>6, LeaveType, GotoType DEF WaitHeartbeat, waitVars, PC, Over, Waiting
    <3>3. QED
      BY <2>6, <3>1, <3>2 DEF WaitHeartbeat, leaseVars, historyVars, Request
  <2>7. ASSUME NEW p \in Calls, TimeOut(p) PROVE TypeOK'
    <3>1. request' \in [Calls -> Request]
      BY <2>7 DEF TimeOut, CancelScript, NoRequest, Request
    <3>2. queue' \subseteq Calls
      BY <2>7 DEF TimeOut, CancelScript
    <3>3. QED
      BY <2>7, <3>1, <3>2, LeaveType, PCValues DEF TimeOut, leaseVars, historyVars, Over, Request
  <2>8. ASSUME NEW p \in Calls, StartLease(p) PROVE TypeOK'
    BY <2>8, PCValues
    DEF StartLease, Goto, redisVars, waitVars, leaseVars, historyVars, Over, Leased
  <2>9. ASSUME NEW p \in Calls, Renew(p) PROVE TypeOK'
    BY <2>9 DEF Renew, RenewScript, waitVars, historyVars, Key
  <2>10. ASSUME NEW p \in Calls, FinishRelease(p) PROVE TypeOK'
    BY <2>10, PCValues
    DEF FinishRelease, ReleaseScript, Goto, waitVars, historyVars, Over, Key, Expired
  <2>11. ASSUME NEW p \in Calls, BeginRelease(p) PROVE TypeOK'
    BY <2>11, PCValues DEF BeginRelease, Goto, redisVars, waitVars, leaseVars, historyVars, Leased
  <2>12. ASSUME NEW p \in Calls, CancelRequest(p) PROVE TypeOK'
    BY <2>12 DEF CancelRequest, CancelScript, NoRequest, waitVars, leaseVars
  <2>13. ASSUME NEW p \in Calls, Crash(p) PROVE TypeOK'
    BY <2>13, PCValues DEF Crash, Goto, Leave, redisVars, historyVars, Over
  <2>14. CASE Tick
    <3>1. lock' \in Key(LockTTL) /\ owner' \in Key(LockTTL)
      BY <2>14, OlderKey DEF Tick
    <3>2. request' \in [Calls -> Request]
      BY <2>14, OlderRequestType DEF Tick, Request
    <3>3. pc' \in [Calls -> PC]
      BY <2>14, PCValues DEF Tick, Waiting
    <3>4. /\ elapsed' \in [Calls -> 0 .. WaitTimeout]
          /\ requestAge' \in [Calls -> 0 .. RequestHeartbeat]
          /\ heartbeatAge' \in [Calls -> 0 .. Heartbeat]
          /\ leaseAge' \in [Calls -> 0 .. LockTTL]
      BY <2>14 DEF Tick, Smaller
    <3>5. QED
      BY <2>14, <3>1, <3>2, <3>3, <3>4 DEF Tick, Request
  <2>15. CASE UNCHANGED vars
    BY <2>15 DEF vars, redisVars, waitVars, leaseVars, historyVars
  <2>16. QED
    BY <2>1, <2>2, <2>3, <2>4, <2>5, <2>6, <2>7, <2>8, <2>9, <2>10, <2>11,
       <2>12, <2>13, <2>14, <2>15 DEF Next, Step
<1>3. QED
  BY <1>1, <1>2, PTL DEF Spec

-----------------------------------------------------------------------------
(* Who writes the lock key *)

\* Every action but these four leaves the lock and owner keys alone.
LEMMA LockWriters ==
    ASSUME [Next]_vars
    PROVE  \/ UNCHANGED <<lock, owner>>
           \/ \E p \in Calls : TryAcquire(p) \/ Renew(p) \/ FinishRelease(p)
           \/ Tick
BY DEF Next, Step, vars, redisVars, Begin, Enqueue, TryWait, TryGone,
       WaitHeartbeat, TimeOut, StartLease, BeginRelease, CancelRequest, Crash

\* The owner key always names the token of the lock key and expires with it.
THEOREM OwnerMirrors == Spec => []OwnerMirrorsLock
<1>1. Init => OwnerMirrorsLock
  BY DEF Init, OwnerMirrorsLock
<1>2. TypeOK /\ OwnerMirrorsLock /\ [Next]_vars => OwnerMirrorsLock'
  <2> SUFFICES ASSUME TypeOK, OwnerMirrorsLock, [Next]_vars
               PROVE  OwnerMirrorsLock'
    OBVIOUS
  <2>1. ASSUME NEW p \in Calls, TryAcquire(p) PROVE OwnerMirrorsLock'
    BY <2>1 DEF TryAcquire, AcquireScript, OwnerMirrorsLock
  <2>2. ASSUME NEW p \in Calls, Renew(p) PROVE OwnerMirrorsLock'
    <3>1. lock.token = p => [lock EXCEPT !.ttl = LockTTL] = [token |-> p, ttl |-> LockTTL]
      BY DEF TypeOK, Key
    <3>2. QED
      BY <2>2, <3>1 DEF Renew, RenewScript, OwnerMirrorsLock
  <2>3. ASSUME NEW p \in Calls, FinishRelease(p) PROVE OwnerMirrorsLock'
    BY <2>3 DEF FinishRelease, ReleaseScript, OwnerMirrorsLock
  <2>4. CASE Tick
    BY <2>4 DEF Tick, OwnerMirrorsLock
  <2>5. CASE UNCHANGED <<lock, owner>>
    BY <2>5 DEF OwnerMirrorsLock
  <2>6. QED
    BY <2>1, <2>2, <2>3, <2>4, <2>5, LockWriters
<1>3. QED
  BY <1>1, <1>2, TypeCorrect, PTL DEF Spec

-----------------------------------------------------------------------------
(* Nobody takes the lock from its holder *)

\* A step that takes the lock key from its holder is a Tick at which its TTL
\* runs out or the holder's own release.
LEMMA LockTakenHow ==
    ASSUME TypeOK, [Next]_vars, NEW p \in Calls, LockTaken(p)
    PROVE  /\ lock'.token = NoCall
           /\ \/ lock.ttl = 1 /\ Tick
              \/ FinishRelease(p)
<1> USE CallsAssumption DEF LockTaken
<1>1. ASSUME NEW q \in Calls, TryAcquire(q) PROVE FALSE
  BY <1>1 DEF TryAcquire, LockFree
<1>2. ASSUME NEW q \in Calls, Renew(q) PROVE FALSE
  BY <1>2 DEF Renew, RenewScript, TypeOK, Key
<1>3. ASSUME NEW q \in Calls, FinishRelease(q)
      PROVE  lock'.token = NoCall /\ FinishRelease(p)
  <2>1. lock.token = q /\ lock' = Expired
    BY <1>3 DEF FinishRelease, ReleaseScript
  <2>2. QED
    BY <1>3, <2>1 DEF Expired
<1>4. CASE Tick
  <2>1. lock' = Older(lock) /\ lock \in Key(LockTTL)
    BY <1>4 DEF Tick, TypeOK
  <2>2. lock.ttl <= 1
    BY <2>1 DEF Older, Key
  <2>3. lock.ttl = 1 /\ lock' = Expired
    BY <2>1, <2>2 DEF Older, Key
  <2>4. QED
    BY <1>4, <2>3 DEF Expired
<1>5. CASE UNCHANGED <<lock, owner>>
  BY <1>5
<1>6. QED
  BY <1>1, <1>2, <1>3, <1>4, <1>5, LockWriters

\* Token safety: the lock key changes hands only through expiry or through its
\* own holder's release, never directly from one token to another.
THEOREM TokenSafetyHolds == Spec => TokenSafety
<1>1. ASSUME TypeOK, [Next]_vars, NEW p \in Calls, LockTaken(p)
      PROVE  /\ lock'.token = NoCall
             /\ \/ lock.ttl = 1 /\ sequence' = sequence /\ UNCHANGED <<queue, cancelled>>
                \/ pc[p] = "joining" /\ pc'[p] \in {"released", "release_error"}
  <2>1. lock'.token = NoCall
    BY <1>1, LockTakenHow
  <2>2. CASE lock.ttl = 1 /\ Tick
    BY <2>1, <2>2 DEF Tick
  <2>3. CASE FinishRelease(p)
    BY <1>1, <2>1, <2>3 DEF FinishRelease, Goto, TypeOK
  <2>4. QED
    BY <1>1, <2>2, <2>3, LockTakenHow
<1>2. TypeOK /\ [Next]_vars =>
        [\A p \in Calls : LockTaken(p) =>
          /\ lock'.token = NoCall
          /\ \/ lock.ttl = 1 /\ sequence' = sequence /\ UNCHANGED <<queue, cancelled>>
             \/ pc[p] = "joining" /\ pc'[p] \in {"released", "release_error"}]_vars
  BY <1>1
<1>3. QED
  BY <1>2, TypeCorrect, PTL DEF Spec, TokenSafety

-----------------------------------------------------------------------------
(* The holder of the lock does not wait *)

\* Whoever holds the lock key has left the queue for good.
THEOREM HolderLeft == Spec => []HolderLeftQueue
<1>1. Init => HolderLeftQueue
  BY CallsAssumption DEF Init, HolderLeftQueue, Expired
<1>2. TypeOK /\ HolderLeftQueue /\ [Next]_vars => HolderLeftQueue'
  <2> SUFFICES ASSUME TypeOK, HolderLeftQueue, [Next]_vars,
                      NEW p \in Calls, lock'.token = p
               PROVE  /\ p \notin queue' /\ request'[p].ttl = 0
                      /\ pc'[p] \notin Waiting \cup {"idle", "enqueue"}
    BY DEF HolderLeftQueue
  <2>1. CASE lock.token # p
    <3>1. TryAcquire(p)
      <4>1. ASSUME NEW q \in Calls, q # p PROVE ~TryAcquire(q)
        BY <2>1, <4>1 DEF TryAcquire, AcquireScript
      <4>2. ASSUME NEW q \in Calls PROVE ~Renew(q) /\ ~FinishRelease(q)
        BY <2>1, CallsAssumption
        DEF Renew, RenewScript, FinishRelease, ReleaseScript, Expired, TypeOK, Key
      <4>3. ~Tick
        BY <2>1, CallsAssumption DEF Tick, Older, Expired, TypeOK, Key
      <4>4. lock' # lock
        BY <2>1
      <4>5. QED
        BY <4>1, <4>2, <4>3, <4>4, LockWriters
    <3>2. QED
      BY <2>1, <3>1 DEF TryAcquire, AcquireScript, Leave, Goto, NoRequest, TypeOK, Waiting
  <2>2. CASE lock.token = p
    <3>1. /\ p \notin queue /\ request[p].ttl = 0
          /\ pc[p] \notin Waiting \cup {"idle", "enqueue"}
      BY <2>2 DEF HolderLeftQueue
    <3> USE DEF TypeOK, Goto, Leave
    <3>2. ASSUME NEW q \in Calls, Begin(q) \/ StartLease(q) \/ BeginRelease(q)
          PROVE  /\ p \notin queue' /\ request'[p].ttl = 0
                 /\ pc'[p] \notin Waiting \cup {"idle", "enqueue"}
      BY <3>1, <3>2 DEF Begin, StartLease, BeginRelease, redisVars, Waiting
    <3>3. ASSUME NEW q \in Calls, Enqueue(q)
          PROVE  /\ p \notin queue' /\ request'[p].ttl = 0
                 /\ pc'[p] \notin Waiting \cup {"idle", "enqueue"}
      BY <3>1, <3>3 DEF Enqueue, EnqueueScript, Waiting
    <3>4. ASSUME NEW q \in Calls, TryAcquire(q) \/ TryWait(q) \/ TryGone(q)
          PROVE  /\ p \notin queue' /\ request'[p].ttl = 0
                 /\ pc'[p] \notin Waiting \cup {"idle", "enqueue"}
      BY <3>1, <3>4 DEF TryAcquire, AcquireScript, TryWait, TryGone, Waiting
    <3>5. ASSUME NEW q \in Calls, WaitHeartbeat(q) \/ TimeOut(q)
          PROVE  /\ p \notin queue' /\ request'[p].ttl = 0
                 /\ pc'[p] \notin Waiting \cup {"idle", "enqueue"}
      <4>1. q # p /\ pc'[p] = pc[p]
        BY <3>1, <3>5 DEF WaitHeartbeat, TimeOut, Waiting
      <4>2. queue' \subseteq queue
        BY <3>5 DEF WaitHeartbeat, TimeOut, CancelScript
      <4>3. request'[p] = request[p]
        BY <3>5, <4>1 DEF WaitHeartbeat, WaitHeartbeatScript, TimeOut, CancelScript
      <4>4. QED
        BY <3>1, <4>1, <4>2, <4>3
    <3>6. ASSUME NEW q \in Calls, Renew(q) \/ FinishRelease(q) \/ Crash(q)
          PROVE  /\ p \notin queue' /\ request'[p].ttl = 0
                 /\ pc'[p] \notin Waiting \cup {"idle", "enqueue"}
      BY <3>1, <3>6 DEF Renew, FinishRelease, Crash, redisVars, Waiting
    <3>7. ASSUME NEW q \in Calls, CancelRequest(q)
          PROVE  /\ p \notin queue' /\ request'[p].ttl = 0
                 /\ pc'[p] \notin Waiting \cup {"idle", "enqueue"}
      BY <3>1, <3>7 DEF CancelRequest, CancelScript, NoRequest
    <3>8. CASE Tick
      BY <3>1, <3>8 DEF Tick, OlderRequest, NoRequest, Waiting
    <3>9. CASE UNCHANGED vars
      BY <3>1, <3>9 DEF vars, redisVars
    <3>10. QED
      BY <3>2, <3>3, <3>4, <3>5, <3>6, <3>7, <3>8, <3>9 DEF Next, Step
  <2>3. QED
    BY <2>1, <2>2
<1>3. QED
  BY <1>1, <1>2, TypeCorrect, PTL DEF Spec

-----------------------------------------------------------------------------
(* A punctual system: a valid lease holds the lock *)

\* The clocks of a lease run only inside it, and the lost flag is set only there.
LeaseClocks ==
    \A p \in Calls :
       /\ pc[p] \notin Leased => heartbeatAge[p] = 0 /\ leaseAge[p] = 0
       /\ pc[p] \in {"idle", "enqueue", "granted"} \cup Waiting => ~lockLost[p]

\* A call whose TRY_ACQUIRE was just answered 1 has the full TTL before it.
GrantedHoldsLock ==
    \A p \in Calls :
       pc[p] = "granted" => lock.token = p /\ lock.ttl = LockTTL

\* The TTL has lost no more than the time since the last renewal the lease
\* knows of, and the next cycle of the heartbeat comes before it runs out.
LeaseHoldsLock ==
    \A p \in Calls :
       (pc[p] \in Leased /\ ~lockLost[p]) =>
          /\ lock.token = p
          /\ lock.ttl + leaseAge[p] >= LockTTL
          /\ leaseAge[p] + Heartbeat < LockTTL + heartbeatAge[p]

LeaseInv == LeaseClocks /\ GrantedHoldsLock /\ LeaseHoldsLock

\* A step of another call q leaves the lease of p as it was, and the lock too
\* when p holds it: every script that writes the lock checks the token or needs
\* the key to be absent.
LEMMA OtherCallsKeepLease ==
    ASSUME TypeOK, [Next]_vars, ~Tick, NEW p \in Calls, pc'[p] = pc[p],
           lock.token = p, ~Renew(p), ~FinishRelease(p), ~StartLease(p), ~BeginRelease(p)
    PROVE  UNCHANGED lock
<1>1. ASSUME NEW q \in Calls, TryAcquire(q) PROVE FALSE
  BY <1>1, CallsAssumption DEF TryAcquire, LockFree
<1>2. ASSUME NEW q \in Calls, Renew(q) PROVE UNCHANGED lock
  <2>1. PICK o \in Outcome : IF Ran(o) THEN RenewScript(q) ELSE UNCHANGED <<lock, owner>>
    BY <1>2, Zenon DEF Renew
  <2>2. q # p
    BY <1>2
  <2>3. CASE RenewScript(q)
    BY <2>2, <2>3 DEF RenewScript
  <2>4. QED
    BY <2>1, <2>3
<1>3. ASSUME NEW q \in Calls, FinishRelease(q) PROVE UNCHANGED lock
  BY <1>3 DEF FinishRelease, ReleaseScript
<1>4. QED
  BY <1>1, <1>2, <1>3, LockWriters

\* Every step keeps the clocks of a lease stopped outside it, and the lost flag
\* down until the lease has begun.
LEMMA LeaseClocksInductive ==
    ASSUME TypeOK, LeaseClocks, [Next]_vars
    PROVE  LeaseClocks'
<1> SUFFICES ASSUME NEW p \in Calls
             PROVE  /\ pc'[p] \notin Leased => heartbeatAge'[p] = 0 /\ leaseAge'[p] = 0
                    /\ pc'[p] \in {"idle", "enqueue", "granted"} \cup Waiting
                          => ~lockLost'[p]
  BY DEF LeaseClocks
<1>0. /\ pc[p] \notin Leased => heartbeatAge[p] = 0 /\ leaseAge[p] = 0
      /\ pc[p] \in {"idle", "enqueue", "granted"} \cup Waiting => ~lockLost[p]
  BY DEF LeaseClocks
<1> USE <1>0 DEF TypeOK, Goto, Leave, Waiting, Leased
<1>1. ASSUME NEW q \in Calls,
             Begin(q) \/ StartLease(q) \/ BeginRelease(q) \/ TimeOut(q)
      PROVE  /\ pc'[p] \notin Leased => heartbeatAge'[p] = 0 /\ leaseAge'[p] = 0
             /\ pc'[p] \in {"idle", "enqueue", "granted"} \cup Waiting => ~lockLost'[p]
  BY <1>1 DEF Begin, StartLease, BeginRelease, TimeOut, leaseVars
<1>2. ASSUME NEW q \in Calls, Enqueue(q) \/ WaitHeartbeat(q) \/ CancelRequest(q)
      PROVE  /\ pc'[p] \notin Leased => heartbeatAge'[p] = 0 /\ leaseAge'[p] = 0
             /\ pc'[p] \in {"idle", "enqueue", "granted"} \cup Waiting => ~lockLost'[p]
  BY <1>2 DEF Enqueue, WaitHeartbeat, CancelRequest, leaseVars
<1>3. ASSUME NEW q \in Calls, TryAcquire(q) \/ TryWait(q) \/ TryGone(q)
      PROVE  /\ pc'[p] \notin Leased => heartbeatAge'[p] = 0 /\ leaseAge'[p] = 0
             /\ pc'[p] \in {"idle", "enqueue", "granted"} \cup Waiting => ~lockLost'[p]
  BY <1>3 DEF TryAcquire, TryWait, TryGone, leaseVars, AfterPoll
<1>4. ASSUME NEW q \in Calls, Renew(q)
      PROVE  /\ pc'[p] \notin Leased => heartbeatAge'[p] = 0 /\ leaseAge'[p] = 0
             /\ pc'[p] \in {"idle", "enqueue", "granted"} \cup Waiting => ~lockLost'[p]
  BY <1>4 DEF Renew, HeartbeatDue
<1>5. ASSUME NEW q \in Calls, FinishRelease(q) \/ Crash(q)
      PROVE  /\ pc'[p] \notin Leased => heartbeatAge'[p] = 0 /\ leaseAge'[p] = 0
             /\ pc'[p] \in {"idle", "enqueue", "granted"} \cup Waiting => ~lockLost'[p]
  BY <1>5 DEF FinishRelease, Crash, Over
<1>6. CASE Tick
  BY <1>6 DEF Tick
<1>7. CASE UNCHANGED vars
  BY <1>7 DEF vars, leaseVars
<1>8. QED
  BY <1>1, <1>2, <1>3, <1>4, <1>5, <1>6, <1>7 DEF Next, Step

\* In a punctual system no time passes while a call is granted or joining, and
\* a heartbeat that is due comes first.
LEMMA TickKeepsLease ==
    ASSUME Punctual, TypeOK, LeaseInv, Tick
    PROVE  GrantedHoldsLock' /\ LeaseHoldsLock'
<1>1. Quiet
  BY DEF Tick
<1>2. ASSUME NEW p \in Calls PROVE pc'[p] # "granted"
  BY <1>1 DEF Tick, Quiet, Resting, Over, TypeOK
<1>3. ASSUME NEW p \in Calls, pc'[p] \in Leased, ~lockLost'[p]
      PROVE  /\ lock'.token = p
             /\ lock'.ttl + leaseAge'[p] >= LockTTL
             /\ leaseAge'[p] + Heartbeat < LockTTL + heartbeatAge'[p]
  <2>1. pc[p] = "holding" /\ ~lockLost[p] /\ heartbeatAge[p] < Heartbeat
    BY <1>1, <1>3, ConfigAssumption
    DEF Tick, Quiet, Resting, Over, Leased, HeartbeatDue, TypeOK
  <2>2. /\ lock.token = p
        /\ lock.ttl + leaseAge[p] >= LockTTL
        /\ leaseAge[p] + Heartbeat < LockTTL + heartbeatAge[p]
    BY <2>1 DEF LeaseInv, LeaseHoldsLock, Leased
  <2>3. /\ leaseAge'[p] = leaseAge[p] + 1
        /\ heartbeatAge'[p] = heartbeatAge[p] + 1
    BY <2>1, <2>2, ConfigAssumption DEF Tick, Smaller, Leased, TypeOK
  <2>4. lock'.token = p /\ lock'.ttl = lock.ttl - 1
    <3>1. lock.ttl > 1 /\ lock \in Key(LockTTL)
      BY <2>1, <2>2, ConfigAssumption DEF TypeOK, Key
    <3>2. lock' = [lock EXCEPT !.ttl = lock.ttl - 1]
      BY <3>1 DEF Tick, Older, Key
    <3>3. QED
      BY <2>2, <3>1, <3>2 DEF Key
  <2>5. lock.ttl \in Int /\ leaseAge[p] \in Int /\ heartbeatAge[p] \in Int
    BY DEF TypeOK, Key
  <2>6. QED
    BY <2>2, <2>3, <2>4, <2>5, ConfigAssumption
<1>4. QED
  BY <1>2, <1>3 DEF GrantedHoldsLock, LeaseHoldsLock

\* In a punctual system every step keeps the lease invariant: a granted or valid
\* lease holds a lock key that outlives the next renewal.
LEMMA LeaseInvInductive ==
    ASSUME Punctual, TypeOK, LeaseInv, [Next]_vars
    PROVE  LeaseInv'
<1>1. LeaseClocks'
  BY LeaseClocksInductive DEF LeaseInv
<1>2. CASE Tick
  BY <1>1, <1>2, TickKeepsLease DEF LeaseInv
<1>3. ASSUME ~Tick, NEW p \in Calls, pc'[p] = "granted"
      PROVE  lock'.token = p /\ lock'.ttl = LockTTL
  <2>1. CASE pc[p] = "granted"
    <3>1. /\ pc'[p] = pc[p] /\ lock.token = p
          /\ ~Renew(p) /\ ~FinishRelease(p) /\ ~StartLease(p) /\ ~BeginRelease(p)
      BY <1>3, <2>1
      DEF Renew, HeartbeatDue, Leased, FinishRelease, StartLease, BeginRelease,
          Goto, LeaseInv, GrantedHoldsLock, TypeOK
    <3>2. QED
      BY <1>3, <2>1, <3>1, OtherCallsKeepLease DEF LeaseInv, GrantedHoldsLock
  <2>2. CASE pc[p] # "granted"
    <3>1. TryAcquire(p)
      BY <1>3, <2>2
      DEF Next, Step, vars, Begin, Enqueue, TryAcquire, TryWait, TryGone, AfterPoll,
          WaitHeartbeat, TimeOut, StartLease, Renew, FinishRelease, BeginRelease,
          CancelRequest, Crash, Goto, Leave, TypeOK
    <3>2. pc'[p] = "granted" => lock' = [token |-> p, ttl |-> LockTTL]
      BY <3>1 DEF TryAcquire, AcquireScript, Leave, Goto, TypeOK, Ran
    <3>3. QED
      BY <1>3, <3>2
  <2>3. QED
    BY <2>1, <2>2
<1>4. ASSUME ~Tick, NEW p \in Calls, pc'[p] \in Leased, ~lockLost'[p]
      PROVE  /\ lock'.token = p
             /\ lock'.ttl + leaseAge'[p] >= LockTTL
             /\ leaseAge'[p] + Heartbeat < LockTTL + heartbeatAge'[p]
  <2>1. CASE Renew(p)
    <3>1. /\ pc[p] \in Leased /\ ~lockLost[p]
          /\ lock.token = p
          /\ lock.ttl + leaseAge[p] >= LockTTL
          /\ leaseAge[p] + Heartbeat < LockTTL + heartbeatAge[p]
      BY <2>1 DEF Renew, HeartbeatDue, LeaseInv, LeaseHoldsLock
    <3>2. PICK o \in Outcome :
              /\ o # "ok" => MayFail(p)
              /\ IF Ran(o) THEN RenewScript(p) ELSE UNCHANGED <<lock, owner>>
              /\ heartbeatAge' = [heartbeatAge EXCEPT ![p] = 0]
              /\ leaseAge' = [leaseAge EXCEPT
                     ![p] = IF o = "ok" /\ lock.token = p THEN 0 ELSE @]
      BY <2>1 DEF Renew
    <3>3. heartbeatAge'[p] = 0 /\ lock.ttl \in 0 .. LockTTL /\ leaseAge[p] \in Nat
      BY <3>2 DEF TypeOK, Key
    <3>4. /\ lock'.token = p /\ lock'.ttl \in 0 .. LockTTL /\ lock'.ttl >= lock.ttl
          /\ Ran(o) => lock'.ttl = LockTTL
      BY <3>1, <3>2, <3>3, ConfigAssumption DEF RenewScript, TypeOK, Key
    <3>5. CASE o = "ok"
      <4>1. leaseAge'[p] = 0
        BY <3>1, <3>2, <3>5 DEF TypeOK
      <4>2. QED
        BY <3>3, <3>4, <3>5, <4>1, ConfigAssumption DEF Ran
    <3>6. CASE o # "ok"
      <4>1. leaseAge'[p] = leaseAge[p] /\ leaseAge[p] + Heartbeat < LockTTL
        BY <3>2, <3>6 DEF MayFail, TypeOK
      <4>2. QED
        BY <3>1, <3>3, <3>4, <4>1, ConfigAssumption
    <3>7. QED
      BY <3>5, <3>6
  <2>2. CASE StartLease(p)
    <3>1. pc[p] = "granted" /\ lock' = lock
      BY <2>2 DEF StartLease, redisVars
    <3>2. lock.token = p /\ lock.ttl = LockTTL
      BY <3>1 DEF LeaseInv, GrantedHoldsLock
    <3>3. heartbeatAge'[p] = 0 /\ leaseAge'[p] = 0
      BY <2>2, <3>1 DEF StartLease, leaseVars, LeaseInv, LeaseClocks, Leased
    <3>4. QED
      BY <3>1, <3>2, <3>3, ConfigAssumption
  <2>3. CASE BeginRelease(p)
    BY <1>4, <2>3
    DEF BeginRelease, redisVars, leaseVars, LeaseInv, LeaseHoldsLock, Leased
  <2>4. CASE ~Renew(p) /\ ~StartLease(p) /\ ~BeginRelease(p)
    <3>1. pc[p] = pc'[p] /\ ~FinishRelease(p)
      BY <1>4, <2>4
      DEF Next, Step, vars, Begin, Enqueue, TryAcquire, TryWait, TryGone, AfterPoll,
          WaitHeartbeat, TimeOut, StartLease, Renew, FinishRelease, BeginRelease,
          CancelRequest, Crash, Goto, Leave, TypeOK, Leased
    <3>2. /\ heartbeatAge'[p] = heartbeatAge[p] /\ leaseAge'[p] = leaseAge[p]
          /\ lockLost'[p] = lockLost[p]
      BY <1>4, <2>4, <3>1
      DEF Next, Step, vars, Begin, Enqueue, TryAcquire, TryWait, TryGone, leaseVars,
          WaitHeartbeat, TimeOut, StartLease, Renew, FinishRelease, BeginRelease,
          CancelRequest, Crash, Goto, Leave, TypeOK, Leased
    <3>3. /\ lock.token = p
          /\ lock.ttl + leaseAge[p] >= LockTTL
          /\ leaseAge[p] + Heartbeat < LockTTL + heartbeatAge[p]
      BY <1>4, <3>1, <3>2 DEF LeaseInv, LeaseHoldsLock
    <3>4. UNCHANGED lock
      BY <1>4, <2>4, <3>1, <3>3, OtherCallsKeepLease
    <3>5. QED
      BY <3>2, <3>3, <3>4
  <2>5. QED
    BY <2>1, <2>2, <2>3, <2>4
<1>5. QED
  BY <1>1, <1>2, <1>3, <1>4 DEF LeaseInv, GrantedHoldsLock, LeaseHoldsLock

\* No lease exists in the initial state, so the lease invariant holds there.
LEMMA LeaseInvInit == Init => LeaseInv
BY DEF Init, LeaseInv, LeaseClocks, GrantedHoldsLock, LeaseHoldsLock, Leased, Waiting

\* Mutual exclusion: in a punctual system a lease that ensure_valid accepts
\* holds the lock key, whatever requests, replies or processes are lost.
THEOREM ExclusiveLeaseHolds ==
    ASSUME Punctual
    PROVE  Spec => []ExclusiveLease
<1>1. TypeOK /\ LeaseInv /\ [Next]_vars => LeaseInv'
  BY LeaseInvInductive
<1>2. LeaseInv => ExclusiveLease
  BY DEF LeaseInv, LeaseHoldsLock, ExclusiveLease, Valid, Leased
<1>3. QED
  BY <1>1, <1>2, LeaseInvInit, TypeCorrect, PTL DEF Spec

-----------------------------------------------------------------------------
(* The manager implements the lease service *)

BeforeLease == {"idle", "enqueue", "granted"} \cup Waiting

\* Only a call that was granted the lock can enter its lease, and whoever has
\* left acquire_lease never goes back into it.
LEMMA StageSteps ==
    ASSUME TypeOK, LeaseInv, [Next]_vars, NEW p \in Calls
    PROVE  /\ Valid(p)' => Valid(p) \/ StartLease(p)
           /\ pc'[p] \in BeforeLease => pc[p] \in BeforeLease
<1> USE DEF TypeOK, Goto, Leave, BeforeLease, Waiting
<1>1. Valid(p)' => Valid(p) \/ StartLease(p)
  <2>1. lockLost[p] /\ pc[p] = "holding" => lockLost'[p]
    BY DEF Next, Step, vars, Begin, Enqueue, TryAcquire, TryWait, TryGone, leaseVars,
          WaitHeartbeat, TimeOut, StartLease, Renew, FinishRelease, BeginRelease,
          CancelRequest, Crash, Tick, HeartbeatDue
  <2>2. pc'[p] = "holding" => pc[p] = "holding" \/ StartLease(p)
    BY DEF Next, Step, vars, Begin, Enqueue, TryAcquire, TryWait, TryGone, AfterPoll,
          WaitHeartbeat, TimeOut, StartLease, Renew, FinishRelease, BeginRelease,
          CancelRequest, Crash, Tick
  <2>3. QED
    BY <2>1, <2>2 DEF Valid
<1>2. pc'[p] \in BeforeLease => pc[p] \in BeforeLease
  BY DEF Next, Step, vars, Begin, Enqueue, TryAcquire, TryWait, TryGone, AfterPoll,
        WaitHeartbeat, TimeOut, StartLease, Renew, FinishRelease, BeginRelease,
        CancelRequest, Crash, Tick
<1>3. QED
  BY <1>1, <1>2

\* The stages of two calls never change in one step, except when time passes,
\* which changes none.
LEMMA OneStageAtATime ==
    ASSUME TypeOK, LeaseInv, [Next]_vars
    PROVE  \/ UNCHANGED Stage
           \/ \E p \in Calls : Stage' = [Stage EXCEPT ![p] = Stage'[p]]
<1>1. CASE Tick \/ UNCHANGED vars
  <2>1. ASSUME NEW p \in Calls
        PROVE  /\ Valid(p)' <=> Valid(p)
               /\ pc'[p] \in BeforeLease <=> pc[p] \in BeforeLease
    BY <1>1 DEF Tick, vars, leaseVars, Valid, TypeOK, BeforeLease, Waiting
  <2>2. QED
    BY <2>1 DEF Stage, BeforeLease
<1>2. ASSUME NEW p \in Calls,
             Step(p) \/ BeginRelease(p) \/ CancelRequest(p) \/ Crash(p)
      PROVE  Stage' = [Stage EXCEPT ![p] = Stage'[p]]
  <2>1. ASSUME NEW q \in Calls, q # p
        PROVE  pc'[q] = pc[q] /\ lockLost'[q] = lockLost[q]
    BY <1>2, <2>1
    DEF Step, Begin, Enqueue, TryAcquire, TryWait, TryGone, leaseVars,
        WaitHeartbeat, TimeOut, StartLease, Renew, FinishRelease, BeginRelease,
        CancelRequest, Crash, Goto, Leave, TypeOK
  <2>2. ASSUME NEW q \in Calls, q # p PROVE Stage'[q] = Stage[q]
    BY <2>1, <2>2 DEF Stage, Valid
  <2>3. QED
    BY <2>2 DEF Stage
<1>3. QED
  BY <1>1, <1>2 DEF Next

\* Refinement: in a punctual system every step of the manager is a step of the
\* lease service or leaves every call's stage as it was.
THEOREM ManagerImplementsService ==
    ASSUME Punctual
    PROVE  Spec => ImplementsLeaseService
<1>1. Init => Service!Init
  BY DEF Init, Service!Init, Stage, Valid
<1>2. TypeOK /\ LeaseInv /\ [Next]_vars => [Service!Next]_Stage
  <2> SUFFICES ASSUME TypeOK, LeaseInv, [Next]_vars, ~UNCHANGED Stage
               PROVE  Service!Next
    OBVIOUS
  <2>1. LeaseInv'
    BY LeaseInvInductive
  <2>2. PICK p \in Calls : Stage' = [Stage EXCEPT ![p] = Stage'[p]]
    BY OneStageAtATime
  <2>3. /\ Stage'[p] # Stage[p]
        /\ Stage \in [Calls -> {"before", "inside", "past"}]
        /\ Stage[p] \in {"before", "inside", "past"}
        /\ Stage'[p] \in {"before", "inside", "past"}
    BY <2>2 DEF Stage
  <2>4. ASSUME NEW q \in Calls
        PROVE  /\ Stage[q] = "inside" <=> Valid(q)
               /\ Stage'[q] = "inside" <=> Valid(q)'
               /\ Stage[q] = "before" <=> ~Valid(q) /\ pc[q] \in BeforeLease
               /\ Stage'[q] = "before" <=> ~Valid(q)' /\ pc'[q] \in BeforeLease
    BY DEF Stage, BeforeLease
  <2>5. CASE Stage[p] = "before" /\ Stage'[p] = "inside"
    <3>1. ASSUME NEW q \in Calls, Stage[q] = "inside" PROVE FALSE
      <4>1. q # p /\ Stage'[q] = "inside"
        BY <2>2, <2>3, <2>5, <3>1
      <4>2. Valid(p)' /\ Valid(q)'
        BY <2>4, <2>5, <4>1
      <4>3. lock'.token = p /\ lock'.token = q
        BY <2>1, <4>2 DEF LeaseInv, LeaseHoldsLock, Valid, Leased
      <4>4. QED
        BY <4>1, <4>3
    <3>2. Service!Enter(p)
      BY <2>2, <2>5, <3>1 DEF Service!Enter
    <3>3. QED
      BY <3>2 DEF Service!Next
  <2>6. CASE Stage[p] = "before" /\ Stage'[p] = "past"
    BY <2>2, <2>6 DEF Service!Next, Service!GiveUp
  <2>7. CASE Stage[p] = "inside"
    <3>1. Stage'[p] # "before"
      BY <2>4, <2>7, StageSteps DEF Valid, BeforeLease, Waiting
    <3>2. Stage'[p] = "past"
      BY <2>3, <2>7, <3>1
    <3>3. QED
      BY <2>2, <2>7, <3>2 DEF Service!Next, Service!Leave
  <2>8. CASE Stage[p] = "past"
    <3>1. ~Valid(p) /\ pc[p] \notin BeforeLease
      BY <2>4, <2>8
    <3>2. pc'[p] \notin BeforeLease /\ ~StartLease(p)
      BY <3>1, StageSteps DEF StartLease, BeforeLease
    <3>3. Stage'[p] \notin {"before", "inside"}
      BY <2>4, <3>1, <3>2, StageSteps
    <3>4. QED
      BY <2>3, <2>8, <3>3
  <2>9. QED
    BY <2>3, <2>5, <2>6, <2>7, <2>8
<1>3. TypeOK /\ LeaseInv /\ [Next]_vars => LeaseInv'
  BY LeaseInvInductive
<1>4. QED
  BY <1>1, <1>2, <1>3, LeaseInvInit, TypeCorrect, PTL
  DEF Spec, ImplementsLeaseService, Service!Spec

-----------------------------------------------------------------------------
(* A punctual system: polling keeps the place in the queue *)

\* The waiting clock runs only while the call waits.
WaitClocks == \A p \in Calls : pc[p] \notin Waiting => requestAge[p] = 0

\* The request of a call that waits is in the queue and its key lasts beyond the
\* next wait heartbeat, which nothing but a cancellation can find it gone.
RequestLives ==
    \A p \in Calls : StillWaits(p) =>
       /\ p \in queue /\ pc[p] # "requeue"
       /\ pc[p] # "heartbeat" => request[p].ttl + requestAge[p] >= RequestTTL
       /\ pc[p] = "heartbeat" =>
             request[p].ttl + RequestHeartbeat >= RequestTTL /\ requestAge[p] = 0
       /\ pc[p] = "sleep" => requestAge[p] < RequestHeartbeat

WaitInv == WaitClocks /\ RequestLives

\* Requests are numbered in the order of their arrival: a call that waits keeps
\* its first number, and one that was enqueued anew has a later one.
Numbered ==
    \A p \in Calls :
       /\ arrival[p] <= sequence
       /\ pc[p] \in {"idle", "enqueue"} => arrival[p] = 0
       /\ request[p].ttl > 0 => arrival[p] <= request[p].seq
       /\ StillWaits(p) => request[p].seq = arrival[p]

\* Who arrived earlier and still waits has waited at least as long.
EarlierWaitedLonger ==
    \A p, q \in Calls :
       (StillWaits(p) /\ request[q].ttl > 0 /\ arrival[p] <= arrival[q])
          => request[q].waited <= request[p].waited

OrderInv == Numbered /\ EarlierWaitedLonger

\* A step of another call leaves the request of p alone: only its own scripts and
\* a cancellation write it, and a sweep of orphans spares a key that exists.
LEMMA OthersKeepRequest ==
    ASSUME TypeOK, NEW p \in Calls, NEW q \in Calls, q # p,
           Step(q) \/ BeginRelease(q) \/ CancelRequest(q) \/ Crash(q)
    PROVE  /\ pc'[p] = pc[p] /\ requestAge'[p] = requestAge[p]
           /\ request'[p] = request[p] /\ arrival'[p] = arrival[p]
           /\ p \in queue /\ request[p].ttl > 0 => p \in queue'
           /\ p \in cancelled' <=> p \in cancelled
<1> USE DEF TypeOK, Goto, Leave
<1>1. pc'[p] = pc[p] /\ requestAge'[p] = requestAge[p]
  BY DEF Step, Begin, Enqueue, TryAcquire, TryWait, TryGone, WaitHeartbeat, TimeOut,
         StartLease, Renew, FinishRelease, BeginRelease, CancelRequest, Crash, waitVars
<1>2. request'[p] = request[p]
  BY DEF Step, Begin, Enqueue, EnqueueScript, TryAcquire, AcquireScript, TryWait, TryGone,
         WaitHeartbeat, WaitHeartbeatScript, TimeOut, CancelScript, StartLease, Renew,
         FinishRelease, BeginRelease, CancelRequest, Crash, redisVars
<1>3. arrival'[p] = arrival[p]
  BY DEF Step, Begin, Enqueue, EnqueueScript, TryAcquire, TryWait, TryGone,
         WaitHeartbeat, TimeOut, StartLease, Renew,
         FinishRelease, BeginRelease, CancelRequest, Crash, historyVars
<1>4. p \in queue /\ request[p].ttl > 0 => p \in queue'
  BY DEF Step, Begin, Enqueue, EnqueueScript, TryAcquire, AcquireScript, TryWait, TryGone,
         WaitHeartbeat, TimeOut, CancelScript, StartLease, Renew, Orphans,
         FinishRelease, BeginRelease, CancelRequest, Crash, redisVars
<1>5. p \in cancelled' <=> p \in cancelled
  BY DEF Step, Begin, Enqueue, TryAcquire, TryWait, TryGone, WaitHeartbeat, TimeOut,
         StartLease, Renew, FinishRelease, BeginRelease, CancelRequest, Crash, historyVars
<1>6. QED
  BY <1>1, <1>2, <1>3, <1>4, <1>5

\* The waiting clock of a call stands still while it does not wait.
LEMMA WaitClocksInductive ==
    ASSUME TypeOK, WaitClocks, [Next]_vars
    PROVE  WaitClocks'
<1> SUFFICES ASSUME NEW p \in Calls, pc'[p] \notin Waiting PROVE requestAge'[p] = 0
  BY DEF WaitClocks
<1>0. pc[p] \notin Waiting => requestAge[p] = 0
  BY DEF WaitClocks
<1> USE DEF TypeOK, Goto, Leave, Waiting
<1>1. ASSUME Step(p) \/ BeginRelease(p) \/ CancelRequest(p) \/ Crash(p)
      PROVE  requestAge'[p] = 0
  BY <1>0, <1>1
  DEF Step, Begin, Enqueue, TryAcquire, TryWait, TryGone, WaitHeartbeat, TimeOut,
      StartLease, Renew, FinishRelease, BeginRelease, CancelRequest, Crash, waitVars,
      AfterPoll, HeartbeatDue, Leased
<1>2. CASE Tick
  BY <1>2 DEF Tick
<1>3. CASE UNCHANGED vars
  BY <1>0, <1>3 DEF vars, waitVars
<1>4. QED
  BY <1>0, <1>1, <1>2, <1>3, OthersKeepRequest DEF Next

\* What RequestLives says of one call.
Lives(p) ==
    StillWaits(p) =>
       /\ p \in queue /\ pc[p] # "requeue"
       /\ pc[p] # "heartbeat" => request[p].ttl + requestAge[p] >= RequestTTL
       /\ pc[p] = "heartbeat" =>
             request[p].ttl + RequestHeartbeat >= RequestTTL /\ requestAge[p] = 0
       /\ pc[p] = "sleep" => requestAge[p] < RequestHeartbeat

\* While a call waits its request key exists: the wait heartbeat is due before
\* the TTL runs out, by the configuration's order of the two.
LEMMA LivesMeansLive ==
    ASSUME TypeOK, NEW p \in Calls, Lives(p), StillWaits(p)
    PROVE  /\ request[p].ttl > 0 /\ Live(p)
           /\ request[p].ttl \in Nat /\ requestAge[p] \in 0 .. RequestHeartbeat
<1>1. request[p].ttl \in 0 .. RequestTTL /\ requestAge[p] \in 0 .. RequestHeartbeat
  BY DEF TypeOK
<1>2. request[p].ttl > 0
  BY <1>1, ConfigAssumption DEF Lives
<1>3. QED
  BY <1>1, <1>2 DEF Lives, Live

\* The steps of a call that waits, and of who cancels it, keep its request alive.
LEMMA OwnStepsKeepRequest ==
    ASSUME TypeOK, WaitClocks, NEW p \in Calls, Lives(p),
           Step(p) \/ BeginRelease(p) \/ CancelRequest(p) \/ Crash(p)
    PROVE  Lives(p)'
<1> USE ConfigAssumption DEF TypeOK, Goto, Leave
<1>1. CASE CancelRequest(p)
  BY <1>1 DEF CancelRequest, Lives, StillWaits
<1>2. CASE Enqueue(p)
  <2>1. CASE pc[p] = "requeue"
    BY <1>2, <2>1 DEF Enqueue, Lives, StillWaits, Waiting
  <2>2. CASE pc[p] = "enqueue"
    <3>1. requestAge[p] = 0
      BY <2>2 DEF WaitClocks, Waiting
    <3>2. pc'[p] \in {"try", "unavailable"} /\ requestAge'[p] = 0
      BY <1>2, <2>2, <3>1 DEF Enqueue, waitVars
    <3>3. pc'[p] = "try" => p \in queue' /\ request'[p].ttl = RequestTTL
      BY <1>2, <2>2 DEF Enqueue, EnqueueScript, Ran
    <3>4. QED
      BY <3>2, <3>3 DEF Lives, StillWaits, Waiting
  <2>3. QED
    BY <1>2, <2>1, <2>2 DEF Enqueue
<1>3. CASE TryWait(p)
  <2>1. pc[p] = "try" /\ Live(p) /\ request' = request /\ cancelled' = cancelled
    BY <1>3 DEF TryWait, historyVars
  <2>2. p \in queue'
    BY <1>3, <2>1 DEF TryWait, Live, Orphans
  <2>3. CASE pc'[p] = "unavailable"
    BY <2>3 DEF Lives, StillWaits, Waiting
  <2>4. CASE pc'[p] # "unavailable"
    <3>1. /\ pc'[p] = AfterPoll(p)
          /\ requestAge'[p] = IF AfterPoll(p) = "heartbeat" THEN 0 ELSE requestAge[p]
      BY <1>3, <2>4 DEF TryWait
    <3>2. /\ AfterPoll(p) \in {"timeout", "heartbeat", "sleep"}
          /\ AfterPoll(p) = "sleep" => requestAge[p] < RequestHeartbeat
      BY DEF AfterPoll
    <3>3. StillWaits(p)' => request[p].ttl + requestAge[p] >= RequestTTL
      BY <2>1 DEF Lives, StillWaits, Waiting
    <3>4. QED
      BY <2>1, <2>2, <3>1, <3>2, <3>3 DEF Lives
  <2>5. QED
    BY <2>3, <2>4
<1>4. CASE WaitHeartbeat(p)
  <2>1. CASE StillWaits(p)
    <3>1. request[p].ttl > 0 /\ p \in queue /\ pc[p] = "heartbeat" /\ queue' = queue
      BY <1>4, <2>1, LivesMeansLive DEF WaitHeartbeat, Live
    <3>2. CASE pc'[p] = "sleep"
      <4>1. requestAge'[p] = requestAge[p]
        BY <1>4, <3>1, <3>2 DEF WaitHeartbeat, waitVars
      <4>2. request'[p].ttl = RequestTTL
        BY <1>4, <3>1, <3>2 DEF WaitHeartbeat, WaitHeartbeatScript, Ran
      <4>3. QED
        BY <2>1, <3>1, <3>2, <4>1, <4>2 DEF Lives
    <3>3. CASE pc'[p] # "sleep"
      BY <1>4, <3>1, <3>3 DEF WaitHeartbeat, Lives, StillWaits, Waiting
    <3>4. QED
      BY <3>2, <3>3
  <2>2. CASE ~StillWaits(p)
    BY <1>4, <2>2 DEF WaitHeartbeat, historyVars, Lives, StillWaits, Waiting
  <2>3. QED
    BY <2>1, <2>2
<1>5. CASE \/ Begin(p) \/ TryAcquire(p) \/ TryGone(p) \/ TimeOut(p) \/ StartLease(p)
           \/ FinishRelease(p) \/ BeginRelease(p) \/ Crash(p)
  <2>1. pc'[p] \notin Waiting
    BY <1>5 DEF Begin, TryAcquire, TryGone, TimeOut, StartLease, FinishRelease,
                BeginRelease, Crash, Waiting
  <2>2. QED
    BY <2>1 DEF Lives, StillWaits
<1>6. CASE Renew(p)
  BY <1>6 DEF Renew, HeartbeatDue, Leased, Lives, StillWaits, Waiting
<1>7. QED
  BY <1>1, <1>2, <1>3, <1>4, <1>5, <1>6 DEF Step

\* When time passes in a punctual system, a call that waits sleeps: it loses one
\* unit of its TTL, and its clock gains one.
LEMMA TickKeepsRequest ==
    ASSUME Punctual, TypeOK, NEW p \in Calls, Lives(p), Tick
    PROVE  /\ Lives(p)'
           /\ StillWaits(p)' => StillWaits(p) /\ request[p].ttl > 1
<1> SUFFICES ASSUME StillWaits(p)'
             PROVE  Lives(p)' /\ StillWaits(p) /\ request[p].ttl > 1
  BY DEF Lives
<1> USE ConfigAssumption
<1>1. pc[p] \in Waiting /\ p \notin cancelled
  BY DEF Tick, StillWaits, Waiting, TypeOK
<1>2. pc[p] = "sleep" /\ pc'[p] = "try"
  BY <1>1 DEF Tick, Quiet, Resting, Over, Waiting, TypeOK
<1>3. /\ p \in queue /\ request[p].ttl + requestAge[p] >= RequestTTL
      /\ requestAge[p] < RequestHeartbeat
  BY <1>1, <1>2 DEF Lives, StillWaits
<1>4. request[p].ttl \in Nat /\ requestAge[p] \in Nat /\ request[p].ttl > 1
  BY <1>3 DEF TypeOK
<1>5. request'[p].ttl = request[p].ttl - 1
  BY <1>4 DEF Tick, OlderRequest
<1>6. requestAge'[p] = requestAge[p] + 1
  BY <1>1, <1>3, <1>4 DEF Tick, Smaller
<1>7. p \in queue'
  BY <1>3 DEF Tick
<1>8. QED
  BY <1>1, <1>2, <1>3, <1>4, <1>5, <1>6, <1>7 DEF Lives, StillWaits

\* In a punctual system every step keeps the waiting invariant.
LEMMA WaitInvInductive ==
    ASSUME Punctual, TypeOK, WaitInv, [Next]_vars
    PROVE  WaitInv'
<1>1. WaitClocks'
  BY WaitClocksInductive DEF WaitInv
<1>2. ASSUME NEW p \in Calls PROVE Lives(p)
  BY DEF WaitInv, RequestLives, Lives
<1>3. ASSUME NEW p \in Calls PROVE Lives(p)'
  <2>1. CASE Step(p) \/ BeginRelease(p) \/ CancelRequest(p) \/ Crash(p)
    BY <1>2, <2>1, OwnStepsKeepRequest DEF WaitInv
  <2>2. ASSUME NEW q \in Calls, q # p,
               Step(q) \/ BeginRelease(q) \/ CancelRequest(q) \/ Crash(q)
        PROVE  Lives(p)'
    <3>1. /\ pc'[p] = pc[p] /\ requestAge'[p] = requestAge[p]
          /\ request'[p] = request[p]
          /\ p \in queue /\ request[p].ttl > 0 => p \in queue'
          /\ p \in cancelled' <=> p \in cancelled
      BY <2>2, OthersKeepRequest
    <3>2. StillWaits(p)' => StillWaits(p)
      BY <3>1 DEF StillWaits
    <3>3. StillWaits(p) => request[p].ttl > 0
      BY <1>2, LivesMeansLive
    <3>4. QED
      BY <1>2, <3>1, <3>2, <3>3 DEF Lives
  <2>3. CASE Tick
    BY <1>2, <2>3, TickKeepsRequest
  <2>4. CASE UNCHANGED vars
    BY <1>2, <2>4 DEF vars, redisVars, waitVars, historyVars, Lives, StillWaits
  <2>5. QED
    BY <2>1, <2>2, <2>3, <2>4 DEF Next
<1>4. QED
  BY <1>1, <1>3 DEF WaitInv, RequestLives, Lives

\* Nobody waits in the initial state.
LEMMA WaitInvInit == Init => WaitInv
BY DEF Init, WaitInv, WaitClocks, RequestLives, StillWaits, Waiting

\* Polling keeps the place in the queue: in a punctual system a call that waits and
\* was not cancelled has a live request, whatever other requests or replies are lost.
THEOREM PollingKeepsPlaceHolds ==
    ASSUME Punctual
    PROVE  Spec => []PollingKeepsPlace
<1>1. TypeOK /\ WaitInv /\ [Next]_vars => WaitInv'
  BY WaitInvInductive
<1>2. TypeOK /\ WaitInv => PollingKeepsPlace
  BY LivesMeansLive DEF WaitInv, RequestLives, Lives, PollingKeepsPlace
<1>3. QED
  BY <1>1, <1>2, WaitInvInit, TypeCorrect, PTL DEF Spec

-----------------------------------------------------------------------------
(* A punctual system: first come, first served *)

\* Three things can happen to the request of a call in a step: it is enqueued with
\* the next number, it goes away, or it keeps its number and its waiting time.
Enqueued(p) ==
    /\ pc[p] \in {"enqueue", "requeue"} /\ pc'[p] \notin {"idle", "enqueue"}
    /\ sequence' = sequence + 1
    /\ request'[p] = [ttl |-> RequestTTL, waited |-> 0, seq |-> sequence + 1]
    /\ arrival'[p] = IF arrival[p] = 0 THEN sequence + 1 ELSE arrival[p]
Gone(p) == request'[p] = NoRequest /\ arrival'[p] = arrival[p]
Kept(p) ==
    /\ request'[p].seq = request[p].seq /\ request'[p].waited = request[p].waited
    /\ request'[p].ttl > 0 => request[p].ttl > 0
    /\ arrival'[p] = arrival[p]

\* What the scripts of a call, and a cancellation, do to its own request.
LEMMA OwnRequestStep ==
    ASSUME TypeOK, NEW p \in Calls,
           Step(p) \/ BeginRelease(p) \/ CancelRequest(p) \/ Crash(p)
    PROVE  /\ sequence' >= sequence
           /\ Enqueued(p) \/ Gone(p) \/ Kept(p)
           /\ pc'[p] \in {"idle", "enqueue"} => pc[p] \in {"idle", "enqueue"}
           /\ StillWaits(p)' => StillWaits(p) \/ (pc[p] = "enqueue" /\ Enqueued(p))
<1> USE ConfigAssumption DEF TypeOK, Goto, Leave
<1>1. CASE Enqueue(p)
  <2>1. PICK o \in Outcome :
            /\ IF Ran(o) THEN EnqueueScript(p)
               ELSE UNCHANGED <<sequence, request, queue, arrival>>
            /\ IF o # "ok" THEN Leave(p, "unavailable")
               ELSE /\ Goto(p, IF pc[p] = "enqueue" THEN "try" ELSE "sleep")
                    /\ UNCHANGED waitVars
    BY <1>1, Zenon DEF Enqueue
  <2>2. /\ pc[p] \in {"enqueue", "requeue"} /\ cancelled' = cancelled
        /\ pc'[p] \in {"unavailable", "try", "sleep"}
        /\ pc'[p] # "unavailable" => o = "ok"
    BY <1>1, <2>1 DEF Enqueue
  <2>3. Ran(o) => Enqueued(p)
    BY <2>1, <2>2 DEF EnqueueScript, Enqueued
  <2>4. ~Ran(o) => Kept(p) /\ sequence' = sequence
    BY <2>1 DEF Kept
  <2>5. StillWaits(p)' => Ran(o)
    BY <2>2 DEF StillWaits, Waiting, Ran
  <2>6. StillWaits(p)' => StillWaits(p) \/ pc[p] = "enqueue"
    BY <2>2 DEF StillWaits, Waiting
  <2>7. QED
    BY <2>2, <2>3, <2>4, <2>5, <2>6 DEF Enqueued
<1>2. CASE ~Enqueue(p)
  <2>1. sequence' = sequence
    BY <1>2 DEF Step, Begin, TryAcquire, TryWait, TryGone, WaitHeartbeat, TimeOut,
                StartLease, Renew, FinishRelease, BeginRelease, CancelRequest, Crash, redisVars
  <2>2. arrival' = arrival
    BY <1>2 DEF Step, Begin, TryAcquire, TryWait, TryGone, WaitHeartbeat, TimeOut,
                StartLease, Renew, FinishRelease, BeginRelease, CancelRequest, Crash, historyVars
  <2>3. Gone(p) \/ Kept(p)
    <3>1. CASE TryAcquire(p) \/ TimeOut(p) \/ CancelRequest(p)
      BY <2>2, <3>1 DEF TryAcquire, AcquireScript, TimeOut, CancelRequest, CancelScript,
                        Gone, Kept
    <3>2. CASE WaitHeartbeat(p)
      BY <2>2, <3>2 DEF WaitHeartbeat, WaitHeartbeatScript, Kept
    <3>3. CASE \/ Begin(p) \/ TryWait(p) \/ TryGone(p) \/ StartLease(p) \/ Renew(p)
               \/ FinishRelease(p) \/ BeginRelease(p) \/ Crash(p)
      BY <2>2, <3>3 DEF Begin, TryWait, TryGone, StartLease, Renew, FinishRelease,
                        BeginRelease, Crash, redisVars, Kept
    <3>4. QED
      BY <1>2, <3>1, <3>2, <3>3 DEF Step
  <2>4. pc'[p] \in {"idle", "enqueue"} => pc[p] \in {"idle", "enqueue"}
    BY <1>2 DEF Step, Begin, TryAcquire, TryWait, TryGone, WaitHeartbeat, TimeOut, AfterPoll,
                StartLease, Renew, FinishRelease, BeginRelease, CancelRequest, Crash
  <2>5. StillWaits(p)' => StillWaits(p)
    BY <1>2 DEF Step, Begin, TryAcquire, TryWait, TryGone, WaitHeartbeat, TimeOut, AfterPoll,
                StartLease, Renew, FinishRelease, BeginRelease, CancelRequest, Crash,
                StillWaits, Waiting, historyVars
  <2>6. QED
    BY <2>1, <2>3, <2>4, <2>5
<1>3. QED
  BY <1>1, <1>2

\* What a step that is not the passing of time does to the request of any call.
LEMMA RequestStep ==
    ASSUME TypeOK, [Next]_vars, ~Tick, NEW p \in Calls
    PROVE  /\ sequence' >= sequence
           /\ Enqueued(p) \/ Gone(p) \/ Kept(p)
           /\ pc'[p] \in {"idle", "enqueue"} => pc[p] \in {"idle", "enqueue"}
           /\ StillWaits(p)' => StillWaits(p) \/ (pc[p] = "enqueue" /\ Enqueued(p))
<1>1. CASE Step(p) \/ BeginRelease(p) \/ CancelRequest(p) \/ Crash(p)
  BY <1>1, OwnRequestStep
<1>2. ASSUME NEW q \in Calls, q # p,
             Step(q) \/ BeginRelease(q) \/ CancelRequest(q) \/ Crash(q)
      PROVE  /\ sequence' >= sequence
             /\ Kept(p) /\ pc'[p] = pc[p]
             /\ StillWaits(p)' => StillWaits(p)
  <2>1. sequence' >= sequence
    BY <1>2, OwnRequestStep
  <2>2. /\ pc'[p] = pc[p] /\ request'[p] = request[p] /\ arrival'[p] = arrival[p]
        /\ p \in cancelled' <=> p \in cancelled
    BY <1>2, OthersKeepRequest
  <2>3. QED
    BY <2>1, <2>2 DEF Kept, StillWaits
<1>3. CASE UNCHANGED vars
  BY <1>3 DEF vars, redisVars, historyVars, Kept, StillWaits, TypeOK
<1>4. QED
  BY <1>1, <1>2, <1>3 DEF Next

\* The number of a request and the arrival of its call stay in step.
LEMMA NumberedInductive ==
    ASSUME Punctual, TypeOK, WaitInv, WaitInv', TypeOK', Numbered, [Next]_vars
    PROVE  Numbered'
<1> SUFFICES ASSUME NEW p \in Calls
             PROVE  /\ arrival'[p] <= sequence'
                    /\ pc'[p] \in {"idle", "enqueue"} => arrival'[p] = 0
                    /\ request'[p].ttl > 0 => arrival'[p] <= request'[p].seq
                    /\ StillWaits(p)' => request'[p].seq = arrival'[p]
  BY DEF Numbered, StillWaits
<1>0. /\ arrival[p] <= sequence
      /\ pc[p] \in {"idle", "enqueue"} => arrival[p] = 0
      /\ request[p].ttl > 0 => arrival[p] <= request[p].seq
      /\ StillWaits(p) => request[p].seq = arrival[p]
  BY DEF Numbered
<1>1. Lives(p)
  BY DEF WaitInv, RequestLives, Lives
<1>2. StillWaits(p)' => request'[p].ttl > 0
  <2>1. Lives(p)'
    BY DEF WaitInv, RequestLives, Lives
  <2>2. QED
    BY <2>1, ConfigAssumption DEF Lives, TypeOK
<1>3. /\ arrival[p] \in Nat /\ sequence \in Nat /\ request[p].seq \in Nat
      /\ request[p].ttl \in Nat
  BY DEF TypeOK
<1>4. CASE Tick
  <2>1. request'[p] = NoRequest \/ (request'[p].seq = request[p].seq /\ request[p].ttl > 0)
    BY <1>3, <1>4 DEF Tick, OlderRequest
  <2>2. StillWaits(p)' => StillWaits(p)
    BY <1>1, <1>4, TickKeepsRequest
  <2>3. /\ arrival' = arrival /\ sequence' = sequence
        /\ pc'[p] \in {"idle", "enqueue"} => pc[p] \in {"idle", "enqueue"}
    BY <1>4 DEF Tick, TypeOK
  <2>4. QED
    BY <1>0, <1>2, <1>3, <2>1, <2>2, <2>3 DEF NoRequest
<1>5. CASE ~Tick
  <2>1. /\ sequence' >= sequence /\ sequence' \in Nat
        /\ pc'[p] \in {"idle", "enqueue"} => pc[p] \in {"idle", "enqueue"}
        /\ StillWaits(p)' => StillWaits(p) \/ (pc[p] = "enqueue" /\ Enqueued(p))
    BY <1>5, RequestStep DEF TypeOK
  <2>2. CASE Enqueued(p)
    <3>1. StillWaits(p)' => pc[p] = "enqueue"
      BY <1>1, <2>1, <2>2 DEF Enqueued, Lives, StillWaits, Waiting
    <3>2. /\ request'[p].seq = sequence + 1 /\ sequence' = sequence + 1
          /\ arrival'[p] = IF arrival[p] = 0 THEN sequence + 1 ELSE arrival[p]
          /\ pc'[p] \notin {"idle", "enqueue"}
      BY <2>2 DEF Enqueued
    <3>3. QED
      BY <1>0, <1>3, <3>1, <3>2
  <2>3. CASE Gone(p) \/ Kept(p)
    <3>1. StillWaits(p)' => StillWaits(p)
      <4>1. pc[p] = "enqueue" /\ Enqueued(p) => arrival'[p] = sequence + 1 /\ arrival[p] = 0
        BY <1>0 DEF Enqueued
      <4>2. QED
        BY <1>3, <2>1, <2>3, <4>1 DEF Gone, Kept
    <3>2. /\ arrival'[p] = arrival[p]
          /\ \/ request'[p].ttl = 0
             \/ /\ request'[p].seq = request[p].seq
                /\ request'[p].ttl > 0 => request[p].ttl > 0
      BY <2>3 DEF Gone, Kept, NoRequest
    <3>3. QED
      BY <1>0, <1>2, <1>3, <2>1, <3>1, <3>2
  <2>4. QED
    BY <1>5, <2>2, <2>3, RequestStep
<1>6. QED
  BY <1>4, <1>5

\* Waiting times keep the order of the arrivals: a call that enters has waited no
\* time, and the time that passes is counted for all, up to the same bound.
LEMMA EarlierWaitedLongerInductive ==
    ASSUME Punctual, TypeOK, WaitInv, WaitInv', TypeOK', OrderInv, [Next]_vars
    PROVE  EarlierWaitedLonger'
<1> SUFFICES ASSUME NEW p \in Calls, NEW q \in Calls, StillWaits(p)',
                    request'[q].ttl > 0, arrival'[p] <= arrival'[q]
             PROVE  request'[q].waited <= request'[p].waited
  BY DEF EarlierWaitedLonger, StillWaits
<1>0. (StillWaits(p) /\ request[q].ttl > 0 /\ arrival[p] <= arrival[q])
          => request[q].waited <= request[p].waited
  BY DEF OrderInv, EarlierWaitedLonger
<1>1. Lives(p) /\ Lives(p)'
  BY DEF WaitInv, RequestLives, Lives
<1>2. request'[p].ttl > 0
  BY <1>1, ConfigAssumption DEF Lives, TypeOK
<1>3. /\ request[p].waited \in Nat /\ request[q].waited \in Nat
      /\ request'[p].waited \in Nat
      /\ request[p].ttl \in Nat /\ request[q].ttl \in Nat
      /\ arrival[p] \in Nat /\ arrival[q] \in Nat /\ sequence \in Nat
  BY DEF TypeOK
<1>4. CASE Tick
  <2>1. StillWaits(p) /\ request[p].ttl > 1
    BY <1>1, <1>4, TickKeepsRequest
  <2>2. request[q].ttl > 1
    BY <1>3, <1>4 DEF Tick, OlderRequest, NoRequest
  <2>3. request[q].waited <= request[p].waited
    BY <1>0, <1>3, <1>4, <2>1, <2>2 DEF Tick
  <2>4. /\ request'[p].waited = Smaller(request[p].waited + 1, WaitCap)
        /\ request'[q].waited = Smaller(request[q].waited + 1, WaitCap)
    BY <1>3, <1>4, <2>1, <2>2 DEF Tick, OlderRequest
  <2>5. QED
    BY <1>3, <2>3, <2>4, ConfigAssumption DEF Smaller
<1>5. CASE ~Tick
  <2>1. CASE Enqueued(q)
    BY <1>3, <2>1 DEF Enqueued
  <2>2. CASE Gone(q)
    BY <2>2 DEF Gone, NoRequest
  <2>3. CASE Kept(q)
    <3>1. request[q].ttl > 0 /\ arrival'[q] = arrival[q] /\ request'[q].waited = request[q].waited
      BY <2>3 DEF Kept
    <3>2. arrival[q] <= sequence /\ (pc[p] = "enqueue" => arrival[p] = 0)
      BY DEF OrderInv, Numbered
    <3>3. ~(pc[p] = "enqueue" /\ Enqueued(p))
      BY <1>3, <3>1, <3>2 DEF Enqueued
    <3>4. StillWaits(p) /\ ~Enqueued(p)
      <4>1. StillWaits(p)
        BY <1>5, <3>3, RequestStep
      <4>2. QED
        BY <1>1, <3>3, <4>1 DEF Enqueued, Lives
    <3>5. ~Gone(p)
      BY <1>2 DEF Gone, NoRequest
    <3>6. Kept(p)
      BY <1>5, <3>4, <3>5, RequestStep
    <3>7. QED
      BY <1>0, <3>1, <3>4, <3>6 DEF Kept
  <2>4. QED
    BY <1>5, <2>1, <2>2, <2>3, RequestStep
<1>6. QED
  BY <1>4, <1>5

\* In a punctual system every step keeps the order of the requests.
LEMMA OrderInvInductive ==
    ASSUME Punctual, TypeOK, WaitInv, OrderInv, TypeOK', [Next]_vars
    PROVE  OrderInv'
BY WaitInvInductive, NumberedInductive, EarlierWaitedLongerInductive DEF OrderInv

\* No call has a request in the initial state.
LEMMA OrderInvInit == Init => OrderInv
BY DEF Init, OrderInv, Numbered, EarlierWaitedLonger, StillWaits, Waiting, NoRequest

\* In a punctual system the invariants of waiting and of order hold all along.
LEMMA OrderHolds ==
    ASSUME Punctual
    PROVE  Spec => [](TypeOK /\ WaitInv /\ OrderInv)
<1>1. TypeOK /\ WaitInv /\ [Next]_vars => WaitInv'
  BY WaitInvInductive
<1>2. TypeOK /\ WaitInv /\ OrderInv /\ TypeOK' /\ [Next]_vars => OrderInv'
  BY OrderInvInductive
<1>3. QED
  BY <1>1, <1>2, WaitInvInit, OrderInvInit, TypeCorrect, PTL DEF Spec

\* Only TRY_ACQUIRE grants the lock, to a call that is next.
LEMMA GrantedHow ==
    ASSUME TypeOK, [Next]_vars, NEW q \in Calls, Granted(q)
    PROVE  TryAcquire(q) /\ IsNext(q)
<1> USE DEF Granted
<1>1. ASSUME NEW r \in Calls, r # q PROVE ~TryAcquire(r)
  BY <1>1 DEF TryAcquire, AcquireScript
<1>2. ASSUME NEW r \in Calls PROVE ~Renew(r) /\ ~FinishRelease(r)
  BY CallsAssumption
  DEF Renew, RenewScript, FinishRelease, ReleaseScript, Expired, TypeOK, Key
<1>3. ~Tick
  BY CallsAssumption DEF Tick, Older, Expired, TypeOK, Key
<1>4. QED
  BY <1>1, <1>2, <1>3, LockWriters DEF TryAcquire

\* Dividing by the aging interval keeps the order of two waiting times.
LEMMA DivisionMonotone ==
    ASSUME NEW a \in Nat, NEW b \in Nat, NEW n \in Nat \ {0}, a <= b
    PROVE  a \div n \in Nat /\ b \div n \in Nat /\ a \div n <= b \div n
OBVIOUS

\* Multiplying by the aging step keeps the order of two numbers of intervals.
LEMMA ProductMonotone ==
    ASSUME NEW a \in Nat, NEW b \in Nat, NEW n \in Nat, a <= b
    PROVE  a * n \in Nat /\ b * n \in Nat /\ a * n <= b * n
OBVIOUS

\* With an equally good priority, the one who waited longer ranks no worse.
LEMMA LongerWaitRanksNoWorse ==
    ASSUME TypeOK, NEW p \in Calls, NEW q \in Calls, Base(p) <= Base(q),
           request[q].waited <= request[p].waited
    PROVE  /\ Effective(p) \in Int /\ Effective(q) \in Int
           /\ Effective(p) <= Effective(q)
<1>1. Base(p) \in Int /\ Base(q) \in Int
  BY ConfigAssumption DEF Base, Larger, Smaller
<1>2. CASE AgingEnabled
  <2> DEFINE a == request[q].waited \div AgingInterval
             b == request[p].waited \div AgingInterval
  <2>1. a \in Nat /\ b \in Nat /\ a <= b
    BY DivisionMonotone, ConfigAssumption DEF TypeOK
  <2>2. a * AgingStep \in Nat /\ b * AgingStep \in Nat /\ a * AgingStep <= b * AgingStep
    BY <2>1, ProductMonotone, ConfigAssumption
  <2>3. /\ Effective(p) = Larger(MinEffective, Base(p) - b * AgingStep)
        /\ Effective(q) = Larger(MinEffective, Base(q) - a * AgingStep)
    BY <1>2 DEF Effective
  <2>4. QED
    BY <1>1, <2>2, <2>3, ConfigAssumption DEF Larger
<1>3. CASE ~AgingEnabled
  BY <1>1, <1>3 DEF Effective
<1>4. QED
  BY <1>2, <1>3

\* A request that has aged to the floor ranks no worse than any other.
LEMMA AgedOutRanksFirst ==
    ASSUME TypeOK, NEW p \in Calls, NEW q \in Calls, AgedOut(p)
    PROVE  /\ Effective(p) \in Int /\ Effective(q) \in Int
           /\ Effective(p) <= Effective(q)
<1> DEFINE a == (request[p].waited \div AgingInterval) * AgingStep
           b == (request[q].waited \div AgingInterval) * AgingStep
<1>1. Base(p) \in Int /\ Base(q) \in Int
  BY ConfigAssumption DEF Base, Larger, Smaller
<1>2. a \in Int /\ b \in Int
  <2>1. request[p].waited \in Nat /\ request[q].waited \in Nat
    BY DEF TypeOK
  <2>2. QED
    BY <2>1, DivisionMonotone, ProductMonotone, ConfigAssumption
<1>3. Base(p) - a <= MinEffective
  BY DEF AgedOut
<1>4. /\ Effective(p) = Larger(MinEffective, Base(p) - a)
      /\ Effective(q) = Larger(MinEffective, Base(q) - b)
  BY DEF AgedOut, Effective
<1>5. QED
  BY <1>1, <1>2, <1>3, <1>4, ConfigAssumption DEF Larger

\* A call that is granted the lock before one that waits and ranks no worse has the
\* same rank, and arrived earlier.
LEMMA OvertakenByEarlier ==
    ASSUME TypeOK, WaitInv, OrderInv, [Next]_vars, NEW p \in Calls, NEW q \in Calls,
           Granted(q), p # q, StillWaits(p),
           Effective(p) \in Int, Effective(q) \in Int, Effective(p) <= Effective(q)
    PROVE  arrival[q] < arrival[p]
<1>1. Live(p)
  BY LivesMeansLive DEF WaitInv, RequestLives, Lives
<1>2. Live(q) /\ Before(q, p)
  BY <1>1, GrantedHow DEF IsNext
<1>3. request[q].seq < request[p].seq
  BY <1>2 DEF Before
<1>4. arrival[q] <= request[q].seq /\ request[p].seq = arrival[p]
  BY <1>2 DEF Live, OrderInv, Numbered
<1>5. QED
  BY <1>3, <1>4 DEF TypeOK

\* First come, first served: in a punctual system no later call of no better
\* priority is granted the lock before one that waits.
THEOREM FirstComeFirstServedHolds ==
    ASSUME Punctual
    PROVE  Spec => FirstComeFirstServed
<1>1. TypeOK /\ WaitInv /\ OrderInv /\ [Next]_vars =>
        [\A p, q \in Calls :
          (Granted(q) /\ p # q /\ StillWaits(p) /\ Base(p) <= Base(q))
             => arrival[q] < arrival[p]]_vars
  <2> SUFFICES ASSUME TypeOK, WaitInv, OrderInv, [Next]_vars,
                      NEW p \in Calls, NEW q \in Calls,
                      Granted(q), p # q, StillWaits(p), Base(p) <= Base(q),
                      arrival[p] <= arrival[q]
               PROVE  arrival[q] < arrival[p]
    BY DEF TypeOK
  <2>1. request[q].ttl > 0
    BY GrantedHow DEF IsNext, Live
  <2>2. request[q].waited <= request[p].waited
    BY <2>1 DEF OrderInv, EarlierWaitedLonger
  <2>3. QED
    BY <2>2, LongerWaitRanksNoWorse, OvertakenByEarlier
<1>2. QED
  BY <1>1, OrderHolds, PTL DEF Spec, FirstComeFirstServed

\* Aging ends starvation: in a punctual system no later call overtakes one that has
\* waited long enough to age to the floor, whatever the priorities.
THEOREM AgingEndsOvertakingHolds ==
    ASSUME Punctual
    PROVE  Spec => AgingEndsOvertaking
<1>1. TypeOK /\ WaitInv /\ OrderInv /\ [Next]_vars =>
        [\A p, q \in Calls :
          (Granted(q) /\ p # q /\ StillWaits(p) /\ AgedOut(p))
             => arrival[q] < arrival[p]]_vars
  BY AgedOutRanksFirst, OvertakenByEarlier
<1>2. QED
  BY <1>1, OrderHolds, PTL DEF Spec, AgingEndsOvertaking

=============================================================================
