-------------------------- MODULE Extraction_proofs --------------------------
(* Proofs about Extraction, for any number of executions, deaths and retries and all
   timeouts in the relation that ExtractionAssumption states. *)
EXTENDS Extraction, TLAPS

Steps == Timed \cup Ended \cup {"queued", "download", "put", "stat", "update", "failing"}

LEMMA CallType ==
    ASSUME TypeOK, NEW e \in Executions
    PROVE  Call(e) \in Calls /\ Call(e) # None
<1>1. e # 0 /\ deaths[e] \in 0 .. MaxDeaths
  BY ExtractionAssumption DEF TypeOK, Executions
<1>2. QED
  BY <1>1 DEF Call, Calls, None

\* An extraction has at most five artifacts, the content and the metrics among them, and
\* the images always with their index.
OrderOf(some) ==
    LET part(k, keys) == IF k \in some THEN keys ELSE <<>>
    IN  <<"content">> \o part("markdown", <<"markdown">>)
            \o <<"metrics">> \o part("images", <<"images", "index">>)

LEMMA OrderFacts ==
    ASSUME NEW some \in SUBSET Optional
    PROVE  /\ OrderOf(some) \in Seq(Keys) /\ Len(OrderOf(some)) \in 2 .. 5
           /\ \A k \in Keys : (\E i \in 1 .. Len(OrderOf(some)) : OrderOf(some)[i] = k)
                  <=> \/ k \in {"content", "metrics"} \cup some
                      \/ k = "index" /\ "images" \in some
<1>1. CASE "markdown" \in some /\ "images" \in some
  <2>1. OrderOf(some) = <<"content">> \o <<"markdown">> \o <<"metrics">> \o <<"images", "index">>
    BY <1>1 DEF OrderOf
  <2>2. /\ OrderOf(some) \in Seq(Keys) /\ Len(OrderOf(some)) = 5
        /\ OrderOf(some)[1] = "content" /\ OrderOf(some)[2] = "markdown"
        /\ OrderOf(some)[3] = "metrics" /\ OrderOf(some)[4] = "images"
        /\ OrderOf(some)[5] = "index"
    BY <2>1 DEF Keys
  <2>3. QED
    BY <1>1, <2>2 DEF Keys, Optional
<1>2. CASE "markdown" \in some /\ "images" \notin some
  <2>1. OrderOf(some) = <<"content">> \o <<"markdown">> \o <<"metrics">> \o <<>>
    BY <1>2 DEF OrderOf
  <2>2. /\ OrderOf(some) \in Seq(Keys) /\ Len(OrderOf(some)) = 3
        /\ OrderOf(some)[1] = "content" /\ OrderOf(some)[2] = "markdown"
        /\ OrderOf(some)[3] = "metrics"
    BY <2>1 DEF Keys
  <2>3. QED
    BY <1>2, <2>2 DEF Keys, Optional
<1>3. CASE "markdown" \notin some /\ "images" \in some
  <2>1. OrderOf(some) = <<"content">> \o <<>> \o <<"metrics">> \o <<"images", "index">>
    BY <1>3 DEF OrderOf
  <2>2. /\ OrderOf(some) \in Seq(Keys) /\ Len(OrderOf(some)) = 4
        /\ OrderOf(some)[1] = "content" /\ OrderOf(some)[2] = "metrics"
        /\ OrderOf(some)[3] = "images" /\ OrderOf(some)[4] = "index"
    BY <2>1 DEF Keys
  <2>3. QED
    BY <1>3, <2>2 DEF Keys, Optional
<1>4. CASE "markdown" \notin some /\ "images" \notin some
  <2>1. OrderOf(some) = <<"content">> \o <<>> \o <<"metrics">> \o <<>>
    BY <1>4 DEF OrderOf
  <2>2. /\ OrderOf(some) \in Seq(Keys) /\ Len(OrderOf(some)) = 2
        /\ OrderOf(some)[1] = "content" /\ OrderOf(some)[2] = "metrics"
    BY <2>1 DEF Keys
  <2>3. QED
    BY <1>4, <2>2 DEF Keys, Optional
<1>5. QED
  BY <1>1, <1>2, <1>3, <1>4

LEMMA OrderType ==
    ASSUME TypeOK, NEW e \in Executions
    PROVE  /\ found[Call(e)] \in SUBSET Optional
           /\ Order(e) = OrderOf(found[Call(e)])
           /\ Order(e) \in Seq(Keys) /\ Len(Order(e)) \in 2 .. 5
<1>1. found[Call(e)] \in SUBSET Optional
  BY CallType DEF TypeOK
<1>2. Order(e) = OrderOf(found[Call(e)])
  BY DEF Order, OrderOf
<1>3. QED
  BY <1>1, <1>2, OrderFacts

-----------------------------------------------------------------------------
(* How far an execution is with its artifacts *)

\* An execution that has put n artifacts holds the references of the first n of its order,
\* all of its own call, and puts no more than there are.  One that has failed puts nothing
\* any more.
Held(e) == {Order(e)[i] : i \in 1 .. done[e]}
Before == {"queued", "download"} \cup Timed
PutOf(e) ==
    /\ pc[e] \in {"put", "stat"} => done[e] < Len(Order(e))
    /\ pc[e] = "update" => done[e] = Len(Order(e))
    /\ pc[e] \in Before => done[e] = 0
    /\ pc[e] \in {"put", "stat", "update"} \cup Before =>
          \A k \in Keys : refs[e][k] = IF k \in Held(e) THEN Call(e) ELSE None
PutInv == \A e \in Executions : PutOf(e)

-----------------------------------------------------------------------------
(* Whose artifacts the manifest names *)

\* The call whose content the manifest names has ended its work.
NamedInv ==
    \A e \in Executions : \A d \in 0 .. MaxDeaths :
        manifest.names["content"] = <<e, d>> => d < deaths[e] \/ (d = deaths[e] /\ pc[e] = "done")

-----------------------------------------------------------------------------
(* The clock of an execution *)

\* Until its last request has been answered an execution is at most one unit of time
\* past its deadline, and that only while the request is under way.
ClockInv ==
    \A e \in Executions :
        /\ pc[e] \in {"queued", "download"} => age[e] = 0
        /\ pc[e] = "waiting" => age[e] <= LeaseWait
        /\ pc[e] = "submit" => age[e] <= LeaseWait + IF late[e] THEN 1 ELSE 0
        /\ pc[e] = "poll" => age[e] <= Timeout + IF late[e] THEN 1 ELSE 0

-----------------------------------------------------------------------------
(* The lease *)

\* Whoever talks to the server is inside its lease, only one call is, and the server has
\* a task for an execution only between its submission and its result.
HolderInv ==
    /\ \A c, d \in Calls : stage[c] = "inside" /\ stage[d] = "inside" => c = d
    /\ \A e \in Executions :
          /\ pc[e] \in Requesting => stage[Call(e)] = "inside"
          /\ server[e] # "none" => pc[e] \in {"poll", "fetch"}
          /\ server[e] = "processing" => pc[e] = "poll"
-----------------------------------------------------------------------------
(* Type correctness *)

LEMMA TypeInit == Init => TypeOK
<1> SUFFICES ASSUME Init
             PROVE  TypeOK
  OBVIOUS
<1>1. stage \in [Calls -> {"before", "inside", "past"}]
  BY DEF Init, Lease!Init
<1>2. /\ age \in [Executions -> 0 .. Soft] /\ deaths \in [Executions -> 0 .. MaxDeaths]
      /\ done \in [Executions -> 0 .. 5] /\ tries \in [Executions -> 0 .. MaxTries - 1]
  BY ExtractionAssumption DEF Init
<1>3. /\ refs \in [Executions -> [Keys -> {None} \cup Calls]]
      /\ objects \in [Keys -> {None} \cup Calls]
      /\ manifest \in [status : {"PENDING", "RUNNING", "COMPLETED", "FAILED"},
                       names : [Keys -> {None} \cup Calls]]
  BY DEF Init, NoRefs
<1>4. /\ server \in [Executions -> {"none", "processing", "completed", "failed"}]
      /\ zombies \in Nat
      /\ pc \in [Executions -> Timed \cup Ended
                      \cup {"queued", "download", "put", "stat", "update", "failing"}]
      /\ late \in [Executions -> BOOLEAN] /\ found \in [Calls -> SUBSET Optional]
      /\ force \in [Executions -> Forces]
  BY DEF Init
<1>5. QED
  BY <1>1, <1>2, <1>3, <1>4, Zenon DEF TypeOK

\* What a step of the lease leaves of its type.
LEMMA LeaseType ==
    ASSUME TypeOK, NEW c \in Calls, Lease!Enter(c) \/ Lease!Leave(c) \/ Lease!GiveUp(c)
    PROVE  stage' \in [Calls -> {"before", "inside", "past"}]
<1>1. \E s \in {"inside", "past"} : stage' = [stage EXCEPT ![c] = s]
  BY DEF Lease!Enter, Lease!Leave, Lease!GiveUp
<1>2. stage \in [Calls -> {"before", "inside", "past"}]
  BY DEF TypeOK
<1>3. QED
  BY <1>1, <1>2

LEMMA GoType ==
    ASSUME TypeOK, NEW e \in Executions, NEW step \in Steps, Go(e, step)
    PROVE  pc' \in [Executions -> Steps] /\ pc'[e] = step
BY DEF TypeOK, Go, Steps

LEMMA AbandonType ==
    ASSUME TypeOK, NEW e \in Executions, Abandon(e)
    PROVE  /\ server' \in [Executions -> {"none", "processing", "completed", "failed"}]
           /\ zombies' \in Nat
BY DEF TypeOK, Abandon

LEMMA LeaveType ==
    ASSUME TypeOK, NEW e \in Executions, Leave(e)
    PROVE  /\ stage' \in [Calls -> {"before", "inside", "past"}]
           /\ age' \in [Executions -> 0 .. Soft]
           /\ late' \in [Executions -> BOOLEAN]
<1>1. stage' \in [Calls -> {"before", "inside", "past"}]
  BY CallType, LeaseType DEF Leave
<1>2. QED
  BY <1>1, ExtractionAssumption DEF TypeOK, Leave

LEMMA DiscardType ==
    ASSUME TypeOK, NEW e \in Executions, Discard(e)
    PROVE  /\ found' \in [Calls -> SUBSET Optional]
           /\ \A c \in Calls \ {Call(e)} : found'[c] = found[c]
BY CallType DEF TypeOK, Discard

\* A reference is taken of the next artifact in the order.
LEMMA StatFacts ==
    ASSUME TypeOK, PutInv, NEW e \in Executions, Stat(e)
    PROVE  /\ done[e] \in Nat /\ done[e] < Len(Order(e))
           /\ Key(e) \in Keys /\ Key(e) = Order(e)[done[e] + 1]
           /\ refs' = [refs EXCEPT ![e] = [refs[e] EXCEPT ![Key(e)] = Call(e)]]
<1>1. done[e] \in Nat /\ done[e] < Len(Order(e))
  <2>1. pc[e] = "stat"
    BY DEF Stat
  <2>2. done[e] \in 0 .. 5
    BY DEF TypeOK
  <2>3. PutOf(e)
    BY DEF PutInv
  <2>4. done[e] < Len(Order(e))
    BY <2>1, <2>3, Zenon DEF PutOf
  <2>5. QED
    BY <2>2, <2>4
<1>2. Key(e) \in Keys /\ Key(e) = Order(e)[done[e] + 1]
  BY <1>1, OrderType DEF Key
<1>3. refs' = [refs EXCEPT ![e] = [refs[e] EXCEPT ![Key(e)] = Call(e)]]
  BY DEF Stat, Reference
<1>4. QED
  BY <1>1, <1>2, <1>3

LEMMA TypeStep == TypeOK /\ PutInv /\ [Next]_vars => TypeOK'
<1> SUFFICES ASSUME TypeOK, PutInv, [Next]_vars
             PROVE  TypeOK'
  OBVIOUS
<1> USE DEF timeVars, putVars, storeVars
<1>1. ASSUME NEW e \in Executions, Start(e) PROVE TypeOK'
  BY <1>1 DEF TypeOK, Start, Go, Ended
<1>2. ASSUME NEW e \in Executions, Download(e) PROVE TypeOK'
  BY <1>2 DEF TypeOK, Download, Go, Timed
<1>3. ASSUME NEW e \in Executions, Acquire(e) PROVE TypeOK'
  <2>1. stage' \in [Calls -> {"before", "inside", "past"}]
    BY <1>3, CallType, LeaseType DEF Acquire
  <2>2. QED
    BY <1>3, <2>1 DEF TypeOK, Acquire, Request, Go, Timed, Requesting
<1>4. ASSUME NEW e \in Executions, GiveUp(e) PROVE TypeOK'
  <2>1. stage' \in [Calls -> {"before", "inside", "past"}]
    BY <1>4, CallType, LeaseType DEF GiveUp
  <2>2. QED
    BY <1>4, <2>1, ExtractionAssumption DEF TypeOK, GiveUp, Go
<1>5. ASSUME NEW e \in Executions, Submit(e) PROVE TypeOK'
  BY <1>5 DEF TypeOK, Submit, Request, Go, Timed, Requesting
<1>6. ASSUME NEW e \in Executions, SubmitUnanswered(e) PROVE TypeOK'
  BY <1>6, LeaveType DEF TypeOK, SubmitUnanswered, Go
<1>7. ASSUME NEW e \in Executions, PollAgain(e) \/ PollDone(e) PROVE TypeOK'
  BY <1>7 DEF TypeOK, PollAgain, PollDone, Request, Go, Timed, Requesting
<1>8. ASSUME NEW e \in Executions, PollFailed(e) \/ RequestFails(e) PROVE TypeOK'
  BY <1>8, LeaveType, AbandonType DEF TypeOK, PollFailed, RequestFails, Go
<1>9. ASSUME NEW e \in Executions, Fetch(e) PROVE TypeOK'
  <2>1. found' \in [Calls -> SUBSET Optional]
    BY <1>9, CallType DEF TypeOK, Fetch
  <2>2. QED
    BY <1>9, <2>1, LeaveType, AbandonType DEF TypeOK, Fetch, Go
<1>10. ASSUME NEW e \in Executions, Put(e) PROVE TypeOK'
  <2>1. objects' \in [Keys -> {None} \cup Calls]
    BY <1>10, CallType DEF TypeOK, Put, Write
  <2>2. tries' \in [Executions -> 0 .. MaxTries - 1]
    <3>1. MaxTries \in Nat \ {0} /\ tries[e] \in 0 .. MaxTries - 1
      BY ExtractionAssumption DEF TypeOK
    <3>2. \/ UNCHANGED tries
          \/ tries' = [tries EXCEPT ![e] = 0]
          \/ tries[e] + 1 < MaxTries /\ tries' = [tries EXCEPT ![e] = tries[e] + 1]
      BY <1>10 DEF Put, Retry
    <3>3. QED
      BY <3>1, <3>2 DEF TypeOK
  <2>3. pc' \in [Executions -> Steps]
    BY <1>10, GoType DEF TypeOK, Put, Retry, Discard, Steps
  <2>4. found' \in [Calls -> SUBSET Optional]
    BY <1>10, DiscardType DEF TypeOK, Put, Retry
  <2>5. QED
    BY <1>10, <2>1, <2>2, <2>3, <2>4 DEF TypeOK, Put, Steps
<1>11. ASSUME NEW e \in Executions, Stat(e) PROVE TypeOK'
  <2>1. refs' \in [Executions -> [Keys -> {None} \cup Calls]]
    <3>1. refs \in [Executions -> [Keys -> {None} \cup Calls]]
      BY DEF TypeOK
    <3>2. [refs[e] EXCEPT ![Key(e)] = Call(e)] \in [Keys -> {None} \cup Calls]
      BY <1>11, <3>1, CallType, StatFacts
    <3>3. QED
      BY <1>11, <3>1, <3>2, StatFacts
  <2>2. done' \in [Executions -> 0 .. 5]
    <3>1. done[e] \in 0 .. 5 /\ done[e] < 5
      <4>1. done[e] \in Nat /\ done[e] < Len(Order(e)) /\ Len(Order(e)) \in 2 .. 5
        BY <1>11, OrderType, StatFacts
      <4>2. \E n \in 2 .. 5 : done[e] < n
        BY <4>1, Zenon
      <4>3. QED
        BY <4>1, <4>2
    <3>2. QED
      BY <1>11, <3>1 DEF TypeOK, Stat
  <2>3. pc' \in [Executions -> Steps]
    BY <1>11, GoType DEF Stat, Steps
  <2>4. QED
    BY <1>11, <2>1, <2>2, <2>3 DEF TypeOK, Stat, Steps
<1>12. ASSUME NEW e \in Executions, Update(e) PROVE TypeOK'
  BY <1>12 DEF TypeOK, Update, Go, Ended
<1>13. ASSUME NEW e \in Executions, Fails(e) \/ RecordFailure(e) PROVE TypeOK'
  <2>1. found' \in [Calls -> SUBSET Optional]
    BY <1>13, DiscardType DEF TypeOK, Fails, RecordFailure, putVars
  <2>2. pc' \in [Executions -> Steps]
    BY <1>13, GoType DEF Fails, RecordFailure, Discard, Steps, Ended
  <2>3. QED
    BY <1>13, <2>1, <2>2 DEF TypeOK, Fails, RecordFailure, Steps
<1>14. ASSUME NEW e \in Executions, Parse(e) PROVE TypeOK'
  BY <1>14 DEF TypeOK, Parse
<1>15. ASSUME ParseZombie PROVE TypeOK'
  BY <1>15 DEF TypeOK, ParseZombie
<1>16. ASSUME Tick PROVE TypeOK'
  <2>1. age' \in [Executions -> 0 .. Soft]
    BY <1>16, ExtractionAssumption DEF TypeOK, Tick, Timed
  <2>2. QED
    BY <1>16, <2>1 DEF TypeOK, Tick
<1>17. ASSUME NEW e \in Executions, Redeliver(e) \/ Kill(e) PROVE TypeOK'
  <2>0. Dies(e) /\ Abandon(e)
    BY <1>17 DEF Redeliver, Kill, Dies
  <2>1. deaths' \in [Executions -> 0 .. MaxDeaths]
    <3>1. deaths[e] \in 0 .. MaxDeaths /\ deaths[e] < MaxDeaths
      BY <2>0 DEF TypeOK, Dies
    <3>2. QED
      BY <2>0, <3>1, ExtractionAssumption DEF TypeOK, Dies
  <2>2. pc' \in [Executions -> Steps]
    BY <1>17, GoType DEF Redeliver, Kill, Steps, Ended
  <2>3. refs' \in [Executions -> [Keys -> {None} \cup Calls]]
    BY <2>0 DEF TypeOK, Dies, NoRefs
  <2>4. found' \in [Calls -> SUBSET Optional]
    BY <2>0, CallType DEF TypeOK, Dies
  <2>5. QED
    BY <2>0, <2>1, <2>2, <2>3, <2>4, AbandonType, ExtractionAssumption DEF TypeOK, Dies, Steps
<1>18. ASSUME NEW e \in Executions, Expire(e) PROVE TypeOK'
  <2>1. PICK d \in 0 .. deaths[e] - 1 : Lease!Leave(<<e, d>>)
    BY <1>18 DEF Expire
  <2>2. <<e, d>> \in Calls
    BY ExtractionAssumption DEF TypeOK, Calls
  <2>3. QED
    BY <1>18, <2>1, <2>2, LeaseType DEF TypeOK, Expire
<1>19. CASE UNCHANGED vars
  BY <1>19 DEF TypeOK, vars
<1>20. QED
  BY <1>1, <1>2, <1>3, <1>4, <1>5, <1>6, <1>7, <1>8, <1>9, <1>10, <1>11, <1>12, <1>13,
     <1>14, <1>15, <1>16, <1>17, <1>18, <1>19 DEF Next

-----------------------------------------------------------------------------
(* The invariants hold at the beginning *)

LEMMA InvInit == Init => PutInv /\ NamedInv /\ ClockInv /\ HolderInv
<1> SUFFICES ASSUME Init
             PROVE  PutInv /\ NamedInv /\ ClockInv /\ HolderInv
  OBVIOUS
<1>1. PutInv
  BY DEF Init, PutInv, PutOf, Held, NoRefs, Keys
<1>2. ClockInv
  BY DEF Init, ClockInv
<1>3. HolderInv
  <2>1. \A c \in Calls : stage[c] # "inside"
    BY DEF Init, Lease!Init
  <2>2. QED
    BY <2>1 DEF Init, HolderInv, Requesting
<1>4. NamedInv
  BY DEF Init, NamedInv, NoRefs, Keys, None, Executions
<1>5. QED
  BY <1>1, <1>2, <1>3, <1>4

-----------------------------------------------------------------------------
(* Every step keeps what is said of the artifacts *)

\* What the steps of one execution leave of the artifacts of another.
LEMMA PutFrame ==
    ASSUME TypeOK, PutInv, NEW q \in Executions,
           UNCHANGED <<pc[q], done[q], refs[q], deaths[q]>>,
           found'[Call(q)] = found[Call(q)]
    PROVE  PutOf(q)'
<1>1. Call(q)' = Call(q) /\ Order(q)' = Order(q)
  BY DEF Call, Order
<1>2. Held(q)' = Held(q)
  BY <1>1, Zenon DEF Held
<1>3. PutOf(q)
  BY DEF PutInv
<1>4. QED
  BY <1>1, <1>2, <1>3, Zenon DEF PutOf

\* Moving to a step that puts nothing, with the artifacts of others as they are.
LEMMA PutKept ==
    ASSUME TypeOK, PutInv, NEW e \in Executions, NEW step \in Steps, Go(e, step),
           step \notin {"put", "stat", "update"},
           step \in Before => pc[e] \in Before /\ UNCHANGED found,
           \A c \in Calls \ {Call(e)} : found'[c] = found[c],
           UNCHANGED <<done, refs, deaths>>
    PROVE  PutInv'
<1>1. \A q \in Executions : pc'[q] = IF q = e THEN step ELSE pc[q]
  BY DEF TypeOK, Go
<1>2. ASSUME NEW q \in Executions \ {e} PROVE PutOf(q)'
  <2>1. Call(q) \in Calls \ {Call(e)}
    BY CallType DEF Call
  <2>2. QED
    BY <1>1, <2>1, PutFrame
<1>3. PutOf(e)'
  <2>1. CASE step \in Before
    BY <1>1, <2>1 DEF PutInv, PutOf, Held, Order, Call, Before, Timed, Requesting
  <2>2. CASE step \notin Before
    BY <1>1, <2>2 DEF PutOf
  <2>3. QED
    BY <2>1, <2>2
<1>4. QED
  BY <1>2, <1>3 DEF PutInv

LEMMA PutStep == TypeOK /\ PutInv /\ [Next]_vars => PutInv'
<1> SUFFICES ASSUME TypeOK, PutInv, [Next]_vars
             PROVE  PutInv'
  OBVIOUS
<1> USE DEF timeVars, putVars, storeVars
<1>1. ASSUME NEW e \in Executions,
             \/ Start(e) \/ Download(e) \/ Acquire(e) \/ GiveUp(e) \/ Submit(e)
             \/ SubmitUnanswered(e) \/ PollAgain(e) \/ PollDone(e)
      PROVE  PutInv'
  <2>1. UNCHANGED <<found, done, refs, deaths>>
    BY <1>1 DEF Start, Download, Acquire, GiveUp, Submit, SubmitUnanswered, PollAgain,
                PollDone
  <2>2. /\ pc[e] \in Before
        /\ \E step \in {"done", "download", "failing"} \cup Timed : Go(e, step)
    BY <1>1 DEF Start, Download, Acquire, GiveUp, Submit, SubmitUnanswered, PollAgain,
                PollDone, Request, Before, Timed, Requesting
  <2>3. QED
    BY <2>1, <2>2, PutKept DEF Steps, Before, Timed, Requesting, Ended
<1>2. ASSUME NEW e \in Executions,
             PollFailed(e) \/ RequestFails(e) \/ Fails(e) \/ RecordFailure(e) \/ Update(e)
      PROVE  PutInv'
  <2>1. UNCHANGED <<done, refs, deaths>>
    BY <1>2 DEF PollFailed, RequestFails, Fails, RecordFailure, Update
  <2>2. \A c \in Calls \ {Call(e)} : found'[c] = found[c]
    BY <1>2, DiscardType DEF PollFailed, RequestFails, Fails, RecordFailure, Update
  <2>3. \E step \in {"failing", "failed", "done"} : Go(e, step)
    BY <1>2 DEF PollFailed, RequestFails, Fails, RecordFailure, Update, Discard
  <2>4. QED
    BY <2>1, <2>2, <2>3, PutKept DEF Steps, Before, Timed, Requesting, Ended
<1>3. ASSUME NEW e \in Executions, Fetch(e) PROVE PutInv'
  <2>1. /\ \A q \in Executions : pc'[q] = IF q = e THEN "put" ELSE pc[q]
        /\ \A c \in Calls \ {Call(e)} : found'[c] = found[c]
        /\ UNCHANGED <<done, refs, deaths>>
    BY <1>3 DEF TypeOK, Fetch, Go
  <2>2. /\ done[e] = 0
        /\ \A k \in Keys : refs[e][k] = None
    BY <1>3 DEF Fetch, PutInv, PutOf, Held, Before, Timed, Requesting
  <2>3. \A q \in Executions \ {e} : PutOf(q)'
    BY <2>1, PutFrame, CallType DEF Call
  <2>4. found' \in [Calls -> SUBSET Optional]
    BY <1>3, CallType DEF Fetch, TypeOK
  <2>5. Len(Order(e)') \in 2 .. 5
    <3>1. Call(e)' = Call(e)
      BY <2>1 DEF Call
    <3>2. Order(e)' = OrderOf(found'[Call(e)])
      BY <3>1 DEF Order, OrderOf
    <3>3. QED
      BY <3>2, <2>4, CallType, OrderFacts
  <2>6. PutOf(e)'
    <3>1. pc'[e] = "put" /\ done'[e] = 0 /\ \A k \in Keys : refs'[e][k] = None
      BY <2>1, <2>2
    <3>2. Held(e)' = {}
      BY <3>1 DEF Held
    <3>3. done'[e] < Len(Order(e)')
      <4>1. 0 < Len(Order(e)')
        BY <2>5
      <4>2. QED
        BY <3>1, <4>1, Zenon
    <3>4. QED
      BY <3>1, <3>2, <3>3 DEF PutOf, Before, Timed, Requesting
  <2>7. QED
    BY <2>3, <2>6 DEF PutInv
<1>4. ASSUME NEW e \in Executions, Put(e) PROVE PutInv'
  <2>1. UNCHANGED <<done, refs, deaths>> /\ pc[e] = "put"
    BY <1>4 DEF Put
  <2>2. CASE Discard(e)
    BY <2>1, <2>2, PutKept, DiscardType DEF Discard, Steps, Before, Timed, Requesting
  <2>3. CASE UNCHANGED found /\ pc' = [pc EXCEPT ![e] = "stat"]
    <3>1. \A q \in Executions \ {e} : PutOf(q)'
      BY <2>1, <2>3, PutFrame
    <3>2. PutOf(e)'
      <4>1. pc'[e] = "stat" /\ Order(e)' = Order(e) /\ Call(e)' = Call(e)
        BY <2>1, <2>3 DEF TypeOK, Order, Call
      <4>2. QED
        BY <2>1, <4>1 DEF PutInv, PutOf, Held, Before, Timed, Requesting
    <3>3. QED
      BY <3>1, <3>2 DEF PutInv
  <2>4. CASE UNCHANGED <<pc, found>>
    BY <2>1, <2>4, PutFrame DEF PutInv
  <2>5. QED
    BY <1>4, <2>2, <2>3, <2>4 DEF Put, Go, Retry
<1>5. ASSUME NEW e \in Executions, Stat(e) PROVE PutInv'
  <2> DEFINE n == done[e]
  <2>1. /\ n \in Nat /\ n < Len(Order(e))
        /\ Key(e) \in Keys /\ Key(e) = Order(e)[n + 1]
        /\ refs' = [refs EXCEPT ![e] = [refs[e] EXCEPT ![Key(e)] = Call(e)]]
    BY <1>5, StatFacts
  <2>2. /\ done' = [done EXCEPT ![e] = n + 1]
        /\ pc' = [pc EXCEPT ![e] = IF n + 1 = Len(Order(e)) THEN "update" ELSE "put"]
        /\ UNCHANGED <<found, deaths>>
    BY <1>5 DEF Stat, Go
  <2>3. \A q \in Executions \ {e} : PutOf(q)'
    <3>1. \A q \in Executions \ {e} : UNCHANGED <<pc[q], done[q], refs[q], deaths[q]>>
      BY <2>1, <2>2 DEF TypeOK
    <3>2. QED
      BY <2>2, <3>1, PutFrame
  <2>4. /\ done'[e] = n + 1 /\ Order(e)' = Order(e) /\ Call(e)' = Call(e)
        /\ pc'[e] = IF n + 1 = Len(Order(e)) THEN "update" ELSE "put"
    BY <2>2 DEF TypeOK, Order, Call
  <2>5. Held(e)' = Held(e) \cup {Key(e)}
    <3>1. 1 .. n + 1 = (1 .. n) \cup {n + 1}
      BY <2>1
    <3>2. QED
      BY <2>1, <2>4, <3>1 DEF Held
  <2>6. \A k \in Keys : refs[e][k] = IF k \in Held(e) THEN Call(e) ELSE None
    BY <1>5 DEF Stat, PutInv, PutOf
  <2>7. \A k \in Keys : refs'[e][k] = IF k = Key(e) THEN Call(e) ELSE refs[e][k]
    <3>1. refs'[e] = [refs[e] EXCEPT ![Key(e)] = Call(e)]
      BY <2>1 DEF TypeOK
    <3>2. refs[e] \in [Keys -> {None} \cup Calls]
      BY DEF TypeOK
    <3>3. QED
      BY <3>1, <3>2
  <2>8. Len(Order(e)) \in Nat
    BY OrderType
  <2>9. PutOf(e)'
    <3>1. \A k \in Keys : refs'[e][k] = IF k \in Held(e)' THEN Call(e)' ELSE None
      BY <2>4, <2>5, <2>6, <2>7
    <3>2. QED
      BY <2>1, <2>4, <2>8, <3>1 DEF PutOf, Before, Timed, Requesting
  <2>10. QED
    BY <2>3, <2>9 DEF PutInv
<1>6. ASSUME NEW e \in Executions, Parse(e) \/ Expire(e) PROVE PutInv'
  BY <1>6, PutFrame DEF Parse, Expire, PutInv
<1>7. CASE ParseZombie \/ Tick \/ UNCHANGED vars
  BY <1>7, PutFrame DEF ParseZombie, Tick, vars, PutInv
<1>8. ASSUME NEW e \in Executions, Redeliver(e) \/ Kill(e) PROVE PutInv'
  <2>1. /\ \A q \in Executions \ {e} :
              /\ pc'[q] = pc[q] /\ done'[q] = done[q]
              /\ refs'[q] = refs[q] /\ deaths'[q] = deaths[q]
        /\ \A c \in Calls \ {Call(e)} : found'[c] = found[c]
        /\ pc'[e] \in {"queued", "killed"} /\ done'[e] = 0 /\ refs'[e] = NoRefs
    BY <1>8 DEF TypeOK, Redeliver, Kill, Dies, Go
  <2>2. \A q \in Executions \ {e} : PutOf(q)'
    BY <2>1, PutFrame, CallType DEF Call
  <2>3. PutOf(e)'
    BY <2>1 DEF PutOf, Held, NoRefs, Before, Timed, Requesting
  <2>4. QED
    BY <2>2, <2>3 DEF PutInv
<1>9. QED
  BY <1>1, <1>2, <1>3, <1>4, <1>5, <1>6, <1>7, <1>8 DEF Next

-----------------------------------------------------------------------------
(* Every step keeps what is said of the clocks *)

LEMMA ClockStep == TypeOK /\ ClockInv /\ [Next]_vars => ClockInv'
<1> SUFFICES ASSUME TypeOK, ClockInv, [Next]_vars
             PROVE  ClockInv'
  OBVIOUS
<1> USE DEF timeVars, putVars, storeVars
<1> /\ LeaseWait \in Nat /\ Timeout \in Nat /\ LeaseWait < Timeout
    /\ age \in [Executions -> Nat] /\ late \in [Executions -> BOOLEAN]
    /\ pc \in [Executions -> Steps]
  BY ExtractionAssumption DEF TypeOK, Steps
<1>1. ASSUME NEW e \in Executions,
             \/ Start(e) \/ GiveUp(e) \/ SubmitUnanswered(e) \/ PollFailed(e) \/ Fetch(e)
             \/ RequestFails(e) \/ Put(e) \/ Stat(e) \/ Update(e) \/ Fails(e)
             \/ RecordFailure(e) \/ Redeliver(e) \/ Kill(e)
      PROVE  ClockInv'
  <2>1. /\ \A q \in Executions \ {e} :
              age'[q] = age[q] /\ late'[q] = late[q] /\ pc'[q] = pc[q]
        /\ pc'[e] \notin {"waiting", "submit", "poll"}
        /\ pc'[e] \in {"queued", "download"} => age'[e] = 0
    BY <1>1 DEF ClockInv, Start, GiveUp, SubmitUnanswered, PollFailed, Fetch, RequestFails,
                Put, Retry, Discard, Stat, Update, Fails, RecordFailure, Redeliver, Kill, Dies,
                Leave, Go
  <2>2. QED
    BY <2>1 DEF ClockInv
<1>2. ASSUME NEW e \in Executions, Download(e) PROVE ClockInv'
  BY <1>2 DEF Download, Go, ClockInv
<1>3. ASSUME NEW e \in Executions, Acquire(e) \/ Submit(e) \/ PollAgain(e) \/ PollDone(e)
      PROVE  ClockInv'
  <2>1. /\ \A q \in Executions \ {e} :
              age'[q] = age[q] /\ late'[q] = late[q] /\ pc'[q] = pc[q]
        /\ age'[e] = age[e] /\ late'[e] = FALSE
    BY <1>3 DEF Acquire, Submit, PollAgain, PollDone, Request, Go
  <2>2. /\ pc'[e] \in {"submit", "poll", "fetch"}
        /\ pc'[e] = "submit" => age[e] <= LeaseWait
        /\ pc'[e] = "poll" => age[e] <= Timeout
    BY <1>3 DEF Acquire, Submit, PollAgain, PollDone, Request, Go, Overdue, ClockInv
  <2>3. QED
    BY <2>1, <2>2 DEF ClockInv
<1>4. ASSUME NEW e \in Executions, Parse(e) \/ Expire(e) PROVE ClockInv'
  BY <1>4 DEF Parse, Expire, ClockInv
<1>5. CASE ParseZombie
  BY <1>5 DEF ParseZombie, ClockInv
<1>6. CASE Tick
  <2> SUFFICES ASSUME NEW e \in Executions
               PROVE  /\ pc'[e] \in {"queued", "download"} => age'[e] = 0
                      /\ pc'[e] = "waiting" => age'[e] <= LeaseWait
                      /\ pc'[e] = "submit" => age'[e] <= LeaseWait + IF late'[e] THEN 1 ELSE 0
                      /\ pc'[e] = "poll" => age'[e] <= Timeout + IF late'[e] THEN 1 ELSE 0
    BY DEF ClockInv
  <2>1. /\ pc' = pc /\ age[e] \in Nat
        /\ age'[e] = age[e] + IF pc[e] \in Timed THEN 1 ELSE 0
    BY <1>6 DEF Tick
  <2>2. CASE pc[e] \notin Timed
    BY <2>1, <2>2 DEF ClockInv, Timed, Requesting
  <2>3. CASE pc[e] = "waiting"
    <3>1. age[e] < LeaseWait
      BY <1>6, <2>3 DEF Tick
    <3>2. QED
      BY <2>1, <2>3, <3>1 DEF Timed
  <2>4. CASE pc[e] \in Requesting
    <3>1. ~late[e]
      BY <1>6, <2>4 DEF Tick
    <3>2. late'[e]
      BY <1>6, <2>4, Zenon DEF Tick
    <3>3. age'[e] = age[e] + 1
      BY <2>1, <2>4 DEF Timed
    <3>4. QED
      BY <2>1, <2>4, <3>1, <3>2, <3>3 DEF ClockInv, Requesting
  <2>5. QED
    BY <2>2, <2>3, <2>4 DEF Timed
<1>7. CASE UNCHANGED vars
  BY <1>7 DEF vars, ClockInv
<1>8. QED
  BY <1>1, <1>2, <1>3, <1>4, <1>5, <1>6, <1>7 DEF Next

-----------------------------------------------------------------------------
(* Every step keeps what is said of the lease *)

\* Moving without the lease, the server's task given up if there was one.
LEMMA HolderKept ==
    ASSUME TypeOK, HolderInv, NEW e \in Executions, UNCHANGED deaths,
           \A q \in Executions \ {e} : pc'[q] = pc[q] /\ server'[q] = server[q],
           pc'[e] \notin Requesting, server'[e] = "none",
           \/ UNCHANGED stage
           \/ Lease!GiveUp(Call(e))
           \/ Lease!Leave(Call(e))
    PROVE  HolderInv'
<1>1. \A q \in Executions : Call(q)' = Call(q) /\ Call(q) \in Calls
  BY CallType DEF Call
<1>2. /\ \A c \in Calls : stage'[c] = "inside" => stage[c] = "inside"
      /\ \A c \in Calls \ {Call(e)} : stage'[c] = stage[c]
  BY <1>1 DEF TypeOK, Lease!GiveUp, Lease!Leave
<1>3. \A q \in Executions \ {e} : Call(q) # Call(e)
  BY DEF Call
<1>4. QED
  BY <1>1, <1>2, <1>3 DEF HolderInv

LEMMA HolderStep == TypeOK /\ HolderInv /\ [Next]_vars => HolderInv'
<1> SUFFICES ASSUME TypeOK, HolderInv, [Next]_vars
             PROVE  HolderInv'
  OBVIOUS
<1> USE DEF timeVars, putVars, storeVars
<1> /\ server \in [Executions -> {"none", "processing", "completed", "failed"}]
    /\ pc \in [Executions -> Steps]
  BY DEF TypeOK, Steps
<1>1. ASSUME NEW e \in Executions,
             \/ Start(e) \/ Download(e) \/ GiveUp(e) \/ SubmitUnanswered(e) \/ PollFailed(e)
             \/ Fetch(e) \/ RequestFails(e) \/ Put(e) \/ Stat(e) \/ Update(e)
             \/ Fails(e) \/ RecordFailure(e)
      PROVE  HolderInv'
  <2>1. /\ \A q \in Executions \ {e} : pc'[q] = pc[q] /\ server'[q] = server[q]
        /\ pc'[e] \notin Requesting
        /\ UNCHANGED deaths
    BY <1>1 DEF Start, Download, GiveUp, SubmitUnanswered, PollFailed, Fetch, RequestFails,
                Put, Retry, Discard, Stat, Update, Fails, RecordFailure, Abandon, Go,
                Requesting
  <2>2. server'[e] = "none"
    BY <1>1 DEF HolderInv, Start, Download, GiveUp, SubmitUnanswered, PollFailed, Fetch,
                RequestFails, Put, Stat, Update, Fails, RecordFailure, Abandon
  <2>3. UNCHANGED stage \/ Lease!GiveUp(Call(e)) \/ Lease!Leave(Call(e))
    BY <1>1, Zenon DEF Start, Download, GiveUp, SubmitUnanswered, PollFailed, Fetch,
                RequestFails, Put, Stat, Update, Fails, RecordFailure, Leave
  <2>4. QED
    BY <2>1, <2>2, <2>3, HolderKept
<1>2. ASSUME NEW e \in Executions, Acquire(e) PROVE HolderInv'
  <2>1. \A q \in Executions : Call(q)' = Call(q) /\ Call(q) \in Calls
    BY <1>2, CallType DEF Call, Acquire
  <2>2. /\ \A c \in Calls : stage[c] # "inside"
        /\ \A c \in Calls \ {Call(e)} : stage'[c] = stage[c]
        /\ stage'[Call(e)] = "inside"
    BY <1>2, <2>1 DEF TypeOK, Acquire, Lease!Enter
  <2>3. /\ \A q \in Executions \ {e} : pc'[q] = pc[q]
        /\ pc[e] = "waiting" /\ UNCHANGED server
    BY <1>2 DEF Acquire, Request, Go
  <2>4. QED
    BY <2>1, <2>2, <2>3 DEF HolderInv, Requesting
<1>3. ASSUME NEW e \in Executions, Submit(e) \/ PollAgain(e) \/ PollDone(e) PROVE HolderInv'
  <2>1. /\ \A q \in Executions \ {e} : pc'[q] = pc[q] /\ server'[q] = server[q]
        /\ pc[e] \in Requesting /\ pc'[e] \in {"poll", "fetch"}
        /\ server'[e] = "processing" => pc'[e] = "poll"
        /\ UNCHANGED <<deaths, stage>>
    BY <1>3 DEF Submit, PollAgain, PollDone, Request, Go, Requesting
  <2>2. QED
    BY <2>1 DEF HolderInv, Call
<1>4. ASSUME NEW e \in Executions, Parse(e) PROVE HolderInv'
  <2>1. /\ \A q \in Executions : /\ server'[q] # "none" => server[q] # "none"
                                 /\ server'[q] = "processing" => server[q] = "processing"
        /\ UNCHANGED <<pc, deaths, stage>>
    BY <1>4 DEF Parse
  <2>2. QED
    BY <2>1 DEF HolderInv, Call
<1>5. CASE ParseZombie \/ Tick
  BY <1>5 DEF ParseZombie, Tick, HolderInv, Call
<1>6. ASSUME NEW e \in Executions, Redeliver(e) \/ Kill(e) PROVE HolderInv'
  <2>1. /\ \A q \in Executions \ {e} :
              pc'[q] = pc[q] /\ server'[q] = server[q] /\ deaths'[q] = deaths[q]
        /\ pc'[e] \in {"queued", "killed"} /\ server'[e] = "none"
        /\ UNCHANGED stage
    BY <1>6 DEF TypeOK, Redeliver, Kill, Dies, Abandon, Go
  <2>2. QED
    BY <2>1 DEF HolderInv, Call, Requesting
<1>7. ASSUME NEW e \in Executions, Expire(e) PROVE HolderInv'
  <2>1. PICK d \in 0 .. deaths[e] - 1 : Lease!Leave(<<e, d>>)
    BY <1>7 DEF Expire
  <2>2. \A q \in Executions : Call(q) # <<e, d>> /\ Call(q) \in Calls
    BY CallType DEF Call, TypeOK
  <2>3. /\ \A c \in Calls : stage'[c] = "inside" => stage[c] = "inside"
        /\ \A c \in Calls \ {<<e, d>>} : stage'[c] = stage[c]
    BY <2>1 DEF TypeOK, Lease!Leave
  <2>4. UNCHANGED <<pc, server, deaths>>
    BY <1>7 DEF Expire
  <2>5. QED
    BY <2>2, <2>3, <2>4 DEF HolderInv, Call
<1>8. CASE UNCHANGED vars
  BY <1>8 DEF vars, HolderInv, Call
<1>9. QED
  BY <1>1, <1>2, <1>3, <1>4, <1>5, <1>6, <1>7, <1>8 DEF Next

-----------------------------------------------------------------------------
(* The theorems *)

\* What an execution that names its artifacts has put.
LEMMA AllHeld ==
    ASSUME TypeOK, PutInv, NEW e \in Executions, pc[e] = "update"
    PROVE  \A k \in Keys :
               refs[e][k] = IF \/ k \in {"content", "metrics"} \cup found[Call(e)]
                               \/ k = "index" /\ "images" \in found[Call(e)]
                            THEN Call(e) ELSE None
<1>1. done[e] = Len(Order(e))
  BY DEF PutInv, PutOf
<1>2. \A k \in Keys : (k \in Held(e)) <=> \/ k \in {"content", "metrics"} \cup found[Call(e)]
                                         \/ (k = "index" /\ "images" \in found[Call(e)])
  BY <1>1, OrderType, OrderFacts DEF Held
<1>3. QED
  BY <1>2 DEF PutInv, PutOf

\* The names only change with Update.
LEMMA NamesKept ==
    ASSUME TypeOK, [Next]_vars, \A e \in Executions : ~Update(e)
    PROVE  manifest'.names = manifest.names
<1> USE DEF timeVars, putVars, storeVars
<1>1. ASSUME NEW e \in Executions, Start(e) \/ RecordFailure(e)
      PROVE  manifest'.names = manifest.names
  BY <1>1 DEF Start, RecordFailure, TypeOK
<1>2. ASSUME NEW e \in Executions,
             \/ Download(e) \/ Acquire(e) \/ GiveUp(e) \/ Submit(e) \/ SubmitUnanswered(e)
             \/ PollAgain(e) \/ PollDone(e) \/ PollFailed(e) \/ Fetch(e) \/ RequestFails(e)
             \/ Put(e) \/ Stat(e) \/ Fails(e) \/ Parse(e) \/ Redeliver(e) \/ Kill(e)
             \/ Expire(e)
      PROVE  UNCHANGED manifest
  BY <1>2 DEF Download, Acquire, GiveUp, Submit, SubmitUnanswered, PollAgain, PollDone,
              PollFailed, Fetch, RequestFails, Put, Stat, Fails, Parse, Redeliver, Kill,
              Dies, Expire
<1>3. ParseZombie \/ Tick \/ UNCHANGED vars => UNCHANGED manifest
  BY DEF ParseZombie, Tick, vars
<1>4. QED
  BY <1>1, <1>2, <1>3 DEF Next

\* An execution that is done stays so, and nobody's deaths are taken back.
LEMMA DoneKept ==
    ASSUME TypeOK, [Next]_vars, NEW e \in Executions
    PROVE  /\ deaths[e] \in Nat /\ deaths'[e] \in Nat /\ deaths[e] <= deaths'[e]
           /\ pc[e] = "done" => pc'[e] = "done" /\ deaths'[e] = deaths[e]
<1> USE DEF timeVars, putVars, storeVars
<1>0. deaths \in [Executions -> Nat] /\ pc \in [Executions -> Steps]
  BY ExtractionAssumption DEF TypeOK, Steps
<1>1. ASSUME NEW q \in Executions,
             \/ Start(q) \/ Download(q) \/ Acquire(q) \/ GiveUp(q) \/ Submit(q)
             \/ SubmitUnanswered(q) \/ PollAgain(q) \/ PollDone(q) \/ PollFailed(q) \/ Fetch(q)
             \/ RequestFails(q) \/ Put(q) \/ Stat(q) \/ Update(q) \/ Fails(q)
             \/ RecordFailure(q)
      PROVE  UNCHANGED deaths /\ (pc[e] = "done" => pc'[e] = "done")
  <2>1. pc[q] # "done"
    BY <1>1 DEF Start, Download, Acquire, GiveUp, Submit, SubmitUnanswered, PollAgain,
                PollDone, PollFailed, Fetch, RequestFails, Put, Stat, Update, Fails,
                RecordFailure, Requesting
  <2>2. UNCHANGED deaths /\ (UNCHANGED pc \/ \E step : pc' = [pc EXCEPT ![q] = step])
    BY <1>1 DEF Start, Download, Acquire, GiveUp, Submit, SubmitUnanswered, PollAgain,
                PollDone, PollFailed, Fetch, RequestFails, Put, Retry, Discard, Stat,
                Update, Fails, RecordFailure, Request, Go
  <2>3. QED
    BY <1>0, <2>1, <2>2
<1>2. ASSUME NEW q \in Executions, Parse(q) \/ Expire(q)
      PROVE  UNCHANGED <<pc, deaths>>
  BY <1>2 DEF Parse, Expire
<1>3. ASSUME NEW q \in Executions, Redeliver(q) \/ Kill(q)
      PROVE  /\ deaths' = [deaths EXCEPT ![q] = deaths[q] + 1] /\ pc[q] # "done"
             /\ \E step : pc' = [pc EXCEPT ![q] = step]
  BY <1>3 DEF Redeliver, Kill, Dies, Go, Ended
<1>4. ParseZombie \/ Tick \/ UNCHANGED vars => UNCHANGED <<pc, deaths>>
  BY DEF ParseZombie, Tick, vars
<1>5. QED
  BY <1>0, <1>1, <1>2, <1>3, <1>4 DEF Next

LEMMA NamedStep == TypeOK /\ PutInv /\ NamedInv /\ [Next]_vars => NamedInv'
<1> SUFFICES ASSUME TypeOK, PutInv, NamedInv, [Next]_vars,
                    NEW q \in Executions, NEW d \in 0 .. MaxDeaths,
                    manifest'.names["content"] = <<q, d>>
             PROVE  d < deaths'[q] \/ (d = deaths'[q] /\ pc'[q] = "done")
  BY DEF NamedInv
<1>1. CASE \E e \in Executions : Update(e)
  <2>1. PICK e \in Executions : Update(e)
    BY <1>1
  <2>2. manifest'.names["content"] = Call(e)
    BY <2>1, AllHeld, CallType DEF Update, Keys
  <2>3. q = e /\ d = deaths[e]
    BY <2>2 DEF Call
  <2>4. pc'[e] = "done" /\ deaths' = deaths
    BY <2>1 DEF Update, Go, TypeOK
  <2>5. QED
    BY <2>3, <2>4
<1>2. CASE \A e \in Executions : ~Update(e)
  <2>1. manifest.names["content"] = <<q, d>>
    BY <1>2, NamesKept
  <2>2. d < deaths[q] \/ (d = deaths[q] /\ pc[q] = "done")
    BY <2>1 DEF NamedInv
  <2>3. d \in Nat
    BY ExtractionAssumption
  <2>4. QED
    BY <2>2, <2>3, DoneKept
<1>3. QED
  BY <1>1, <1>2

\* Only an extraction that has just been fetched gains an artifact.
LEMMA FoundKept ==
    ASSUME TypeOK, [Next]_vars, NEW c \in Calls, NEW k \in found'[c], k \notin found[c]
    PROVE  \E e \in Executions : Fetch(e) /\ c = Call(e)
<1> USE DEF timeVars, putVars, storeVars
<1>1. ASSUME NEW e \in Executions, Fetch(e) PROVE c = Call(e)
  BY <1>1, CallType DEF Fetch, TypeOK
<1>2. ASSUME NEW e \in Executions,
             Put(e) \/ Fails(e) \/ Redeliver(e) \/ Kill(e)
      PROVE  found'[c] \subseteq found[c]
  <2>1. UNCHANGED found \/ found' = [found EXCEPT ![Call(e)] = {}]
    BY <1>2 DEF Put, Retry, Discard, Fails, Redeliver, Kill, Dies
  <2>2. QED
    BY <2>1 DEF TypeOK
<1>3. ASSUME NEW e \in Executions,
             \/ Start(e) \/ Download(e) \/ Acquire(e) \/ GiveUp(e) \/ Submit(e)
             \/ SubmitUnanswered(e) \/ PollAgain(e) \/ PollDone(e) \/ PollFailed(e)
             \/ RequestFails(e) \/ Stat(e) \/ Update(e) \/ RecordFailure(e) \/ Parse(e)
             \/ Expire(e)
      PROVE  UNCHANGED found
  BY <1>3 DEF Start, Download, Acquire, GiveUp, Submit, SubmitUnanswered, PollAgain,
              PollDone, PollFailed, RequestFails, Stat, Update, RecordFailure, Parse, Expire
<1>4. ParseZombie \/ Tick \/ UNCHANGED vars => UNCHANGED found
  BY DEF ParseZombie, Tick, vars
<1>5. QED
  BY <1>1, <1>2, <1>3, <1>4 DEF Next

LEMMA NamesStep ==
    TypeOK /\ PutInv /\ NamedInv /\ NamesOfOneAttempt /\ [Next]_vars => NamesOfOneAttempt'
<1> SUFFICES ASSUME TypeOK, PutInv, NamedInv, NamesOfOneAttempt, [Next]_vars
             PROVE  NamesOfOneAttempt'
  OBVIOUS
<1>1. CASE \E e \in Executions : Update(e)
  <2>1. PICK e \in Executions : Update(e)
    BY <1>1
  <2>2. pc[e] = "update" /\ UNCHANGED found
    BY <2>1 DEF Update, putVars
  <2>3. \A k \in Keys : manifest'.names[k] = IF refs[e][k] = None THEN manifest.names[k]
                                             ELSE refs[e][k]
    BY <2>1 DEF Update
  <2>4. /\ refs[e]["content"] = Call(e) /\ refs[e]["metrics"] = Call(e)
        /\ \A k \in Optional \cap found[Call(e)] : refs[e][k] = Call(e)
        /\ refs[e]["images"] = refs[e]["index"]
    <3>1. {"content", "metrics", "images", "index"} \cup Optional \subseteq Keys
      BY DEF Keys, Optional
    <3>2. refs[e]["images"] = IF "images" \in found[Call(e)] THEN Call(e) ELSE None
      BY <2>2, <3>1, AllHeld
    <3>3. refs[e]["index"] = IF "images" \in found[Call(e)] THEN Call(e) ELSE None
      <4>1. "index" \notin found[Call(e)]
        BY OrderType DEF Optional
      <4>2. QED
        BY <2>2, <3>1, <4>1, AllHeld
    <3>4. QED
      BY <2>2, <3>1, <3>2, <3>3, AllHeld
  <2>5. /\ manifest'.names["content"] = Call(e) /\ manifest'.names["metrics"] = Call(e)
        /\ \A k \in Optional \cap found[Call(e)] : manifest'.names[k] = Call(e)
    BY <2>3, <2>4, CallType DEF Keys, Optional
  <2>6. manifest'.names["images"] = manifest'.names["index"]
    BY <2>3, <2>4 DEF NamesOfOneAttempt, Keys
  <2>7. QED
    BY <2>2, <2>5, <2>6 DEF NamesOfOneAttempt
<1>2. CASE \A e \in Executions : ~Update(e)
  <2>1. manifest'.names = manifest.names
    BY <1>2, NamesKept
  <2> DEFINE named == manifest.names["content"]
  <2>2. ASSUME named # None, NEW k \in Optional, k \in found'[named], k \notin found[named]
        PROVE  FALSE
    <3>1. named \in Calls
      BY <2>2 DEF TypeOK, Keys
    <3>2. PICK e \in Executions : Fetch(e) /\ named = Call(e)
      BY <2>2, <3>1, FoundKept
    <3>3. deaths[e] \in 0 .. MaxDeaths /\ pc[e] = "fetch"
      BY <3>2 DEF TypeOK, Fetch
    <3>4. QED
      BY <3>2, <3>3, ExtractionAssumption DEF NamedInv, Call
  <2>3. QED
    BY <2>1, <2>2 DEF NamesOfOneAttempt
<1>3. QED
  BY <1>1, <1>2

LEMMA Invariants == Spec => [](TypeOK /\ PutInv /\ NamedInv /\ ClockInv /\ HolderInv)
<1>1. Init => TypeOK /\ PutInv /\ NamedInv /\ ClockInv /\ HolderInv
  BY TypeInit, InvInit
<1>2. TypeOK /\ PutInv /\ NamedInv /\ ClockInv /\ HolderInv /\ [Next]_vars
          => TypeOK' /\ PutInv' /\ NamedInv' /\ ClockInv' /\ HolderInv'
  BY TypeStep, PutStep, NamedStep, ClockStep, HolderStep
<1>3. QED
  BY <1>1, <1>2, PTL DEF Spec

\* Every variable keeps its type: in particular no clock passes the soft limit, no
\* execution retries a request more than MaxTries times, and what the store holds and
\* the manifest names are attempts of the document's executions.
THEOREM TypeCorrect == Spec => []TypeOK
<1>1. QED
  BY Invariants, PTL

\* The server never works on tasks of two executions that wait for them
\* (mineru_service.process_pdf inside of its lease), given what the lease promises.
THEOREM LiveParseAlone == Spec => []OneLiveParse
<1>1. TypeOK /\ HolderInv => OneLiveParse
  <2> SUFFICES ASSUME TypeOK, HolderInv, NEW e \in Executions, NEW q \in Executions,
                      server[e] = "processing", server[q] = "processing"
               PROVE  e = q
    BY DEF OneLiveParse
  <2>1. stage[Call(e)] = "inside" /\ stage[Call(q)] = "inside"
    BY DEF HolderInv, Requesting
  <2>2. Call(e) = Call(q)
    BY <2>1, CallType DEF HolderInv
  <2>3. QED
    BY <2>2 DEF Call
<1>2. QED
  BY <1>1, Invariants, PTL

\* A server that hangs ends an execution by its own timeout before the soft limit of
\* the task, for all timeouts in the relation that core/config.py intends (lines 566-575).
THEOREM HangsEndCleanly == Spec => []HangEndsCleanly
<1>1. TypeOK /\ ClockInv /\ HolderInv => HangEndsCleanly
  <2> SUFFICES ASSUME TypeOK, ClockInv, HolderInv, NEW e \in Executions,
                      server[e] = "processing"
               PROVE  age[e] < Soft
    BY DEF HangEndsCleanly
  <2>1. pc[e] = "poll"
    BY DEF HolderInv
  <2>2. age[e] <= Timeout + 1
    BY <2>1, ExtractionAssumption DEF ClockInv, TypeOK
  <2>3. QED
    BY <2>2, ExtractionAssumption DEF TypeOK
<1>2. QED
  BY <1>1, Invariants, PTL

\* However many executions overlap, die and are delivered again, whatever the extraction
\* that the manifest names has of artifacts is named with it, and the images with their
\* index (pipeline_stages.stage_mineru).
THEOREM NamesTogether == Spec => []NamesOfOneAttempt
<1>1. Init => NamesOfOneAttempt
  BY DEF Init, NamesOfOneAttempt, NoRefs, Keys
<1>2. QED
  BY <1>1, NamesStep, Invariants, PTL DEF Spec
=============================================================================
