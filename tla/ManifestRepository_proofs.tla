--------------------- MODULE ManifestRepository_proofs ---------------------
(* Proofs about ManifestRepository, for any writers, any TTL of the lock and any bounds. *)
EXTENDS ManifestRepository, FiniteSetTheorems, TLAPS

PC == {"create", "create_put", "update", "spin"} \cup Updating \cup Over

-----------------------------------------------------------------------------
(* Type correctness *)

\* Storing a copy with a writer's change yields a manifest under a new ETag.
LEMMA ChangedType ==
    ASSUME TypeOK, NEW w \in Writers
    PROVE  /\ Changed(manifest[w], w) \in Manifest
           /\ Changed(manifest[w], w).etag = object.etag + 1
           /\ object.etag + 1 \in Nat \ {0}
<1>1. object \in Manifest /\ manifest[w] \in Manifest
  BY DEF TypeOK
<1>2. object.etag \in Nat /\ manifest[w].revision \in Nat
        /\ manifest[w].updates \in SUBSET Writers
  BY <1>1 DEF Manifest
<1>3. QED
  BY <1>2 DEF Changed, Manifest

\* Type correctness of the manifest repository.
THEOREM TypeCorrect == Spec => []TypeOK
<1>1. Init => TypeOK
  BY ManifestAssumption DEF Init, TypeOK, Free, Absent, Manifest, Updating, Over
<1>2. TypeOK /\ [Next]_vars => TypeOK'
  <2> SUFFICES ASSUME TypeOK, [Next]_vars PROVE TypeOK'
    OBVIOUS
  <2> USE ManifestAssumption DEF TypeOK, Updating, Over, Goto
  <2>1. ASSUME NEW w \in Writers, CreateLoad(w) \/ Begin(w)
                 \/ Revalidate(w) \/ Abort(w) \/ Crash(w)
        PROVE  TypeOK'
    BY <2>1 DEF CreateLoad, Begin, Revalidate, Abort, Crash
  <2>2. ASSUME NEW w \in Writers, CreatePut(w) PROVE TypeOK'
    BY <2>2 DEF CreatePut, Manifest
  <2>3. ASSUME NEW w \in Writers, TryLock(w) \/ LockFails(w) PROVE TypeOK'
    BY <2>3 DEF TryLock, LockFails, Locked, Spins
  <2>4. ASSUME NEW w \in Writers, Load(w) PROVE TypeOK'
    <3>1. object.etag \in Nat
      BY DEF Manifest
    <3>2. QED
      BY <2>4, <3>1 DEF Load, Read, ReadEtag, ReadManifest, AfterRead
  <2>5. ASSUME NEW w \in Writers, Put(w) PROVE TypeOK'
    <3>1. object' \in Manifest
      BY <2>5, ChangedType DEF Put
    <3>2. QED
      BY <2>5, <3>1 DEF Put
  <2>6. ASSUME NEW w \in Writers, Release(w) PROVE TypeOK'
    BY <2>6 DEF Release, ReleaseScript, Free
  <2>7. CASE Tick
    BY <2>7 DEF Tick, Older, Free, NoExpiry, Spins
  <2>8. CASE UNCHANGED vars
    BY <2>8 DEF vars
  <2>9. QED
    BY <2>1, <2>2, <2>3, <2>4, <2>5, <2>6, <2>7, <2>8 DEF Next, Step
<1>3. QED
  BY <1>1, <1>2, PTL DEF Spec

-----------------------------------------------------------------------------
(* No update is lost *)

\* An update under the lock holds the lock key.
LockHeld == \A w \in Writers : InLock(w) => lock.token = w

\* Only the one creator writes a manifest where there is none, and it has not
\* done so while it still means to.
CreatedOnce ==
    /\ object.etag = 0 =>
          /\ stored = {} /\ object = Absent
          /\ \A w \in Writers : pc[w] \notin {"load", "check", "put"}
    /\ \A w \in Writers : pc[w] = "create_put" => object.etag = 0
    /\ \A w \in Writers : pc[w] \in {"create", "create_put"} => w \in Creators

\* As long as no degraded process has stored a manifest, the stored one holds
\* exactly the updates made, and so does the copy an update is about to write.
UpdatesKept ==
    stored \cap Unlocked = {} =>
       /\ object.updates = stored
       /\ object.revision = Cardinality(stored)
       /\ \A w \in Writers \ Unlocked :
             pc[w] = "put" => /\ manifest[w].updates = object.updates
                              /\ manifest[w].revision = object.revision

\* Every writer stores its manifest at most once; only an update without the
\* lock revalidates.
StoredOnce ==
    /\ IsFiniteSet(stored)
    /\ \A w \in stored : pc[w] \in {"release"} \cup Over
    /\ \A w \in Writers : pc[w] = "check" => w \in Unlocked

ManifestInv == LockHeld /\ CreatedOnce /\ UpdatesKept /\ StoredOnce

OneCreator == \A v, w \in Creators : v = w

\* Nothing is locked, created or stored in the initial state.
LEMMA ManifestInvInit == Init => ManifestInv
BY FS_EmptySet, ManifestAssumption
DEF Init, ManifestInv, LockHeld, CreatedOnce, UpdatesKept, StoredOnce, InLock,
    Updating, Absent

\* Every step leaves an update under the lock in possession of the lock key: the
\* key is only written when it is absent or by its owner, and its TTL does not run
\* out in a punctual system.
LEMMA LockHeldInductive ==
    ASSUME Punctual, TypeOK, LockHeld, [Next]_vars
    PROVE  LockHeld'
<1> SUFFICES ASSUME NEW w \in Writers, InLock(w)' PROVE lock'.token = w
  BY DEF LockHeld
<1> USE ManifestAssumption DEF TypeOK, Goto, InLock, Updating, Over
<1>0. InLock(w) => lock.token = w
  BY DEF LockHeld
<1>1. ASSUME NEW v \in Writers, TryLock(v) PROVE lock'.token = w
  <2>1. CASE v = w
    BY <1>1, <2>1 DEF TryLock, Locked, Spins
  <2>2. CASE v # w
    BY <1>0, <1>1, <2>2 DEF TryLock, Nx, Locked
  <2>3. QED
    BY <2>1, <2>2
<1>2. ASSUME NEW v \in Writers, Release(v) PROVE lock'.token = w
  BY <1>0, <1>2 DEF Release, ReleaseScript
<1>3. CASE Tick
  BY <1>0, <1>3 DEF Tick, Older, NoExpiry
<1>4. ASSUME NEW v \in Writers,
             CreateLoad(v) \/ CreatePut(v) \/ Begin(v) \/ Load(v)
                \/ Revalidate(v) \/ Put(v) \/ Abort(v) \/ Crash(v)
      PROVE  lock'.token = w
  BY <1>0, <1>4
  DEF CreateLoad, CreatePut, Begin, Load, Revalidate, Put, Abort, Crash,
      AfterRead
<1>5. CASE UNCHANGED vars
  BY <1>0, <1>5 DEF vars
<1>6. ASSUME NEW v \in Writers, LockFails(v) PROVE lock'.token = w
  <2>1. InLock(w)
    BY <1>6 DEF LockFails
  <2>2. QED
    BY <1>0, <1>6, <2>1 DEF LockFails, Nx
<1>7. QED
  BY <1>1, <1>2, <1>3, <1>4, <1>5, <1>6 DEF Next, Step

\* Every step keeps the creation of the manifest unique when there is at most one
\* creator.
LEMMA CreatedOnceInductive ==
    ASSUME OneCreator, TypeOK, CreatedOnce, [Next]_vars
    PROVE  CreatedOnce'
<1> USE DEF TypeOK, CreatedOnce, Goto, Updating, Over
<1>1. ASSUME NEW v \in Writers, CreateLoad(v) PROVE CreatedOnce'
  BY <1>1 DEF CreateLoad
<1>2. ASSUME NEW v \in Writers, CreatePut(v) PROVE CreatedOnce'
  <2>1. object'.etag # 0
    BY <1>2 DEF CreatePut, Manifest
  <2>2. ASSUME NEW w \in Writers, pc'[w] = "create_put" PROVE FALSE
    BY <1>2, <2>2 DEF CreatePut, OneCreator
  <2>3. QED
    BY <1>2, <2>1, <2>2 DEF CreatePut
<1>3. ASSUME NEW v \in Writers,
             Begin(v) \/ TryLock(v) \/ LockFails(v) \/ Revalidate(v)
                \/ Abort(v) \/ Release(v) \/ Crash(v)
      PROVE  CreatedOnce'
  BY <1>3 DEF Begin, TryLock, LockFails, Revalidate, Abort, Release, Crash
<1>4. ASSUME NEW v \in Writers, Load(v) PROVE CreatedOnce'
  BY <1>4 DEF Load, AfterRead
<1>5. ASSUME NEW v \in Writers, Put(v) PROVE CreatedOnce'
  <2>1. object.etag # 0
    BY <1>5 DEF Put
  <2>2. object'.etag # 0
    BY <1>5, ChangedType DEF Put
  <2>3. QED
    BY <1>5, <2>1, <2>2 DEF Put
<1>6. CASE Tick
  BY <1>6 DEF Tick
<1>7. CASE UNCHANGED vars
  BY <1>7 DEF vars
<1>8. QED
  BY <1>1, <1>2, <1>3, <1>4, <1>5, <1>6, <1>7 DEF Next, Step

\* Every step keeps the updates stored in the manifest, under the lock.
LEMMA UpdatesKeptInductive ==
    ASSUME Punctual, TypeOK, ManifestInv, [Next]_vars
    PROVE  UpdatesKept' /\ StoredOnce'
<1> USE DEF ManifestInv
<1>1. ASSUME NEW v \in Writers, Put(v) PROVE UpdatesKept' /\ StoredOnce'
  <2>1. v \notin stored /\ stored' = stored \cup {v}
    BY <1>1 DEF Put, StoredOnce, Over
  <2>2. StoredOnce'
    BY <1>1, <2>1, FS_AddElement DEF Put, Goto, StoredOnce, TypeOK, Over
  <2>3. ASSUME stored' \cap Unlocked = {} PROVE UpdatesKept'
    <3>1. v \notin Unlocked /\ stored \cap Unlocked = {}
      BY <2>1, <2>3
    <3>2. /\ object.updates = stored
          /\ object.revision = Cardinality(stored)
          /\ manifest[v].updates = object.updates
          /\ manifest[v].revision = object.revision
      BY <1>1, <3>1 DEF UpdatesKept, Put
    <3>3. /\ object'.updates = manifest[v].updates \cup {v}
          /\ object'.revision = manifest[v].revision + 1
      BY <1>1 DEF Put, Changed
    <3>4. Cardinality(stored') = Cardinality(stored) + 1
      BY <2>1, FS_AddElement DEF StoredOnce
    <3>5. ASSUME NEW w \in Writers \ Unlocked, pc'[w] = "put" PROVE FALSE
      <4>1. w # v /\ pc[w] = "put"
        BY <1>1, <3>5 DEF Put, Goto, TypeOK
      <4>2. InLock(w) /\ InLock(v)
        BY <1>1, <3>1, <4>1 DEF InLock, Updating, Put
      <4>3. QED
        BY <4>1, <4>2 DEF LockHeld
    <3>6. QED
      BY <2>1, <3>2, <3>3, <3>4, <3>5 DEF UpdatesKept
  <2>4. QED
    BY <2>2, <2>3 DEF UpdatesKept
<1>2. ASSUME NEW v \in Writers, CreatePut(v) PROVE UpdatesKept' /\ StoredOnce'
  <2>1. stored = {} /\ \A w \in Writers : pc[w] # "put"
    BY <1>2 DEF CreatedOnce, CreatePut
  <2>2. /\ object'.updates = {} /\ object'.revision = 0 /\ stored' = stored
        /\ pc' = [pc EXCEPT ![v] = "update"]
    BY <1>2 DEF CreatePut, Goto
  <2>3. QED
    BY <2>1, <2>2, FS_EmptySet DEF UpdatesKept, StoredOnce, TypeOK
<1>3. ASSUME NEW v \in Writers, Load(v) PROVE UpdatesKept' /\ StoredOnce'
  <2>1. stored' = stored /\ object' = object /\ v \notin stored
    BY <1>3 DEF Load, StoredOnce, Over
  <2>2. StoredOnce'
    <3>1. ASSUME NEW w \in Writers, pc'[w] = "check" PROVE w \in Unlocked
      BY <1>3, <3>1 DEF Load, Goto, AfterRead, StoredOnce, TypeOK
    <3>2. ASSUME NEW w \in stored' PROVE pc'[w] \in {"release"} \cup Over
      BY <1>3, <2>1, <3>2 DEF Load, Goto, StoredOnce, TypeOK
    <3>3. QED
      BY <2>1, <3>1, <3>2 DEF StoredOnce
  <2>3. ASSUME NEW w \in Writers \ Unlocked, pc'[w] = "put"
        PROVE  \/ manifest'[w] = object
               \/ pc[w] = "put" /\ manifest'[w] = manifest[w]
    BY <1>3, <2>3 DEF Load, Read, ReadEtag, ReadManifest, AfterRead, Goto, TypeOK
  <2>4. UpdatesKept'
    BY <2>1, <2>3 DEF UpdatesKept
  <2>5. QED
    BY <2>2, <2>4
<1>4. ASSUME NEW v \in Writers,
             CreateLoad(v) \/ Begin(v) \/ TryLock(v) \/ LockFails(v)
                \/ Revalidate(v) \/ Abort(v) \/ Release(v) \/ Crash(v)
      PROVE  UpdatesKept' /\ StoredOnce'
  <2>1. stored' = stored /\ object' = object /\ manifest' = manifest
    BY <1>4 DEF CreateLoad, Begin, TryLock, LockFails, Revalidate, Abort, Release, Crash
  <2>2. ASSUME NEW w \in stored PROVE pc'[w] \in {"release"} \cup Over
    BY <1>4, <2>2
    DEF CreateLoad, Begin, TryLock, LockFails, Revalidate, Abort, Release, Crash, Goto,
        StoredOnce, Spins, TypeOK, Updating, Over
  <2>3. ASSUME NEW w \in Writers \ Unlocked, pc'[w] = "put" PROVE pc[w] = "put"
    BY <1>4, <2>3
    DEF CreateLoad, Begin, TryLock, LockFails, Revalidate, Abort, Release, Crash, Goto,
        TypeOK, StoredOnce
  <2>4. ASSUME NEW w \in Writers, pc'[w] = "check" PROVE w \in Unlocked
    BY <1>4, <2>4
    DEF CreateLoad, Begin, TryLock, LockFails, Revalidate, Abort, Release, Crash, Goto,
        TypeOK, StoredOnce
  <2>5. QED
    BY <2>1, <2>2, <2>3, <2>4 DEF UpdatesKept, StoredOnce
<1>5. CASE Tick
  BY <1>5 DEF Tick, UpdatesKept, StoredOnce
<1>6. CASE UNCHANGED vars
  BY <1>6 DEF vars, UpdatesKept, StoredOnce
<1>7. QED
  BY <1>1, <1>2, <1>3, <1>4, <1>5, <1>6 DEF Next, Step

\* With one creator and updates that end before the TTL of their lock, no stored
\* update is ever lost, however many writers there are.
THEOREM NoUpdateLost ==
    ASSUME Punctual, OneCreator
    PROVE  Spec => []NoLostUpdate
<1>1. TypeOK /\ ManifestInv /\ [Next]_vars => ManifestInv'
  BY LockHeldInductive, CreatedOnceInductive, UpdatesKeptInductive DEF ManifestInv
<1>2. ManifestInv => NoLostUpdate
  BY DEF ManifestInv, UpdatesKept, NoLostUpdate
<1>3. QED
  BY <1>1, <1>2, ManifestInvInit, TypeCorrect, PTL DEF Spec

\* Under the same assumptions the revision counts the updates stored.
THEOREM RevisionCounts ==
    ASSUME Punctual, OneCreator
    PROVE  Spec => []RevisionCountsUpdates
<1>1. TypeOK /\ ManifestInv /\ [Next]_vars => ManifestInv'
  BY LockHeldInductive, CreatedOnceInductive, UpdatesKeptInductive DEF ManifestInv
<1>2. ManifestInv => RevisionCountsUpdates
  BY DEF ManifestInv, UpdatesKept, RevisionCountsUpdates
<1>3. QED
  BY <1>1, <1>2, ManifestInvInit, TypeCorrect, PTL DEF Spec

-----------------------------------------------------------------------------
(* Revalidation *)

\* ETags only grow, and a copy with the ETag of the stored manifest is that
\* manifest; an update that revalidates took its ETag no later than its copy.
CopiesDated ==
    \A w \in Writers :
       /\ prevEtag[w] <= object.etag
       /\ manifest[w].etag <= object.etag
       /\ manifest[w].etag = object.etag => manifest[w] = object
       /\ pc[w] = "check" => prevEtag[w] <= manifest[w].etag

\* No copy was taken in the initial state.
LEMMA CopiesDatedInit == Init => CopiesDated
BY ManifestAssumption DEF Init, CopiesDated, Absent

\* Every step keeps the copies dated by their ETags, without the lock too.
LEMMA CopiesDatedInductive ==
    ASSUME TypeOK, CopiesDated, [Next]_vars
    PROVE  CopiesDated'
<1>0. /\ object.etag \in Nat
      /\ \A w \in Writers : prevEtag[w] \in Nat /\ manifest[w].etag \in Nat
  BY DEF TypeOK, Manifest
<1> SUFFICES ASSUME NEW w \in Writers
             PROVE  /\ prevEtag'[w] <= object'.etag
                    /\ manifest'[w].etag <= object'.etag
                    /\ manifest'[w].etag = object'.etag => manifest'[w] = object'
                    /\ pc'[w] = "check" => prevEtag'[w] <= manifest'[w].etag
  BY DEF CopiesDated
<1> USE <1>0 DEF CopiesDated
<1>1. ASSUME NEW v \in Writers, CreatePut(v) \/ Put(v)
      PROVE  /\ prevEtag'[w] <= object'.etag
             /\ manifest'[w].etag <= object'.etag
             /\ manifest'[w].etag = object'.etag => manifest'[w] = object'
             /\ pc'[w] = "check" => prevEtag'[w] <= manifest'[w].etag
  <2>1. object'.etag = object.etag + 1 /\ prevEtag' = prevEtag /\ manifest' = manifest
    BY <1>1, ChangedType DEF CreatePut, Put
  <2>2. pc'[w] = "check" => pc[w] = "check"
    BY <1>1 DEF CreatePut, Put, Goto, TypeOK
  <2>3. QED
    BY <2>1, <2>2
<1>2. ASSUME NEW v \in Writers, Load(v)
      PROVE  /\ prevEtag'[w] <= object'.etag
             /\ manifest'[w].etag <= object'.etag
             /\ manifest'[w].etag = object'.etag => manifest'[w] = object'
             /\ pc'[w] = "check" => prevEtag'[w] <= manifest'[w].etag
  BY <1>2 DEF Load, Read, ReadEtag, ReadManifest, AfterRead, Goto, TypeOK
<1>3. ASSUME NEW v \in Writers,
             CreateLoad(v) \/ Begin(v) \/ TryLock(v) \/ LockFails(v)
                \/ Revalidate(v) \/ Abort(v) \/ Release(v) \/ Crash(v)
      PROVE  /\ UNCHANGED <<object, prevEtag, manifest>>
             /\ pc'[w] = "check" => pc[w] = "check"
  BY <1>3 DEF CreateLoad, Begin, TryLock, LockFails, Revalidate, Abort, Release,
              Crash, Goto, TypeOK
<1>4. CASE Tick
  BY <1>4 DEF Tick
<1>5. CASE UNCHANGED vars
  BY <1>5 DEF vars
<1>6. QED
  BY <1>1, <1>2, <1>3, <1>4, <1>5 DEF Next, Step

\* A revalidation that succeeds always proves that the copy in hand is the stored
\* manifest, whatever pauses, expires, crashes or is created twice.
THEOREM RevalidationIsFresh == Spec => RevalidationMeansFresh
<1> DEFINE Fresh == \A w \in Writers :
              (pc[w] = "check" /\ pc'[w] = "put") => manifest[w] = object
<1>1. ASSUME TypeOK, CopiesDated, [Next]_vars PROVE Fresh
  <2> SUFFICES ASSUME NEW w \in Writers, pc[w] = "check", pc'[w] = "put"
               PROVE  manifest[w] = object
    OBVIOUS
  <2>1. object.etag = prevEtag[w]
    <3>1. ASSUME NEW v \in Writers,
                 CreateLoad(v) \/ CreatePut(v) \/ Begin(v) \/ TryLock(v)
                    \/ LockFails(v) \/ Load(v) \/ Put(v) \/ Abort(v)
                    \/ Release(v) \/ Crash(v)
          PROVE  pc'[w] # "put"
      BY <1>1, <3>1 DEF CreateLoad, CreatePut, Begin, TryLock, LockFails, Load, Put, Abort,
                  Release, Crash, AfterRead, Goto, TypeOK
    <3>2. ASSUME NEW v \in Writers, Revalidate(v) PROVE object.etag = prevEtag[w]
      BY <1>1, <3>2 DEF Revalidate, Goto, TypeOK
    <3>3. pc' # pc
      OBVIOUS
    <3>4. QED
      BY <1>1, <3>1, <3>2, <3>3 DEF Next, Step, Tick, vars
  <2>2. object.etag \in Nat /\ prevEtag[w] \in Nat /\ manifest[w].etag \in Nat
    BY <1>1 DEF TypeOK, Manifest
  <2>3. QED
    BY <1>1, <2>1, <2>2 DEF CopiesDated
<1>2. QED
  BY <1>1, CopiesDatedInit, CopiesDatedInductive, TypeCorrect, PTL
  DEF Spec, RevalidationMeansFresh
=============================================================================
