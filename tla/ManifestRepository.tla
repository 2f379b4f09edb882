------------------------- MODULE ManifestRepository -------------------------
(***************************************************************************)
(* The artifact manifest of one document: a JSON object in the artifact    *)
(* store that the workers and scripts read, change and write back.  Each   *)
(* writer makes one call of create (the download stage only) and one of    *)
(* update, the read-change-write cycle under a short lock in Redis.  A     *)
(* process whose first connection to that Redis failed updates without the *)
(* lock and revalidates the ETag before it writes.                         *)
(*                                                                         *)
(* A manifest is abstracted to its revision and to the set of writers      *)
(* whose change it contains.                                               *)
(***************************************************************************)
EXTENDS Integers, FiniteSets

CONSTANTS
    Writers,        \* calls of update, each with its own lock token
    NoWriter,       \* the value of a lock key that does not exist
    Creators,       \* the writers that call create first (stage_download)
    Unlocked,       \* the writers whose process has no client for the lock
    LockTTL,        \* MANIFEST_LOCK_TTL_SECONDS, also the longest wait for it
    Punctual        \* TRUE: an update under the lock ends before its TTL

ASSUME ManifestAssumption ==
    /\ NoWriter \notin Writers
    /\ Creators \subseteq Writers
    /\ Unlocked \subseteq Writers
    /\ LockTTL \in Nat \ {0}
    /\ Punctual \in BOOLEAN

VARIABLES
    lock,           \* artifact:manifest:{pipeline}:{document}:lock
    object,         \* the stored manifest; etag = 0 when there is none
    pc,             \* where the call of each writer is
    waited,         \* time since it began to wait for the lock
    prevEtag,       \* update: before.etag
    manifest,       \* update: the copy it loaded
    stored          \* history: the writers whose manifest was stored

vars == <<lock, object, pc, waited, prevEtag, manifest, stored>>

Free == [token |-> NoWriter, ttl |-> 0]
NoExpiry == -1      \* what Redis answers for the TTL of a key set without PX
Absent == [etag |-> 0, revision |-> 0, updates |-> {}]

Updating == {"stat", "load", "check", "put", "release"}
Over == {"over", "crashed"}
InLock(w) == pc[w] \in Updating /\ w \notin Unlocked

Goto(w, step) == pc' = [pc EXCEPT ![w] = step]

Init ==
    /\ lock = Free
    /\ object = Absent
    /\ pc = [w \in Writers |-> IF w \in Creators THEN "create" ELSE "update"]
    /\ waited = [w \in Writers |-> 0]
    /\ prevEtag = [w \in Writers |-> 0]
    /\ manifest = [w \in Writers |-> Absent]
    /\ stored = {}

-----------------------------------------------------------------------------
(* create: an existing manifest is kept; the load and the put are two        *)
(* requests to the store, and no lock is taken.                              *)
CreateLoad(w) ==
    /\ pc[w] = "create"
    /\ Goto(w, IF object.etag = 0 THEN "create_put" ELSE "update")
    /\ UNCHANGED <<lock, object, waited, prevEtag, manifest, stored>>

CreatePut(w) ==
    /\ pc[w] = "create_put"
    /\ object' = [etag |-> object.etag + 1, revision |-> 0, updates |-> {}]
    /\ Goto(w, "update")
    /\ UNCHANGED <<lock, waited, prevEtag, manifest, stored>>

-----------------------------------------------------------------------------
(* update *)

\* _RedisManifestLock._get_client, memoised by the process.
Begin(w) ==
    /\ pc[w] = "update"
    /\ Goto(w, IF w \in Unlocked THEN "stat" ELSE "spin")
    /\ UNCHANGED <<lock, object, waited, prevEtag, manifest, stored>>

\* SET NX finds no key.
NxIgnored == TRUE
Nx == lock.token = NoWriter

\* The loop goes on until the deadline.
Spins(w) == pc[w] = "spin" /\ waited[w] < LockTTL

\* PX
LockedForever(w) == [token |-> w, ttl |-> NoExpiry]
Locked(w) == [token |-> w, ttl |-> LockTTL]

TryLock(w) ==
    /\ Spins(w)
    /\ Nx
    /\ lock' = Locked(w)
    /\ Goto(w, "stat")
    /\ UNCHANGED <<object, waited, prevEtag, manifest, stored>>

\* The deadline of the spin passes, or Redis fails: update raises.  When it is the answer
\* to a SET that was made that is lost, the key stays, and nobody releases it.
LockFails(w) ==
    /\ pc[w] = "spin"
    /\ \/ UNCHANGED lock
       \/ Spins(w) /\ Nx /\ lock' = Locked(w)
    /\ Goto(w, "over")
    /\ UNCHANGED <<object, waited, prevEtag, manifest, stored>>

\* The ETag is read first, then the manifest.
ReadEtag(w) ==
    /\ prevEtag' = [prevEtag EXCEPT ![w] = object.etag]
    /\ UNCHANGED manifest
ReadManifest(w) ==
    /\ manifest' = [manifest EXCEPT ![w] = object]
    /\ UNCHANGED prevEtag
ReadManifestFirst(w) == IF pc[w] = "stat" THEN ReadManifest(w) ELSE ReadEtag(w)
Read(w) == IF pc[w] = "stat" THEN ReadEtag(w) ELSE ReadManifest(w)

AfterRead(w) ==
    IF pc[w] = "stat" THEN "load"
    ELSE IF w \in Unlocked THEN "check" ELSE "put"

Load(w) ==
    /\ pc[w] \in {"stat", "load"}
    /\ IF object.etag = 0
       THEN Goto(w, "release") /\ UNCHANGED <<prevEtag, manifest>>
       ELSE Read(w) /\ Goto(w, AfterRead(w))
    /\ UNCHANGED <<lock, object, waited, stored>>

\* Only an update without the lock revalidates the ETag.
Revalidate(w) ==
    /\ pc[w] = "check"
    /\ Goto(w, IF object.etag = prevEtag[w] THEN "put" ELSE "release")
    /\ UNCHANGED <<lock, object, waited, prevEtag, manifest, stored>>

\* The copy with the change of w and the next revision, under a new ETag.
ChangedKeepRevision(copy, w) ==
    [etag |-> object.etag + 1, revision |-> copy.revision,
     updates |-> copy.updates \cup {w}]
Changed(copy, w) ==
    [etag |-> object.etag + 1, revision |-> copy.revision + 1,
     updates |-> copy.updates \cup {w}]

\* The put replaces the whole object.
Put(w) ==
    /\ pc[w] = "put"
    /\ object' = Changed(manifest[w], w)
    /\ stored' = stored \cup {w}
    /\ Goto(w, "release")
    /\ UNCHANGED <<lock, waited, prevEtag, manifest>>

\* The store or the caller's own code raises inside the update.
Abort(w) ==
    /\ pc[w] \in Updating \ {"release"}
    /\ Goto(w, "release")
    /\ UNCHANGED <<lock, object, waited, prevEtag, manifest, stored>>

\* The Lua script compares the token.
ReleaseScript(w) == lock' = IF lock.token = w THEN Free ELSE lock

\* When the script fails, that is only logged.
Release(w) ==
    /\ pc[w] = "release"
    /\ \/ ReleaseScript(w)
       \/ UNCHANGED lock
    /\ Goto(w, "over")
    /\ UNCHANGED <<object, waited, prevEtag, manifest, stored>>

Crash(w) ==
    /\ pc[w] \notin Over
    /\ Goto(w, "crashed")
    /\ UNCHANGED <<lock, object, waited, prevEtag, manifest, stored>>

-----------------------------------------------------------------------------
Older(key) ==
    IF key.ttl = NoExpiry THEN key
    ELSE IF key.ttl <= 1 THEN Free
    ELSE [key EXCEPT !.ttl = @ - 1]

Tick ==
    /\ Punctual => \A w \in Writers : ~(InLock(w) /\ lock.ttl = 1)
    /\ lock' = Older(lock)
    /\ waited' = [w \in Writers |->
           IF Spins(w) THEN waited[w] + 1 ELSE waited[w]]
    /\ UNCHANGED <<object, pc, prevEtag, manifest, stored>>

Step(w) ==
    \/ CreateLoad(w) \/ CreatePut(w) \/ Begin(w) \/ TryLock(w) \/ LockFails(w)
    \/ Load(w) \/ Revalidate(w) \/ Put(w) \/ Release(w)

Next ==
    \/ \E w \in Writers : Step(w) \/ Abort(w) \/ Crash(w)
    \/ Tick

Spec == Init /\ [][Next]_vars

\* Processes that are up go on, and time passes.
FairSpec == Spec /\ WF_vars(Tick) /\ \A w \in Writers : WF_vars(Step(w))

-----------------------------------------------------------------------------
(* Properties *)

Manifest == [etag : Nat, revision : Nat, updates : SUBSET Writers]

\* Type invariant: a lock key exists exactly while its TTL runs, and nobody waits
\* for it longer than that TTL.
TypeOK ==
    /\ lock \in [token : Writers \cup {NoWriter}, ttl : 0 .. LockTTL]
    /\ lock.ttl = 0 <=> lock.token = NoWriter
    /\ object \in Manifest
    /\ pc \in [Writers -> {"create", "create_put", "update", "spin"}
                              \cup Updating \cup Over]
    /\ waited \in [Writers -> 0 .. LockTTL]
    /\ prevEtag \in [Writers -> Nat]
    /\ manifest \in [Writers -> Manifest]
    /\ stored \subseteq Writers

\* No update is lost: as long as no degraded process has stored a manifest, the
\* one in the store contains the change of every writer that has, however their
\* reads, changes and writes interleave, fail or stop half-way.
NoLostUpdate == stored \cap Unlocked = {} => object.updates = stored

\* The revision counts the updates stored, so no two manifests that differ in
\* their changes have the same one.
RevisionCountsUpdates ==
    stored \cap Unlocked = {} => object.revision = Cardinality(stored)

\* A revalidation that succeeds proves that the copy in hand is the manifest in
\* the store: the ETag was taken before the copy, so a write that lands between
\* the two reads is a conflict and never goes unnoticed.
RevalidationMeansFresh ==
    [][\A w \in Writers :
          (pc[w] = "check" /\ pc'[w] = "put") => manifest[w] = object]_vars

\* A writer that died, could not release the lock or never knew that it had it holds it no
\* longer than its TTL.
LockFreed ==
    \A w \in Writers : (lock.token = w /\ pc[w] \in Over) ~> lock.token # w

=============================================================================
