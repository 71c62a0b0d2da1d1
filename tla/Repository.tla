----------------------------- MODULE Repository -----------------------------
(***************************************************************************)
(* Repository of synapse-core: objects and Refs together.  A Ref may only  *)
(* advance to a commit whose closure the walk of validate_head has found   *)
(* complete, one object after another, while other clients go on putting,  *)
(* repairing and dying.  The Ref table is the one RefStore implements:     *)
(* RefHistory, one compare-and-swap at a time, durable when it commits     *)
(* (synchronous=FULL).                                                     *)
(***************************************************************************)
EXTENDS ObjectStore

CONSTANTS
    Refs,
    Commits,  \* the objects that are commits
    Closure,  \* [Commits -> SUBSET Objects], the commit itself included
    NoHead,
    NoClient

ASSUME RepositoryAssumption ==
    /\ Commits \subseteq Objects
    /\ Closure \in [Commits -> SUBSET Objects]
    /\ NoHead \notin Commits
    /\ NoClient \notin Clients

VARIABLES
    refs,    \* committed head of each Ref
    writer,  \* the client inside BEGIN IMMEDIATE with a guard to run
    update,  \* the RefUpdate each client is performing
    walk,    \* objects of the closure the client has still to verify
    since,   \* objects lost after that walk verified them (history)
    exposed, \* objects relied on before who wrote them had synced them (history)
    outage   \* power has failed (history)

refVars == <<refs, writer, update, walk, since>>

vars == <<file, disk, shard, shardDisk, pc, op, oid, overlapped, stored, decayed,
          refs, writer, update, walk, since, exposed, outage>>

Heads == Commits \cup {NoHead}

NoUpdate == [ref |-> NoHead, expected |-> NoHead, new |-> NoHead, guarded |-> FALSE]

RefUpdate == [ref : Refs, expected : Heads, new : Commits, guarded : BOOLEAN]

Init ==
    /\ ObjectInit
    /\ refs = [r \in Refs |-> NoHead]
    /\ writer = NoClient
    /\ update = [c \in Clients |-> NoUpdate]
    /\ walk = [c \in Clients |-> {}]
    /\ since = [c \in Clients |-> {}]
    /\ exposed = {} /\ outage = FALSE

-----------------------------------------------------------------------------
(* Updating a Ref *)

\* mutant: the commit alone is looked at, not what it reaches
BeginWalk_HeadOnly(c, commit) ==
    /\ walk' = [walk EXCEPT ![c] = {commit}]
    /\ since' = [since EXCEPT ![c] = {}]

BeginWalk(c, commit) ==
    /\ walk' = [walk EXCEPT ![c] = Closure[commit]]
    /\ since' = [since EXCEPT ![c] = {}]

\* update_ref, or update_ref_with_preconditions when guarded
StartUpdate(c, u) ==
    /\ pc[c] = "idle"
    /\ Goto(c, "walk")
    /\ op' = [op EXCEPT ![c] = "update"]
    /\ update' = [update EXCEPT ![c] = u]
    /\ BeginWalk(c, u.new)
    /\ UNCHANGED <<storeVars, oid, overlapped, refs, writer>>

\* the update ends, with or without a new head
EndUpdate(c) ==
    /\ Return(c)
    /\ update' = [update EXCEPT ![c] = NoUpdate]
    /\ walk' = [walk EXCEPT ![c] = {}]
    /\ since' = [since EXCEPT ![c] = {}]
    /\ writer' = IF writer = c THEN NoClient ELSE writer

\* validate_head reads and verifies the next object of the closure
VerifyObject(c) ==
    /\ pc[c] \in {"walk", "rewalk"}
    /\ \E o \in walk[c] :
          IF file[o] = "intact"
          THEN /\ walk' = [walk EXCEPT ![c] = @ \ {o}]
               /\ UNCHANGED <<clientVars, refs, writer, update, since>>
          ELSE EndUpdate(c) /\ UNCHANGED refs
    /\ UNCHANGED storeVars

\* mutant: the guard of a conditional update trusts the first walk
BeginImmediate_TrustsWalk(c) ==
    /\ pc[c] = "walk"
    /\ walk[c] = {}
    /\ writer = NoClient
    /\ writer' = c
    /\ Goto(c, IF update[c].guarded THEN "rewalk" ELSE "publish")
    /\ since' = IF update[c].guarded THEN [since EXCEPT ![c] = {}] ELSE since
    /\ UNCHANGED <<storeVars, opVars, refs, update, walk>>

\* the closure is complete: go for the transaction; the guard of a
\* conditional update walks the closure again inside it
BeginImmediate(c) ==
    /\ pc[c] = "walk"
    /\ walk[c] = {}
    /\ writer = NoClient
    /\ writer' = c
    /\ \/ /\ update[c].guarded
          /\ Goto(c, "rewalk")
          /\ BeginWalk(c, update[c].new)
       \/ /\ ~update[c].guarded
          /\ Goto(c, "publish")
          /\ UNCHANGED <<walk, since>>
    /\ UNCHANGED <<storeVars, opVars, refs, update>>

GuardDone(c) ==
    /\ pc[c] = "rewalk"
    /\ walk[c] = {}
    /\ Goto(c, "publish")
    /\ UNCHANGED <<storeVars, opVars, refVars>>

\* compare and commit, or RefConflict
Publish(c) ==
    /\ pc[c] = "publish"
    /\ LET u == update[c]
       IN refs' = IF refs[u.ref] = u.expected THEN [refs EXCEPT ![u.ref] = u.new]
                                              ELSE refs
    /\ EndUpdate(c)
    /\ UNCHANGED storeVars

UpdateStep(c) ==
    VerifyObject(c) \/ BeginImmediate(c) \/ GuardDone(c) \/ Publish(c)

-----------------------------------------------------------------------------
(* The object store's steps, and what they mean for updates in progress *)

\* what the update of c has verified so far
Verified(c) == IF op[c] = "update" THEN Closure[update[c].new] \ walk[c] ELSE {}

NoteLosses ==
    since' = [c \in Clients |->
                 since[c] \cup {o \in Verified(c) :
                                  file[o] = "intact" /\ file'[o] # "intact"}]

ObjectOp(c) ==
    /\ \/ \E o \in Objects :
             StartPut(c, o) \/ StartRepair(c, o) \/ StartDiscard(c, o)
       \/ ObjectStep(c)
    /\ NoteLosses
    /\ UNCHANGED <<refs, writer, update, walk>>

\* a client has made an object or its directory visible and not yet synced it
Syncing(c) == pc[c] \in {"sync_kind", "sync_shard"}

\* what a step of c relies on: the object it reports stored, or has verified
Relied(c) ==
    CASE pc[c] = "sync_shard" -> {oid[c]}
      [] pc[c] = "compare" /\ file[oid[c]] = "intact" -> {oid[c]}
      [] pc[c] \in {"walk", "rewalk"} /\ pc'[c] = pc[c] -> walk[c] \ walk'[c]
      [] OTHER -> {}

Relies(c) ==
    /\ exposed' = exposed \cup {o \in Relied(c) :
                                  \E d \in Clients \ {c} : Syncing(d) /\ oid[d] = o}
    /\ UNCHANGED outage

\* a killed process: SQLite drops its lock and its transaction
Kill(c) ==
    /\ CrashCanHappen
    /\ pc[c] # "idle"
    /\ EndUpdate(c)
    /\ exposed' = IF Syncing(c) THEN exposed \cup {oid[c]} ELSE exposed
    /\ UNCHANGED <<storeVars, refs, outage>>

Decay(o) ==
    /\ Damage(o)
    /\ NoteLosses
    /\ UNCHANGED <<refs, writer, update, walk, exposed, outage>>

\* committed Refs survive, every process and its locks do not
MachineStops ==
    /\ PowerLoss
    /\ writer' = NoClient
    /\ update' = [c \in Clients |-> NoUpdate]
    /\ walk' = [c \in Clients |-> {}]
    /\ since' = [c \in Clients |-> {}]
    /\ outage' = TRUE
    /\ UNCHANGED <<refs, exposed>>

ClientNext(c) ==
    \/ \E r \in Refs, e \in Heads, n \in Commits, g \in BOOLEAN :
          StartUpdate(c, [ref |-> r, expected |-> e, new |-> n, guarded |-> g])
    \/ UpdateStep(c)
    \/ ObjectOp(c)

Next ==
    \/ \E c \in Clients : ClientNext(c) /\ Relies(c)
    \/ \E c \in Clients : Kill(c)
    \/ \E o \in Objects : Decay(o)
    \/ MachineStops

Spec == Init /\ [][Next]_vars

-----------------------------------------------------------------------------
(* Properties *)

\* Every variable has the type the Rust structures give it.
TypeOK ==
    /\ file \in [Objects -> States] /\ disk \in [Objects -> States]
    /\ shard \subseteq Objects /\ shardDisk \subseteq shard
    /\ pc \in [Clients -> Labels \cup {"walk", "rewalk", "publish"}]
    /\ op \in [Clients -> {"none", "put", "repair", "discard", "update"}]
    /\ oid \in [Clients -> Objects \cup {NoObject}]
    /\ overlapped \subseteq Clients
    /\ stored \subseteq Objects /\ decayed \subseteq Objects
    /\ refs \in [Refs -> Heads]
    /\ writer \in Clients \cup {NoClient}
    /\ update \in [Clients -> RefUpdate \cup {NoUpdate}]
    /\ walk \in [Clients -> SUBSET Objects]
    /\ since \in [Clients -> SUBSET Objects]
    /\ exposed \subseteq Objects /\ outage \in BOOLEAN

Closed(r, excused) ==
    refs[r] # NoHead => \A o \in Closure[refs[r]] \ excused : file[o] = "intact"

\* Every object a Ref needs is there and intact, unless its bytes were damaged
\* after it was written: no put, repair, update, kill or power loss lets a Ref
\* point into the void.  "Persist objects first, confirm the closure, then
\* advance the Ref."
RefsSurvivePower == \A r \in Refs : Closed(r, decayed)

\* While the machine has its power, no put, repair, update or kill leaves a Ref
\* without its closure.  A power loss takes nothing from a Ref either but
\* objects on which somebody relied between the link and the sync of who wrote
\* them, or which a process left there that was killed between the two.
RefsStayClosed ==
    \A r \in Refs : Closed(r, IF outage THEN decayed \cup exposed ELSE decayed)

\* What a put or repair has reported stored survives a power loss, at every
\* step, with the same exception: a put that finds the object there does not
\* sync what somebody else has just linked, or linked before being killed
\* (publish_staged), and one that finds the shard directory there does not sync
\* the directory above it (ensure_real_directory).
StoredIsDurable ==
    \A o \in stored \ (decayed \cup exposed) : disk[o] = "intact" /\ o \in shardDisk

\* When an update is about to commit, every object of the new closure is
\* intact or was lost after the last walk verified it, to damage or to one of
\* two repairs that run at the same time; for a conditional update that walk ran
\* inside the transaction, so that the wait for the lock cannot hide a loss.
ClosureFreshAtCommit ==
    \A c \in Clients : pc[c] = "publish" =>
        /\ writer = c
        /\ \A o \in Closure[update[c].new] : file[o] = "intact" \/ o \in since[c]
=============================================================================
