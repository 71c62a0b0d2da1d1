---------------------------- MODULE ObjectStore -----------------------------
(***************************************************************************)
(* The filesystem object store of synapse-cas.  An object is staged in a   *)
(* private file that is synced and checked against its OID, then published *)
(* under its OID path with a hard link that never replaces.  Two views of  *)
(* the disk are kept apart: what every process sees (file, shard) and what *)
(* a power loss is sure to leave (disk, shardDisk).  Each object has a     *)
(* shard directory of its own; sharing one could only sync more.           *)
(* Repository runs these steps together with the Ref updates.              *)
(***************************************************************************)
EXTENDS Naturals, FiniteSets

CONSTANTS
    Objects,        \* OIDs
    Clients,        \* threads and processes that use the store
    NoObject,       \* a client that runs no operation
    CrashCanHappen, \* a process may be killed
    Fragile         \* objects whose bytes may be damaged behind the store's back

ASSUME ObjectStoreAssumption ==
    /\ NoObject \notin Objects
    /\ CrashCanHappen \in BOOLEAN
    /\ Fragile \subseteq Objects

States == {"absent", "intact", "damaged"}

VARIABLES
    file,        \* what the OID path holds
    disk,        \* what it holds after a power loss, at worst
    shard,       \* objects whose shard directory exists
    shardDisk,   \* objects whose shard directory survives a power loss
    pc,          \* where each client's operation stands
    op,          \* which operation it is
    oid,         \* the object it is about
    overlapped,  \* clients whose repair met another one (history)
    stored,      \* objects a put or repair has reported stored (history)
    decayed      \* objects damaged at some time (history)

storeVars == <<file, disk, shard, shardDisk, stored, decayed>>

opVars == <<op, oid, overlapped>>

clientVars == <<pc, op, oid, overlapped>>

objectVars == <<file, disk, shard, shardDisk, pc, op, oid, overlapped,
                stored, decayed>>

ObjectInit ==
    /\ file = [o \in Objects |-> "absent"]
    /\ disk = [o \in Objects |-> "absent"]
    /\ shard = {}
    /\ shardDisk = {}
    /\ pc = [c \in Clients |-> "idle"]
    /\ op = [c \in Clients |-> "none"]
    /\ oid = [c \in Clients |-> NoObject]
    /\ overlapped = {}
    /\ stored = {}
    /\ decayed = {}

Goto(c, l) == pc' = [pc EXCEPT ![c] = l]

\* return to the caller
Return(c) ==
    /\ Goto(c, "idle")
    /\ op' = [op EXCEPT ![c] = "none"]
    /\ oid' = [oid EXCEPT ![c] = NoObject]
    /\ overlapped' = overlapped \ {c}

Start(c, o, what, first) ==
    /\ pc[c] = "idle"
    /\ Goto(c, first)
    /\ op' = [op EXCEPT ![c] = what]
    /\ oid' = [oid EXCEPT ![c] = o]
    /\ UNCHANGED storeVars

\* put_blob, put_object...: bytes staged, synced and matched to the OID
StartPut(c, o) == Start(c, o, "put", "ensure") /\ UNCHANGED overlapped

Repairers == {d \in Clients : op[d] \in {"repair", "discard"}}

\* Nothing keeps a second repair out: that is left to the caller.
MeetRepairers(c) ==
    overlapped' = IF Repairers = {} THEN overlapped
                  ELSE overlapped \cup Repairers \cup {c}

\* repair_object with verified bytes, and quarantine_if_corrupt
StartRepair(c, o) == Start(c, o, "repair", "inspect") /\ MeetRepairers(c)

StartDiscard(c, o) == Start(c, o, "discard", "inspect") /\ MeetRepairers(c)

\* mutant: a missing file is taken for a damaged one
Inspect_MissingIsCorrupt(c) ==
    /\ pc[c] = "inspect"
    /\ \/ /\ file[oid[c]] # "intact"
          /\ Goto(c, "quarantine")
          /\ UNCHANGED opVars
       \/ file[oid[c]] = "intact" /\ Return(c)
    /\ UNCHANGED storeVars

\* object_state
Inspect(c) ==
    /\ pc[c] = "inspect"
    /\ \/ /\ file[oid[c]] = "damaged"
          /\ Goto(c, "quarantine")
          /\ UNCHANGED opVars
       \/ /\ file[oid[c]] = "absent" /\ op[c] = "repair"
          /\ Goto(c, "ensure")
          /\ UNCHANGED opVars
       \/ /\ \/ file[oid[c]] = "intact"
             \/ file[oid[c]] = "absent" /\ op[c] = "discard"
          /\ Return(c)
    /\ UNCHANGED storeVars

\* quarantine_object renames whatever the path holds by now; it fails when
\* that is nothing, and may find every name in quarantine/ taken
Quarantine(c) ==
    /\ pc[c] = "quarantine"
    /\ \/ /\ file[oid[c]] # "absent"
          /\ file' = [file EXCEPT ![oid[c]] = "absent"]
          /\ Goto(c, "sync_quarantine")
          /\ UNCHANGED <<disk, shard, shardDisk, stored, decayed, opVars>>
       \/ Return(c) /\ UNCHANGED storeVars

SyncQuarantine(c) ==
    /\ pc[c] = "sync_quarantine"
    /\ disk' = [disk EXCEPT ![oid[c]] = file[oid[c]]]
    /\ \/ op[c] = "repair" /\ Goto(c, "ensure") /\ UNCHANGED opVars
       \/ op[c] = "discard" /\ Return(c)
    /\ UNCHANGED <<file, shard, shardDisk, stored, decayed>>

\* publish_staged, first ensure_real_directory: only the client that creates
\* the directory syncs the one above it
EnsureDirectory(c) ==
    /\ pc[c] = "ensure"
    /\ \/ /\ oid[c] \in shard
          /\ Goto(c, "link")
          /\ UNCHANGED shard
       \/ /\ oid[c] \notin shard
          /\ shard' = shard \cup {oid[c]}
          /\ Goto(c, "sync_kind")
    /\ UNCHANGED <<file, disk, shardDisk, stored, decayed, opVars>>

SyncKind(c) ==
    /\ pc[c] = "sync_kind"
    /\ shardDisk' = shardDisk \cup {oid[c]}
    /\ Goto(c, "link")
    /\ UNCHANGED <<file, disk, shard, stored, decayed, opVars>>

\* hard_link: create, or find the path taken
Link(c) ==
    /\ pc[c] = "link"
    /\ \/ /\ file[oid[c]] = "absent"
          /\ file' = [file EXCEPT ![oid[c]] = "intact"]
          /\ Goto(c, "sync_shard")
       \/ /\ file[oid[c]] # "absent"
          /\ Goto(c, "compare")
          /\ UNCHANGED file
    /\ UNCHANGED <<disk, shard, shardDisk, stored, decayed, opVars>>

Stored(c) == stored' = stored \cup {oid[c]}

\* mutant: Created is reported before the shard directory is synced
SyncShard_NoSync(c) ==
    /\ pc[c] = "sync_shard"
    /\ Stored(c)
    /\ Return(c)
    /\ UNCHANGED <<file, disk, shard, shardDisk, decayed>>

\* Created
SyncShard(c) ==
    /\ pc[c] = "sync_shard"
    /\ disk' = [disk EXCEPT ![oid[c]] = file[oid[c]]]
    /\ Stored(c)
    /\ Return(c)
    /\ UNCHANGED <<file, shard, shardDisk, decayed>>

\* compare_regular_files: AlreadyPresent, or CorruptObject or an I/O error
Compare(c) ==
    /\ pc[c] = "compare"
    /\ IF file[oid[c]] = "intact" THEN Stored(c) ELSE UNCHANGED stored
    /\ Return(c)
    /\ UNCHANGED <<file, disk, shard, shardDisk, decayed>>

ObjectStep(c) ==
    \/ Inspect(c) \/ Quarantine(c) \/ SyncQuarantine(c)
    \/ EnsureDirectory(c) \/ SyncKind(c)
    \/ Link(c) \/ SyncShard(c) \/ Compare(c)

\* stored bytes change behind the store's back, in the cache and on disk
Damage(o) ==
    /\ o \in Fragile
    /\ file[o] = "intact"
    /\ file' = [file EXCEPT ![o] = "damaged"]
    /\ disk' = [disk EXCEPT ![o] = IF @ = "intact" THEN "damaged" ELSE @]
    /\ decayed' = decayed \cup {o}
    /\ UNCHANGED <<shard, shardDisk, stored, clientVars>>

\* The machine stops: every directory entry not synced yet may or may not
\* have reached the disk, and a lost shard directory takes its entries along.
PowerLoss ==
    /\ \E keptShards \in SUBSET shard, keptFiles \in SUBSET Objects :
          /\ shardDisk \subseteq keptShards
          /\ shard' = keptShards
          /\ shardDisk' = keptShards
          /\ file' = [o \in Objects |->
                        IF o \notin keptShards THEN "absent"
                        ELSE IF o \in keptFiles THEN file[o] ELSE disk[o]]
    /\ disk' = file'
    /\ pc' = [c \in Clients |-> "idle"]
    /\ op' = [c \in Clients |-> "none"]
    /\ oid' = [c \in Clients |-> NoObject]
    /\ overlapped' = {}
    /\ UNCHANGED <<stored, decayed>>

-----------------------------------------------------------------------------
(* Properties *)

Labels == {"idle", "inspect", "quarantine", "sync_quarantine", "ensure",
           "sync_kind", "link", "sync_shard", "compare"}

\* repair_object promises that "an intact object is never touched" although it
\* inspects the object well before it renames what is at its path, and takes
\* nothing to keep others out.  Puts, updates and killed processes in between
\* break no such promise: an intact object is moved only by a repair that met
\* another one, which repair_objects asks its callers to rule out, and then
\* only an object whose bytes were damaged before.  Otherwise only damage from
\* outside and a power loss take an intact object away.
IntactNeverTouched ==
    [][\A o \in Objects : file[o] = "intact" =>
          \/ file'[o] = "intact" \/ Damage(o) \/ PowerLoss
          \/ \E c \in overlapped : oid[c] = o /\ Quarantine(c) /\ o \in decayed]_objectVars
=============================================================================
