-------------------------- MODULE RepositoryProofs --------------------------
(***************************************************************************)
(* No interleaving of puts, repairs, updates, killed processes and power   *)
(* losses takes from a Ref or from a finished put more than damage or a    *)
(* missing sync of somebody else explains, for every set of objects,       *)
(* commits, Refs and clients.  IInv is what the running processes keep;    *)
(* DInv relates what they see to what the disk holds, and is needed for    *)
(* the step in which the power fails.                                      *)
(***************************************************************************)
EXTENDS Repository, TLAPS

\* Leaves are first-order; those about numbers, records and sequences cite SMT.
USE ZenonT(40)

Walking == {"walk", "rewalk", "publish"}

Repairing == {"repair", "discard"}

\* repairs that run at the same time have met
Overlaps ==
    \A c, d \in Clients :
        op[c] \in Repairing /\ op[d] \in Repairing => c = d \/ c \in overlapped

\* where an operation stands tells which operation it is
OpFits ==
    \A c \in Clients :
        /\ pc[c] \in {"inspect", "quarantine", "sync_quarantine"}
              => op[c] \in Repairing
        /\ pc[c] \in Labels \ {"idle"} => oid[c] \in Objects /\ op[c] # "update"
        /\ pc[c] \in Walking => op[c] = "update" /\ update[c] \in RefUpdate
        /\ pc[c] = "idle" => op[c] = "none"
        /\ pc[c] = "sync_kind" => oid[c] \in shard

\* a transaction holds the writer lock
LockHeld == \A c \in Clients : pc[c] \in {"rewalk", "publish"} => writer = c

\* what a repair is about to move aside was damaged, and still is unless the
\* repair met another one
QuarantineAims ==
    \A c \in Clients : pc[c] = "quarantine" =>
        /\ oid[c] \in decayed
        /\ file[oid[c]] = "damaged" \/ c \in overlapped

DamageIsDecay ==
    \A o \in Objects : file[o] = "damaged" \/ disk[o] = "damaged" => o \in decayed

\* what the walk has verified is intact or has been lost since
Fresh ==
    \A c \in Clients :
        /\ since[c] \subseteq decayed
        /\ pc[c] = "publish" => walk[c] = {}
        /\ pc[c] \in Walking =>
              \A o \in Closure[update[c].new] \ walk[c] :
                  file[o] = "intact" \/ o \in since[c]

IInv ==
    /\ TypeOK
    /\ Overlaps
    /\ OpFits
    /\ LockHeld
    /\ QuarantineAims
    /\ DamageIsDecay
    /\ Fresh
    /\ RefsStayClosed

\* The invariant is exactly what a fresh repository satisfies.
LEMMA InitIInv == Init => IInv
<1> SUFFICES ASSUME Init PROVE IInv
  OBVIOUS
<1>1. outage \in BOOLEAN
  BY DEF Init
<1>2. TypeOK
  BY <1>1, RepositoryAssumption, ObjectStoreAssumption, SMTT(30)
  DEF Init, ObjectInit, TypeOK, Labels, States, Heads, NoUpdate
<1>3. Overlaps /\ OpFits /\ LockHeld /\ QuarantineAims /\ DamageIsDecay /\ Fresh
  BY RepositoryAssumption, ObjectStoreAssumption, SMTT(30)
  DEF Init, ObjectInit, Overlaps, OpFits, LockHeld, QuarantineAims, DamageIsDecay, Fresh,
      Walking, Repairing, Labels
<1>4. RefsStayClosed
  BY DEF Init, RefsStayClosed, Closed
<1> QED BY <1>2, <1>3, <1>4 DEF IInv

-----------------------------------------------------------------------------
(* Steps of a machine that has its power *)

Running ==
    \/ \E c \in Clients : ClientNext(c) /\ Relies(c)
    \/ \E c \in Clients : Kill(c)
    \/ \E o \in Objects : Decay(o)
    \/ UNCHANGED vars

\* Every step is a step of an object operation, decay, or leaves the objects
\* and the records about them alone.
LEMMA StepKinds ==
    ASSUME Running
    PROVE  \/ \E c \in Clients : ObjectStep(c)
           \/ \E o \in Objects : Decay(o)
           \/ UNCHANGED storeVars
<1>1. ASSUME NEW c \in Clients, NEW u, StartUpdate(c, u)
      PROVE  UNCHANGED storeVars
  BY <1>1 DEF StartUpdate, storeVars
<1>2. ASSUME NEW c \in Clients, UpdateStep(c)
      PROVE  UNCHANGED storeVars
  BY <1>2
  DEF UpdateStep, VerifyObject, BeginImmediate, GuardDone, Publish, storeVars
<1>3. ASSUME NEW c \in Clients, ObjectOp(c)
      PROVE  ObjectStep(c) \/ UNCHANGED storeVars
  BY <1>3
  DEF ObjectOp, StartPut, StartRepair, StartDiscard, Start, storeVars
<1>4. ASSUME NEW c \in Clients, Kill(c)
      PROVE  UNCHANGED storeVars
  BY <1>4 DEF Kill, storeVars
<1>5. CASE UNCHANGED vars
  BY <1>5 DEF vars, storeVars
<1> QED BY <1>1, <1>2, <1>3, <1>4, <1>5 DEF Running, ClientNext

\* What was exposed stays so.
Remembered == exposed' \subseteq Objects /\ exposed \subseteq exposed' /\ outage' = outage

\* The history grows by objects.
LEMMA StepRemembers ==
    ASSUME IInv, Running
    PROVE  Remembered
<1> USE DEF IInv
<1>1. ASSUME NEW c \in Clients, Relies(c)
      PROVE  Remembered
  <2>1. Relied(c) \subseteq Objects
    BY SMTT(30) DEF Relied, OpFits, TypeOK, Labels
  <2> QED BY <1>1, <2>1 DEF Relies, Remembered, TypeOK
<1>2. ASSUME NEW c \in Clients, Kill(c)
      PROVE  Remembered
  <2>1. Syncing(c) => oid[c] \in Objects
    BY DEF Syncing, OpFits, Labels
  <2> QED BY <1>2, <2>1 DEF Kill, Remembered, TypeOK
<1>3. ASSUME NEW o \in Objects, Decay(o)
      PROVE  Remembered
  BY <1>3 DEF Decay, Remembered, TypeOK
<1>4. CASE UNCHANGED vars
  BY <1>4 DEF vars, Remembered, TypeOK
<1> QED BY <1>1, <1>2, <1>3, <1>4 DEF Running

\* a repair that met another one moves aside what was damaged once
Late(o) == \E c \in overlapped : oid[c] = o /\ Quarantine(c) /\ o \in decayed

\* Under the invariant a step that takes an intact object away is damage from
\* outside the store or a late repair.
LEMMA StepSpares ==
    ASSUME IInv, Running
    PROVE  \A o \in Objects :
              file[o] = "intact" => file'[o] = "intact" \/ Damage(o) \/ Late(o)
<1> SUFFICES ASSUME NEW o \in Objects, file[o] = "intact"
             PROVE  file'[o] = "intact" \/ Damage(o) \/ Late(o)
  OBVIOUS
<1>1. ASSUME NEW c \in Clients, ObjectStep(c) PROVE file'[o] = "intact" \/ Late(o)
  <2>1. CASE Quarantine(c)
    <3>1. CASE oid[c] = o
      <4>1. c \in overlapped /\ o \in decayed
        BY <2>1, <3>1 DEF Quarantine, IInv, QuarantineAims
      <4> QED BY <2>1, <3>1, <4>1 DEF Late
    <3>2. CASE oid[c] # o
      BY <2>1, <3>2 DEF Quarantine, storeVars, IInv, TypeOK
    <3> QED BY <3>1, <3>2
  <2>2. CASE Link(c)
    BY <2>2 DEF Link, IInv, TypeOK
  <2>3. CASE \/ Inspect(c) \/ SyncQuarantine(c) \/ EnsureDirectory(c)
             \/ SyncKind(c) \/ SyncShard(c) \/ Compare(c)
    BY <2>3
    DEF Inspect, SyncQuarantine, EnsureDirectory, SyncKind, SyncShard,
        Compare, storeVars
  <2> QED BY <1>1, <2>1, <2>2, <2>3 DEF ObjectStep
<1>2. ASSUME NEW p \in Objects, Decay(p)
      PROVE  file'[o] = "intact" \/ Damage(o)
  <2>1. CASE p = o
    BY <1>2, <2>1 DEF Decay
  <2>2. CASE p # o
    BY <1>2, <2>2 DEF Decay, Damage, IInv, TypeOK
  <2> QED BY <2>1, <2>2
<1>3. CASE UNCHANGED storeVars
  BY <1>3 DEF storeVars
<1> QED BY <1>1, <1>2, <1>3, StepKinds

\* An object that is intact or excused by decay stays so: nothing but a
\* power loss takes away an intact object that was never damaged.
Kept ==
    /\ \A o \in Objects : file[o] = "intact" =>
          file'[o] = "intact" \/ o \in decayed'
    /\ decayed \subseteq decayed'

\* Under the invariant every step keeps what it found.
LEMMA StepKeeps ==
    ASSUME IInv, Running
    PROVE  Kept
<1>1. \A o \in Objects : Damage(o) => o \in decayed'
  BY DEF Damage
<1>2. ASSUME NEW c \in Clients, ObjectStep(c) PROVE UNCHANGED decayed
  BY <1>2
  DEF ObjectStep, Inspect, Quarantine, SyncQuarantine, EnsureDirectory,
      SyncKind, Link, SyncShard, Compare, storeVars
<1>3. ASSUME NEW o \in Objects, Decay(o) PROVE decayed \subseteq decayed'
  BY <1>3 DEF Decay, Damage
<1>4. decayed \subseteq decayed'
  BY <1>2, <1>3, StepKinds DEF storeVars
<1>5. \A o \in Objects : Late(o) => o \in decayed
  BY DEF Late
<1> QED BY <1>1, <1>4, <1>5, StepSpares DEF Kept

\* While no Ref moves they stay closed.
LEMMA ClosedStay ==
    ASSUME IInv, Kept, Remembered, refs' = refs
    PROVE  RefsStayClosed'
<1>1. \A r \in Refs : refs[r] # NoHead => Closure[refs[r]] \subseteq Objects
  BY RepositoryAssumption DEF IInv, TypeOK, Heads
<1>2. \A r \in Refs : refs[r] # NoHead =>
         \A o \in Closure[refs[r]] :
             file[o] = "intact" \/ o \in decayed \/ (outage /\ o \in exposed)
  BY DEF IInv, RefsStayClosed, Closed
<1> QED BY <1>1, <1>2 DEF Kept, Remembered, RefsStayClosed, Closed

\* An update that ends leaves the objects alone and the Refs closed.
Ends(c) ==
    /\ EndUpdate(c)
    /\ UNCHANGED storeVars
    /\ Remembered
    /\ refs' \in [Refs -> Heads]
    /\ RefsStayClosed'

\* Leaving an update, for whatever reason, keeps the invariant.
LEMMA EndKeepsIInv ==
    ASSUME IInv, NEW c \in Clients, Ends(c)
    PROVE  IInv'
<1> USE DEF Ends
<1> USE DEF EndUpdate, Return, Goto, storeVars, IInv
<1>1. TypeOK'
  BY RepositoryAssumption DEF TypeOK, Labels, Remembered
<1>2. Overlaps' /\ OpFits' /\ LockHeld'
  BY RepositoryAssumption, SMTT(30)
  DEF TypeOK, Overlaps, OpFits, LockHeld, Walking, Repairing, Labels
<1>3. QuarantineAims' /\ DamageIsDecay'
  BY DEF TypeOK, QuarantineAims, DamageIsDecay
<1>4. Fresh'
  BY DEF TypeOK, Fresh, Walking
<1>5. RefsStayClosed'
  BY DEF RefsStayClosed
<1> QED BY <1>1, <1>2, <1>3, <1>4, <1>5

\* An object operation neither starts nor moves an update.
LEMMA ObjectOpWalks ==
    ASSUME TypeOK, NEW c \in Clients, ObjectOp(c)
    PROVE  \A d \in Clients : pc'[d] \in Walking => pc'[d] = pc[d]
<1>1. \E l \in Labels : pc' = [pc EXCEPT ![c] = l]
  <2>1. ASSUME NEW o \in Objects,
               StartPut(c, o) \/ StartRepair(c, o) \/ StartDiscard(c, o)
        PROVE  \E l \in Labels : pc' = [pc EXCEPT ![c] = l]
    BY <2>1 DEF StartPut, StartRepair, StartDiscard, Start, Goto, Labels
  <2>2. ASSUME ObjectStep(c)
        PROVE  \E l \in Labels : pc' = [pc EXCEPT ![c] = l]
    BY <2>2 DEF ObjectStep, Inspect, Quarantine, SyncQuarantine, EnsureDirectory, SyncKind,
                Link, SyncShard, Compare, Return, Goto, Labels
  <2> QED BY <2>1, <2>2 DEF ObjectOp
<1>2. \A l \in Labels : l \notin Walking
  BY DEF Labels, Walking
<1> QED BY <1>1, <1>2 DEF TypeOK

\* An update that has an object verified remembers when it is lost.
LEMMA LossesAreNoted ==
    ASSUME IInv, Kept, NoteLosses, UNCHANGED <<update, walk>>,
           \A d \in Clients : pc'[d] \in Walking => pc'[d] = pc[d]
    PROVE  since' \in [Clients -> SUBSET Objects] /\ Fresh'
<1> USE DEF IInv
<1>1. ASSUME NEW d \in Clients PROVE Verified(d) \subseteq Objects
  <2>1. CASE op[d] = "update"
    <3>1. pc[d] \in Walking
      BY <2>1 DEF OpFits, TypeOK, Walking, Labels
    <3>2. update[d].new \in Commits
      BY <3>1 DEF OpFits, RefUpdate
    <3> QED BY <2>1, <3>2, RepositoryAssumption DEF Verified
  <2> QED BY <2>1 DEF Verified
<1>2. ASSUME NEW d \in Clients
      PROVE  since'[d] = since[d] \cup {o \in Verified(d) :
                                          file[o] = "intact" /\ file'[o] # "intact"}
  BY DEF NoteLosses
<1>3. since' \in [Clients -> SUBSET Objects]
  <2>1. \A d \in Clients : since'[d] \subseteq Objects
    BY <1>1, <1>2 DEF TypeOK
  <2> QED BY <2>1 DEF NoteLosses
<1>4. ASSUME NEW d \in Clients PROVE since'[d] \subseteq decayed'
  <2>1. since[d] \subseteq decayed'
    BY DEF Fresh, Kept
  <2>2. \A o \in Verified(d) :
          file[o] = "intact" /\ file'[o] # "intact" => o \in decayed'
    BY <1>1 DEF Kept
  <2> QED BY <1>2, <2>1, <2>2
<1>5. ASSUME NEW d \in Clients, pc'[d] \in Walking,
             NEW o \in Closure[update'[d].new] \ walk'[d]
      PROVE  file'[o] = "intact" \/ o \in since'[d]
  <2>1. pc[d] \in Walking /\ o \in Closure[update[d].new] \ walk[d]
    BY <1>5
  <2>2. o \in Verified(d)
    BY <2>1 DEF OpFits, Verified
  <2>3. file[o] = "intact" \/ o \in since[d]
    BY <2>1 DEF Fresh
  <2> QED BY <1>2, <2>2, <2>3
<1>6. \A d \in Clients : pc'[d] = "publish" => walk'[d] = {}
  BY DEF Fresh, Walking
<1> QED BY <1>3, <1>4, <1>5, <1>6 DEF Fresh

\* A step of an object operation keeps the invariant.
LEMMA ObjectOpIInv ==
    ASSUME IInv, Kept, Remembered, NEW c \in Clients, ObjectOp(c)
    PROVE  IInv'
<1> USE DEF IInv
<1>a. NoteLosses /\ UNCHANGED <<refs, writer, update, walk>>
  BY DEF ObjectOp
<1>b. since' \in [Clients -> SUBSET Objects] /\ Fresh'
  BY <1>a, ObjectOpWalks, LossesAreNoted
<1>0. /\ exposed' \subseteq Objects /\ outage' \in BOOLEAN
      /\ UNCHANGED <<refs, writer, update, walk>>
      /\ since' \in [Clients -> SUBSET Objects]
  BY <1>a, <1>b DEF Remembered, TypeOK
<1>1. TypeOK' /\ Overlaps' /\ OpFits'
  <2> USE <1>0
  <2>1. ASSUME NEW o \in Objects,
               StartPut(c, o) \/ StartRepair(c, o) \/ StartDiscard(c, o)
        PROVE  TypeOK' /\ Overlaps' /\ OpFits'
    BY SMTT(60), <2>1
    DEF StartPut, StartRepair, StartDiscard, Start, MeetRepairers, Repairers,
        Goto, storeVars, TypeOK, Overlaps, OpFits, Labels, Walking,
        Repairing
  <2>2. CASE Inspect(c)
    BY <2>2, SMTT(30)
    DEF Inspect, Return, Goto, storeVars, opVars, TypeOK,
        Overlaps, OpFits, Labels, Walking, Repairing
  <2>3. CASE Quarantine(c)
    BY <2>3, ObjectStoreAssumption, SMTT(60)
    DEF Quarantine, Return, Goto, storeVars, opVars, TypeOK,
        Overlaps, OpFits, Labels, Walking, Repairing, States
  <2>4. CASE SyncQuarantine(c)
    BY SMTT(60), <2>4
    DEF SyncQuarantine, Return, Goto, opVars, TypeOK,
        Overlaps, OpFits, Labels, Walking, Repairing
  <2>5. CASE EnsureDirectory(c) \/ SyncKind(c)
    <3>1. pc[c] \in Labels \ {"idle"} /\ oid[c] \in Objects
      BY <2>5 DEF EnsureDirectory, SyncKind, OpFits, Labels
    <3>2. CASE EnsureDirectory(c)
      BY <3>1, <3>2, SMTT(30)
      DEF EnsureDirectory, Goto, opVars, TypeOK,
          Overlaps, OpFits, Labels, Walking, Repairing
    <3>3. CASE SyncKind(c)
      <4>1. oid[c] \in shard
        BY <3>3 DEF SyncKind, OpFits
      <4> QED BY <3>1, <3>3, <4>1, SMTT(30)
              DEF SyncKind, Goto, opVars, TypeOK,
                  Overlaps, OpFits, Labels, Walking, Repairing
    <3> QED BY <2>5, <3>2, <3>3
  <2>6. CASE Link(c) \/ SyncShard(c) \/ Compare(c)
    BY SMTT(60), <2>6
    DEF Link, SyncShard, Compare, Stored, Return, Goto, opVars,
        TypeOK, Overlaps, OpFits, Labels, Walking, Repairing, States
  <2> QED BY <2>1, <2>2, <2>3, <2>4, <2>5, <2>6 DEF ObjectOp, ObjectStep
<1>2. LockHeld'
  <2>1. writer' = writer
    BY <1>a
  <2>2. \A d \in Clients : pc'[d] \in {"rewalk", "publish"} => pc'[d] = pc[d]
    BY ObjectOpWalks DEF Walking
  <2> QED BY <2>1, <2>2 DEF LockHeld
<1>3. QuarantineAims'
  <2> SUFFICES ASSUME NEW d \in Clients, pc'[d] = "quarantine"
               PROVE  /\ oid'[d] \in decayed'
                      /\ file'[oid'[d]] = "damaged" \/ d \in overlapped'
    BY DEF QuarantineAims
  <2>1. CASE ObjectStep(c)
    <3>1. decayed' = decayed
      BY <2>1
      DEF ObjectStep, Inspect, Quarantine, SyncQuarantine, EnsureDirectory, SyncKind, Link,
          SyncShard, Compare, storeVars
    <3>2. CASE d = c
      <4>1. /\ Inspect(c) /\ UNCHANGED <<oid, file>>
            /\ file[oid[c]] = "damaged" /\ oid[c] \in Objects
        BY <2>1, <3>2
        DEF ObjectStep, Inspect, Quarantine, SyncQuarantine, EnsureDirectory, SyncKind, Link,
            SyncShard, Compare, Return, Goto, storeVars, opVars, TypeOK, OpFits, Labels
      <4> QED BY <3>1, <3>2, <4>1 DEF DamageIsDecay
    <3>3. CASE d # c
      <4>1. pc[d] = "quarantine" /\ oid'[d] = oid[d] /\ (d \in overlapped => d \in overlapped')
        BY <2>1, <3>3
        DEF ObjectStep, Inspect, Quarantine, SyncQuarantine, EnsureDirectory, SyncKind, Link,
            SyncShard, Compare, Return, Goto, opVars, TypeOK
      <4>2. oid[d] \in decayed /\ (file[oid[d]] = "damaged" \/ d \in overlapped)
        BY <4>1 DEF QuarantineAims
      <4>3. CASE Quarantine(c)
        <5>1. op[c] \in Repairing /\ op[d] \in Repairing
          BY <4>1, <4>3 DEF Quarantine, OpFits
        <5>2. d \in overlapped
          BY <3>3, <5>1 DEF Overlaps
        <5> QED BY <3>1, <4>1, <4>2, <5>2
      <4>4. CASE ~ Quarantine(c)
        <5>1. file[oid[d]] = "damaged" => file'[oid[d]] = "damaged"
          BY <2>1, <4>2, <4>4
          DEF ObjectStep, Inspect, SyncQuarantine, EnsureDirectory, SyncKind, Link,
              SyncShard, Compare, storeVars, TypeOK
        <5> QED BY <3>1, <4>1, <4>2, <5>1
      <4> QED BY <4>3, <4>4
    <3> QED BY <3>2, <3>3
  <2>2. CASE \E o \in Objects : StartPut(c, o) \/ StartRepair(c, o) \/ StartDiscard(c, o)
    <3>1. d # c /\ pc[d] = "quarantine" /\ oid'[d] = oid[d]
      BY <2>2 DEF StartPut, StartRepair, StartDiscard, Start, Goto, TypeOK
    <3>2. UNCHANGED <<file, decayed>> /\ overlapped \subseteq overlapped'
      BY <2>2 DEF StartPut, StartRepair, StartDiscard, Start, storeVars, MeetRepairers
    <3> QED BY <3>1, <3>2 DEF QuarantineAims
  <2> QED BY <2>1, <2>2 DEF ObjectOp
<1>4. /\ decayed' = decayed
      /\ \A o \in Objects :
           file'[o] = "damaged" \/ disk'[o] = "damaged" =>
               file[o] = "damaged" \/ disk[o] = "damaged"
  BY DEF ObjectOp, StartPut, StartRepair, StartDiscard, Start, ObjectStep,
         Inspect, Quarantine, SyncQuarantine, EnsureDirectory, SyncKind, Link,
         SyncShard, Compare, storeVars, TypeOK
<1>5. DamageIsDecay'
  BY <1>4 DEF DamageIsDecay
<1>6. RefsStayClosed'
  BY <1>a, ClosedStay
<1> QED BY <1>1, <1>2, <1>3, <1>b, <1>5, <1>6

-----------------------------------------------------------------------------
(* Every step with power *)

\* Every step of the repository keeps the invariant while there is power.
LEMMA RunningIInv == IInv /\ Running => IInv'
<1> SUFFICES ASSUME IInv, Running PROVE IInv'
  OBVIOUS
<1> USE DEF IInv
<1>a. Remembered
  BY StepRemembers
<1>b. exposed' \subseteq Objects /\ outage' \in BOOLEAN
  BY <1>a DEF Remembered, TypeOK
<1>c. Kept
  BY StepKeeps
<1> USE <1>a, <1>b DEF Remembered
<1>0. \A m \in Commits : Closure[m] \subseteq Objects
  BY RepositoryAssumption
<1>1. ASSUME NEW c \in Clients, NEW u \in RefUpdate, StartUpdate(c, u)
      PROVE  IInv'
  <2>0. u.new \in Commits
    BY DEF RefUpdate
  <2>1. TypeOK'
    BY <1>0, <1>1, <2>0
    DEF StartUpdate, BeginWalk, Goto, storeVars, TypeOK
  <2>2. Overlaps' /\ OpFits' /\ LockHeld'
    BY <1>1, SMTT(30)
    DEF StartUpdate, Goto, storeVars, TypeOK, Overlaps, OpFits, LockHeld,
        Walking, Repairing, Labels
  <2>3. QuarantineAims' /\ DamageIsDecay' /\ RefsStayClosed'
    BY <1>1
    DEF StartUpdate, Goto, storeVars, TypeOK, QuarantineAims, DamageIsDecay,
        RefsStayClosed, Closed
  <2>4. Fresh'
    BY <1>1, SMTT(30)
    DEF StartUpdate, BeginWalk, Goto, storeVars, TypeOK, Fresh, Walking
  <2> QED BY <2>1, <2>2, <2>3, <2>4
<1>2. ASSUME NEW c \in Clients, VerifyObject(c) PROVE IInv'
  <2>1. PICK o \in walk[c] :
          IF file[o] = "intact"
          THEN /\ walk' = [walk EXCEPT ![c] = @ \ {o}]
               /\ UNCHANGED <<clientVars, refs, writer, update, since>>
          ELSE EndUpdate(c) /\ UNCHANGED refs
    BY <1>2 DEF VerifyObject
  <2>2. CASE file[o] = "intact"
    <3> USE <1>2, <2>1, <2>2 DEF VerifyObject, clientVars, storeVars
    <3>1. TypeOK'
      BY SMTT(30) DEF TypeOK
    <3>2. Overlaps' /\ OpFits' /\ LockHeld' /\ QuarantineAims'
          /\ DamageIsDecay' /\ RefsStayClosed'
      BY DEF Overlaps, OpFits, LockHeld, QuarantineAims, DamageIsDecay,
             RefsStayClosed, Closed
    <3>3. Fresh'
      BY SMTT(30) DEF Fresh, TypeOK
    <3> QED BY <3>1, <3>2, <3>3
  <2>3. CASE file[o] # "intact"
    <3>1. Ends(c)
      BY <1>2, <2>1, <2>3
      DEF VerifyObject, Ends, storeVars, RefsStayClosed, Closed, TypeOK
    <3> QED BY <3>1, EndKeepsIInv
  <2> QED BY <2>2, <2>3
<1>3. ASSUME NEW c \in Clients, BeginImmediate(c) PROVE IInv'
  <2>0. update[c].new \in Commits
    BY <1>3 DEF BeginImmediate, OpFits, Walking, RefUpdate
  <2>1. TypeOK'
    BY <1>0, <1>3, <2>0
    DEF BeginImmediate, BeginWalk, Goto, storeVars, opVars, TypeOK
  <2>2. Overlaps' /\ OpFits'
    BY <1>3, SMTT(30)
    DEF BeginImmediate, Goto, storeVars, opVars, TypeOK, Overlaps, OpFits, Walking,
        Repairing, Labels
  <2>3. LockHeld'
    BY <1>3, RepositoryAssumption
    DEF BeginImmediate, Goto, TypeOK, LockHeld
  <2>4. QuarantineAims' /\ DamageIsDecay' /\ RefsStayClosed'
    BY <1>3
    DEF BeginImmediate, Goto, storeVars, opVars, TypeOK, QuarantineAims,
        DamageIsDecay, RefsStayClosed, Closed
  <2>5. Fresh'
    BY <1>3, SMTT(30)
    DEF BeginImmediate, BeginWalk, Goto, storeVars, TypeOK, Fresh, Walking
  <2> QED BY <2>1, <2>2, <2>3, <2>4, <2>5
<1>4. ASSUME NEW c \in Clients, GuardDone(c) PROVE IInv'
  <2> USE <1>4 DEF GuardDone, Goto, storeVars, opVars, refVars
  <2>1. TypeOK'
    BY DEF TypeOK
  <2>2. Overlaps' /\ OpFits' /\ LockHeld'
    BY DEF TypeOK, Overlaps, OpFits, LockHeld, Walking, Repairing, Labels
  <2>3. QuarantineAims' /\ DamageIsDecay' /\ RefsStayClosed'
    BY DEF TypeOK, QuarantineAims, DamageIsDecay, RefsStayClosed, Closed
  <2>4. Fresh'
    BY DEF TypeOK, Fresh, Walking
  <2> QED BY <2>1, <2>2, <2>3, <2>4
<1>5. ASSUME NEW c \in Clients, Publish(c) PROVE IInv'
  <2>1. /\ update[c] \in RefUpdate
        /\ \A o \in Closure[update[c].new] : file[o] = "intact" \/ o \in decayed
    BY <1>5 DEF Publish, OpFits, Fresh, Walking
  <2>2. refs' \in [Refs -> Heads]
    BY <1>5, <2>1 DEF Publish, TypeOK, RefUpdate, Heads
  <2>3. RefsStayClosed'
    BY <1>5, <2>1
    DEF Publish, RefsStayClosed, Closed, TypeOK, RefUpdate, storeVars
  <2>4. Ends(c)
    BY <1>5, <2>2, <2>3 DEF Publish, Ends
  <2> QED BY <2>4, EndKeepsIInv
<1>6. ASSUME NEW c \in Clients, ObjectOp(c) PROVE IInv'
  BY <1>6, ObjectOpIInv, StepKeeps
<1>7. ASSUME NEW c \in Clients, Kill(c) PROVE IInv'
  <2>1. Ends(c)
    BY <1>7, <1>c, ClosedStay DEF Kill, Ends, TypeOK
  <2> QED BY <2>1, EndKeepsIInv
<1>8. ASSUME NEW o \in Objects, Decay(o) PROVE IInv'
  <2>0. since' \in [Clients -> SUBSET Objects] /\ Fresh'
    BY <1>8, <1>c, LossesAreNoted DEF Decay, Damage, clientVars
  <2> USE <1>8 DEF Decay, Damage, clientVars
  <2>1. TypeOK'
    BY <2>0, SMTT(30) DEF TypeOK, States
  <2>2. Overlaps' /\ OpFits' /\ LockHeld'
    BY DEF Overlaps, OpFits, LockHeld
  <2>3. QuarantineAims'
    BY DEF QuarantineAims, OpFits, Labels, TypeOK
  <2>4. DamageIsDecay' /\ RefsStayClosed'
    BY <1>c, ClosedStay, SMTT(30) DEF DamageIsDecay, TypeOK
  <2>5. Fresh'
    BY <2>0
  <2> QED BY <2>1, <2>2, <2>3, <2>4, <2>5
<1>9. CASE UNCHANGED vars
  <2>1. RefsStayClosed'
    BY <1>9, <1>c, ClosedStay DEF vars
  <2> QED BY <1>9, <2>1
          DEF vars, TypeOK, Overlaps, OpFits, LockHeld, QuarantineAims, DamageIsDecay, Fresh
<1>10. ASSUME NEW c \in Clients, NEW r \in Refs, NEW e \in Heads,
              NEW n \in Commits, NEW g \in BOOLEAN,
              StartUpdate(c, [ref |-> r, expected |-> e, new |-> n,
                              guarded |-> g])
       PROVE  IInv'
  <2>1. [ref |-> r, expected |-> e, new |-> n, guarded |-> g] \in RefUpdate
    BY DEF RefUpdate
  <2> QED BY <1>1, <1>10, <2>1
<1> QED
  BY <1>2, <1>3, <1>4, <1>5, <1>6, <1>7, <1>8, <1>9, <1>10
  DEF Running, ClientNext, UpdateStep

-----------------------------------------------------------------------------
(* What a power loss leaves *)

Durable(o) == disk[o] = "intact" /\ o \in shardDisk

\* the object survives, or is one of those nobody promises
Safe(o) == Durable(o) \/ o \in decayed \cup exposed

\* what a publication has established before its next step
Poised(c) ==
    /\ pc[c] \in {"link", "sync_shard", "compare"} => oid[c] \in shard
    /\ pc[c] = "sync_shard" => file[oid[c]] = "intact" \/ oid[c] \in decayed
    /\ pc[c] = "sync_quarantine" => oid[c] \in decayed

StepFits == \A c \in Clients : Poised(c)

\* the disk is behind what the processes see, never ahead of it
InLine(o) ==
    /\ file[o] # "absent" => o \in shard
    /\ disk[o] = "intact" => file[o] = "intact" \/ o \in decayed

DiskFits == \A o \in Objects : InLine(o)

\* what is visible and not on the disk is about to be synced by who wrote it
Pending(o) ==
    /\ o \in shard \ shardDisk => \E c \in Clients : pc[c] = "sync_kind" /\ oid[c] = o
    /\ file[o] = "intact" /\ disk[o] # "intact" /\ o \notin decayed =>
          \E c \in Clients : pc[c] = "sync_shard" /\ oid[c] = o

Settled == \A o \in Objects : o \notin exposed => Pending(o)

\* what a walk has verified, a Ref needs or a put has reported is safe
WalkedSafe ==
    \A c \in Clients : pc[c] \in Walking =>
        \A o \in Closure[update[c].new] : o \notin walk[c] => Safe(o)

RefsSafe == \A r \in Refs : refs[r] # NoHead => \A o \in Closure[refs[r]] : Safe(o)

StoredSafe == \A o \in stored : Safe(o)

Relying == WalkedSafe /\ RefsSafe /\ StoredSafe

DInv == StepFits /\ DiskFits /\ Settled /\ Relying

\* Nothing is visible, promised or under way in a fresh repository.
LEMMA InitDInv == Init => DInv
<1> SUFFICES ASSUME Init PROVE DInv
  OBVIOUS
<1> USE DEF Init, ObjectInit
<1>1. StepFits
  BY DEF StepFits, Poised
<1>2. DiskFits
  BY DEF DiskFits, InLine
<1>3. Settled
  BY DEF Settled, Pending
<1>4. Relying
  BY DEF Relying, WalkedSafe, RefsSafe, StoredSafe, Walking
<1> QED BY <1>1, <1>2, <1>3, <1>4 DEF DInv

\* What is safe stays safe while there is power: a sync writes what the
\* processes see, and that is intact unless it decayed.
LEMMA SafeStays ==
    ASSUME IInv, DInv, Running
    PROVE  \A o \in Objects : Safe(o) => Safe(o)'
<1> USE DEF IInv
<1>1. Kept /\ Remembered
  BY StepKeeps, StepRemembers
<1> SUFFICES ASSUME NEW o \in Objects, Durable(o), o \notin decayed'
             PROVE  Durable(o)'
  BY <1>1 DEF Safe, Kept, Remembered
<1>2. file[o] = "intact" /\ o \notin decayed
  BY <1>1 DEF DInv, DiskFits, InLine, Durable, Kept
<1>3. ASSUME NEW c \in Clients, ObjectStep(c) PROVE Durable(o)'
  <2>1. CASE SyncQuarantine(c)
    <3>1. oid[c] # o
      BY <1>2, <2>1 DEF SyncQuarantine, DInv, StepFits, Poised
    <3> QED BY <2>1, <3>1 DEF SyncQuarantine, Durable, TypeOK
  <2>2. CASE SyncShard(c)
    BY <1>2, <2>2 DEF SyncShard, Durable, TypeOK
  <2>3. CASE \/ Inspect(c) \/ Quarantine(c) \/ EnsureDirectory(c)
             \/ SyncKind(c) \/ Link(c) \/ Compare(c)
    BY <2>3
    DEF Inspect, Quarantine, EnsureDirectory, SyncKind, Link, Compare, storeVars, Durable
  <2> QED BY <1>3, <2>1, <2>2, <2>3 DEF ObjectStep
<1>4. ASSUME NEW p \in Objects, Decay(p) PROVE Durable(o)'
  <2>1. p # o
    BY <1>4 DEF Decay, Damage
  <2> QED BY <1>4, <2>1 DEF Decay, Damage, Durable, TypeOK
<1>5. CASE UNCHANGED storeVars
  BY <1>5 DEF storeVars, Durable
<1> QED BY <1>3, <1>4, <1>5, StepKinds

-----------------------------------------------------------------------------
(* Steps of the publications *)

DiskInv == StepFits /\ DiskFits /\ Settled

\* a step away from the files: it starts no sync, and who stops before a sync
\* leaves the object exposed
Aside ==
    /\ UNCHANGED <<file, disk, shard, shardDisk, decayed>>
    /\ exposed \subseteq exposed'
    /\ \A c \in Clients :
          pc'[c] \in {"link", "sync_shard", "compare", "sync_quarantine"} =>
              pc'[c] = pc[c] /\ oid'[c] = oid[c]
    /\ \A c \in Clients : Syncing(c) =>
          oid[c] \in exposed' \/ (pc'[c] = pc[c] /\ oid'[c] = oid[c])

\* Such a step keeps what the disk holds in line with what is visible.
LEMMA AsideKeeps ==
    ASSUME DiskInv, Aside
    PROVE  DiskInv'
<1>1. StepFits'
  BY DEF DiskInv, StepFits, Poised, Aside
<1>2. DiskFits'
  BY DEF DiskInv, DiskFits, InLine, Aside
<1>3. Settled'
  <2> SUFFICES ASSUME NEW o \in Objects, o \notin exposed'
               PROVE  /\ o \in shard \ shardDisk =>
                           \E c \in Clients : pc'[c] = "sync_kind" /\ oid'[c] = o
                      /\ file[o] = "intact" /\ disk[o] # "intact" /\ o \notin decayed =>
                           \E c \in Clients : pc'[c] = "sync_shard" /\ oid'[c] = o
    BY DEF Settled, Pending, Aside
  <2>1. Pending(o)
    BY DEF DiskInv, Settled, Aside
  <2>2. \A c \in Clients : Syncing(c) /\ oid[c] = o => pc'[c] = pc[c] /\ oid'[c] = o
    BY DEF Aside
  <2>3. ASSUME o \in shard \ shardDisk
        PROVE  \E c \in Clients : pc'[c] = "sync_kind" /\ oid'[c] = o
    <3>1. PICK c \in Clients : pc[c] = "sync_kind" /\ oid[c] = o
      BY <2>1, <2>3 DEF Pending
    <3> QED BY <2>2, <3>1 DEF Syncing
  <2>4. ASSUME file[o] = "intact", disk[o] # "intact", o \notin decayed
        PROVE  \E c \in Clients : pc'[c] = "sync_shard" /\ oid'[c] = o
    <3>1. PICK c \in Clients : pc[c] = "sync_shard" /\ oid[c] = o
      BY <2>1, <2>4 DEF Pending
    <3> QED BY <2>2, <3>1 DEF Syncing
  <2> QED BY <2>3, <2>4
<1> QED BY <1>1, <1>2, <1>3 DEF DiskInv

\* client c moves and touches at most the object p it is about
Touches(c, p) ==
    /\ oid[c] = p
    /\ \A d \in Clients : d # c => pc'[d] = pc[d] /\ oid'[d] = oid[d]
    /\ \A o \in Objects : o # p =>
          /\ file'[o] = file[o] /\ disk'[o] = disk[o]
          /\ o \in shard' <=> o \in shard
          /\ o \in shardDisk' <=> o \in shardDisk
    /\ shard \subseteq shard'
    /\ decayed' = decayed

\* A step of an object operation is such a step.
LEMMA ObjectStepTouches ==
    ASSUME IInv, NEW c \in Clients, ObjectStep(c)
    PROVE  \E p \in Objects : Touches(c, p)
<1> USE DEF IInv
<1>1. oid[c] \in Objects
  BY DEF ObjectStep, Inspect, Quarantine, SyncQuarantine, EnsureDirectory, SyncKind,
         Link, SyncShard, Compare, OpFits, Labels
<1>2. \A d \in Clients : d # c => pc'[d] = pc[d] /\ oid'[d] = oid[d]
  BY DEF ObjectStep, Inspect, Quarantine, SyncQuarantine, EnsureDirectory, SyncKind,
         Link, SyncShard, Compare, Return, Goto, opVars, TypeOK
<1>3. \A o \in Objects : o # oid[c] => file'[o] = file[o] /\ disk'[o] = disk[o]
  BY DEF ObjectStep, Inspect, Quarantine, SyncQuarantine, EnsureDirectory, SyncKind,
         Link, SyncShard, Compare, storeVars, TypeOK
<1>4. /\ shard' = shard \/ shard' = shard \cup {oid[c]}
      /\ shardDisk' = shardDisk \/ shardDisk' = shardDisk \cup {oid[c]}
      /\ decayed' = decayed
  BY DEF ObjectStep, Inspect, Quarantine, SyncQuarantine, EnsureDirectory, SyncKind,
         Link, SyncShard, Compare, storeVars
<1> QED BY <1>1, <1>2, <1>3, <1>4 DEF Touches

\* It keeps the disk in line if it does so for that client and that object.
LEMMA TouchedOnly ==
    ASSUME DiskInv, Kept, Remembered, TypeOK,
           NEW c \in Clients, NEW p \in Objects, Touches(c, p),
           Poised(c)', InLine(p)', p \notin exposed' => Pending(p)'
    PROVE  DiskInv'
<1>1. ASSUME NEW d \in Clients PROVE Poised(d)'
  <2>1. CASE d # c
    <3>1. pc'[d] = pc[d] /\ oid'[d] = oid[d]
      BY <2>1 DEF Touches
    <3>2. Poised(d)
      BY DEF DiskInv, StepFits
    <3>3. shard \subseteq shard' /\ decayed' = decayed
      BY DEF Touches
    <3>4. oid[d] \in shard => oid[d] \in Objects
      BY DEF TypeOK
    <3> QED BY <3>1, <3>2, <3>3, <3>4 DEF Poised, Kept
  <2> QED BY <2>1
<1>2. ASSUME NEW o \in Objects PROVE InLine(o)'
  <2>1. CASE o # p
    <3>1. InLine(o)
      BY DEF DiskInv, DiskFits
    <3> QED BY <2>1, <3>1 DEF InLine, Touches
  <2> QED BY <2>1
<1>3. ASSUME NEW o \in Objects, o \notin exposed' PROVE Pending(o)'
  <2>1. CASE o # p
    <3>1. Pending(o)
      BY <1>3 DEF DiskInv, Settled, Remembered
    <3>2. \A d \in Clients : oid[d] = o => pc'[d] = pc[d] /\ oid'[d] = o
      BY <2>1 DEF Touches
    <3>3. /\ file'[o] = file[o] /\ disk'[o] = disk[o] /\ decayed' = decayed
          /\ o \in shard' \ shardDisk' => o \in shard \ shardDisk
      BY <2>1 DEF Touches
    <3> QED BY <3>1, <3>2, <3>3 DEF Pending
  <2> QED BY <1>3, <2>1
<1> QED BY <1>1, <1>2, <1>3 DEF DiskInv, StepFits, DiskFits, Settled

\* Every step of an object operation keeps the disk in line: what it makes
\* visible it syncs next, and what it syncs is what is visible.
LEMMA ObjectStepDisk ==
    ASSUME IInv, DiskInv, Kept, Remembered, NEW c \in Clients, ObjectStep(c)
    PROVE  DiskInv'
<1> USE DEF IInv
<1>1. PICK p \in Objects : Touches(c, p)
  BY ObjectStepTouches
<1>2. oid[c] = p /\ decayed' = decayed
  BY <1>1 DEF Touches
<1>3. Poised(c) /\ InLine(p) /\ (p \notin exposed => Pending(p))
  BY DEF DiskInv, StepFits, DiskFits, Settled
<1>4. \A d \in Clients : d # c => pc'[d] = pc[d] /\ oid'[d] = oid[d]
  BY <1>1 DEF Touches
<1>5. ~ Syncing(c) /\ UNCHANGED <<file, disk, shard, shardDisk>>
        => (p \notin exposed' => Pending(p)')
  BY <1>2, <1>3, <1>4 DEF Pending, Syncing, Remembered
<1>6. UNCHANGED <<file, disk, shard>> => InLine(p)'
  BY <1>2, <1>3 DEF InLine
<1>7. Poised(c)' /\ InLine(p)' /\ (p \notin exposed' => Pending(p)')
  <2>1. CASE Inspect(c) \/ Compare(c)
    <3>1. ~ Syncing(c) /\ UNCHANGED <<file, disk, shard, shardDisk>>
      BY <2>1 DEF Inspect, Compare, storeVars, Syncing
    <3>2. pc'[c] \in {"idle", "quarantine", "ensure"}
      BY <2>1 DEF Inspect, Compare, Return, Goto, TypeOK
    <3> QED BY <1>5, <1>6, <3>1, <3>2 DEF Poised
  <2>2. CASE Quarantine(c)
    <3>1. p \in decayed /\ pc[c] = "quarantine"
      BY <1>2, <2>2 DEF Quarantine, QuarantineAims
    <3>2. UNCHANGED <<disk, shard, shardDisk>>
      BY <2>2 DEF Quarantine, storeVars
    <3>3. pc'[c] = "idle" \/ (pc'[c] = "sync_quarantine" /\ oid'[c] = p)
      BY <1>2, <2>2 DEF Quarantine, Return, Goto, opVars, TypeOK
    <3>4. file'[p] # "absent" => file[p] # "absent"
      BY <1>2, <2>2 DEF Quarantine, storeVars, TypeOK
    <3>5. p \notin exposed' => Pending(p)'
      BY <1>2, <1>3, <1>4, <3>1, <3>2 DEF Pending, Remembered
    <3> QED BY <1>2, <1>3, <3>1, <3>2, <3>3, <3>4, <3>5 DEF Poised, InLine
  <2>3. CASE SyncQuarantine(c) \/ SyncShard(c)
    <3>1. UNCHANGED <<file, shard, shardDisk>> /\ disk'[p] = file[p]
      BY <1>2, <2>3 DEF SyncQuarantine, SyncShard, TypeOK
    <3>2. pc'[c] \in {"idle", "ensure"}
      BY <2>3 DEF SyncQuarantine, SyncShard, Return, Goto, TypeOK
    <3>3. pc[c] # "sync_kind"
      BY <2>3 DEF SyncQuarantine, SyncShard
    <3>4. p \notin exposed' => Pending(p)'
      BY <1>2, <1>3, <1>4, <3>1, <3>3 DEF Pending, Remembered
    <3> QED BY <1>2, <1>3, <3>1, <3>2, <3>4 DEF Poised, InLine
  <2>4. CASE EnsureDirectory(c)
    <3>1. UNCHANGED <<file, disk, shardDisk>> /\ pc[c] = "ensure" /\ shard \subseteq shard'
      BY <2>4 DEF EnsureDirectory
    <3>2. /\ oid'[c] = p
          /\ \/ pc'[c] = "link" /\ p \in shard /\ shard' = shard
             \/ pc'[c] = "sync_kind"
      BY <1>2, <2>4 DEF EnsureDirectory, Goto, opVars, TypeOK
    <3>3. p \notin exposed' => Pending(p)'
      BY <1>2, <1>3, <1>4, <3>1, <3>2 DEF Pending, Remembered
    <3> QED BY <1>2, <1>3, <3>1, <3>2, <3>3 DEF Poised, InLine
  <2>5. CASE SyncKind(c)
    <3>1. UNCHANGED <<file, disk, shard>> /\ p \in shardDisk' /\ pc[c] = "sync_kind"
      BY <1>2, <2>5 DEF SyncKind
    <3>2. oid'[c] = p /\ pc'[c] = "link" /\ p \in shard
      BY <1>2, <2>5 DEF SyncKind, Goto, opVars, TypeOK, OpFits
    <3>3. p \notin exposed' => Pending(p)'
      BY <1>2, <1>3, <1>4, <3>1 DEF Pending, Remembered
    <3> QED BY <1>2, <1>6, <3>1, <3>2, <3>3 DEF Poised
  <2>6. CASE Link(c)
    <3>1. UNCHANGED <<disk, shard, shardDisk>> /\ pc[c] = "link" /\ p \in shard
      BY <1>2, <1>3, <2>6 DEF Link, Poised
    <3>2. /\ oid'[c] = p
          /\ \/ pc'[c] = "sync_shard" /\ file'[p] = "intact"
             \/ pc'[c] = "compare" /\ file' = file
      BY <1>2, <2>6 DEF Link, Goto, opVars, TypeOK
    <3>3. p \notin exposed' => Pending(p)'
      BY <1>2, <1>3, <1>4, <3>1, <3>2 DEF Pending, Remembered
    <3> QED BY <1>2, <1>3, <3>1, <3>2, <3>3 DEF Poised, InLine
  <2> QED BY <2>1, <2>2, <2>3, <2>4, <2>5, <2>6 DEF ObjectStep
<1> QED BY <1>1, <1>7, TouchedOnly

\* So does every other step while there is power: who is killed between a link
\* and its sync leaves the object exposed.
LEMMA RunningDisk ==
    ASSUME IInv, DiskInv, Running
    PROVE  DiskInv'
<1> USE DEF IInv
<1>1. Kept /\ Remembered
  BY StepKeeps, StepRemembers
<1>2. ASSUME NEW c \in Clients, NEW u, StartUpdate(c, u) PROVE DiskInv'
  <2>1. Aside
    BY <1>1, <1>2, SMTT(30)
    DEF StartUpdate, Goto, storeVars, Aside, Remembered, Syncing, TypeOK
  <2> QED BY <2>1, AsideKeeps
<1>3. ASSUME NEW c \in Clients, UpdateStep(c) PROVE DiskInv'
  <2>1. UNCHANGED storeVars /\ pc[c] \in Walking
    BY <1>3
    DEF UpdateStep, VerifyObject, BeginImmediate, GuardDone, Publish, Walking
  <2>2. pc'[c] \in Walking \cup {"idle"}
    BY <1>3
    DEF UpdateStep, VerifyObject, BeginImmediate, GuardDone, Publish, EndUpdate, Return, Goto,
        clientVars, Walking, TypeOK
  <2>3. \A d \in Clients : d # c => pc'[d] = pc[d] /\ oid'[d] = oid[d]
    BY <1>3
    DEF UpdateStep, VerifyObject, BeginImmediate, GuardDone, Publish, EndUpdate, Return, Goto,
        clientVars, opVars, TypeOK
  <2>4. Aside
    BY <1>1, <2>1, <2>2, <2>3 DEF storeVars, Aside, Remembered, Syncing, Walking
  <2> QED BY <2>4, AsideKeeps
<1>4. ASSUME NEW c \in Clients, ObjectOp(c) PROVE DiskInv'
  <2>1. CASE \E o \in Objects : StartPut(c, o) \/ StartRepair(c, o) \/ StartDiscard(c, o)
    <3>1. pc[c] = "idle" /\ UNCHANGED storeVars /\ pc'[c] \in {"ensure", "inspect"}
      BY <2>1 DEF StartPut, StartRepair, StartDiscard, Start, Goto, TypeOK
    <3>2. \A d \in Clients : d # c => pc'[d] = pc[d] /\ oid'[d] = oid[d]
      BY <2>1 DEF StartPut, StartRepair, StartDiscard, Start, Goto, TypeOK
    <3>3. Aside
      BY <1>1, <3>1, <3>2 DEF storeVars, Aside, Remembered, Syncing
    <3> QED BY <3>3, AsideKeeps
  <2> QED BY <1>1, <1>4, <2>1, ObjectStepDisk DEF ObjectOp
<1>5. ASSUME NEW c \in Clients, Kill(c) PROVE DiskInv'
  <2>1. pc'[c] = "idle" /\ UNCHANGED storeVars /\ (Syncing(c) => oid[c] \in exposed')
    BY <1>5 DEF Kill, EndUpdate, Return, Goto, TypeOK
  <2>2. \A d \in Clients : d # c => pc'[d] = pc[d] /\ oid'[d] = oid[d]
    BY <1>5 DEF Kill, EndUpdate, Return, Goto, TypeOK
  <2>3. Aside
    BY <1>1, <2>1, <2>2 DEF storeVars, Aside, Remembered
  <2> QED BY <2>3, AsideKeeps
<1>6. ASSUME NEW p \in Objects, Decay(p) PROVE DiskInv'
  <2>1. /\ UNCHANGED <<shard, shardDisk, pc, oid, exposed>>
        /\ file[p] = "intact" /\ decayed' = decayed \cup {p}
    BY <1>6 DEF Decay, Damage, clientVars
  <2>2. \A o \in Objects : o # p => file'[o] = file[o] /\ disk'[o] = disk[o]
    BY <1>6 DEF Decay, Damage, TypeOK
  <2>3. file'[p] = "damaged"
    BY <1>6 DEF Decay, Damage, TypeOK
  <2>4. StepFits'
    <3>1. \A c \in Clients : oid[c] \in shard => oid[c] \in Objects
      BY DEF TypeOK
    <3> QED BY <1>1, <2>1, <3>1 DEF DiskInv, StepFits, Poised, Kept
  <2>5. DiskFits'
    BY <2>1, <2>2, <2>3 DEF DiskInv, DiskFits, InLine
  <2>6. Settled'
    <3> SUFFICES ASSUME NEW o \in Objects, o \notin exposed' PROVE Pending(o)'
      BY DEF Settled
    <3>1. Pending(o)
      BY <2>1 DEF DiskInv, Settled
    <3>2. file'[o] = "intact" /\ disk'[o] # "intact" /\ o \notin decayed' =>
            file[o] = "intact" /\ disk[o] # "intact" /\ o \notin decayed
      BY <2>1, <2>2
    <3> QED BY <2>1, <3>1, <3>2 DEF Pending
  <2> QED BY <2>4, <2>5, <2>6 DEF DiskInv
<1>7. CASE UNCHANGED vars
  <2>1. Aside
    BY <1>7 DEF vars, Aside
  <2> QED BY <2>1, AsideKeeps
<1> QED BY <1>2, <1>3, <1>4, <1>5, <1>6, <1>7 DEF Running, ClientNext

-----------------------------------------------------------------------------
(* What clients rely on *)

\* An object that is intact while nobody else is about to sync it is on the
\* disk, shard directory and all.
LEMMA SettledIsSafe ==
    ASSUME DiskInv, NEW c \in Clients, NEW o \in Objects, file[o] = "intact",
           ~ Syncing(c), \A d \in Clients : d # c => ~ (Syncing(d) /\ oid[d] = o)
    PROVE  Safe(o)
<1>1. \A d \in Clients : Syncing(d) => oid[d] # o
  OBVIOUS
<1>2. InLine(o) /\ (o \notin exposed => Pending(o))
  BY DEF DiskInv, DiskFits, Settled
<1> QED BY <1>1, <1>2 DEF Safe, Durable, InLine, Pending, Syncing

\* What a step relies on is safe when the step is done.
LEMMA ReliedIsSafe ==
    ASSUME IInv, DInv, Running, NEW c \in Clients, Relies(c),
           NEW o \in Objects, file[o] = "intact", o \in Relied(c), ~ Syncing(c)
    PROVE  Safe(o)'
<1>1. CASE \E d \in Clients \ {c} : Syncing(d) /\ oid[d] = o
  BY <1>1 DEF Relies, Safe
<1>2. CASE \A d \in Clients : d # c => ~ (Syncing(d) /\ oid[d] = o)
  <2>1. Safe(o)
    BY <1>2, SettledIsSafe DEF DInv, DiskInv
  <2> QED BY <2>1, SafeStays
<1> QED BY <1>1, <1>2

\* A put or repair that reports an object stored leaves it safe: it has synced
\* it itself, or found it there with nobody about to sync it.
LEMMA StoredStaySafe ==
    ASSUME IInv, DInv, Running
    PROVE  StoredSafe'
<1> USE DEF IInv
<1>1. \A o \in stored : Safe(o)'
  BY SafeStays DEF DInv, Relying, StoredSafe, TypeOK
<1>2. ASSUME NEW c \in Clients, ObjectStep(c), Relies(c),
             NEW p \in Objects, oid[c] = p, stored' = stored \cup {p},
             SyncShard(c) \/ (Compare(c) /\ file[p] = "intact")
      PROVE  Safe(p)'
  <2>1. CASE SyncShard(c)
    <3>1. pc[c] = "sync_shard" /\ disk'[p] = file[p] /\ UNCHANGED <<shardDisk, decayed>>
      BY <1>2, <2>1 DEF SyncShard, TypeOK
    <3>2. p \in shard /\ (file[p] = "intact" \/ p \in decayed) /\ (p \notin exposed => Pending(p))
      BY <1>2, <3>1 DEF DInv, StepFits, Poised, Settled
    <3>3. p \in Relied(c)
      BY <1>2, <3>1 DEF Relied
    <3>4. ASSUME NEW d \in Clients, pc[d] = "sync_kind", oid[d] = p
          PROVE  p \in exposed'
      <4>1. d # c /\ Syncing(d)
        BY <3>1, <3>4 DEF Syncing
      <4> QED BY <1>2, <3>3, <3>4, <4>1 DEF Relies
    <3>5. p \in shardDisk \/ p \in exposed'
      BY <1>2, <3>2, <3>4 DEF Pending, Relies
    <3> QED BY <3>1, <3>2, <3>5 DEF Safe, Durable
  <2>2. CASE Compare(c) /\ file[p] = "intact"
    <3>1. pc[c] = "compare"
      BY <2>2 DEF Compare
    <3>2. p \in Relied(c) /\ ~ Syncing(c)
      BY <1>2, <2>2, <3>1 DEF Relied, Syncing
    <3> QED BY <1>2, <2>2, <3>2, ReliedIsSafe
  <2> QED BY <1>2, <2>1, <2>2
<1>3. ASSUME NEW c \in Clients, ObjectStep(c), Relies(c) PROVE StoredSafe'
  <2>1. PICK p \in Objects : Touches(c, p)
    BY <1>3, ObjectStepTouches
  <2>2. oid[c] = p
    BY <2>1 DEF Touches
  <2>3. \/ stored' = stored
        \/ stored' = stored \cup {p} /\ (SyncShard(c) \/ (Compare(c) /\ file[p] = "intact"))
    BY <1>3, <2>2
    DEF ObjectStep, Inspect, Quarantine, SyncQuarantine, EnsureDirectory, SyncKind, Link,
        SyncShard, Compare, Stored, storeVars
  <2> QED BY <1>1, <1>2, <1>3, <2>2, <2>3 DEF StoredSafe
<1>4. CASE stored' = stored
  BY <1>1, <1>4 DEF StoredSafe
<1>5. ASSUME NEW c \in Clients, ClientNext(c), Relies(c) PROVE StoredSafe'
  <2>1. ObjectStep(c) \/ stored' = stored
    BY <1>5
    DEF ClientNext, StartUpdate, UpdateStep, VerifyObject, BeginImmediate, GuardDone, Publish,
        ObjectOp, StartPut, StartRepair, StartDiscard, Start, storeVars
  <2> QED BY <1>3, <1>4, <1>5, <2>1
<1> QED BY <1>4, <1>5 DEF Running, Kill, Decay, Damage, vars, storeVars

\* a walk under way starts anew, or has passed only what is safe
Carries(c) ==
    pc'[c] \in Walking =>
        \/ walk'[c] = Closure[update'[c].new]
        \/ /\ pc[c] \in Walking /\ update'[c] = update[c]
           /\ \A o \in Objects : o \in walk[c] /\ o \notin walk'[c] => Safe(o)'

\* Every step leaves every walk so.
LEMMA WalksCarry ==
    ASSUME IInv, DInv, Running, NEW d \in Clients
    PROVE  Carries(d)
<1> USE DEF IInv
<1>1. ASSUME pc'[d] \in Walking => pc'[d] = pc[d], UNCHANGED <<update, walk>>
      PROVE  Carries(d)
  BY <1>1 DEF Carries
<1>2. ASSUME NEW c \in Clients, c # d, pc'[d] = pc[d], update'[d] = update[d], walk'[d] = walk[d]
      PROVE  Carries(d)
  BY <1>2 DEF Carries
<1>3. ASSUME NEW c \in Clients, NEW u, StartUpdate(c, u) PROVE Carries(d)
  <2>1. CASE c = d
    BY <1>3, <2>1 DEF StartUpdate, BeginWalk, Carries, TypeOK
  <2>2. CASE c # d
    BY <1>2, <1>3, <2>2 DEF StartUpdate, BeginWalk, Goto, TypeOK
  <2> QED BY <2>1, <2>2
<1>4. ASSUME NEW c \in Clients, VerifyObject(c), Relies(c) PROVE Carries(d)
  <2>1. CASE c # d
    BY <1>2, <1>4, <2>1
    DEF VerifyObject, EndUpdate, Return, Goto, clientVars, TypeOK
  <2>2. CASE c = d
    <3>1. CASE pc'[c] \in Walking
      <4>0. ~ EndUpdate(c)
        BY <3>1 DEF EndUpdate, Return, Goto, Walking, TypeOK
      <4>1. PICK o \in walk[c] :
              file[o] = "intact" /\ walk' = [walk EXCEPT ![c] = @ \ {o}]
              /\ UNCHANGED <<clientVars, update>>
        BY <1>4, <4>0 DEF VerifyObject
      <4>2. pc[c] \in {"walk", "rewalk"} /\ pc'[c] = pc[c] /\ update'[c] = update[c]
        BY <1>4, <4>1 DEF VerifyObject, clientVars
      <4>3. walk'[c] = walk[c] \ {o} /\ o \in Objects
        BY <4>1 DEF TypeOK
      <4>4. o \in Relied(c) /\ ~ Syncing(c)
        BY <4>2, <4>3, SMTT(30) DEF Relied, Syncing
      <4>5. Safe(o)'
        BY <1>4, <4>1, <4>3, <4>4, ReliedIsSafe
      <4> QED BY <2>2, <4>2, <4>3, <4>5 DEF Carries, Walking
    <3> QED BY <2>2, <3>1 DEF Carries
  <2> QED BY <2>1, <2>2
<1>5. ASSUME NEW c \in Clients, BeginImmediate(c) PROVE Carries(d)
  <2>1. CASE c # d
    BY <1>2, <1>5, <2>1 DEF BeginImmediate, BeginWalk, Goto, TypeOK
  <2>2. CASE c = d
    BY <1>5, <2>2 DEF BeginImmediate, BeginWalk, Carries, Walking, TypeOK
  <2> QED BY <2>1, <2>2
<1>6. ASSUME NEW c \in Clients, GuardDone(c) PROVE Carries(d)
  <2>1. CASE c # d
    BY <1>2, <1>6, <2>1 DEF GuardDone, Goto, refVars, TypeOK
  <2>2. CASE c = d
    BY <1>6, <2>2 DEF GuardDone, refVars, Carries, Walking
  <2> QED BY <2>1, <2>2
<1>7. ASSUME NEW c \in Clients, EndUpdate(c) PROVE Carries(d)
  <2>1. CASE c # d
    BY <1>2, <1>7, <2>1 DEF EndUpdate, Return, Goto, TypeOK
  <2>2. CASE c = d
    BY <1>7, <2>2 DEF EndUpdate, Return, Goto, Carries, Walking, TypeOK
  <2> QED BY <2>1, <2>2
<1>8. ASSUME NEW c \in Clients, ObjectOp(c) PROVE Carries(d)
  <2>1. pc'[d] \in Walking => pc'[d] = pc[d]
    BY <1>8, ObjectOpWalks
  <2> QED BY <1>1, <1>8, <2>1 DEF ObjectOp
<1>9. ASSUME NEW o \in Objects, Decay(o) PROVE Carries(d)
  BY <1>1, <1>9 DEF Decay, Damage, clientVars
<1>10. CASE UNCHANGED vars
  BY <1>1, <1>10 DEF vars
<1> QED BY <1>3, <1>4, <1>5, <1>6, <1>7, <1>8, <1>9, <1>10
        DEF Running, ClientNext, UpdateStep, Publish, Kill

\* While there is power everything relied on stays safe.
LEMMA RunningRelying ==
    ASSUME IInv, DInv, Running
    PROVE  Relying'
<1> USE DEF IInv
<1>1. \A m \in Commits : Closure[m] \subseteq Objects
  BY RepositoryAssumption
<1>2. \A c \in Clients : pc[c] \in Walking => update[c] \in RefUpdate /\ update[c].new \in Commits
  BY DEF OpFits, RefUpdate
<1>3. WalkedSafe'
  <2> SUFFICES ASSUME NEW c \in Clients, pc'[c] \in Walking,
                      NEW o \in Closure[update'[c].new], o \notin walk'[c]
               PROVE  Safe(o)'
    BY DEF WalkedSafe
  <2>1. /\ pc[c] \in Walking /\ update'[c] = update[c]
        /\ \A q \in Objects : q \in walk[c] /\ q \notin walk'[c] => Safe(q)'
    BY WalksCarry DEF Carries
  <2>2. o \in Objects
    BY <1>1, <1>2, <2>1
  <2>3. CASE o \in walk[c]
    BY <2>1, <2>2, <2>3
  <2>4. CASE o \notin walk[c]
    <3>1. Safe(o)
      BY <2>1, <2>4 DEF DInv, Relying, WalkedSafe
    <3> QED BY <2>2, <3>1, SafeStays
  <2> QED BY <2>3, <2>4
<1>4. RefsSafe'
  <2>1. \A r \in Refs : refs[r] # NoHead => \A o \in Closure[refs[r]] : Safe(o)'
    <3>1. \A r \in Refs : refs[r] # NoHead => Closure[refs[r]] \subseteq Objects
      BY <1>1 DEF TypeOK, Heads
    <3> QED BY <3>1, SafeStays DEF DInv, Relying, RefsSafe
  <2>2. ASSUME NEW c \in Clients, Publish(c) PROVE RefsSafe'
    <3>1. pc[c] = "publish" /\ walk[c] = {}
      BY <2>2 DEF Publish, Fresh
    <3>2. \A o \in Closure[update[c].new] : o \in Objects /\ Safe(o)
      BY <1>1, <1>2, <3>1 DEF DInv, Relying, WalkedSafe, Walking
    <3>3. \A o \in Closure[update[c].new] : Safe(o)'
      BY <3>2, SafeStays
    <3>4. \A r \in Refs : refs'[r] = refs[r] \/ refs'[r] = update[c].new
      BY <2>2 DEF Publish, TypeOK
    <3> QED BY <2>1, <3>3, <3>4 DEF RefsSafe
  <2>3. CASE refs' = refs
    BY <2>1, <2>3 DEF RefsSafe
  <2>4. (\E c \in Clients : Publish(c)) \/ refs' = refs
    BY DEF Running, ClientNext, StartUpdate, UpdateStep, VerifyObject, BeginImmediate,
           GuardDone, ObjectOp, Kill, Decay, vars, refVars
  <2> QED BY <2>2, <2>3, <2>4
<1> QED BY <1>3, <1>4, StoredStaySafe DEF Relying

-----------------------------------------------------------------------------
(* The machine stops *)

\* What a power loss leaves: a safe object that is intact on the disk comes
\* back, and nothing comes back damaged that was not.
LEMMA StopSpares ==
    ASSUME IInv, DInv, MachineStops
    PROVE  /\ \A o \in Objects : Safe(o) => Safe(o)' /\ (file'[o] = "intact" \/ o \in decayed \cup exposed)
           /\ \A o \in Objects : file'[o] \in {file[o], disk[o], "absent"} /\ disk'[o] = file'[o]
           /\ \A o \in Objects : file'[o] # "absent" => o \in shard'
           /\ file' \in [Objects -> States] /\ disk' = file'
           /\ shard' \subseteq shard /\ shardDisk' = shard'
           /\ UNCHANGED <<decayed, exposed, stored, refs>>
<1> USE DEF IInv
<1>1. PICK keptShards \in SUBSET shard, keptFiles \in SUBSET Objects :
        /\ shardDisk \subseteq keptShards
        /\ shard' = keptShards
        /\ shardDisk' = keptShards
        /\ file' = [o \in Objects |->
                      IF o \notin keptShards THEN "absent"
                      ELSE IF o \in keptFiles THEN file[o] ELSE disk[o]]
  BY DEF MachineStops, PowerLoss
<1>2. disk' = file' /\ UNCHANGED <<decayed, exposed, stored, refs>>
  BY DEF MachineStops, PowerLoss
<1>3. \A o \in Objects : /\ file'[o] \in {file[o], disk[o], "absent"}
                         /\ file'[o] # "absent" => o \in shard'
                         /\ o \in shardDisk => file'[o] \in {file[o], disk[o]}
  BY <1>1
<1>4. \A o \in Objects : file'[o] \in States
  BY <1>3 DEF TypeOK, States
<1>5. file' \in [Objects -> States]
  BY <1>1, <1>4
<1>6. ASSUME NEW o \in Objects, Safe(o), o \notin decayed \cup exposed
      PROVE  file'[o] = "intact" /\ Durable(o)'
  <2>1. Durable(o) /\ InLine(o)
    BY <1>6 DEF Safe, DInv, DiskFits
  <2>2. file[o] = "intact" /\ disk[o] = "intact" /\ o \in shardDisk
    BY <1>6, <2>1 DEF Durable, InLine
  <2>3. file'[o] = "intact" /\ o \in shardDisk'
    BY <1>1, <1>3, <2>2
  <2> QED BY <1>2, <2>3 DEF Durable
<1>7. \A o \in Objects : Safe(o) => Safe(o)' /\ (file'[o] = "intact" \/ o \in decayed \cup exposed)
  BY <1>2, <1>6 DEF Safe
<1> QED BY <1>1, <1>2, <1>3, <1>5, <1>7

\* A power loss keeps both invariants.
LEMMA StopInv ==
    ASSUME IInv, DInv, MachineStops
    PROVE  IInv' /\ DInv'
<1> USE DEF IInv
<1>1. /\ pc' = [c \in Clients |-> "idle"]
      /\ op' = [c \in Clients |-> "none"]
      /\ oid' = [c \in Clients |-> NoObject]
      /\ writer' = NoClient /\ update' = [c \in Clients |-> NoUpdate]
      /\ overlapped' = {} /\ walk' = [c \in Clients |-> {}] /\ since' = [c \in Clients |-> {}]
      /\ outage' = TRUE
  BY DEF MachineStops, PowerLoss
<1>2. /\ file' \in [Objects -> States] /\ disk' = file'
      /\ shard' \subseteq shard /\ shardDisk' = shard'
      /\ UNCHANGED <<decayed, exposed, stored, refs>>
  BY StopSpares
<1>3. outage' \in BOOLEAN
  BY <1>1
<1>4. TypeOK'
  BY <1>1, <1>2, <1>3, SMTT(30) DEF TypeOK, Labels
<1>5. Overlaps' /\ OpFits' /\ LockHeld' /\ QuarantineAims' /\ Fresh'
  BY <1>1, SMTT(30)
  DEF Overlaps, OpFits, LockHeld, QuarantineAims, Fresh, Walking, Repairing, Labels
<1>6. DamageIsDecay'
  <2>1. \A o \in Objects : file'[o] \in {file[o], disk[o], "absent"} /\ disk'[o] = file'[o]
    BY StopSpares
  <2> QED BY <1>2, <2>1 DEF DamageIsDecay
<1>7. \A r \in Refs : refs[r] # NoHead => Closure[refs[r]] \subseteq Objects
  BY RepositoryAssumption DEF TypeOK, Heads
<1>8. \A r \in Refs : refs[r] # NoHead => \A o \in Closure[refs[r]] :
         Safe(o)' /\ (file'[o] = "intact" \/ o \in decayed \cup exposed)
  BY <1>7, StopSpares DEF DInv, Relying, RefsSafe
<1>9. RefsStayClosed'
  BY <1>1, <1>2, <1>8 DEF RefsStayClosed, Closed
<1>10. StepFits'
  BY <1>1 DEF StepFits, Poised
<1>11. DiskFits'
  BY <1>2, StopSpares DEF DiskFits, InLine
<1>12. Settled'
  BY <1>2 DEF Settled, Pending
<1>13. Relying'
  <2>1. WalkedSafe'
    BY <1>1 DEF WalkedSafe, Walking
  <2>2. RefsSafe'
    BY <1>2, <1>8 DEF RefsSafe
  <2>3. StoredSafe'
    BY <1>2, StopSpares DEF DInv, Relying, StoredSafe, TypeOK
  <2> QED BY <2>1, <2>2, <2>3 DEF Relying
<1> QED BY <1>4, <1>5, <1>6, <1>9, <1>10, <1>11, <1>12, <1>13 DEF DInv

-----------------------------------------------------------------------------
(* The theorems *)

\* Every step keeps both invariants, a power loss included.
LEMMA NextInv == IInv /\ DInv /\ [Next]_vars => IInv' /\ DInv'
<1> SUFFICES ASSUME IInv, DInv, [Next]_vars PROVE IInv' /\ DInv'
  OBVIOUS
<1>1. CASE Running
  <2>1. IInv'
    BY <1>1, RunningIInv
  <2>2. DiskInv'
    BY <1>1, RunningDisk DEF DInv, DiskInv
  <2>3. Relying'
    BY <1>1, RunningRelying
  <2> QED BY <2>1, <2>2, <2>3 DEF DInv, DiskInv
<1>2. CASE MachineStops
  BY <1>2, StopInv
<1> QED BY <1>1, <1>2 DEF Next, Running

\* The invariants hold of every reachable state.
THEOREM Invariance == Spec => [](IInv /\ DInv)
<1>1. Init => IInv /\ DInv
  BY InitIInv, InitDInv
<1>2. IInv /\ DInv /\ [Next]_vars => (IInv /\ DInv)'
  BY NextInv
<1> QED BY <1>1, <1>2, PTL DEF Spec

\* Type correctness of the repository.
THEOREM TypeCorrect == Spec => []TypeOK
<1>1. IInv /\ DInv => TypeOK
  BY DEF IInv
<1> QED BY <1>1, Invariance, PTL

\* No Ref ever points to a commit whose closure has a hole that damage to
\* stored bytes does not explain, whatever is put, repaired, updated or
\* killed at the same time; a power loss adds only holes where somebody relied
\* on an object before who wrote it had synced it.
THEOREM RefsAlwaysClosed == Spec => []RefsStayClosed
<1>1. IInv /\ DInv => RefsStayClosed
  BY DEF IInv
<1> QED BY <1>1, Invariance, PTL

\* What a put or repair has reported stored is on the disk, its shard directory
\* included, and stays there through any number of power losses.
THEOREM StoredStaysDurable == Spec => []StoredIsDurable
<1>1. IInv /\ DInv => StoredIsDurable
  BY DEF DInv, Relying, StoredSafe, Safe, Durable, StoredIsDurable
<1> QED BY <1>1, Invariance, PTL

\* An update commits only what its last walk found complete, less what was
\* damaged or moved aside since.
THEOREM CommitsAreFresh == Spec => []ClosureFreshAtCommit
<1>1. IInv /\ DInv => ClosureFreshAtCommit
  BY DEF IInv, Fresh, LockHeld, ClosureFreshAtCommit, Walking
<1> QED BY <1>1, Invariance, PTL

\* repair_object and quarantine_if_corrupt look at an object well before they
\* move what is at its path, and nothing keeps two of them apart.  With any
\* number of processes an intact object is moved only by a repair that met
\* another one, and never one whose bytes were not damaged before.
THEOREM IntactIsSpared == Spec => IntactNeverTouched
<1> DEFINE Spared ==
      \A o \in Objects : file[o] = "intact" =>
          \/ file'[o] = "intact" \/ Damage(o) \/ PowerLoss
          \/ \E c \in overlapped : oid[c] = o /\ Quarantine(c) /\ o \in decayed
<1>1. IInv /\ DInv /\ [Next]_vars => [Spared]_objectVars
  <2> SUFFICES ASSUME IInv, [Next]_vars PROVE Spared
    OBVIOUS
  <2>1. CASE Running
    BY <2>1, StepSpares DEF Late
  <2>2. CASE MachineStops
    BY <2>2 DEF MachineStops
  <2> QED BY <2>1, <2>2 DEF Next, Running
<1> QED BY <1>1, Invariance, PTL DEF Spec, IntactNeverTouched
-----------------------------------------------------------------------------
(* One process *)

\* One process that is not killed exposes nothing.
LEMMA AloneExposesNothing ==
    ASSUME \A c, d \in Clients : c = d, ~ CrashCanHappen
    PROVE  exposed = {} /\ [Next]_vars => exposed' = {}
<1> SUFFICES ASSUME exposed = {}, [Next]_vars PROVE exposed' = {}
  OBVIOUS
<1>1. ASSUME NEW c \in Clients, Relies(c) PROVE exposed' = {}
  BY <1>1 DEF Relies
<1>2. ASSUME NEW c \in Clients PROVE ~ Kill(c)
  BY DEF Kill
<1> QED BY <1>1, <1>2 DEF Next, Decay, MachineStops, vars

\* For one process that is not killed the order of the documents is kept: it
\* syncs each object before it reports or verifies it, so a power loss takes
\* nothing from a Ref that damage does not explain.
THEOREM OneProcessSurvivesPower ==
    ASSUME \A c, d \in Clients : c = d, ~ CrashCanHappen
    PROVE  Spec => []RefsSurvivePower
<1>1. Init => exposed = {}
  BY DEF Init
<1>2. exposed = {} /\ [Next]_vars => (exposed = {})'
  BY AloneExposesNothing
<1>3. IInv /\ DInv /\ exposed = {} => RefsSurvivePower
  BY DEF IInv, RefsStayClosed, RefsSurvivePower, Closed
<1> QED BY <1>1, <1>2, <1>3, Invariance, PTL DEF Spec
=============================================================================
