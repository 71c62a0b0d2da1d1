------------------------------- MODULE Archive ------------------------------
(***************************************************************************)
(* Export of a repository to a directory archive while other processes     *)
(* write to it, and restore of the archive into another repository, both   *)
(* of which may be killed at any point (synapse-core, synapse-sqlite).     *)
(*                                                                         *)
(* A repository has one Ref here: its reflog is the sequence of its heads, *)
(* and the Ref is at the last one.  An archive directory holds the copied  *)
(* object files; its manifest and the checksum of the manifest are written *)
(* after them, in this order.                                              *)
(***************************************************************************)
EXTENDS Closure

CONSTANTS
    Graph,          \* the bodies of the objects
    FirstFile, FirstLog,  \* the repository to export, at first
    Exporters,      \* processes that export to the same destination
    Putting,        \* objects that writers may add to either repository
    Foreign,        \* of these, the ones for the repository that is restored
    Fragile,        \* objects that may decay, in the repository or the archive
    MaxArchiveObjects,            \* ArchiveExportLimits and ArchiveRestoreLimits
    MaxLog, MaxFaults             \* bounds

VARIABLES
    file, log,       \* the exported repository
    export,          \* each exporter: where it stands, its snapshot and staging
    archive,         \* the directory at the destination
    target, targetLog,  \* the repository that is restored
    restore,         \* where restore_from stands, and the objects still to put
    kills, decay,    \* (bounds)
    disturbed        \* another process wrote to the target (history)

archiveVars == <<graph, file, log, export, archive, target, targetLog, restore, kills,
                 decay, disturbed>>

Empty == [o \in Objects |-> "absent"]

Idle == [pc |-> "idle", log |-> <<>>, erased |-> {}, heads |-> <<>>, todo |-> <<>>,
         files |-> {}, manifest |-> {}, checksum |-> FALSE]

NoArchive == [exists |-> FALSE, log |-> <<>>, files |-> {}, manifest |-> {},
              checksum |-> FALSE]

ArchiveInit ==
    /\ graph = Graph
    /\ file = FirstFile /\ log = FirstLog
    /\ export = [e \in Exporters |-> Idle]
    /\ archive = NoArchive
    /\ target = Empty /\ targetLog = <<>>
    /\ restore = [pc |-> "idle", todo |-> <<>>]
    /\ kills = 0 /\ decay = 0 /\ disturbed = FALSE

Holding(f) == SelectSeq(Order, LAMBDA o : f[o] # "absent")

\* validate_closure_report: a complete closure
Complete(head, f, erased) == Defects(head, f, erased) = {}

\* PreparedClosureVerifier::new: a damaged Record could be a Tombstone
CanPrepare(f) == Records(Damaged(f)) = {}

Catalog(f) == DOMAIN TombstonesAmong(Intact(f))

\* update_ref
CanMove(f, head) == /\ Kind[head] = "commit" /\ CanPrepare(f)
                    /\ Complete(head, f, Catalog(f))

-----------------------------------------------------------------------------
(* export_archive_with_limits *)

Exp(e, r) == export' = [export EXCEPT ![e] = r]

ExportOnly == UNCHANGED <<graph, file, log, archive, target, targetLog, restore, kills,
                          decay, disturbed>>

\* StagingDirectory::drop removes what was staged
ExportFails(e) == Exp(e, [Idle EXCEPT !.pc = "failed"])

\* destination.exists(), then Refs and reflog in one read transaction
SnapshotRefs(e) ==
    /\ export[e].pc = "idle"
    /\ IF archive.exists THEN ExportFails(e)
       ELSE Exp(e, [Idle EXCEPT !.pc = "prepare", !.log = log])
    /\ ExportOnly

\* one closure per distinct head of the snapshot
PrepareVerifier(e) ==
    LET x == export[e]
        Distinct(kept, h) == IF h \in Range(kept) THEN kept ELSE Append(kept, h)
    IN /\ x.pc = "prepare"
       /\ IF ~CanPrepare(file) THEN ExportFails(e)
          ELSE Exp(e, [x EXCEPT !.pc = "heads", !.erased = Catalog(file),
                                !.heads = FoldLeft(Distinct, <<>>, x.log)])
       /\ ExportOnly

ValidateHead(e) ==
    LET x == export[e]
    IN /\ x.pc = "heads" /\ x.heads # <<>>
       /\ IF Complete(Head(x.heads), file, x.erased)
          THEN Exp(e, [x EXCEPT !.heads = Tail(@)])
          ELSE ExportFails(e)
       /\ ExportOnly

ListObjects(e) ==
    LET x == export[e]
    IN /\ x.pc = "heads" /\ x.heads = <<>>
       /\ IF Len(Holding(file)) > MaxArchiveObjects THEN ExportFails(e)
          ELSE Exp(e, [x EXCEPT !.pc = "copy", !.todo = Holding(file)])
       /\ ExportOnly

\* copy_verified_to into a staged file that is synced
CopyObject(e) ==
    LET x == export[e]
    IN /\ x.pc = "copy" /\ x.todo # <<>>
       /\ IF file[Head(x.todo)] = "intact"
          THEN Exp(e, [x EXCEPT !.todo = Tail(@), !.files = @ \cup {Head(x.todo)}])
          ELSE ExportFails(e)
       /\ ExportOnly

\* mutant: the manifest names the Refs of the moment
WriteManifest_LateRefs(e) ==
    LET x == export[e]
    IN /\ x.pc = "copy" /\ x.todo = <<>>
       /\ Exp(e, [x EXCEPT !.pc = "checksum", !.manifest = x.files, !.log = log])
       /\ ExportOnly

\* the manifest of what was copied, with the Refs of the snapshot
WriteManifest(e) ==
    LET x == export[e]
    IN /\ x.pc = "copy" /\ x.todo = <<>>
       /\ Exp(e, [x EXCEPT !.pc = "checksum", !.manifest = x.files])
       /\ ExportOnly

WriteChecksum(e) ==
    /\ export[e].pc = "checksum"
    /\ Exp(e, [export[e] EXCEPT !.pc = "publish", !.checksum = TRUE])
    /\ ExportOnly

Published(x) == [exists |-> TRUE, log |-> x.log, files |-> x.files,
                 manifest |-> x.manifest, checksum |-> x.checksum]

\* rename_directory_no_replace
PublishArchive(e) ==
    /\ export[e].pc = "publish"
    /\ IF archive.exists THEN ExportFails(e) /\ UNCHANGED archive
       ELSE /\ archive' = Published(export[e])
            /\ Exp(e, [Idle EXCEPT !.pc = "done"])
    /\ UNCHANGED <<graph, file, log, target, targetLog, restore, kills, decay, disturbed>>

\* a killed exporter leaves its staging directory behind
KillExporter(e) ==
    /\ export[e].pc \notin {"idle", "failed", "done", "killed"} /\ kills + decay < MaxFaults
    /\ Exp(e, [export[e] EXCEPT !.pc = "killed"])
    /\ kills' = kills + 1
    /\ UNCHANGED <<graph, file, log, archive, target, targetLog, restore, decay, disturbed>>

-----------------------------------------------------------------------------
(* Writers of the exported repository, and decay *)

Put(o) ==
    /\ file[o] = "absent"
    /\ file' = [file EXCEPT ![o] = "intact"]
    /\ UNCHANGED <<graph, log, export, archive, target, targetLog, restore, kills, decay,
                   disturbed>>

MoveRef(h) ==
    /\ Len(log) < MaxLog /\ Last(log) # h /\ CanMove(file, h)
    /\ log' = Append(log, h)
    /\ UNCHANGED <<graph, file, export, archive, target, targetLog, restore, kills, decay,
                   disturbed>>

Decay(o) ==
    /\ kills + decay < MaxFaults
    /\ decay' = decay + 1
    /\ \/ /\ file[o] = "intact"
          /\ file' = [file EXCEPT ![o] = "cut"] /\ UNCHANGED archive
       \/ /\ o \in archive.files
          /\ archive' = [archive EXCEPT !.files = @ \ {o}] /\ UNCHANGED file
    /\ UNCHANGED <<graph, log, export, target, targetLog, restore, kills, disturbed>>

-----------------------------------------------------------------------------
(* restore_from_bounded *)

RestoreOnly == UNCHANGED <<graph, file, log, export, archive, kills, decay, disturbed>>

Res(pc) == restore' = [restore EXCEPT !.pc = pc]

\* read_verified_manifest: the checksum, then ArchiveManifest::validate
VerifiedManifest == archive.exists /\ archive.checksum

\* Refs must be empty; objects may be there if the archive has them too
BeginRestore ==
    /\ restore.pc = "idle" /\ VerifiedManifest
    /\ IF \/ targetLog # <<>>
          \/ ~(Range(Holding(target)) \subseteq archive.manifest)
          \/ Cardinality(archive.manifest) > MaxArchiveObjects
       THEN Res("failed")
       ELSE restore' = [pc |-> "put",
                        todo |-> SelectSeq(Order, LAMBDA o : o \in archive.manifest)]
    /\ UNCHANGED <<target, targetLog>> /\ RestoreOnly

\* length, checksum and OID are compared before an object is published
RestoreObject ==
    /\ restore.pc = "put" /\ restore.todo # <<>>
    /\ IF Head(restore.todo) \in archive.files
       THEN /\ target' = [target EXCEPT ![Head(restore.todo)] = "intact"]
            /\ restore' = [restore EXCEPT !.todo = Tail(@)]
       ELSE Res("failed") /\ UNCHANGED target
    /\ UNCHANGED targetLog /\ RestoreOnly

CompareInventory ==
    /\ restore.pc = "put" /\ restore.todo = <<>>
    /\ Res(IF Range(Holding(target)) = archive.manifest THEN "heads" ELSE "failed")
    /\ UNCHANGED <<target, targetLog>> /\ RestoreOnly

\* SqliteRefStore::restore_archive validates every head before its transaction
ValidateHeads ==
    /\ restore.pc = "heads"
    /\ Res(IF \A h \in Range(archive.log) : Complete(h, target, Catalog(target))
           THEN "import" ELSE "failed")
    /\ UNCHANGED <<target, targetLog>> /\ RestoreOnly

\* mutant: emptiness is not checked again
ImportRefs_Unchecked ==
    /\ restore.pc = "import"
    /\ targetLog' = archive.log /\ Res("done")
    /\ UNCHANGED target /\ RestoreOnly

\* one immediate transaction, for a database that is still empty
ImportRefs ==
    /\ restore.pc = "import"
    /\ IF targetLog = <<>> THEN targetLog' = archive.log /\ Res("done")
                           ELSE Res("failed") /\ UNCHANGED targetLog
    /\ UNCHANGED target /\ RestoreOnly

KillRestore ==
    /\ restore.pc \in {"put", "heads", "import"} /\ kills + decay < MaxFaults
    /\ restore' = [pc |-> "idle", todo |-> <<>>]
    /\ kills' = kills + 1
    /\ UNCHANGED <<graph, file, log, export, archive, target, targetLog, decay, disturbed>>

\* another process starts to use the repository that is being restored
PutInTarget(o) ==
    /\ target[o] = "absent" /\ restore.pc \notin {"done", "failed"}
    /\ target' = [target EXCEPT ![o] = "intact"] /\ disturbed' = TRUE
    /\ UNCHANGED <<graph, file, log, export, archive, targetLog, restore, kills, decay>>

MoveTargetRef(h) ==
    /\ targetLog = <<>> /\ CanMove(target, h)
    /\ targetLog' = <<h>> /\ disturbed' = TRUE
    /\ UNCHANGED <<graph, file, log, export, archive, target, restore, kills, decay>>

-----------------------------------------------------------------------------

ExportStep(e) ==
    \/ SnapshotRefs(e) \/ PrepareVerifier(e) \/ ValidateHead(e) \/ ListObjects(e)
    \/ CopyObject(e) \/ WriteManifest(e) \/ WriteChecksum(e) \/ PublishArchive(e)

RestoreStep == BeginRestore \/ RestoreObject \/ CompareInventory \/ ValidateHeads
               \/ ImportRefs

ArchiveNext ==
    \/ \E e \in Exporters : ExportStep(e) \/ KillExporter(e)
    \/ \E o \in Putting : Put(o)
    \/ \E h \in Objects : MoveRef(h) \/ MoveTargetRef(h)
    \/ \E o \in Fragile : Decay(o)
    \/ RestoreStep \/ KillRestore
    \/ \E o \in Foreign : PutInTarget(o)

ArchiveSpec == ArchiveInit /\ [][ArchiveNext]_archiveVars

-----------------------------------------------------------------------------
(* Properties *)

Holds(objects) == [o \in Objects |-> IF o \in objects THEN "intact" ELSE "absent"]

\* Whatever writers did during the export, a published archive is a repository
\* of its own: it has a complete manifest, and every head of its reflog is
\* complete within it.
ArchiveIsSelfContained ==
    archive.exists =>
        /\ archive.checksum
        /\ decay = 0 => archive.files = archive.manifest
        /\ \A h \in Range(archive.log) :
              Complete(h, Holds(archive.manifest), Catalog(Holds(archive.manifest)))

\* Concurrent writers never make an export fail: it fails because stored bytes
\* decayed, because another export has taken the destination, or at its limit.
ExportSurvivesWriters ==
    \A e \in Exporters : export[e].pc = "failed" =>
        decay > 0 \/ archive.exists \/ Len(Holding(file)) > MaxArchiveObjects

\* What is at the destination is never replaced by a later export.
ArchiveIsNeverReplacedStep ==
    archive.exists => /\ archive'.log = archive.log
                      /\ archive'.manifest = archive.manifest

ArchiveIsNeverReplaced == [][ArchiveIsNeverReplacedStep]_archiveVars

\* Refs appear in the restored repository all at once, when every object they
\* need is there, and never over Refs that another process has created.
RestoreIsAtomicStep ==
    targetLog' # targetLog =>
       /\ targetLog = <<>>
       /\ \A h \in Range(targetLog') : Complete(h, target, Catalog(target))
       /\ restore'.pc = "done" => targetLog' = archive.log

RestoreIsAtomic == [][RestoreIsAtomicStep]_archiveVars

\* A restore that was killed can be run again: it fails only when another
\* process uses the repository, or the archive is damaged or too large.
RestoreCanResume ==
    restore.pc = "failed" => disturbed \/ decay > 0
                             \/ Cardinality(archive.manifest) > MaxArchiveObjects
=============================================================================
