----------------------------- MODULE Publication -----------------------------
(***************************************************************************)
(* synapse-publication: publish_files_atomically.  Exporters fill private  *)
(* staging directories and publish them at one destination, by a rename    *)
(* that does not replace or by an atomic exchange with a verified older    *)
(* bundle, which is then deleted file by file.  Calls fail, processes are  *)
(* killed and other programs use the same directory.                       *)
(*                                                                         *)
(* A directory is [id, owner, files, wrong, foreign]: its inode, the       *)
(* exporter whose bundle it is, the files of that bundle it holds, whether *)
(* one is damaged and whether a stranger's file is there.  Contents are    *)
(* PublicBundle's: here a directory verifies iff it is exactly complete.   *)
(***************************************************************************)
EXTENDS Naturals, Sequences, FiniteSets, TLC

CONSTANTS
    Exporters,   \* processes
    Paths,       \* the files of a bundle, in the order of their paths
    Replacing,   \* exporters with --replace
    MaxFaults, MaxKills, MaxForeign, \* bounds
    NoDir        \* no directory

VARIABLES
    place,       \* [{"destination"} \cup Exporters -> directory or NoDir]: an
                 \* exporter's place is its staging path
    pc,          \* [Exporters -> step]
    identity,    \* [Exporters -> the inode verified at the start, or 0]
    listed,      \* [Exporters -> names still to unlink from the old bundle]
    result,      \* [Exporters -> receipt]
    nextId, faults, kills, foreign,
    lost         \* inodes of bundles that were deleted, with who did (history)

publicationVars == <<place, pc, identity, listed, result, nextId, faults, kills, foreign, lost>>

Places == {"destination"} \cup Exporters
AllFiles == {Paths[i] : i \in DOMAIN Paths}

Dir(i, p) == [id |-> i, owner |-> p, files |-> {}, wrong |-> FALSE, foreign |-> FALSE]

PublicationInit ==
    /\ place \in {[x \in Places |-> NoDir],
                  [x \in Places |-> IF x = "destination"
                       THEN [Dir(1, "older") EXCEPT !.files = AllFiles] ELSE NoDir]}
    /\ pc = [p \in Exporters |-> "check"]
    /\ identity = [p \in Exporters |-> 0]
    /\ listed = [p \in Exporters |-> {}]
    /\ result = [p \in Exporters |-> "none"]
    /\ nextId = 2 /\ faults = 0 /\ kills = 0 /\ foreign = 0
    /\ lost = {}

\* verify_bundle of a directory, in one step
Verifies(d) == d # NoDir /\ d.files = AllFiles /\ ~d.wrong /\ ~d.foreign

Return(p, r) == pc' = [pc EXCEPT ![p] = "done"] /\ result' = [result EXCEPT ![p] = r]

\* StagingGuard removes what was staged while it is armed, and ignores a failure
DropStaging(p) == Return(p, "error") /\ place' = [place EXCEPT ![p] = NoDir]

\* the error is the caller's error all the same: "uncleaned" says what is left
DropFails(p) ==
    /\ place[p] # NoDir /\ Return(p, "uncleaned")
    /\ \E left \in SUBSET place[p].files : place' = [place EXCEPT ![p].files = left]

\* an error return
Abort(p) ==
    /\ \/ DropStaging(p) /\ UNCHANGED faults
       \/ DropFails(p) /\ faults < MaxFaults /\ faults' = faults + 1
    /\ UNCHANGED <<identity, listed, nextId, lost>>

Go(p, step) == pc' = [pc EXCEPT ![p] = step] /\ UNCHANGED <<result, faults>>

-----------------------------------------------------------------------------
(* Before staging *)

\* validate_export_paths, then verify_bundle of a bundle to be replaced
validate_export_paths(p) ==
    LET d == place["destination"]
    IN /\ pc[p] = "check"
       /\ IF d = NoDir THEN Go(p, "stage") /\ UNCHANGED <<place, identity, listed, nextId, lost>>
          ELSE IF p \in Replacing /\ Verifies(d)
          THEN Go(p, "identify") /\ UNCHANGED <<place, identity, listed, nextId, lost>>
          ELSE Abort(p)
       /\ UNCHANGED <<kills, foreign>>

\* bundle_identity
Identify(p) ==
    /\ pc[p] = "identify"
    /\ IF place["destination"] = NoDir THEN Abort(p)
       ELSE /\ identity' = [identity EXCEPT ![p] = place["destination"].id]
            /\ Go(p, "stage")
            /\ UNCHANGED <<place, listed, nextId, lost>>
    /\ UNCHANGED <<kills, foreign>>

\* create_private_staging_directory under a random name
create_private_staging_directory(p) ==
    /\ pc[p] = "stage"
    /\ place' = [place EXCEPT ![p] = Dir(nextId, p)]
    /\ nextId' = nextId + 1
    /\ Go(p, "write")
    /\ UNCHANGED <<identity, listed, faults, kills, foreign, lost>>

\* one file is created, written and synced; what lands may not be what was
\* written
WriteFile(p) ==
    LET done == Cardinality(place[p].files)
    IN /\ pc[p] = "write" /\ done < Len(Paths)
       /\ \E wrong \in {FALSE} \cup (IF faults < MaxFaults THEN {TRUE} ELSE {}) :
             /\ place' = [place EXCEPT ![p].files = @ \cup {Paths[done + 1]},
                                       ![p].wrong = @ \/ wrong]
             /\ faults' = IF wrong THEN faults + 1 ELSE faults
       /\ UNCHANGED <<pc, result, identity, listed, nextId, kills, foreign, lost>>

\* a call of the operating system fails: any step before the publication
CallFails(p) ==
    /\ pc[p] \in {"write", "reverify", "mode", "publish"} /\ faults < MaxFaults
    /\ faults' = faults + 1
    /\ DropStaging(p) \/ DropFails(p)
    /\ UNCHANGED <<identity, listed, nextId, lost, kills, foreign>>

VerifyStaging(p) ==
    /\ pc[p] = "write" /\ Cardinality(place[p].files) = Len(Paths)
    /\ IF Verifies(place[p])
       THEN /\ Go(p, IF identity[p] # 0 THEN "reverify" ELSE "mode")
            /\ UNCHANGED <<place, identity, listed, nextId, lost>>
       ELSE Abort(p)
    /\ UNCHANGED <<kills, foreign>>

-----------------------------------------------------------------------------
(* Publication *)

\* the old bundle is verified once more, then its identity
Reverify(p) ==
    LET d == place["destination"]
    IN /\ pc[p] = "reverify"
       /\ IF Verifies(d) /\ d.id = identity[p]
          THEN Go(p, "mode") /\ UNCHANGED <<place, identity, listed, nextId, lost>>
          ELSE Abort(p)
       /\ UNCHANGED <<kills, foreign>>

restore_published_mode(p) ==
    /\ pc[p] = "mode"
    /\ Go(p, "publish")
    /\ UNCHANGED <<place, identity, listed, nextId, lost, faults, kills, foreign>>

\* rename_directory_no_replace
rename_directory_no_replace(p) ==
    /\ pc[p] = "publish" /\ identity[p] = 0
    /\ IF place["destination"] # NoDir THEN Abort(p)
       ELSE /\ place' = [place EXCEPT !["destination"] = place[p], ![p] = NoDir]
            /\ Go(p, "sync")
            /\ UNCHANGED <<identity, listed, nextId, lost>>
    /\ UNCHANGED <<kills, foreign>>

\* rename_directory_exchange: the older directory is now at the staging path
rename_directory_exchange(p) ==
    /\ pc[p] = "publish" /\ identity[p] # 0
    /\ IF place["destination"] = NoDir THEN Abort(p)
       ELSE /\ place' = [place EXCEPT !["destination"] = place[p],
                                      ![p] = place["destination"]]
            /\ Go(p, "sync")
            /\ UNCHANGED <<identity, listed, nextId, lost>>
    /\ UNCHANGED <<kills, foreign>>

\* the parent directory is synced.  After a rename its failure is the call's
\* failure; after an exchange it is a warning, and the old bundle is kept.
SyncParent(p) ==
    /\ pc[p] = "sync"
    /\ \/ IF identity[p] # 0 THEN Go(p, "compare") ELSE Return(p, "ok") /\ UNCHANGED faults
       \/ /\ faults < MaxFaults /\ faults' = faults + 1
          /\ Return(p, IF identity[p] # 0 THEN "recovery" ELSE "published_error")
    /\ UNCHANGED <<place, identity, listed, nextId, lost, kills, foreign>>

-----------------------------------------------------------------------------
(* remove_exchanged_bundle *)

\* mutant: any complete bundle may go
CompareOld_AnyBundle(p) ==
    /\ pc[p] = "compare"
    /\ IF Verifies(place[p])
       THEN Go(p, "list")
       ELSE Return(p, "recovery")
    /\ UNCHANGED <<place, identity, listed, nextId, lost, faults, kills, foreign>>

\* the identity that was verified before, and the whole verification
CompareOld(p) ==
    /\ pc[p] = "compare"
    /\ IF Verifies(place[p]) /\ place[p].id = identity[p]
       THEN Go(p, "list")
       ELSE Return(p, "recovery")
    /\ UNCHANGED <<place, identity, listed, nextId, lost, faults, kills, foreign>>

\* collect_bundle_files lists whatever is there now
ListOld(p) ==
    /\ pc[p] = "list"
    /\ listed' = [listed EXCEPT ![p] = place[p].files \cup
                     (IF place[p].foreign THEN {"foreign"} ELSE {})]
    /\ Go(p, "unlink")
    /\ UNCHANGED <<place, identity, nextId, lost, faults, kills, foreign>>

Unlink(p) ==
    /\ pc[p] = "unlink" /\ listed[p] # {}
    /\ \E f \in listed[p] :
          /\ listed' = [listed EXCEPT ![p] = @ \ {f}]
          /\ place' = [place EXCEPT ![p].files = @ \ {f},
                                    ![p].foreign = @ /\ f # "foreign"]
    /\ lost' = lost \cup {<<place[p].id, p>>}
    /\ UNCHANGED <<pc, result, identity, nextId, faults, kills, foreign>>

\* A file that cannot be removed ends the cleanup.
UnlinkFails(p) ==
    /\ pc[p] = "unlink" /\ listed[p] # {} /\ faults < MaxFaults
    /\ faults' = faults + 1
    /\ Return(p, "recovery")
    /\ UNCHANGED <<place, identity, listed, nextId, lost, kills, foreign>>

\* remove_dir refuses a directory that is not empty
RemoveDirectory(p) ==
    /\ pc[p] = "unlink" /\ listed[p] = {}
    /\ IF place[p].files = {} /\ ~place[p].foreign
       THEN place' = [place EXCEPT ![p] = NoDir] /\ Return(p, "ok")
       ELSE Return(p, "recovery") /\ UNCHANGED place
    /\ UNCHANGED <<identity, listed, nextId, lost, faults, kills, foreign>>

-----------------------------------------------------------------------------
(* Kills and other programs *)

Kill(p) ==
    /\ pc[p] # "done" /\ kills < MaxKills
    /\ kills' = kills + 1
    /\ pc' = [pc EXCEPT ![p] = "done"] /\ result' = [result EXCEPT ![p] = "killed"]
    /\ UNCHANGED <<place, identity, listed, nextId, faults, foreign, lost>>

\* a file appears in a published or exchanged directory
AddForeignFile ==
    /\ foreign < MaxForeign /\ foreign' = foreign + 1
    /\ \E x \in Places :
          /\ place[x] # NoDir /\ ~place[x].foreign
          /\ x = "destination" \/ place[x].owner # x
          /\ place' = [place EXCEPT ![x].foreign = TRUE]
    /\ UNCHANGED <<pc, result, identity, listed, nextId, faults, kills, lost>>

\* somebody puts a directory at a free destination
TakeDestination ==
    /\ foreign < MaxForeign /\ foreign' = foreign + 1
    /\ place["destination"] = NoDir
    /\ place' = [place EXCEPT !["destination"] = [Dir(nextId, "other") EXCEPT !.foreign = TRUE]]
    /\ nextId' = nextId + 1
    /\ UNCHANGED <<pc, result, identity, listed, faults, kills, lost>>

Export(p) ==
    \/ validate_export_paths(p) \/ Identify(p) \/ create_private_staging_directory(p)
    \/ WriteFile(p) \/ CallFails(p) \/ VerifyStaging(p) \/ Reverify(p)
    \/ restore_published_mode(p) \/ rename_directory_no_replace(p)
    \/ rename_directory_exchange(p) \/ SyncParent(p) \/ CompareOld(p) \/ ListOld(p)
    \/ Unlink(p) \/ UnlinkFails(p) \/ RemoveDirectory(p) \/ Kill(p)

PublicationNext == (\E p \in Exporters : Export(p)) \/ AddForeignFile \/ TakeDestination

PublicationSpec == PublicationInit /\ [][PublicationNext]_publicationVars

-----------------------------------------------------------------------------
(* Properties *)

Dirs == {place[x] : x \in Places} \ {NoDir}

\* Whoever looks at the destination, and whenever a process dies, finds nothing,
\* something that is not a bundle of this program, or a bundle that is complete
\* and as it was built (with at most a file somebody else has put there).
DestinationIsWhole ==
    LET d == place["destination"]
    IN d # NoDir /\ d.owner # "other" => d.files = AllFiles /\ ~d.wrong

\* A bundle that was published is deleted only by an exporter that had verified
\* this very directory before it began to stage, although another may have been
\* exchanged in between; every other directory it gets is kept.
OnlyTheVerifiedIsDeleted == \A <<i, p>> \in lost : i = identity[p]

\* A published directory is never simply gone: it leaves its place only for
\* the staging path of the exporter that exchanged it, or emptied by it.
PublishedStaysSomewhereStep ==
    \A d \in Dirs :
        (d = place["destination"] \/ d.foreign) =>
            \/ \E e \in {place'[x] : x \in Places} \ {NoDir} : e.id = d.id
            \/ d.files = {} /\ ~d.foreign

PublishedStaysSomewhere == [][PublishedStaysSomewhereStep]_publicationVars

\* A receipt is true: without a recovery path nothing is left at the staging
\* path; with one, the directory is there and is not the exporter's own; and a
\* plain error has published nothing and taken nothing away.  It leaves nothing
\* behind either, unless removing the staging directory failed as well; what
\* stays then is the exporter's own, hidden and never published.
ReceiptsAreTrue ==
    \A p \in Exporters :
        /\ result[p] \in {"ok", "error", "published_error"} => place[p] = NoDir
        /\ result[p] = "recovery" => place[p] # NoDir /\ place[p].owner # p
        /\ result[p] = "error" => \A d \in Dirs : d.owner # p
        /\ result[p] = "uncleaned" => \A d \in Dirs : (d.owner = p) = (d = place[p])
        /\ result[p] \in {"error", "uncleaned"} => \A i \in 1 .. nextId : <<i, p>> \notin lost

\* Nothing that is not a listed file of the verified bundle is ever deleted by
\* the cleanup: whatever appears in the old directory stops it.
ForeignFilesSurviveStep ==
    \A x \in Places : place[x] # NoDir /\ place[x].foreign =>
        \E y \in Places : place'[y] # NoDir /\ place'[y].id = place[x].id /\ place'[y].foreign

ForeignFilesSurvive == [][ForeignFilesSurviveStep]_publicationVars
=============================================================================
