------------------------------- MODULE Inbox -------------------------------
(***************************************************************************)
(* The import inbox (synapse-creator inbox.rs): producers that put a       *)
(* candidate under a slug, the reader that retains its exact bytes before  *)
(* anything is written to a repository, and people who edit the inbox and  *)
(* the input files with other programs.                                    *)
(*                                                                         *)
(* One slug is modelled: candidates of different slugs share nothing.  A   *)
(* file is a sequence of chunks (the copy loop reads chunk by chunk), its  *)
(* SHA-256 is its contents, its size the length.  A directory is an id;    *)
(* the slug names at most one, and a reader that opened a directory keeps  *)
(* it whatever the slug names later.                                       *)
(***************************************************************************)
EXTENDS Naturals, Sequences, FiniteSets

CONSTANTS
  Producers,     \* callers of put_import_inbox_candidate
  Retainers,     \* callers of retain_creator_input_files
  Crowds,        \* which callers are about at the same time
  Leaves,        \* the file names of a candidate, in the order they are copied
  Contents,      \* contents an editor may give a file
  FileMax,       \* IMPORT_INBOX_FILE_MAX_BYTES, in chunks
  MaxEdits,      \* bound: edits by other programs
  MaxFaults,     \* bound: failing system calls
  MaxKills,      \* bound: killed producers
  NoDir,         \* no directory
  Absent         \* no file, or no sha256 in a manifest entry

VARIABLES
  input,         \* leaf -> contents of the caller's input file
  dirs,          \* directory id -> [files, manifest] (files: leaf -> contents)
  slug,          \* the directory the slug names, or NoDir
  pc,            \* process -> where it is
  staged,        \* process -> its staging directory, or NoDir
  at,            \* process -> number of the leaf it copies
  measured,      \* process -> leaf -> what the copy loop hashed
  reader,        \* [pc, next, dir, manifest, kept]: the retaining reader
  put,           \* history: directory id -> contents the manifest was made for
  edits, faults, kills

inboxVars == <<input, dirs, slug, pc, staged, at, measured, reader, put, edits, faults, kills>>

Procs == Producers \cup Retainers
LeafSet == {Leaves[i] : i \in DOMAIN Leaves}
Empty == [leaf \in LeafSet |-> Absent]
Entry(contents) == [size |-> Len(contents), sha256 |-> contents]

InboxInit ==
  /\ input = [leaf \in LeafSet |-> CHOOSE c \in Contents : Len(c) = FileMax]
  /\ dirs = [d \in 1 .. Cardinality(Procs) + MaxEdits |-> Absent]
  /\ slug = NoDir
  /\ \E crowd \in Crowds : pc = [p \in Procs |-> IF p \in crowd THEN "start" ELSE "done"]
  /\ staged = [p \in Procs |-> NoDir]
  /\ at = [p \in Procs |-> 1]
  /\ measured = [p \in Procs |-> Empty]
  /\ reader = [pc |-> "idle", next |-> 1, dir |-> NoDir, manifest |-> Absent, kept |-> Empty]
  /\ put = [d \in DOMAIN dirs |-> Absent]
  /\ edits = 0 /\ faults = 0 /\ kills = 0

Fresh == CHOOSE d \in DOMAIN dirs : dirs[d] = Absent /\ put[d] = Absent
                                    /\ \A p \in Procs : staged[p] # d

-----------------------------------------------------------------------------
(* Producers.                                                              *)

\* `Staging` and the retained inputs are removed when they are dropped unless
\* they were published.
DropStaging(p, result) ==
  /\ pc' = [pc EXCEPT ![p] = result]
  /\ dirs' = IF staged[p] = NoDir THEN dirs ELSE [dirs EXCEPT ![staged[p]] = Absent]
  /\ staged' = [staged EXCEPT ![p] = NoDir]

\* A failure to remove them is ignored; what is left stays under its hidden name.
DropFails(p) ==
  /\ staged[p] # NoDir
  /\ pc' = [pc EXCEPT ![p] = "uncleaned"] /\ UNCHANGED <<dirs, staged>>

\* The call returns.
Return(p, result) ==
  \/ DropStaging(p, result) /\ UNCHANGED faults
  \/ DropFails(p) /\ faults < MaxFaults /\ faults' = faults + 1

\* The arguments are checked, then that nothing has the slug's name yet.
\* Producers only: retained inputs go to a private temporary directory.
CheckDestination(p) ==
  /\ pc[p] = "start" /\ p \in Producers
  /\ IF \/ \E leaf \in LeafSet : Len(input[leaf]) > FileMax
        \/ slug # NoDir
       THEN Return(p, "refused")
       ELSE pc' = [pc EXCEPT ![p] = "checked"] /\ UNCHANGED <<dirs, staged, faults>>
  /\ UNCHANGED <<input, slug, at, measured, reader, put, edits, kills>>

\* Staging::create and retained_staging_directory.
CreateStaging(p) ==
  /\ pc[p] = IF p \in Producers THEN "checked" ELSE "start"
  /\ dirs' = [dirs EXCEPT ![Fresh] = [files |-> Empty, manifest |-> Absent]]
  /\ staged' = [staged EXCEPT ![p] = Fresh]
  /\ pc' = [pc EXCEPT ![p] = "open"]
  /\ UNCHANGED <<input, slug, at, measured, reader, put, edits, faults, kills>>

\* copy_hashed: the new file, then one chunk at a time, measured and hashed
\* as it is read; the input may change in between.
OpenLeaf(p) ==
  /\ pc[p] = "open"
  /\ dirs' = [dirs EXCEPT ![staged[p]].files[Leaves[at[p]]] = <<>>]
  /\ measured' = [measured EXCEPT ![p][Leaves[at[p]]] = <<>>]
  /\ pc' = [pc EXCEPT ![p] = "copy"]
  /\ UNCHANGED <<input, slug, staged, at, reader, put, edits, faults, kills>>

copy_hashed(p) ==
  LET leaf == Leaves[at[p]]
      done == measured[p][leaf]
  IN  /\ pc[p] = "copy"
      /\ IF Len(done) >= Len(input[leaf])
           THEN /\ IF at[p] < Len(Leaves)
                     THEN at' = [at EXCEPT ![p] = @ + 1] /\ pc' = [pc EXCEPT ![p] = "open"]
                     ELSE UNCHANGED at /\ pc' = [pc EXCEPT ![p] = "copied"]
                /\ UNCHANGED <<dirs, staged, measured, faults>>
           ELSE IF Len(done) + 1 > FileMax
             THEN Return(p, "refused") /\ UNCHANGED <<at, measured>>
             ELSE LET longer == Append(done, input[leaf][Len(done) + 1])
                  IN  /\ measured' = [measured EXCEPT ![p][leaf] = longer]
                      /\ dirs' = [dirs EXCEPT ![staged[p]].files[leaf] = longer]
                      /\ UNCHANGED <<pc, staged, at, faults>>
  /\ UNCHANGED <<input, slug, reader, put, edits, kills>>

\* The metadata callback sees the staged copies and may change one.
Review(p) ==
  /\ pc[p] = "copied" /\ p \in Producers
  /\ pc' = [pc EXCEPT ![p] = "reviewed"]
  /\ \/ UNCHANGED <<dirs, edits>>
     \/ /\ edits < MaxEdits /\ edits' = edits + 1
        /\ \E leaf \in LeafSet, c \in Contents :
             dirs' = [dirs EXCEPT ![staged[p]].files[leaf] = c]
  /\ UNCHANGED <<input, slug, staged, at, measured, reader, put, faults, kills>>

\* Mutant: only the sizes are compared.
Agrees_Size(contents, entry) == contents # Absent /\ Len(contents) = entry.size

\* read_inbox_leaf and the comparison with a manifest entry: a leaf without a
\* recorded hash agrees with nothing.
Agrees(contents, entry) ==
  /\ contents # Absent
  /\ Len(contents) <= FileMax
  /\ Len(contents) = entry.size
  /\ entry.sha256 = contents

\* validate_staged_manifest_files, then the manifest, written last.
WriteManifest(p) ==
  LET manifest == [leaf \in LeafSet |-> Entry(measured[p][leaf])]
  IN  /\ pc[p] = "reviewed"
      /\ IF \A leaf \in LeafSet : Agrees(dirs[staged[p]].files[leaf], manifest[leaf])
           THEN /\ dirs' = [dirs EXCEPT ![staged[p]].manifest = manifest]
                /\ put' = [put EXCEPT ![staged[p]] = measured[p]]
                /\ pc' = [pc EXCEPT ![p] = "ready"]
                /\ UNCHANGED <<staged, faults>>
           ELSE Return(p, "refused") /\ UNCHANGED put
      /\ UNCHANGED <<input, slug, at, measured, reader, edits, kills>>

rename_directory_no_replace(p) ==
  /\ pc[p] = "ready"
  /\ IF slug # NoDir
       THEN Return(p, "refused") /\ UNCHANGED slug
       ELSE /\ slug' = staged[p]
            /\ staged' = [staged EXCEPT ![p] = NoDir]
            /\ pc' = [pc EXCEPT ![p] = "published"]
            /\ UNCHANGED <<dirs, faults>>
  /\ UNCHANGED <<input, at, measured, reader, put, edits, kills>>

\* The directory is synced after the rename; a failure here is reported
\* although the candidate is visible.
SyncRoot(p) ==
  /\ pc[p] = "published"
  /\ pc' = [pc EXCEPT ![p] = "done"]
  /\ UNCHANGED <<dirs, staged, input, slug, at, measured, reader, put, edits, faults, kills>>

\* retain_creator_input_files returned; its caller drops it later.
DropRetained(p) ==
  /\ pc[p] = "copied" /\ p \in Retainers
  /\ Return(p, "done")
  /\ UNCHANGED <<input, slug, at, measured, reader, put, edits, kills>>

Ended == {"refused", "done", "failed", "uncleaned", "killed"}

CallFails(p) ==
  /\ pc[p] \notin Ended \cup {"start"} /\ faults < MaxFaults /\ faults' = faults + 1
  /\ DropStaging(p, "failed") \/ DropFails(p)
  /\ UNCHANGED <<input, slug, at, measured, reader, put, edits, kills>>

Kill(p) ==
  /\ pc[p] \notin Ended \cup {"start"} /\ kills < MaxKills
  /\ pc' = [pc EXCEPT ![p] = "killed"] /\ kills' = kills + 1
  /\ UNCHANGED <<input, dirs, slug, staged, at, measured, reader, put, edits, faults>>

-----------------------------------------------------------------------------
(* The reader: retain_import_inbox_candidate.                              *)

\* The candidate is opened by handle and its manifest read and validated.
OpenCandidate ==
  /\ reader.pc = "idle" /\ slug # NoDir
  /\ dirs[slug].manifest # Absent
  /\ reader' = [pc |-> "reading", next |-> 1, dir |-> slug, manifest |-> dirs[slug].manifest, kept |-> Empty]
  /\ UNCHANGED <<input, dirs, slug, pc, staged, at, measured, put, edits, faults, kills>>

\* Each leaf is read through the handle and must be what the manifest says;
\* otherwise what was retained so far is removed.
retain_inbox_leaf ==
  LET leaf == Leaves[reader.next]
      contents == IF dirs[reader.dir] = Absent THEN Absent ELSE dirs[reader.dir].files[leaf]
  IN  /\ reader.pc = "reading"
      /\ reader' = IF Agrees(contents, reader.manifest[leaf])
                     THEN [reader EXCEPT !.pc = IF reader.next = Len(Leaves) THEN "kept" ELSE @,
                                         !.next = IF @ = Len(Leaves) THEN @ ELSE @ + 1,
                                         !.kept[leaf] = contents]
                     ELSE [reader EXCEPT !.pc = "refused", !.kept = Empty]
      /\ UNCHANGED <<input, dirs, slug, pc, staged, at, measured, put, edits, faults, kills>>

-----------------------------------------------------------------------------
(* Other programs.                                                         *)

EditInput ==
  \E leaf \in LeafSet, c \in Contents :
    /\ edits < MaxEdits /\ c # input[leaf]
    /\ input' = [input EXCEPT ![leaf] = c] /\ edits' = edits + 1
    /\ UNCHANGED <<dirs, slug, pc, staged, at, measured, reader, put, faults, kills>>

\* A file of the candidate or its entry in the manifest.
EditCandidate ==
  \E leaf \in LeafSet, c \in Contents :
    /\ edits < MaxEdits /\ slug # NoDir /\ edits' = edits + 1
    /\ \/ dirs' = [dirs EXCEPT ![slug].files[leaf] = c]
       \/ dirs' = [dirs EXCEPT ![slug].manifest[leaf] = Entry(c)]
    /\ UNCHANGED <<input, slug, pc, staged, at, measured, reader, put, faults, kills>>

RemoveCandidate ==
  /\ edits < MaxEdits /\ slug # NoDir
  /\ dirs' = [dirs EXCEPT ![slug] = Absent] /\ slug' = NoDir /\ edits' = edits + 1
  /\ UNCHANGED <<input, pc, staged, at, measured, reader, put, faults, kills>>

\* A candidate made by hand; its manifest may leave hashes out (the v1
\* schema makes sha256 optional).
ManualCandidate ==
  \E c \in Contents, hashed \in BOOLEAN :
    /\ edits < MaxEdits /\ slug = NoDir
    /\ slug' = Fresh /\ edits' = edits + 1
    /\ dirs' = [dirs EXCEPT ![Fresh] =
         [files |-> [leaf \in LeafSet |-> c],
          manifest |-> [leaf \in LeafSet |-> [size |-> Len(c), sha256 |-> IF hashed THEN c ELSE Absent]]]]
    /\ UNCHANGED <<input, pc, staged, at, measured, reader, put, faults, kills>>

InboxNext ==
  \/ \E p \in Procs :
       \/ CheckDestination(p) \/ CreateStaging(p) \/ OpenLeaf(p) \/ copy_hashed(p)
       \/ Review(p) \/ WriteManifest(p) \/ rename_directory_no_replace(p) \/ SyncRoot(p)
       \/ DropRetained(p) \/ CallFails(p) \/ Kill(p)
  \/ OpenCandidate \/ retain_inbox_leaf
  \/ EditInput \/ EditCandidate \/ RemoveCandidate \/ ManualCandidate

InboxSpec == InboxInit /\ [][InboxNext]_inboxVars

-----------------------------------------------------------------------------
(* Properties.                                                             *)

\* A candidate appears complete or not at all: when the slug comes to name a
\* producer's directory, every file is there and is what the manifest and
\* the copy loop measured, although the inputs changed while they were
\* copied, the callback may have touched the copies, and calls fail or the
\* producer is killed at any point.
VisibleIsCompleteStep ==
  slug' # slug /\ slug' # NoDir =>
    LET d == dirs'[slug']
    IN  /\ d.manifest # Absent
        /\ put'[slug'] # Absent =>
             d.files = put'[slug'] /\ \A leaf \in LeafSet : Agrees(d.files[leaf], d.manifest[leaf])

VisibleIsComplete == [][VisibleIsCompleteStep]_inboxVars

\* A candidate is never replaced: the slug passes from one directory to
\* another only after somebody removed the first, however many producers
\* raced past their check of the destination.
NeverReplacedStep == slug # NoDir /\ slug' # slug => slug' = NoDir /\ edits' = edits + 1

NeverReplaced == [][NeverReplacedStep]_inboxVars

\* What the reader retained is one consistent candidate: the bytes of one
\* manifest, never files of two versions, even if the candidate is edited,
\* removed or replaced while it is read.  Unless somebody rewrote the manifest
\* before it was opened, they are the bytes that its producer measured.
RetainedIsWhatWasPut ==
  reader.pc = "kept" =>
    /\ \A leaf \in LeafSet : reader.kept[leaf] = reader.manifest[leaf].sha256
    /\ put[reader.dir] # Absent =>
         \A leaf \in LeafSet : \/ reader.kept[leaf] = put[reader.dir][leaf]
                              \/ reader.manifest[leaf] # Entry(put[reader.dir][leaf])

\* A call that returned leaves no staging directory behind, unless removing
\* it failed; a published candidate is never somebody's staging directory; what
\* is hidden belongs to a call in progress, to a killed one, or to one that could
\* not remove it.
StagingIsTemporary ==
  \A d \in DOMAIN dirs : dirs[d] # Absent /\ d # slug =>
    \E p \in Procs : staged[p] = d /\ pc[p] \notin {"refused", "failed", "done"}
=============================================================================
