----------------------------- MODULE MCIntegrity -----------------------------
(***************************************************************************)
(* Integrity checks, repair, archives and Ref reads of one small           *)
(* repository.  The parts do not run together: each behaviour is a         *)
(* behaviour of the part that it starts with.                              *)
(***************************************************************************)
EXTENDS Closure, RefReads, TLC

CONSTANTS c0, c1, tr, b, r1, r2, ts, s1, s2, e1, e2, Off

CONSTANTS MaxDepth, MaxObjects, MaxEdges, MaxReferenceBytes, MemoBudget, Fragile, Tips,
          MaxKills, Exporters, Putting, Foreign, MaxArchiveObjects, MaxLog, MaxFaults

VARIABLES part, file

VARIABLES tombstones, memo, remembers, limits, stack, path, finished, nodes, edges, bytes,
          issues, truncated, check, phase, scan, left, found, incomplete, spent, changes,
          seen

VARIABLES held, step, damaged, tombstoned, queue, progress, repaired, aside, kills,
          before, inspected

VARIABLES log, export, archive, target, targetLog, restore, decay, disturbed

-----------------------------------------------------------------------------
(* Objects *)

MCOrder == <<b, c0, c1, r1, r2, ts, tr>>

MCKind == (b :> "blob") @@ (c0 :> "commit") @@ (c1 :> "commit") @@ (tr :> "tree")
             @@ (r1 :> "record") @@ (r2 :> "record") @@ (ts :> "record")

CommitBody(p, s, t) ==
    [parents |-> p, snapshot |-> s, transitions |-> t, declarations |-> <<>>]

Record(type, activity, fields) ==
    [type |-> type, entity |-> "e", activity |-> activity, fields |-> fields]

Field(p, o) == [pointer |-> p, oid |-> o]

Entry(k, o) == [kind |-> k, oid |-> o]

\* a claim made by an AI run, over a tree that two commits share; the blob
\* has a Tombstone
Plain ==
    (b :> [none |-> TRUE])
    @@ (c0 :> CommitBody(<<>>, tr, <<>>))
    @@ (c1 :> CommitBody(<<c0>>, tr, <<r1>>))
    @@ (tr :> [entries |-> <<Entry("record", r2), Entry("blob", b)>>])
    @@ (r1 :> Record("claim", "none", <<Field("ai_run_ref", r2), Field("note", BadText)>>))
    @@ (r2 :> Record("activity", "ai_run", <<Field("output", b)>>))
    @@ (ts :> Record("tombstone", "none", <<Field("target_ref", b)>>))

\* the run of the claim is an import; the tree reaches it first
WrongRun == [Plain EXCEPT ![r2] = Record("activity", "import", <<>>)]

\* unusable references of every kind
Malformed ==
    [Plain EXCEPT ![c0] = CommitBody(<<BadText>>, tr, <<b>>),
                  ![tr] = [entries |-> <<Entry("symlink", b), Entry("blob", BadText)>>],
                  ![ts] = Record("tombstone", "none", <<Field("target_ref", ts)>>),
                  ![r1] = Record("claim", "none",
                                 <<Field("ai_run_ref", b), Field("see", ts)>>)]

\* cycles a store that does not check digests could hold
Cyclic ==
    [Plain EXCEPT ![c0] = CommitBody(<<c1>>, tr, <<>>),
                  ![r1] = Record("note", "none", <<Field("see", r2)>>),
                  ![r2] = Record("note", "none",
                                 <<Field("see", r1), Field("supersedes", ts)>>),
                  ![ts] = Record("tombstone", "none", <<Field("supersedes", r2)>>)]

Evidence ==
    [Plain EXCEPT ![r1] = Record("claim", "none", <<Field("see", r2)>>),
                  ![r2] = Record("claim_reaction", "none", <<Field("claim_ref", r1)>>)]

Replaced ==
    [Evidence EXCEPT ![r1] = Record("claim", "none", <<Field("supersedes", r2)>>),
                     ![r2] = Record("claim", "none", <<Field("supersedes", r1)>>)]

Entombed(o) ==
    [Plain EXCEPT ![ts] = Record("tombstone", "none", <<Field("target_ref", o)>>)]

Whole == [o \in Objects |-> "intact"]

Limits(i, r, n, e) == [inventory |-> i, records |-> r, nodes |-> n, edges |-> e]

Ask(q, g, f, s, n) ==
    [mode |-> q[1], roots |-> q[2], max |-> q[3], graph |-> g, file |-> f, stray |-> s,
     changes |-> n]

Questions ==
    {<<"closure", <<c1>>, Limits(0, 3, 0, 0)>>, <<"closure", <<r1>>, Limits(0, 3, 0, 0)>>,
     <<"closure", <<c1>>, Limits(0, 2, 0, 0)>>,
     <<"fsck", <<c1, c0, c1>>, Limits(0, 0, 0, 0)>>, <<"fsck", <<>>, Limits(0, 0, 0, 0)>>,
     <<"limited", <<c0, c1, c0>>, Limits(7, 3, 9, 10)>>,
     <<"limited", <<c0, c1>>, Limits(7, 3, 8, 9)>>,
     <<"limited", <<c1>>, Limits(6, 2, 8, 9)>>}

\* a store at rest: any graph, one object missing or damaged, and the blob,
\* which has a Tombstone, in any state
AtRest ==
    {Ask(q, g, [Whole EXCEPT ![o] = s, ![b] = t], FALSE, 0) :
        q \in Questions, g \in {Plain, WrongRun, Malformed, Cyclic, Evidence, Replaced},
        o \in Objects, s \in {"intact", "absent", "cut"},
        t \in {"absent", "intact", "flipped"}}

\* a store in use
InUse ==
    {Ask(q, Plain, [Whole EXCEPT ![b] = t], s, 2) :
        q \in Questions, s \in BOOLEAN, t \in {"absent", "intact"}}

\* a Tombstone for the head itself
Buried ==
    {Ask(q, Entombed(c1), [Whole EXCEPT ![c1] = "absent"], FALSE, 0) : q \in Questions}

MCChecks == AtRest \cup InUse \cup Buried

-----------------------------------------------------------------------------
(* Repairs *)

MCSources == <<s1, s2>>

Copies(good, bad) ==
    [o \in Objects |-> CASE o \in good -> "good" [] o \in bad -> "bad" [] OTHER -> "none"]

Losses ==
    {(b :> "cut") @@ (ts :> "cut"), (b :> "absent") @@ (ts :> "absent") @@ (r1 :> "cut"),
     (tr :> "absent") @@ (r2 :> "cut"), (c1 :> "cut") @@ (c0 :> "absent") @@ (tr :> "cut"),
     (b :> "flipped") @@ (r2 :> "absent"),
     (ts :> "cut") @@ (r2 :> "cut") @@ (c1 :> "absent")}

MCCases ==
    {[graph |-> g, file |-> l @@ Whole,
      copies |-> (s1 :> Copies(a, {}) @@ s2 :> Copies(Objects \ z, z))] :
        g \in {Plain, Entombed(r2)}, l \in Losses,
        a \in {{}, {b}, {ts, r1, r2}}, z \in {Objects, {ts}, {ts, r1}}}

-----------------------------------------------------------------------------
(* Archives *)

Small == [Plain EXCEPT ![c1] = CommitBody(<<c0>>, tr, <<>>),
                       ![tr] = [entries |-> <<Entry("blob", b)>>],
                       ![r1] = Record("claim", "none", <<>>)]

First == [o \in Objects |-> IF o \in {c0, tr, ts} THEN "intact" ELSE "absent"]

Sym == Permutations({e1, e2})

-----------------------------------------------------------------------------

F == INSTANCE Fsck WITH Checks <- MCChecks

R == INSTANCE Repair WITH Heads <- Tips, Cases <- MCCases, Sources <- MCSources

A == INSTANCE Archive WITH Graph <- Small, FirstFile <- First, FirstLog <- <<c0>>

fsckVars == <<tombstones, memo, remembers, limits, stack, path, finished,
              nodes, edges, bytes, issues, truncated, check, phase, scan, left,
              found, incomplete, spent, changes, seen>>

fixVars == <<held, step, damaged, tombstoned, queue, progress, repaired, aside,
             before, inspected>>

moveVars == <<log, export, archive, target, targetLog, restore, decay,
              disturbed>>

vars == <<part, graph, file, kills, fsckVars, fixVars, moveVars, readVars>>

\* a part that does not run
NoFsck ==
    /\ tombstones = Off /\ memo = Off /\ remembers = Off /\ limits = Off
    /\ stack = Off /\ path = Off /\ finished = Off /\ nodes = Off /\ edges = Off
    /\ bytes = Off /\ issues = Off /\ truncated = Off /\ check = Off /\ phase = Off
    /\ scan = Off /\ left = Off /\ found = Off /\ incomplete = Off /\ spent = Off
    /\ changes = Off /\ seen = Off

NoFix ==
    /\ held = Off /\ step = Off /\ damaged = Off /\ tombstoned = Off /\ queue = Off
    /\ progress = Off /\ repaired = Off /\ aside = Off /\ before = Off
    /\ inspected = Off

NoMove ==
    /\ log = Off /\ export = Off /\ archive = Off /\ target = Off /\ targetLog = Off
    /\ restore = Off /\ decay = Off /\ disturbed = Off

NoRead == ReadInit /\ page.filter = Names

Init ==
    \/ /\ part = "fsck" /\ F!Init
       /\ kills = Off /\ NoFix /\ NoMove /\ NoRead
    \/ /\ part = "repair" /\ R!RepairInit
       /\ NoFsck /\ NoMove /\ NoRead
    \/ /\ part = "archive" /\ A!ArchiveInit
       /\ NoFsck /\ NoFix /\ NoRead
    \/ /\ part \in {"copy", "pages"} /\ ReadInit
       /\ graph = Off /\ file = Off /\ kills = Off
       /\ NoFsck /\ NoFix /\ NoMove

Next ==
    \/ /\ part = "fsck" /\ F!Next
       /\ UNCHANGED <<part, kills, fixVars, moveVars, readVars>>
    \/ /\ part = "repair" /\ R!RepairNext
       /\ UNCHANGED <<part, fsckVars, moveVars, readVars>>
    \/ /\ part = "archive" /\ A!ArchiveNext
       /\ UNCHANGED <<part, fsckVars, fixVars, readVars>>
    \/ /\ \/ part = "copy" /\ FileNext
          \/ part = "pages" /\ PageNext
       /\ UNCHANGED <<part, graph, file, kills, fsckVars, fixVars, moveVars>>

Spec == Init /\ [][Next]_vars

-----------------------------------------------------------------------------
(* Properties *)

\* A report is true.  With a store at rest the iterative walk finds exactly the
\* defects of the closure, whatever order it meets shared objects in, and gives
\* up only when the closure really exceeds a limit; a cycle of Commit parents,
\* Trees or supersedes is always reported.  While objects change, a clean report
\* still means that every object any root needs was read intact during this very
\* check or is recorded as erased, although memory answered for most of them.
\* The closures of a bounded check together stay within its limits.
ReportIsTrue ==
    part = "fsck" => /\ F!WalkMatchesReference
                     /\ F!CyclesAreReported
                     /\ F!CleanMeansVerified
                     /\ F!WorkStaysBounded

\* Repair puts back all that can be and nothing that must not be.  An object
\* that a Tombstone erases stays erased, even when the Tombstone itself is
\* damaged, is only known from a source, or a repair was killed half way.  When
\* repair reports, what remains has no good copy, was erased, or waits for a
\* Record that might be a Tombstone, although repairs reveal further damage.
RepairIsExact ==
    part = "repair" => R!ErasedStaysErased /\ R!RepairLeavesOnlyTheHopeless

\* Archives hold what they promise.  Whatever writers did during the export, a
\* published archive has a complete manifest and every head of its reflog is
\* complete within it; writers never make an export fail; and a restore that was
\* killed can be run again, unless another process uses the repository or the
\* archive is damaged or too large.
ArchivesHold ==
    part = "archive" => /\ A!ArchiveIsSelfContained
                        /\ A!ExportSurvivesWriters
                        /\ A!RestoreCanResume

\* No step of maintenance harms what is good.  A check calls an object present
\* only while its file is there at the length that was verified.  Repair touches
\* no intact object, creates none that nobody names, moves a damaged file only
\* with a verified copy at hand or because it is erased, and starts a new round
\* only after progress.  An archive is never replaced, and Refs are restored all
\* at once, onto complete objects and never over Refs of another process.
MaintenanceIsSafe ==
    [][/\ part = "fsck" => F!MemoAnswersAreFreshStep
       /\ part = "repair" => R!OnlyDamageIsTouchedStep /\ R!RoundsMakeHeadwayStep
       /\ part = "archive" => A!ArchiveIsNeverReplacedStep /\ A!RestoreIsAtomicStep]_vars
=============================================================================
