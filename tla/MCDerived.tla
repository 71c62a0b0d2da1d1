------------------------------ MODULE MCDerived ------------------------------
(***************************************************************************)
(* What is derived from a repository and what is brought into it: the      *)
(* projection, Creator reports and comparisons, public bundles and their   *)
(* publication, the inbox and image metadata, artifact Trees and artifact  *)
(* histories.  The parts do not run together: each behaviour is a          *)
(* behaviour of the part that it starts with.                              *)
(***************************************************************************)
EXTENDS MCDerivedInputs

CONSTANTS z, e1, e2, k1, k2, p1, p2, r1, w1, w2, Junk, Absent, Off

VARIABLES part, case

VARIABLES file, db, plan, phase, refsLeft, objectsLeft, erased, reports, rebuilds,
          changes, seen, lost

VARIABLES place, exporterAt, identity, listed, result, nextId, faults, kills, foreign,
          vanished

VARIABLES refs, objects, begun, clientAt, session, number, held, finished

VARIABLES input, dirs, slug, producerAt, staged, at, measured, reader, put, edits,
          inboxFaults, inboxKills

VARIABLES commits, trees, decision, proposals, writerAt, draft, outcomes, begins

-----------------------------------------------------------------------------
(* The parts *)

P == INSTANCE Projection WITH
        Snapshots <- RefSnapshots, Graphs <- ProjectGraphs, Files <- ProjectFiles,
        Fragile <- {img, o1, ts}, MaxObjects <- 8, MaxEdges <- 15, Rebuilds <- 1,
        MaxChanges <- 1

B == INSTANCE PublicBundle WITH MaxSessions <- 2, MaxObjects <- 2, MaxFile <- 3

X == INSTANCE Publication WITH
        Exporters <- {e1, e2}, Replacing <- {e1, e2}, Paths <- <<"a", "b">>,
        MaxFaults <- 1, MaxKills <- 1, MaxForeign <- 1, NoDir <- Nothing,
        pc <- exporterAt, lost <- vanished

C == INSTANCE CreatorReports WITH
        Sessions <- AllSessions, Startable <- NewSessions, Sources <- ReportSources,
        Inputs <- {[original |-> x, current |-> y, ai_output |-> y]},
        PinSets <- {{[role |-> "ai_output", blob |-> y]}}, MaxDepth <- 2, MaxBegins <- 2,
        Clients <- {k1, k2}, Stored <- StrayStored, Starts <- ReportStarts,
        Recognized <- {"release", "current"}, Implementation <- "current",
        NoHead <- Nothing, pc <- clientAt

\* observations of one subject that differ in what a comparison depends on
ComparedObservations ==
    [subject : {"subject", "other"}, series : {"series", "second"},
     capture_time : {"unknown"}, profile : {"imported"},
     media : UpTo([role : {"primary", "detail"}, blob : {x, y}], 2)]
    \cup [subject : {"subject"}, series : {"series"}, capture_time : {"unknown", "instant"},
          profile : {"imported", "calibrated", Nothing},
          media : {<<[role |-> "primary", blob |-> i]>> : i \in {x, z}}]

M == INSTANCE Comparison WITH
        Observations <- ComparedObservations, StoredBlobs <- {x, y}, Imported <- {x, y},
        Recognized <- {"release"}, Implementation <- "current_build",
        Configuration <- "configuration", NoMedia <- Nothing

I == INSTANCE Inbox WITH
        Producers <- {p1, p2}, Retainers <- {r1}, Crowds <- {{p1, p2}, {r1}},
        Leaves <- <<"original", "ai-output">>,
        Contents <- {<<x, y>>, <<y, y>>, <<x, y, y>>}, FileMax <- 2, MaxEdits <- 1,
        MaxFaults <- 1, MaxKills <- 1, NoDir <- Nothing, pc <- producerAt,
        faults <- inboxFaults, kills <- inboxKills

G == INSTANCE ImageMetadata WITH
        Files <- ImageFiles, ScanWindow <- 3, MaxChunks <- 4, MaxMetadata <- 2,
        MaxIfds <- 3, MaxIfdDepth <- 1

T == INSTANCE ArtifactTree WITH
        Syntax <- SegmentSyntax, Offered <- OfferedFiles, Trees <- StoredTrees,
        MaxFiles <- 2, MaxFileBytes <- 2, MaxTotalBytes <- 3, MaxPathBytes <- 6,
        MaxDepth <- 3, MaxTreeNodes <- 4, MaxTreeEdges <- 6

\* who decides and who proposes, and since when
Config(n) == [at |-> n, creator |-> "h", agent |-> "a", expires |-> "e"]

H == INSTANCE ArtifactHistory WITH
        Writers <- {w1, w2}, Sites <- {"s1", "s2"},
        Configs <- {Config(n) : n \in 1 .. 2},
        MaxHistory <- 4, MaxNodes <- 40, MaxEdges <- 80, None <- Nothing,
        pc <- writerAt

-----------------------------------------------------------------------------
(* Stored histories to start from: none, one that the writers made (a      *)
(* checkpoint, an adopted proposal and a rejected one), and histories that *)
(* depart from it in one point.                                            *)

Authority1 == H!expected_artifact_authority_oids(Config(1))

ContextOf(b) == H!context_record(b, Authority1.policy, Authority1.grant, 1)

ActivityOf(b, site) == H!activity_record(ContextOf(b), Authority1.grant, site, 1)

Made ==
    [trees |-> <<H!ControlTree(Authority1, "s1"),
                 H!ProposalTree(1, ContextOf(1), ActivityOf(1, "s2"), "s2"),
                 H!ProposalTree(2, ContextOf(3), ActivityOf(3, "s1"), "s1")>>,
     commits |-> <<H!commit("checkpoint", <<>>, 1, <<>>, "human", 1),
                   H!commit("checkpoint", <<1>>, 2, <<ActivityOf(1, "s2")>>, "agent", 1),
                   H!commit("decision", <<1>>, 2,
                          <<H!feedback_record(2, "adopted_unchanged", 1)>>, "human", 1),
                   H!commit("checkpoint", <<3>>, 3, <<ActivityOf(3, "s1")>>, "agent", 1),
                   H!commit("decision", <<3>>, 2,
                          <<H!feedback_record(4, "rejected", 1)>>, "human", 1)>>,
     decision |-> 5, proposals |-> (1 :> 2) @@ (3 :> 4), begins |-> 2]

Foreign ==
    {[Made EXCEPT !.commits[3].snapshot = 1],
     [Made EXCEPT !.commits[5].snapshot = 3],
     [Made EXCEPT !.commits[5].transitions[1].disposition = "edited"],
     [Made EXCEPT !.commits[5].parents = <<1>>],
     [Made EXCEPT !.trees[3].base = 1],
     [Made EXCEPT !.trees[1].control = H!expected_artifact_authority_oids(Config(2))],
     [Made EXCEPT !.proposals = (1 :> 2) @@ (3 :> 2)],
     [Made EXCEPT !.commits[3].author = "agent"]}

Unborn == [commits |-> <<>>, trees |-> <<>>, decision |-> Nothing, proposals |-> <<>>,
           begins |-> 2]

HistoryStarts == {Unborn, Made} \cup Foreign

-----------------------------------------------------------------------------
(* Bundles to verify: the exports of small Creator histories and of        *)
(* generic outcomes, exported bundles with files of another one, and       *)
(* bundles that state facts of any kind.                                   *)

\* what the reports of a session show beside its decision, one choice per disposition
Shown ==
    [adopt |-> [comparison |-> <<[outcome |-> "different", profile |-> "byte_identity",
                                  warning |-> "different"]>>,
                timeline |-> <<"current_observation", "ai_proposal">>],
     reject |-> [comparison |-> <<[outcome |-> "identical", profile |-> "byte_identity",
                                   warning |-> "identical"]>>,
                 timeline |-> <<"other">>],
     defer |-> [comparison |-> <<>>, timeline |-> <<>>]]

Complete ==
    {[session |-> s, state |-> "complete", derived |-> FALSE, disposition |-> d,
      selected_ai_output |-> d = "adopt", fingerprint |-> f, proposal |-> TRUE,
      decision |-> TRUE, comparison |-> Shown[d].comparison,
      timeline |-> Shown[d].timeline, fsck_objects |-> IF f = "new" THEN 1 ELSE 2] :
        s \in {"s1", "s2"}, d \in {"adopt", "reject", "defer"}, f \in {"new", "old"}}

Derived == {[d EXCEPT !.derived = TRUE] : d \in {c \in Complete : c.fingerprint = "new"}}

Partial ==
    {[session |-> s, state |-> "incomplete", derived |-> FALSE, disposition |-> "none",
      selected_ai_output |-> FALSE, fingerprint |-> "none", proposal |-> p,
      decision |-> ~p] : s \in {"s1", "s2"}, p \in BOOLEAN}

Discoverable == Complete \cup Derived \cup Partial

\* up to two sessions of any state, and three, which is one too many
Histories ==
    {<<>>} \cup {<<e>> : e \in Discoverable}
    \cup {p \in Discoverable \X Discoverable : p[1].session = "s1" /\ p[2].session = "s2"}
    \cup {<<p[1], p[2], [p[3] EXCEPT !.session = "s3"]>> :
            p \in {<<a, b, c>> \in Partial \X Partial \X Partial :
                     a.session = "s1" /\ b.session = "s2" /\ c.session = "s1"}}

NoPresentation == [title |-> "none", sessions |-> <<>>]

Presentations ==
    [title : {"ok", "bad"},
     sessions : {<<>>} \cup [{"s1"} -> {"ok", "bad"}] \cup [{"Bad Name"} -> {"ok"}]]

ExportOptions ==
    [session : {"none", "s1", "s3"}, presentation : Presentations, visibility : {"public"}]
    \cup {[session |-> "none", presentation |-> NoPresentation, visibility |-> "private"]}

Exports ==
    [kind : {"export"}, discovered : Histories, options : ExportOptions,
     target : {"github"}, locale : {"ja"}]
    \cup [kind : {"export"}, discovered : {<<e>> : e \in Discoverable},
          options : ExportOptions, target : {"github", "synapse"}, locale : {"none", "ja"}]

Outcomes ==
    [state : {"complete"}, disposition : {"adopted", "rejected", "deferred"},
     visibility : {"public", "private"}]
    \cup [state : {"pending"}, reason : {"pending_review"},
          visibility : {"public", "private"}]
    \cup [state : {"incomplete"}, reason : {"retryable", "unknown", "denied"},
          visibility : {"public"}]

Generics == [kind : {"generic"}, outcome : Outcomes, target : {"github", "synapse"}]

Single ==
    {B!build_public_projection(<<a>>, [session |-> "none", presentation |-> NoPresentation,
                                     visibility |-> "public"]) :
        a \in {c \in Complete \cup Partial : c.session = "s1"}}

Exported ==
    {B!Bundle("creator", p, t, l) :
        p \in Single \ {Refused}, t \in {"github", "synapse"}, l \in {"none", "ja"}}
    \cup {B!Bundle("generic", B!build_generic(o), t, "none") :
            o \in Outcomes, t \in {"github", "synapse"}}

\* bundles of the versions before renderer profiles were recorded
Earlier ==
    {B!Relisted(b, "manifest.json", [b["manifest.json"] EXCEPT !.renderer = "none"]) :
        b \in {B!Bundle("creator", p, t, "none") :
                 p \in Single \ {Refused}, t \in {"github", "synapse"}}}

Mixed ==
    {c \in [kind : {"changed"}, files : Exported \cup Earlier, other : Exported] :
        DOMAIN c.files = DOMAIN c.other}

Compared ==
    [outcome : {"identical"}, profile : {"byte_identity"}, warning : {"identical", "different"}]

CreatorFacts ==
    [visibility : {"public"}, policy : {"safe", "full"}, snapshot : {<<>>},
     fingerprint : {"none", "new"}, claims : {B!projection_limitations(b) : b \in BOOLEAN},
     title : {B!Presented("none"), [value |-> "ok", origin |-> "derived_summary"]},
     requested : {"none", "s2"}, discovered : {0, 1}, incomplete : {<<>>},
     sessions : {<<>>} \cup
        {<<s>> : s \in [session : {"s1"}, text : {B!Presented("none")},
                        roles : {<<"original", "current", "ai_proposal">>},
                        disposition : {"adopt", "reject"}, selected_by_human : BOOLEAN,
                        selected_artifact : {"current", "ai_proposal"},
                        rationale : {"redacted", "shown"},
                        comparison : {<<>>} \cup {<<c>> : c \in Compared},
                        timeline : {<<"other">>, <<"invented">>},
                        provenance : [session : {"s1", "s2"}, fingerprint : {"new"},
                                      fsck_objects : {0, 2, 3}],
                        value : {"retained"}]}]

GenericFacts ==
    [state : {"complete", "pending", "incomplete"}, origin : {"verified", "status"},
     policy : {"safe"}, disposition : {"adopted", "rejected", "none"},
     snapshot : {"proposal", "base", "none"}, site : {"digest", "none"},
     reason : {"none", "pending_review", "denied"}, visibility : {"public"}]

Stated ==
    [kind : {"made"}, profile : {"creator"}, projection : CreatorFacts,
     target : {"github"}, locale : {"ja"}]
    \cup [kind : {"made"}, profile : {"generic"}, projection : GenericFacts,
          target : {"synapse"}, locale : {"none"}]

BundleCases == Exports \cup Generics \cup Mixed \cup Stated

-----------------------------------------------------------------------------
(* One part runs, the variables of the others stay off *)

rebuildVars == <<graph, file, db, plan, phase, refsLeft, objectsLeft, erased, reports,
                 rebuilds, changes, seen, lost>>

exportVars == <<place, exporterAt, identity, listed, result, nextId, faults, kills,
                foreign, vanished>>

reportVars == <<refs, objects, begun, clientAt, session, number, held, finished>>

importVars == <<input, dirs, slug, producerAt, staged, at, measured, reader, put, edits,
                inboxFaults, inboxKills>>

siteVars == <<commits, trees, decision, proposals, writerAt, draft, outcomes, begins>>

vars == <<part, case, rebuildVars, exportVars, reportVars, importVars, siteVars>>

NoRebuild ==
    /\ graph = Off /\ file = Off /\ db = Off /\ plan = Off /\ phase = Off
    /\ refsLeft = Off /\ objectsLeft = Off /\ erased = Off /\ reports = Off
    /\ rebuilds = Off /\ changes = Off /\ seen = Off /\ lost = Off

NoExport ==
    /\ place = Off /\ exporterAt = Off /\ identity = Off /\ listed = Off /\ result = Off
    /\ nextId = Off /\ faults = Off /\ kills = Off /\ foreign = Off /\ vanished = Off

NoReport ==
    /\ refs = Off /\ objects = Off /\ begun = Off /\ clientAt = Off /\ session = Off
    /\ number = Off /\ held = Off /\ finished = Off

NoImport ==
    /\ input = Off /\ dirs = Off /\ slug = Off /\ producerAt = Off /\ staged = Off
    /\ at = Off /\ measured = Off /\ reader = Off /\ put = Off /\ edits = Off
    /\ inboxFaults = Off /\ inboxKills = Off

NoSite ==
    /\ commits = Off /\ trees = Off /\ decision = Off /\ proposals = Off
    /\ writerAt = Off /\ draft = Off /\ outcomes = Off /\ begins = Off

Init ==
    \/ /\ part = "projection" /\ P!ProjectionInit /\ case = Off
       /\ NoExport /\ NoReport /\ NoImport /\ NoSite
    \/ /\ part = "publication" /\ X!PublicationInit /\ case = Off
       /\ NoRebuild /\ NoReport /\ NoImport /\ NoSite
    \/ /\ part = "reports" /\ C!CreatorInit /\ case = Off
       /\ NoRebuild /\ NoExport /\ NoImport /\ NoSite
    \/ /\ part = "inbox" /\ I!InboxInit /\ case = Off
       /\ NoRebuild /\ NoExport /\ NoReport /\ NoSite
    \/ /\ part = "history" /\ H!HistoryInit(HistoryStarts) /\ case = Off
       /\ NoRebuild /\ NoExport /\ NoReport /\ NoImport
    \/ /\ \/ part = "bundle" /\ B!BundleInit(BundleCases)
          \/ part = "comparison" /\ M!ComparisonInit
          \/ part = "metadata" /\ G!MetadataInit
          \/ part = "tree" /\ T!TreeInit
       /\ NoRebuild /\ NoExport /\ NoReport /\ NoImport /\ NoSite

Next ==
    \/ /\ part = "projection" /\ P!ProjectionNext
       /\ UNCHANGED <<part, case, exportVars, reportVars, importVars, siteVars>>
    \/ /\ part = "publication" /\ X!PublicationNext
       /\ UNCHANGED <<part, case, rebuildVars, reportVars, importVars, siteVars>>
    \/ /\ part = "reports" /\ C!CreatorNext
       /\ UNCHANGED <<part, case, rebuildVars, exportVars, importVars, siteVars>>
    \/ /\ part = "inbox" /\ I!InboxNext
       /\ UNCHANGED <<part, case, rebuildVars, exportVars, reportVars, siteVars>>
    \/ /\ part = "history" /\ H!HistoryNext
       /\ UNCHANGED <<part, case, rebuildVars, exportVars, reportVars, importVars>>
    \/ /\ \/ part = "bundle" /\ B!BundleNext
          \/ part = "comparison" /\ M!ComparisonNext
          \/ part = "metadata" /\ G!MetadataNext
          \/ part = "tree" /\ T!TreeNext
       /\ UNCHANGED <<part, rebuildVars, exportVars, reportVars, importVars, siteVars>>

Spec == Init /\ [][Next]_vars

\* processes of one part are interchangeable
Symmetry ==
    UNION {Permutations(S) : S \in {{e1, e2}, {k1, k2}, {p1, p2}, {w1, w2}}}

-----------------------------------------------------------------------------
(* Properties *)

\* The projection tells the truth.  Over a store at rest its rows are exactly
\* the objects, references and completeness of every Ref, a timeline has every
\* reachable Observation and Activity of its subject once and in the order of
\* the time that is known, and an Analysis is called ready exactly if all it
\* needs is stored.  Whatever the store does meanwhile, an object that a closure
\* has found is never recorded as missing: if it left, the rebuild fails before
\* any row is replaced.  A plan never meets a constraint of the schema.
ProjectionIsTrue ==
    part = "projection" => /\ P!ProjectionIsExact
                           /\ P!TimelineIsComplete
                           /\ P!ReadinessIsHonest
                           /\ P!SeenIsNeverDowngraded
                           /\ P!LostObjectsFailTheRebuild
                           /\ P!PlansFitTheSchema

\* Exporters share a destination safely.  Whoever looks at it, and whenever a
\* process dies, finds nothing, something that is not a bundle of this program,
\* or a bundle complete and as built.  A published bundle is deleted only by an
\* exporter that had verified this very directory, although another may have
\* been exchanged in between.  A receipt says truly what is where; only an export
\* that failed and then could not remove its staging directory leaves one.
ExportsAreSafe ==
    part = "publication" => /\ X!DestinationIsWhole
                            /\ X!OnlyTheVerifiedIsDeleted
                            /\ X!ReceiptsAreTrue

\* Exporter and verifier agree.  Whatever the sessions, the options and the
\* author's text are, a projection that is built passes the verifier unless one
\* of its files is over the size limit, which the exporter refuses as well; a
\* bundle in which a single file was replaced is refused, even if its checksum
\* was made to match, but for a manifest in the form of earlier versions, without
\* the renderer profile; and one made by other means is accepted only if its
\* facts agree.
VerifierIsExact ==
    part = "bundle" => /\ B!BuiltMeansAccepted
                       /\ B!ChangesAreNoticed
                       /\ B!AcceptedFactsAgree

\* Reports can be relied on.  A session that was decided keeps its report for
\* ever and with the facts that were recorded, whatever happens to its sources:
\* the limits of the writer and of the two chain validators agree.  A report
\* never misstates its graph, whoever wrote it; the cheap listing says the same;
\* and what is offered as a source is accepted by `begin` in the same state.
ReportsAreReliable ==
    part = "reports" => /\ C!FinishedSessionsStayReadable
                        /\ C!ReportsAreTrue
                        /\ C!ListingAgrees
                        /\ C!OffersAreAccepted

\* Comparisons claim no more than they may, and the report accepts exactly what
\* the adapter records: bytes are called identical or different only for two
\* Observations of one subject and series with one primary medium each; the
\* record for the images of a session is accepted, whichever they are; and every
\* change to a field, an image, the tool's identity, a pointer or an input is
\* refused.  Only the time of recording and the description of the tool are not
\* looked at, and they change nothing that the report says.
ComparisonsAreExact ==
    part = "comparison" => /\ M!NothingIsOverclaimed
                           /\ M!SessionComparisonsAreAccepted
                           /\ M!ChangesAreRefused

\* What the inbox reader retained is one consistent candidate: the bytes of one
\* manifest, and those its producer measured unless somebody rewrote the manifest
\* before, even if the candidate is edited, removed or replaced while it is read;
\* and what is hidden in the inbox belongs to a call in progress, to a killed one
\* or to one that could not remove it.
InboxIsConsistent ==
    part = "inbox" => I!RetainedIsWhatWasPut /\ I!StagingIsTemporary

\* The metadata scanners decide correctly.  "Unsupported, malformed, and
\* budget-limited inputs are deliberately reported as could_not_check, never as
\* GPS-free": no verdict of no GPS data for a file that carries or may carry it
\* anywhere.  EXIF data that is a tree within the limits is always decided, and
\* the single pass over a language tag accepts exactly the tags of the grammar.
MetadataIsDecided ==
    part = "metadata" => /\ G!GpsFreeMeansGpsFree
                         /\ G!WellFormedIsDecided
                         /\ G!LanguageTagsAreParsed

\* A manifest that the mapper accepted reads back, by checkout and by recovery,
\* as exactly the same files, unless it has more directories than a reader
\* visits; and whatever is accepted can be written out on a file system that
\* ignores case (lib.rs:213-420; checkout.rs:1070-1185; workflow.rs:1593-1701).
ManifestsReadBack ==
    part = "tree" => T!MappedReadsBack /\ T!AcceptedIsPortable

\* Every decision of an artifact can be proved for as long as the repository
\* exists, within the reader's budgets and however many decisions followed; a
\* checkout answers for the current one only, with the site that the recorded
\* human choices select, also when the history was not written by this code; the
\* descent proof finds each completed decision, if every call was made with one
\* configuration and the history is not yet as long as a traversal can follow; and
\* at most one review is open
\* (checkout.rs:223-524, 684-1028; workflow.rs:1747-1893, 1972-2277).
DecisionsStayProvable ==
    part = "history" => /\ H!DecidedStaysProvable
                        /\ H!CheckoutIsTheDecidedSite
                        /\ H!DescentIsFound
                        /\ H!OneOpenReview

\* What others can see appears whole, current and never over something else: a
\* candidate of the inbox with every file as its manifest says, and replaced by
\* nobody; a published directory leaves its place only for the staging path of
\* the exporter that exchanged it; and a derived session begins only while its
\* source has the heads that its binding names.
VisibleIsWhole ==
    [][/\ part = "inbox" => I!VisibleIsCompleteStep /\ I!NeverReplacedStep
       /\ part = "publication" => X!PublishedStaysSomewhereStep
       /\ part = "reports" => C!SourcesAreCurrentStep]_vars
=============================================================================
