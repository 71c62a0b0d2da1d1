# SynapseGit: TLA+ models, model checks and proofs

SynapseGit is a local, Git-like provenance store. Immutable objects live in a
content-addressed directory; mutable Refs and their log live in SQLite; several
layers above decide who may move which Ref. The interesting failures are not in
any one function. They are in what happens between two stores, between two
processes, and between a check and the write it was meant for. This directory
models those parts in TLA+, checks them with TLC on small instances and proves
the central ones with TLAPS for every instance.

## 1. The system

| Part (crate) | State | Operations that change it | Interacts with |
|---|---|---|---|
| `synapse-cas` store | object files, shard directories, quarantine | put (stage, hard link, sync), quarantine, repair | every process on the repository; the file system |
| `synapse-cas` graph | none (reads) | closure walk, fsck, Tombstone resolution | store |
| `synapse-sqlite` | `refs`, `reflog` | update with preconditions, validator and guard; archive restore | every process, through SQLite's write lock |
| `synapse-core` repository | both of the above | put, update_ref, repair_objects, export, restore | store, Ref store |
| `synapse-core` authorization, human_decision | none of their own | publish an AI proposal, publish a human decision | Ref store, clock |
| `synapse-application` | access list, profiles, registrations, permits, FIFO gate | grant, revoke, register, prepare, publish on two routes | core, authenticator, executor |
| `synapse-artifact`, `-journal` | review journal (own SQLite) | prepare, publish, commit, recover, reconcile | application, Ref store |
| `synapse-artifact` approval | one-shot approvals, epoch | grant, revoke, issue, claim | durable workflow |
| `synapse-creator` | two Refs per session | begin, decide, inbox put | application, Ref store |
| `synapse-local-service` | pending registry, staged imports, confirmations | begin, decide, reads, staging, maintenance | creator, other processes |
| `synapse-local-http` | operation registry, semaphores, upload directories | reserve, run, finish, evict, stage | service |
| `synapse-projection` | query database | rebuild | store, Ref snapshot |
| `synapse-publication` | output directories | build, verify, exchange a bundle | snapshot, other exporters |
| `synapse-observation` | none | record a byte identity comparison | store, creator report |
| `synapse-canonical`, `-schema` | none | pure functions | all |
| `synapse-cli`, `api/`, `deploy/`, `scripts/`, `spec/` | none | front ends and documents | all |

The behaviours that make it hard, with the code lines where they bite, are the
`hazards` of `PROJECT.json`. In short: power loss between a visible object and
a durable one; a head validated before the lock is taken; Ref and log in one
transaction; permits, Grants and clocks that change while a call waits; a
journal and a Ref store that commit separately; evidence that is old when it is
applied; a registry compared with a snapshot that was captured earlier; readers
with limits and rules of their own over what writers accepted; directories that
several processes stage, exchange and clean up.

What must hold: every Ref names a commit whose closure is present; the log
explains every Ref and only grows; a Ref moves only by the compare-and-swap its
caller asked for; an authority is used once, in time and only while it is in
force; no journal row records what did not happen or denies what did; a
published review is never dropped and never offered once it is decided; what is
erased stays erased; what one component writes the others accept, and what they
show is what is stored; every call returns.

## 2. The modules

| Module | Models | Notes |
|---|---|---|
| `RefStore` | `SqliteRefStore` of `synapse-sqlite` | one action per stage of `update_ref` and `restore_archive`: validator, `BEGIN IMMEDIATE` or busy timeout, guard, comparison, write, commit; crash anywhere |
| `RefHistory` | what it promises | an append-only history of transitions; `RefStore` implements it |
| `RefReads` | read-only copies and paged reads | the copy of the database files with its digest checks, and reflog pages, while a writer goes on |
| `ObjectStore` | `synapse-cas/src/store.rs` | two views of the disk: what processes see and what a power loss leaves; the steps of put, repair and quarantine, which `Repository` runs |
| `Closure` | references of `graph.rs` | typed references of commits, Trees and Records, Tombstones, reachability; what the walk is compared with |
| `ClosureWalk`, `Fsck` | the bounded walk and `fsck` | an explicit stack with depth, object, edge and byte limits, the verified-object memo; inventory and shared work limits |
| `Repository` | `put`, `validate_head`, `update_ref` of `synapse-core` | extends `ObjectStore`; its Ref table is the one `RefHistory` promises |
| `Repair`, `Archive` | `repair_objects`, export and restore of `synapse-core` | rounds with Tombstones first, kills; staged directories and renames that do not replace |
| `FifoLock`, `FairGate` | the publication gate of `synapse-application` | tickets under a mutex and a condition variable; implements a FIFO lock |
| `Application` | both publication routes of `synapse-application` with the Core admission they call | composes over the FIFO lock; clock, sessions and other processes are its environment |
| `Authority` | the content rules of that admission (`authorization.rs`, `human_decision.rs`) | one verdict per route as operators over a small object graph |
| `ApprovalRegistry` | `approval.rs` and the system clock | the two locks of an issue and of a claim are separate steps |
| `DurableReview` | `synapse-artifact/src/durable.rs`, `workflow.rs` and the journal | two stores, workers that crash between steps, reconciliation |
| `ArtifactTree` | path rules, manifest mapper and both Tree readers | pure operators |
| `ArtifactHistory` | proposals and decisions of `workflow.rs`, readers of `checkout.rs` | writers store real commits; the readers prove them with budgets |
| `LocalService` | the pending registry of `synapse-local-service` and the creator calls | threads of one server, restarts, other processes |
| `Confirmations` | source confirmations, staged imports, fsck results, restores | requests are sequences of steps under two locks |
| `HttpServer` | gates, operation registry and uploads of `synapse-local-http` | handlers that are dropped while their closure runs |
| `CreatorReports` | session objects, source chains, reports and listing of `synapse-creator` | writer and reader of the same graphs |
| `Comparison` | `synapse-observation` and the comparison reader of `report.rs` | writer against reader |
| `Inbox`, `ImageMetadata` | `inbox.rs`, `metadata.rs` | producers and a reader of one directory; JPEG, PNG, EXIF and language tags |
| `Projection` | rebuild and queries of `synapse-projection` | two passes over a changing store, one replacing transaction |
| `PublicBundle`, `Publication` | projections, bundles and verifier; staging and exchange of `synapse-publication` | pure operators; concurrent exporters |
| `*Proofs` | inductive invariants, lemmas, theorems | extend the module they are about |
| `MC*` | instances for TLC | values for constants, symmetry sets, input data |

The composition follows the code: `FairGate` implements `FifoLock`, which
`Application` uses as one step; `RefStore` implements `RefHistory`, which is all
`Repository`, `Application`, `DurableReview` and `LocalService` rely on (one
compare-and-swap at a time, durable when it commits). `ClosureWalk`, `Fsck`,
`Repair`, `Archive` and `Projection` share `Closure`. `Application` takes the
verdict that `Authority` computes as a choice, and `LocalService` and
`Confirmations` share the writer mutex and the registry states. `map` in
`PROJECT.json` gives the source lines of every definition.

Four MC modules are suites: `MCIntegrity`, `MCApplication`, `MCProgress` and
`MCDerived` hold several components, a variable `part` that Init chooses and no
step changes, and the variables of all of them. A behaviour is a behaviour of one
component; the properties of the others hold of it trivially. The suites say
nothing about steps of two parts in one behaviour, and do not mean to. A property
of a suite is the promise of one component: the conjunction of the invariants, or
of the step properties, that the component's own module states one by one with
the lines they are about. Where the promise is also proved, the conjunction is
stated in the component: `JournalIsTrue` in `DurableReview`, `RegistryIsTrue` in
`LocalService`, `ApprovalsAreSound` in `ApprovalRegistry`, `PublicationsAreSound`
in `Application`, `AnswersStayTrue` in `Confirmations`, `ServerLimitsHold` and
`AcceptedIsPollable` in `HttpServer`, `ReadsAreConsistent` in `RefReads`.
`MCApplication` extends `ApprovalRegistry`, `Application`, `Confirmations` and
`HttpServer`, `MCIntegrity` extends `RefReads`; while another part of the suite
runs, they rest in an initial state.

Definitions whose name contains an underscore followed by a capitalised word,
such as `Transition_Blind`, and which are marked "mutant" are deliberate faults. No
specification uses them; each shows that a property can fail.

### Abstractions

* Content addressing is injective: an object is its identifier, its file is
  absent, intact or damaged.
* `Fragile` names the objects whose bytes may be damaged from outside; an
  intact object outside it stays intact unless the store itself moves it.
* Each object has its own shard directory. Sharing one could only sync more.
* Documents have passed the schema: a field has its type, a missing field is a
  value of its own where the code looks for it. In `Application` the content
  rules are a nondeterministic verdict; `Authority` is where they are modelled.
* Renderers and canonical encodings are injective: two projections render alike
  only if they are equal.
* `Application` is one project. Time is a small counter; it may be set back
  where the run says so.
* `DurableReview`: all requests share the accepted manifest, so there is one
  base head and one proposal Ref. Other writers add a Decision to the head they
  find (`next`) or to the base (`sibling`), put a Commit of no relation on the
  Ref (`stray`) or one that is there, such as the base or a candidate
  (`return`), or give the proposal Ref a registered proposal (`propose`);
  `Kinds` says which of these a run has. An approval is a call that may fail.
* `LocalService`: a session's Refs are create-only for the service, so its base
  and proposal heads are one value each. A running server has one instance
  identifier and entries do not outlive it, so the identifier is left out. An
  operation that fails after its commit is a choice of the publishing action.
  `reserve` and `claim_ready` answer "busy" in states the writer mutex already
  excludes; the answer itself is not modelled.
* `Authority` starts from one genuine proposal and decision with up to three
  changes of single fields; sizes are small numbers.
* `ImageMetadata`: a file is a sequence of segments, chunks or IFDs with the
  facts the code reads from them; the XMP text scan and inflation are a verdict
  of the segment. The 26 grandfathered language tags are left out.
* `ArtifactHistory`: a Tree is its site and its control entries; the objects a
  reader visits are charged to its budget by number.
* `CreatorReports`, `Comparison`: a Record is the fields the validators compare.
* `Projection`: a query is evaluated on one committed state of the database.

## 3. What TLC checks

Each run's constants are in its `.cfg`. State counts are of distinct states.

| Run | Instance | Shows |
|---|---|---|
| `refstore` | 2 connections, 2 Refs, 2 commits, event ids up to 2, 4 archives, fair; 236 k | tables and log agree through crashes, refused and accepted restores and an exhausted event id; implements `RefHistory`; every call returns, also against a held lock |
| `repository` | 2 objects, 1 commit, 2 clients, kills, and either decay and repairs of one object or power loss at any step; 1.0 M | an intact file is moved only by a repair that overlaps another one, Refs stay closed, what was reported stored is on the disk and the closure is still complete when the update commits |
| `repository_power` | 2 clients, power loss | **violation**, see below |
| `integrity` | 7 objects of every kind; 274 k | see "integrity" below |
| `progress` | fair; 72 k | see "progress" below |
| `application` | 827 k | see "application" below |
| `derived` | 221 k | see "derived" below |
| `durable_review` | 2 workers, 2 proposals, 2 dispositions, 2 keys, 1 fault, 2 moves of other writers; 706 k | journal and Refs agree in every way the workflow relies on |
| `durable_review_retryable` | 1 worker, 1 reconciler | **violation**, see below |
| `local_service` | 2 threads, 1 session, 2 reviews, 2 foreign moves, 1 restart, fair; 105 k | published reviews keep their slot, none is offered once decided, slots have one owner and settle |
| `local_service_reader` | 2 threads | **violation**, see below |
| `publication_foreign` | 2 exporters, 1 file of somebody else | **violation**, see below |

**repository.** Power loss and decay are kept apart (a variable `part`, chosen by
Init); where nothing decays a repair changes nothing, so repairs run in the part
with decay. A repair inspects an object and renames it later, with nothing to keep
others out. Two of them on one object can therefore meet: the first restores it,
the second moves the restored file aside. `repair_objects` asks its callers to
rule that out (`synapse-core/src/lib.rs:799-800`). The models let repairs overlap
all the same. `overlapped` remembers which ones did, and `IntactNeverTouched` says
that only those take an intact object away, and only one that had been damaged
before: puts, updates and killed processes between inspection and rename never
lead to it. What damage or such a repair takes from an update after its walk is
noted (`NoteLosses`), and `ClosureFreshAtCommit` excuses that and nothing else. A
history variable, `exposed`, collects the objects that somebody reported or
verified while another client was between making them visible and syncing them,
or that a killed client left there. After a power loss `RefsStayClosed` excuses
these as well as damaged objects, `StoredIsDurable` does so always, and before a
power loss a Ref has no excuse but damage.

**integrity.**

* Walk and fsck: a repository with two commits, a shared Tree, an AI run, a
  Tombstone and malformed variants of it, every file intact, damaged or absent,
  limits around its real size, objects that change between two walks
  (`ReportIsTrue`, and `MaintenanceIsSafe` for the steps). A report is exactly
  what reachability says (`WalkMatchesReference`, `CyclesAreReported`), a clean
  verdict means every object was verified now (`CleanMeansVerified`,
  `MemoAnswersAreFresh`) and the limits hold over all roots together
  (`WorkStaysBounded`).
* Repair (`RepairIsExact`, `MaintenanceIsSafe`): killed and restarted, with
  sources that hold some of the objects.
  Nothing erased comes back (`ErasedStaysErased`), only damage is touched, every
  round repairs something, and what is left cannot be repaired.
* Archive (`ArchivesHold`, `MaintenanceIsSafe`): two exporters against a writer,
  restore against kills: an archive has every object its Refs need, is never
  replaced, and a restore is atomic and can be repeated.
* Ref reads (`ReadsAreConsistent`): a copy is one commit, pages join without gap
  or repetition.

**progress.** The gate with 3 threads and tickets up to 6 is a FIFO lock
(`ImplementsFifoLock`) and serves every ticket; the AI route with 2 threads:
every call returns unless its own executor hangs (`NobodyWaitsForEver`). A
review with a client, a reconciler, two commits of other writers and two faults:
an unknown outcome is resolved (`UnknownIsReconciled`). Here the other writers
only add Decisions to the head they find; with a Ref that leaves this history
the evidence stays inconclusive and so does the review.

**application.**

* AI route (2 threads, revocation, new profiles and sessions, an expiring Grant)
  and human route (2 threads, suspension, two proposals, other processes, a
  clock set back, permits that run out): permits are used once and in time, each
  decision extends its base (`PublicationsAreSound`), and publication happens
  only while authorised (`PublishesOnlyWhileAuthorized`).
* `Authority`: a genuine proposal and decision, each with one to three changed
  fields. Accepted proposals keep the controls of their base and are accounted
  for (`GrantsAreKept`), can be decided, and neither rule order nor preflight
  changes a verdict (`RoutesAgree`).
* Approvals (`ApprovalsAreSound`): 2 threads, 3 changes of access, a clock that
  moves backwards.
* Service desk (`AnswersStayTrue`, `ReusedIsNeverDecided`): 2 threads, 3 sessions,
  4 calls, 1 foreign move, 1 restart, five starting states. A begin may publish its
  session and still answer with an error; its confirmation then stays and can be
  used again. After a begin that was answered with success it starts no other
  session, and a staged import, which is taken before the begin, starts at most one.
* HTTP (`ServerLimitsHold`, `AcceptedIsPollable`): up to 4 requests of two
  projects with 2 overall permits, 1 per project, 2 uploads, 2 registry entries.

**derived.**

* Projection (`ProjectionIsTrue`): 6 Ref snapshots over graphs with every kind
  of Record, files absent or damaged, one change while it runs.
* Publication (`ExportsAreSafe`): 2 exporters that replace a bundle of 2 files,
  a fault, a kill, a foreign file. Bundles (`VerifierIsExact`): up to 2 sessions
  in every combination of state and option, each built bundle and each
  single-file exchange between two of them, manifests without a renderer profile
  (the older format) among them. A session has its comparison, timeline and
  provenance, at most 2 objects, and files of at most 3 units, so that the size
  limit is reached: an export fails exactly where the verifier would refuse the
  result. A single replaced file is refused, except the manifest of an
  unlocalized Creator bundle that loses its renderer profile. An exporter whose
  cleanup fails answers so and leaves its staging directory.
* Reports (`ReportsAreReliable`): 2 clients that begin up to 2 sessions from
  finished, deferred, stray or forged ones, derivation depth 2. Comparison
  (`ComparisonsAreExact`): pairs of Observations and every change of one
  recorded field. What the reader overlooks (`Overlooked`) is exactly what the
  report does not show: the report is then the same.
* Inbox (`InboxIsConsistent`): 2 producers, or a reader and an editor of files
  and manifest, with files up to and beyond the limit. A staging directory is
  left only by a kill or by a failing cleanup, which the caller is told.
  Metadata (`MetadataIsDecided`): JPEG files of up to 4 segments, PNG files of
  up to 4 chunks, EXIF with up to 4 linked IFDs, language tags of up to 4
  subtags.
* Trees (`ManifestsReadBack`): up to 2 files over colliding names, and stored
  Trees as a reader may find them. Histories (`DecisionsStayProvable`): 2
  writers, 2 sites, 2 configurations, histories of 4 commits, and histories this
  code did not write.
* Steps (`VisibleIsWhole`): what a producer, an exporter or a derived session
  makes visible is whole, current, and replaces nothing.

**Why the bounds are enough.** Every property relates at most two clients (a
check and a write, a publisher and a reconciler, a reader and a writer) over one
Ref, object or review; where a run has a second one of each, it is there so that
identities can be confused. `repository` lets one of two objects decay, and two
clients are what two competing repairs need. `durable_review` gives other
writers two moves, enough to take the decision Ref away and back; with two
faults and three moves it passes too, with 14 M states. `local_service` has one
session, so that two moves of its Refs by another process (away and back) fit
beside a restart. Counters are bounded where the code bounds them (`u64`,
`i64`), with a small number in place of the large one, so that the limit is
reached (that all 1024 quarantine names are taken is a choice of `Quarantine`);
the same holds of the limits of walks, files, registries and histories, which
the inputs reach and exceed by one. Faults are bounded by the number needed to
crash twice in one exchange. The inputs of the pure parts are all combinations
up to a length at which every branch of the code is taken. The passing runs
together take every action. Deadlock is checked except in `durable_review`,
where a settled review with no fault left is a proper end, and in `integrity`
and `derived`, whose parts end when their work is done.

**Fairness.** `RefStore`, `Application` and `LocalService` assume that a thread
inside a call goes on (weak fairness of its steps): the steps are ordinary code
and bounded I/O, and the wait for SQLite ends with the busy timeout. Executors
are excluded. `FairGate` assumes that a woken thread gets the mutex and that a
critical section ends. `LocalService` assumes nothing of the wait for the
project mutex, and claims nothing of it. `DurableReview` assumes that a review
in `outcome_unknown` is queried, which the generic-artifact contract demands
("must be reconciled by querying trusted local state").

### Where documents and code differ

1. `repository_power`. An object becomes visible by `hard_link` before its
   directory entry is synced (`synapse-cas/src/store.rs:911-913`), and a writer
   that finds it present does not sync (916-919). Another process can validate
   a head over it and commit the Ref; after a power loss the Ref names a missing
   object. The runtime architecture lists the flush before the closure check.
   `repository` shows that nothing else is lost, and for one process that is not
   killed the order holds (`OneProcessSurvivesPower`).
2. `durable_review_retryable`. Reconciliation can write `retryable_failure` for
   a Decision that a concurrent publisher has just committed
   (`durable.rs:862-874`), where the runtime architecture says that only an
   intent whose compare-and-swap is proved unexecuted goes back. The next
   reconciliation corrects it, and `DenialIsFinal` (in `JournalIsTrue`) shows
   that a final denial is right unless another writer brings the Ref back.
3. `local_service_reader`. A read with a snapshot older than a begin's
   publication turns the begin's fresh review into `outcome_unknown`
   (`service.rs:1763-1794`), although no Ref is unexpected.

4. `publication_foreign`. After an exchange the old bundle is verified and then
   listed again for deletion (`synapse-publication/src/lib.rs:1805-1825`). A file
   that somebody puts there in between is unlinked, where the comment says that
   anything that appears concurrently stops the cleanup.

A completed decision whose report could not be revalidated also leaves the
registry (`service.rs:1898-1926`). The comment there explains the choice and
the model follows the code.

## 4. What is proved

TLAPS proves the following for every value of the constants, from the named
assumptions of the modules (absent values are not among the present ones,
bounds are natural numbers).

* `RefStoreProofs`: `TypeCorrect`, `ReflogAlwaysExplainsRefs`,
  `LogIsAppendOnly`, `EveryHeadWasValidated`, `UpdatesCompareAndSwap` and the
  refinement `RefStoreImplementsHistory`. The inductive invariant adds to the
  property what a transaction in progress has to satisfy: only the lock holder
  has one (`LockHeld`), its request fits its stage (`RequestFits`), before the
  write its tables are the committed ones (`TxUnwritten`), after it they extend
  them by one well-formed event (`TxWritten`). Without the last two, `Commit`
  could install anything.
  `ReadsStayConsistent` (`ReadsAreConsistent`) is about `RefReads`, for any set of
  database pages, any number of commits and events and any page limit. A copy was
  complete at a moment without sidecars, when every page of the file had one
  version; no page of the copy is newer than that and no page hashed afterwards
  is older (`Between`), so equal digests leave one version only. The pages of a
  reflog: what was returned is what lies up to the cursor (`PageInv`), and the
  `limit + 1` rows of a page are an initial part of what is left (`RowsFit`), which
  is what makes the last row kept a cursor that skips nothing (`PageFits`).
* `RepositoryProofs`: `RefsAlwaysClosed`, `StoredStaysDurable`,
  `CommitsAreFresh` and `IntactIsSpared`, for any objects, commits, Refs,
  clients, kills and power losses, and `OneProcessSurvivesPower`. The invariant
  has two parts. `IInv` is what the running processes keep: repairs that run at
  the same time have met (`Overlaps`), what a repair is about to move aside was
  damaged and still is unless it met another one (`QuarantineAims`), damage is
  decay (`DamageIsDecay`), and what a walk has verified is still intact or was
  lost since (`Fresh`). Its key lemma, `StepSpares`, is that with power only
  damage from outside and a repair that met another one take an intact object
  away. `DInv` relates what the processes see to the disk, and is what the step
  in which the power fails needs: the disk is behind the visible files and never
  ahead of them (`DiskFits`); an object that is visible and not on the disk is
  exposed or its writer is about to sync it (`Settled`); so what a walk has
  passed, a Ref needs or a put has reported is on the disk, exposed or decayed
  (`Relying`). A step of one client touches one object, and the others' part
  follows from `TouchedOnly`. `RefsSurvivePower`, which has no exception for
  exposed objects, is false for two clients, as `repository_power` shows.
* `DurableReviewProofs`: `JournalTells` (`JournalIsTrue`) and `FactsAreWriteOnce`
  (`RecordedFactsStay`), for any workers, proposals, keys, foreign writers and
  crashes. The other writers may put any Commit on the decision Ref, the base and
  the candidates included, at any time. The invariant rests on what the history of
  the Ref keeps nevertheless: it starts at the base, and the workflow's own entries
  are steps from the base to a candidate (`LogShape`). That such a step happened, or
  that the Ref had left the base before the candidate was ever on it, stays true
  whatever is appended (`Happened`, `Missed`).
  What a worker has found out before its next step is of this kind, or a fact of
  a row that no step takes back (`Knows`, `Grows`), and a Decision in the history
  was registered and armed before (`HistoryIsArmed`).
* `LocalServiceProofs`: `RegistryTells` (`RegistryIsTrue`), for any projects,
  sessions, threads, foreign moves and restarts. The invariant ties an entry in
  flight to the one call that holds the writer mutex of its project (`Owns`,
  `EntryFits`), says what that call has done to its session (`Knows`), and that a
  session this server began has an entry, and one only (`SessionFits`, `OneEntry`).
  The limits are counted with cardinalities of finite sets.
* `PublicationGuardProofs`, about approvals and the gate. `ApprovalsStaySound`
  (`ApprovalsAreSound`), for any threads, sessions and projects and any wall clock.
  The invariant: the last observation of the clock is the latest (`ClockFits`); a
  record or an issue that still has its project's epoch has seen every revocation
  (`Current`); a serial is in the registry, in the hands of one claim, or spent
  (`SerialFits`). The two locks of a call are separate steps, so the invariant
  speaks of what a call read under the first one (`CallFits`).
  `ServingNeverOverflows`, `NoWakeupIsLost` and the refinement
  `GateImplementsFifoLock`, whose mapping takes the queue to be the threads with
  tickets in ticket order and the holder to be the thread that is inside. The
  invariant: tickets held are distinct, in range, without a gap from the one
  being served.
* `ApplicationProofs`: `PublicationsStaySound` (`PublicationsAreSound`) and
  `PublishesUnderLiveAuthority` (`PublishesOnlyWhileAuthorized`), for any
  threads, times to live and sets of calls. The invariant: whoever is between
  the check inside the gate and the commit is the gate's holder and its permit
  is in force (`Fits`), because whatever changes the authority needs the gate
  too; a registration's serial is a registration, a permit, in the hands of one
  thread that has not tried, or used (`ExecutionFits`); what a thread has seen
  of the clock lies between the issue and the end of its permit.
* `ConfirmationsProofs`: `AnswersAreKept` (`AnswersStayTrue`) and `ReusedStaysOpen`
  (`ReusedIsNeverDecided`), for any threads, sessions, starting states, restarts and
  other processes. The invariant `DeskInv`: a lock is held exactly from the step
  that takes it to the answer (`LocksAreHeld`), from which it follows that a holder
  of both locks took the stages first and that some holder can go on; an id is a
  confirmation, a stage, cancelled or spent, where only a begin that was answered
  with success spends a confirmation (`IdsAreApart`), and the id of a call
  that has looked it up and not begun is nobody else's (`ArmedIsAlone`), which is
  what the writer mutex around lookup and begin is for; an fsck that is about to
  record its result has seen the present objects (`FsckIsFresh`); and a reused
  review is not open here, because a decision under way shows as `deciding` until
  its call ends (`ReusedIsClosed`).
* `HttpServerProofs`: `LimitsAreKept` (`ServerLimitsHold`) and
  `AcceptedStaysPollable` (`AcceptedIsPollable`), for any finite set of
  requests, any gates and limits, and clients that go away at any step. The
  invariant `HttpInv`: nobody is in a queue twice and no gate is held by more
  than its limit (`GatesAreSound`), a request waits and holds what its step says
  (`QueuedWell`, `HoldsItsGates`), its directory lives from its creation to the
  end of the upload, closures of dropped handlers included (`StagedWell`), and
  the order of admission lists existing entries with times up to the last one
  handed out (`RegistryIsSound`). A step of one request leaves the others' part
  of the invariant alone (`OthersSound`), so that each action is argued about
  one request. The bound on staged bytes is stated as two facts, at most
  `MaxUploads` directories with bytes and at most `MaxAggregate` in each, as a
  sum over a set would need induction.

`Application` is checked with several values of its constants: suites extend it
and instantiate it. What it and `ApprovalRegistry` assume of their constants is
therefore a definition (`ApplicationAssumption`, `RegistryAssumption`) and a
hypothesis of each of their theorems, and the suite `MCApplication` assumes it of
all its instances (`PartsAssumption`).

Each inductive invariant was checked with TLC on the instance of its run before
it was proved. `LogIsAppendOnly`, `ServingNeverOverflows` and `NoWakeupIsLost` are
proved and in no run. Liveness properties and everything about
the other modules are model-checked only. Liveness under fairness
and induction over data are outside the prover's reach; the pure parts with
recursive definitions are therefore checked over bounded inputs.

## 5. Limits met while modelling

The models follow the code in these points. No property contradicts them; a
reader of the code may want to know them.

* `RepairReport.held_back` is empty when no Record is damaged, also if blobs stay
  unrepaired.
* A repair that is killed after it moved a damaged Tombstone Record aside, and is
  repeated without a source that has it, no longer knows of the Tombstone.
* Records that are added between an export's Tombstone scan and its listing can
  make an archive larger than a restore accepts.
* A rebuild commits an object as present that vanished after its second read. A
  query of several statements does not run in one transaction.
* After the rename, a failing sync makes a bundle export or an inbox put return
  an error although the result is visible.
* A JPEG whose XMP has a position and appended media is reported as having a
  position; the appended media are not mentioned.
* A project takes no proposals after about 10,000 commits. The last one admitted
  leads to a decision that the descent proof refuses, one commit beyond its bound.
* `prepare_next` accepts a configuration with another `recorded_at`; the descent
  proof then refuses the whole history.
* A manifest may have more directories than the readers visit (100,000).
* The AI route accepts proposals that the human route cannot decide for one of
  the reasons in `ReviewerDemands` (`Authority`).
* An upload that is dropped while a file is being opened may leave its staging
  directory; so does a killed server. A begin from a staged import consumes the
  stage even if it then fails, and holds the lock of all stages while it waits
  for the project's writer.
* In a report's comparison `recorded_at` and the descriptive fields of the tool's
  Actor are not compared with anything; the report shows none of them.
* A bundle's manifest may lose its renderer profile, if it is an unlocalized
  Creator one, and is then verified as one of the older format.

## 6. Plan

What is left are proofs: `Publication` (`DestinationIsWhole`) and `Archive`.

## 7. What is not modelled

* Byte-level encodings: canonical JSON and hashing, schema rules, scaled integers
  and timestamps, inflation and XMP text. They are pure verdicts on one document;
  identity is injective and documents are valid in every module.
* Renderers, views, message catalogs, routing, host, origin and token checks,
  argument parsing: output of modelled state, or filters in front of it.
* The fsck of the whole snapshot and the capacity reservation with which the
  creator's calls and reports begin (`session.rs:359-403`, `743-752`,
  `report.rs:644-663`): they refuse, and change nothing. `Fsck` has the walk itself.
* The overflow of the `u64` epochs and serials of approvals (`approval.rs:169-188`).
* `ArchiveInspectionBudget`, the length check of an object that grows while fsck
  reads it (it counts as damage), capacity reservation for fsck, the recording
  clock of the creator, the project catalog file, writing a checkout to disk.
* Packaging, deployment, documents.

`PROJECT.json` lists every component with its status.

## 8. Running

```
tlc -workers 2 -config MCRefStore.cfg MCRefStore
tlapm RefStoreProofs.tla
```

Each run takes less than five minutes on two workers, the longest proof
(`LocalServiceProofs`) about ten minutes. A leaf of a proof goes to Zenon unless it
cites SMT.
