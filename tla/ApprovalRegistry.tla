-------------------------- MODULE ApprovalRegistry --------------------------
(***************************************************************************)
(* The host's registry of one-shot approvals for artifact Decisions        *)
(* (synapse-artifact, approval.rs), and the process-wide clock that it and *)
(* the Core read (synapse-core, authorization.rs, SystemAuthorizationClock). *)
(*                                                                         *)
(* Threads share one registry behind a mutex.  Issuing and claiming each   *)
(* take that mutex twice, and read the clock between the two, so grants,   *)
(* revocations and other threads fall in between.  A session is what the   *)
(* host's authenticator answers for a credential.  The wall clock may jump *)
(* in both directions; the monotonic one only advances.                    *)
(***************************************************************************)
EXTENDS Naturals

CONSTANTS Callers,              \* threads
          Sessions,             \* a session is [actor, id]
          Reviews, ProjectOf,   \* pending reviews and the project of each
          Intents,              \* what decision_intent_sha256 tells apart
          ApprovalTtl, MaxWall, MaxMono, MaxIssued, MaxChanges, NoClock, NoWork

VARIABLES projects,     \* per project, the security epoch and the members
          approvals,    \* the records not yet claimed, by serial
          free_serial,  \* next_serial: the serial of the next approval
          ready,        \* the reviews that are still Ready
          mono, clock,  \* monotonic time, and the clock's last observation
          latest,       \* the latest time that any thread has observed
          work,         \* what each thread is doing
          changes,      \* changes of membership so far
          revoked,      \* effective revocations of each actor in each project
          untried,      \* the records issued that no claim has named yet
          claimed       \* how often the claim of each serial succeeded

registryVars == <<projects, approvals, free_serial, ready, mono, clock, latest, work, changes,
                  revoked, untried, claimed>>

Projects == {ProjectOf[r] : r \in Reviews}
Actors == {s.actor : s \in Sessions}

\* time is counted, and a clock that was never read is no observation
RegistryAssumption ==
    /\ ApprovalTtl \in Nat
    /\ NoClock \notin [last : Nat, at : Nat]

Allowed(p, actor) == actor \in projects[p].allowed

RegistryInit ==
    /\ projects = [p \in Projects |-> [epoch |-> 1, allowed |-> {}]]
    /\ approvals = << >>
    /\ free_serial = 1
    /\ ready = Reviews
    /\ mono = 0
    /\ clock = NoClock
    /\ latest = 0
    /\ work = [t \in Callers |-> NoWork]
    /\ changes = 0
    /\ revoked = [p \in Projects |-> [a \in Actors |-> 0]]
    /\ untried = << >>
    /\ claimed = [n \in 1 .. MaxIssued |-> 0]

-----------------------------------------------------------------------------
(* The clock *)

\* what an observation of the wall clock returns: never less than the last
\* one plus the monotonic time since then
observe(wall) ==
    IF clock = NoClock THEN wall
    ELSE LET floor == clock.last + (mono - clock.at)
         IN  IF wall > floor THEN wall ELSE floor

now_unix_nanos(wall) ==
    /\ clock' = [last |-> observe(wall), at |-> mono]
    /\ latest' = IF observe(wall) > latest THEN observe(wall) ELSE latest

\* monotonic time passes
MonoTick ==
    /\ mono < MaxMono
    /\ mono' = mono + 1
    /\ UNCHANGED <<projects, approvals, free_serial, ready, clock, latest, work, changes, revoked,
                   untried, claimed>>

-----------------------------------------------------------------------------
(* Membership *)

grant_project_access(p, actor) ==
    /\ changes < MaxChanges /\ ~Allowed(p, actor)
    /\ projects' = [projects EXCEPT ![p] =
                      [epoch |-> @.epoch + 1, allowed |-> @.allowed \union {actor}]]
    /\ changes' = changes + 1
    /\ UNCHANGED <<approvals, free_serial, ready, mono, clock, latest, work, revoked, untried, claimed>>

revoke_project_access(p, actor) ==
    /\ changes < MaxChanges /\ Allowed(p, actor)
    /\ projects' = [projects EXCEPT ![p] =
                      [epoch |-> @.epoch + 1, allowed |-> @.allowed \ {actor}]]
    /\ changes' = changes + 1
    /\ revoked' = [revoked EXCEPT ![p][actor] = @ + 1]
    /\ UNCHANGED <<approvals, free_serial, ready, mono, clock, latest, work, untried, claimed>>

-----------------------------------------------------------------------------
(* Issuing an approval *)

Moves(t, c) == work' = [work EXCEPT ![t] = c]

\* authenticated; the first lock reads the epoch, and the review must be Ready
issue_artifact_decision(t) ==
    /\ work[t] = NoWork /\ free_serial <= MaxIssued
    /\ \E s \in Sessions, r \in ready, i \in Intents :
         LET p == ProjectOf[r]
         IN  /\ Allowed(p, s.actor)
             /\ Moves(t, [step |-> "issuing", session |-> s, review |-> r, intent |-> i,
                          epoch |-> projects[p].epoch, before |-> revoked[p][s.actor],
                          now |-> 0])
    /\ UNCHANGED <<projects, approvals, free_serial, ready, mono, clock, latest, changes, revoked,
                   untried, claimed>>

\* the clock is read; a clock that fails ends the call
IssueReadsTime(t) ==
    /\ work[t] # NoWork /\ work[t].step = "issuing"
    /\ \/ \E wall \in 0 .. MaxWall :
            /\ now_unix_nanos(wall)
            /\ Moves(t, [work[t] EXCEPT !.step = "insert", !.now = clock'.last])
       \/ Moves(t, NoWork) /\ UNCHANGED <<clock, latest>>
    /\ UNCHANGED <<projects, approvals, free_serial, ready, mono, changes, revoked, untried,
                   claimed>>

\* mutant: the epoch is not compared at the second lock
StillAllowed_Member(c) == Allowed(ProjectOf[c.review], c.session.actor)

\* the second lock: the same epoch as at the first, and still a member
StillAllowed(c) ==
    LET security == projects[ProjectOf[c.review]]
    IN  security.epoch = c.epoch /\ c.session.actor \in security.allowed

\* the records that an issue purges before it inserts its own
Expired(record, now) == record.not_after <= now

\* what is left of `records` in `kept`, and a record under the next serial
Inserted(records, kept, record) ==
    [n \in kept \union {free_serial} |-> IF n = free_serial THEN record ELSE records[n]]

InsertApproval(t) ==
    /\ work[t] # NoWork /\ work[t].step = "insert"
    /\ LET c == work[t]
           record == [actor |-> c.session.actor, session |-> c.session.id,
                      review |-> c.review, intent |-> c.intent,
                      epoch |-> projects[ProjectOf[c.review]].epoch,
                      issued |-> c.now, not_after |-> c.now + ApprovalTtl, before |-> c.before]
           kept == {n \in DOMAIN approvals : ~Expired(approvals[n], c.now)}
       IN  \/ /\ StillAllowed(c) /\ free_serial <= MaxIssued
              /\ approvals' = Inserted(approvals, kept, record)
              /\ untried' = Inserted(untried, DOMAIN untried, record)
              /\ free_serial' = free_serial + 1
           \/ /\ ~StillAllowed(c)
              /\ UNCHANGED <<approvals, untried, free_serial>>
    /\ Moves(t, NoWork)
    /\ UNCHANGED <<projects, ready, mono, clock, latest, changes, revoked, claimed>>

-----------------------------------------------------------------------------
(* Claiming it *)

Observed(time) == latest >= time

\* an approval is taken out for good
burn(n) == approvals' = [m \in DOMAIN approvals \ {n} |-> approvals[m]]

\* authenticated; under the first lock the record is looked up, the caller's
\* membership checked, and the record removed
claim_artifact_decision(t) ==
    /\ work[t] = NoWork
    /\ \E n \in DOMAIN approvals, s \in Sessions, r \in Reviews, i \in Intents :
         /\ Allowed(ProjectOf[approvals[n].review], s.actor)
         /\ burn(n)
         /\ untried' = [m \in DOMAIN untried \ {n} |-> untried[m]]
         /\ Moves(t, [step |-> "claiming", serial |-> n, record |-> approvals[n],
                      session |-> s, review |-> r, intent |-> i,
                      late |-> Observed(approvals[n].not_after), now |-> 0])
    /\ UNCHANGED <<projects, free_serial, ready, mono, clock, latest, changes, revoked, claimed>>

ClaimReadsTime(t) ==
    /\ work[t] # NoWork /\ work[t].step = "claiming"
    /\ \/ \E wall \in 0 .. MaxWall :
            /\ now_unix_nanos(wall)
            /\ Moves(t, [work[t] EXCEPT !.step = "validate", !.now = clock'.last])
       \/ Moves(t, NoWork) /\ UNCHANGED <<clock, latest>>
    /\ UNCHANGED <<projects, approvals, free_serial, ready, mono, changes, revoked, untried,
                   claimed>>

\* everything that the claim compares under the second lock
Valid(c) ==
    LET record == c.record
        security == projects[ProjectOf[record.review]]
    IN  /\ c.review \in ready
        /\ record.actor = c.session.actor /\ record.session = c.session.id
        /\ record.review = c.review /\ record.intent = c.intent
        /\ record.issued <= c.now /\ c.now < record.not_after
        /\ security.epoch = record.epoch /\ c.session.actor \in security.allowed

ValidateClaim(t) ==
    /\ work[t] # NoWork /\ work[t].step = "validate"
    /\ claimed' = [claimed EXCEPT ![work[t].serial] = @ + (IF Valid(work[t]) THEN 1 ELSE 0)]
    /\ Moves(t, NoWork)
    /\ UNCHANGED <<projects, approvals, free_serial, ready, mono, clock, latest, changes, revoked, untried>>

\* the workflow consumes a review
ConsumeReview(r) ==
    /\ r \in ready
    /\ ready' = ready \ {r}
    /\ UNCHANGED <<projects, approvals, free_serial, mono, clock, latest, work, changes, revoked,
                   untried, claimed>>

RegistryNext ==
    \/ MonoTick
    \/ \E p \in Projects, a \in Actors : grant_project_access(p, a) \/ revoke_project_access(p, a)
    \/ \E t \in Callers : \/ issue_artifact_decision(t) \/ IssueReadsTime(t) \/ InsertApproval(t)
                          \/ claim_artifact_decision(t) \/ ClaimReadsTime(t) \/ ValidateClaim(t)
    \/ \E r \in Reviews : ConsumeReview(r)

RegistrySpec == RegistryInit /\ [][RegistryNext]_registryVars

-----------------------------------------------------------------------------
(* Properties *)

Succeeds(t) ==
    work[t] # NoWork /\ work[t].step = "validate" /\ Valid(work[t])

\* A revocation of an actor in a project reaches every approval whose issue
\* had begun before it, also one that was not yet in the registry, and also
\* when the actor is granted access again (revoke_project_access, the epoch
\* comparisons of issue_artifact_decision and claim_artifact_decision).
RevocationReaches ==
    \A t \in Callers : Succeeds(t) =>
        LET record == work[t].record
        IN  revoked[ProjectOf[record.review]][record.actor] = record.before

\* An approval is claimed at most once, however many threads present its
\* handle at the same time (the removal in claim_artifact_decision).
ClaimedOnce == \A n \in DOMAIN claimed : claimed[n] <= 1

\* Once any thread has observed that an approval's time is over, no later
\* claim of it succeeds, although the wall clock may move backwards
\* (SystemAuthorizationClockState::observe).
ExpiredStaysExpired == \A t \in Callers : Succeeds(t) => ~work[t].late

\* An approval that nobody has tried to claim and whose time nobody has
\* observed to be over is still in the registry (the purge of
\* issue_artifact_decision).
UntriedIsKept ==
    \A n \in DOMAIN untried : n \in DOMAIN approvals \/ Observed(untried[n].not_after)

\* An approval is good for one claim within its time.  It is claimed at most
\* once, however many threads present its handle; a revocation reaches it if its
\* issue had begun before, even when it was not yet in the registry or the actor
\* is granted access again; once its time was observed to be over no claim
\* succeeds, although the wall clock may move backwards; and until then, or
\* until somebody tries to claim it, it is kept (approval.rs,
\* issue_artifact_decision, claim_artifact_decision, revoke_project_access).
ApprovalsAreSound ==
    /\ ClaimedOnce
    /\ RevocationReaches
    /\ ExpiredStaysExpired
    /\ UntriedIsKept
=============================================================================
