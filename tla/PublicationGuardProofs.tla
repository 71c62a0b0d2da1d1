----------------------- MODULE PublicationGuardProofs -----------------------
(***************************************************************************)
(* What stands between a request to publish and the publication: the       *)
(* approval it has to claim, and the gate at which it queues.              *)
(*                                                                         *)
(* Approvals are sound for any threads, sessions, projects and reviews,    *)
(* any number of grants and revocations, and any behaviour of the wall     *)
(* clock.  The argument has three parts.  The clock: its last observation  *)
(* is the latest of all (ClockFits), so what one thread saw expired, a     *)
(* later observation finds expired.  The epoch: every change of membership *)
(* raises it, so a record or an issue that still has the project's epoch   *)
(* has seen every revocation (Current).  The serials: a record is in the   *)
(* registry, in the hands of one claim, or spent (SerialFits).             *)
(*                                                                         *)
(* For any number of threads and any ticket limit the gate is a FIFO lock  *)
(* that loses no wakeup and whose serving counter cannot overflow.         *)
(***************************************************************************)
EXTENDS ApprovalRegistry, FairGate, SequenceTheorems, TLAPS

\* Leaves are first-order; those about numbers, records and sequences cite SMT.
USE ZenonT(40)

-----------------------------------------------------------------------------
(* The approvals *)

Issuing(c) == c.step \in {"issuing", "insert"}

Claiming(c) == c.step \in {"claiming", "validate"}

Record ==
    [actor : Actors, session : {s.id : s \in Sessions}, review : Reviews, intent : Intents,
     epoch : Nat, issued : Nat, not_after : Nat, before : Nat]

Issue ==
    [step : {"issuing", "insert"}, session : Sessions, review : Reviews, intent : Intents,
     epoch : Nat, before : Nat, now : Nat]

Claim ==
    [step : {"claiming", "validate"}, serial : Nat, record : Record, session : Sessions,
     review : Reviews, intent : Intents, late : BOOLEAN, now : Nat]

ApprovalTypeOK ==
    /\ projects \in [Projects -> [epoch : Nat, allowed : SUBSET Actors]]
    /\ free_serial \in Nat \ {0}
    /\ ready \subseteq Reviews
    /\ mono \in Nat /\ latest \in Nat
    /\ clock \in {NoClock} \union [last : Nat, at : Nat]
    /\ work \in [Callers -> {NoWork} \union Issue \union Claim]
    /\ revoked \in [Projects -> [Actors -> Nat]]
    /\ claimed \in [1 .. MaxIssued -> Nat]
    /\ approvals \in [DOMAIN approvals -> Record]
    /\ untried \in [DOMAIN untried -> Record]

\* the last observation is the latest, and was made in the past
ClockFits ==
    IF clock = NoClock THEN latest = 0 ELSE latest = clock.last /\ clock.at <= mono

\* an epoch of a project, as far as it is the present one, counts all revocations
Current(p, actor, epoch, before) ==
    /\ epoch <= projects[p].epoch
    /\ epoch = projects[p].epoch => before = revoked[p][actor]

RecordFits(r) == Current(ProjectOf[r.review], r.actor, r.epoch, r.before)

\* a call that has read the time has read one that is observed; a claim that
\* began after the expiry of its record was observed has read a time after it
CallFits(c) ==
    /\ Issuing(c) => Current(ProjectOf[c.review], c.session.actor, c.epoch, c.before)
    /\ c.step \in {"insert", "validate"} => c.now <= latest
    /\ Claiming(c) => /\ c.serial \in 1 .. MaxIssued /\ c.serial < free_serial
                      /\ RecordFits(c.record)
                      /\ c.late => Observed(c.record.not_after)
                      /\ c.step = "validate" /\ c.late => c.record.not_after <= c.now

Holds(t, n) == work[t] # NoWork /\ Claiming(work[t]) /\ work[t].serial = n

\* a serial in the registry, or not given out yet, is held by no claim and not
\* spent; nor is one that a claim holds, which holds it alone
SerialFits(n) ==
    /\ claimed[n] <= 1
    /\ n \in DOMAIN approvals \/ n >= free_serial =>
         claimed[n] = 0 /\ \A t \in Callers : ~Holds(t, n)
    /\ \A t \in Callers : Holds(t, n) =>
         claimed[n] = 0 /\ \A u \in Callers : Holds(u, n) => u = t

\* a record that nobody has tried is in the registry, or observed to be over
UntriedFits(n) ==
    IF n \in DOMAIN approvals THEN approvals[n] = untried[n]
    ELSE Observed(untried[n].not_after)

ApprovalInv ==
    /\ ApprovalTypeOK
    /\ ClockFits
    /\ \A n \in DOMAIN approvals :
          n \in 1 .. MaxIssued /\ n < free_serial /\ RecordFits(approvals[n])
    /\ \A n \in DOMAIN untried : n \in Nat /\ n < free_serial /\ UntriedFits(n)
    /\ \A t \in Callers : work[t] # NoWork => CallFits(work[t])
    /\ \A n \in 1 .. MaxIssued : SerialFits(n)

-----------------------------------------------------------------------------
(* What a step leaves of the records and the calls *)

\* Nobody's membership changes: a call that fitted still does, for serials and
\* the observed time only grow.
LEMMA CallStays ==
    ASSUME ApprovalTypeOK, NEW c \in Issue \union Claim, CallFits(c),
           UNCHANGED <<projects, revoked>>,
           free_serial' \in Nat, free_serial <= free_serial',
           latest' \in Nat, latest <= latest'
    PROVE  CallFits(c)'
<1>1. c.now \in Nat /\ latest \in Nat /\ free_serial \in Nat
    BY DEF ApprovalTypeOK, Issue, Claim
<1>2. ASSUME Claiming(c) PROVE c.record.not_after \in Nat
    BY <1>2 DEF Claiming, Issue, Claim, Record
<1>3. /\ \A k \in Nat : k <= latest => k <= latest'
      /\ \A k \in 1 .. MaxIssued : k < free_serial => k < free_serial'
    BY <1>1, SMTT(30)
<1> QED
    BY <1>1, <1>2, <1>3 DEF CallFits, Current, RecordFits, Observed, Issuing, Claiming

\* A change of membership raises the epoch of its project, so nothing that was
\* current in that project still is.
LEMMA EpochGrows ==
    ASSUME ApprovalTypeOK, NEW p \in Projects, NEW a \in Actors, NEW allowed \in SUBSET Actors,
           projects' = [projects EXCEPT ![p] = [epoch |-> @.epoch + 1, allowed |-> allowed]],
           \/ revoked' = revoked
           \/ revoked' = [revoked EXCEPT ![p][a] = @ + 1],
           NEW q \in Projects, NEW b \in Actors, NEW e \in Nat, NEW n,
           Current(q, b, e, n)
    PROVE  Current(q, b, e, n)'
<1>1. projects[p].epoch \in Nat /\ projects[q].epoch \in Nat
    BY DEF ApprovalTypeOK
<1>2. projects'[q].epoch = IF q = p THEN projects[p].epoch + 1 ELSE projects[q].epoch
    BY DEF ApprovalTypeOK
<1>3. q # p => revoked'[q] = revoked[q]
    BY DEF ApprovalTypeOK
<1> QED
    BY <1>1, <1>2, <1>3, SMTT(30) DEF Current

\* Reading the clock: the observation is a time that no thread has seen passed.
LEMMA Observation ==
    ASSUME RegistryAssumption, ApprovalTypeOK, ClockFits, NEW wall \in 0 .. MaxWall,
           now_unix_nanos(wall), mono' = mono
    PROVE  /\ clock' \in [last : Nat, at : Nat]
           /\ clock'.last \in Nat /\ clock'.last = latest'
           /\ latest' \in Nat /\ latest <= latest'
           /\ ClockFits'
<1> DEFINE seen == observe(wall)
<1>1. wall \in Nat /\ mono \in Nat /\ latest \in Nat
    BY SMTT(30) DEF ApprovalTypeOK
<1>2. seen \in Nat /\ latest <= seen
    <2>1. CASE clock = NoClock
        BY <2>1, <1>1, SMTT(30) DEF observe, ClockFits
    <2>2. CASE clock # NoClock
        <3>1. clock.last \in Nat /\ clock.at \in Nat
            BY <2>2 DEF ApprovalTypeOK
        <3> QED
            BY <2>2, <3>1, <1>1, SMTT(30) DEF observe, ClockFits
    <2> QED
        BY <2>1, <2>2
<1>3. clock' = [last |-> seen, at |-> mono]
    BY DEF now_unix_nanos
<1>4. latest' = seen
    BY <1>1, <1>2, SMTT(30) DEF now_unix_nanos
<1> HIDE DEF seen
<1>5. clock' \in [last : Nat, at : Nat] /\ clock' # NoClock
    BY <1>1, <1>2, <1>3, SMTT(30) DEF RegistryAssumption
<1> QED
    BY <1>1, <1>2, <1>3, <1>4, <1>5, SMTT(30) DEF ClockFits

-----------------------------------------------------------------------------
(* One lemma per action *)

\* Nothing has been issued, observed or claimed at the start.
LEMMA ApprovalInitInv ==
    ASSUME RegistryAssumption, RegistryInit
    PROVE  ApprovalInv
<1> USE DEF RegistryInit
<1>1. ApprovalTypeOK
    BY SMTT(30) DEF ApprovalTypeOK
<1>2. ClockFits
    BY DEF ClockFits
<1>3. \A n \in 1 .. MaxIssued : SerialFits(n)
    BY SMTT(30) DEF SerialFits, Holds
<1> QED
    BY <1>1, <1>2, <1>3, SMTT(30) DEF ApprovalInv

\* Time that passes leaves everything but the clock's distance from it.
LEMMA TickIInv ==
    ASSUME ApprovalInv, MonoTick
    PROVE  ApprovalInv'
<1>1. ApprovalTypeOK'
    BY SMTT(30) DEF ApprovalInv, ApprovalTypeOK, MonoTick
<1>2. ClockFits'
    BY SMTT(30) DEF ApprovalInv, ApprovalTypeOK, MonoTick, ClockFits
<1> QED
    BY <1>1, <1>2 DEF ApprovalInv, MonoTick, RecordFits, Current, UntriedFits, CallFits, SerialFits,
        Holds, Observed

\* A review that is consumed is none of the registry's state.
LEMMA ConsumeIInv ==
    ASSUME ApprovalInv, NEW r \in Reviews, ConsumeReview(r)
    PROVE  ApprovalInv'
BY DEF ApprovalInv, ApprovalTypeOK, ClockFits, ConsumeReview, RecordFits, Current, UntriedFits, CallFits,
    SerialFits, Holds, Observed

\* The records and calls of a well-typed state have projects and actors.
LEMMA Fields ==
    /\ \A r \in Record : /\ ProjectOf[r.review] \in Projects /\ r.actor \in Actors
                         /\ r.epoch \in Nat /\ r.not_after \in Nat /\ r.before \in Nat
    /\ \A c \in Issue : /\ ProjectOf[c.review] \in Projects /\ c.session.actor \in Actors
                        /\ c.epoch \in Nat /\ c.before \in Nat /\ c.now \in Nat
                        /\ Issuing(c) /\ ~Claiming(c)
    /\ \A c \in Claim : /\ c.record \in Record /\ c.serial \in Nat /\ c.now \in Nat
                        /\ c.late \in BOOLEAN /\ Claiming(c) /\ ~Issuing(c)
BY DEF Record, Issue, Claim, Projects, Actors, Issuing, Claiming

\* What fits as a value fits as a thread's call.
LEMMA SameCall ==
    ASSUME NEW u, NEW c, c = work'[u], CallFits(c)'
    PROVE  CallFits(work[u])'
BY DEF CallFits, RecordFits, Current, Observed, Issuing, Claiming

\* A grant or a revocation leaves the registry's records and calls fitting:
\* those of its project are no longer current.
LEMMA MembershipIInv ==
    ASSUME ApprovalInv, NEW p \in Projects, NEW a \in Actors,
           grant_project_access(p, a) \/ revoke_project_access(p, a)
    PROVE  ApprovalInv'
<1> USE DEF grant_project_access, revoke_project_access
<1>1. PICK allowed \in SUBSET Actors :
        projects' = [projects EXCEPT ![p] = [epoch |-> @.epoch + 1, allowed |-> allowed]]
    <2>1. projects[p].allowed \in SUBSET Actors
        BY DEF ApprovalInv, ApprovalTypeOK
    <2> QED
        BY <2>1
<1>2. revoked' = revoked \/ revoked' = [revoked EXCEPT ![p][a] = @ + 1]
    OBVIOUS
<1>3. UNCHANGED <<approvals, free_serial, ready, mono, clock, latest, work, untried, claimed>>
    OBVIOUS
<1> USE DEF ApprovalInv
<1>4. ApprovalTypeOK'
    <2>1. projects' \in [Projects -> [epoch : Nat, allowed : SUBSET Actors]]
        BY <1>1, SMTT(30) DEF ApprovalTypeOK
    <2>2. revoked' \in [Projects -> [Actors -> Nat]]
        <3>1. revoked \in [Projects -> [Actors -> Nat]] /\ revoked[p][a] + 1 \in Nat
            BY SMTT(30) DEF ApprovalTypeOK
        <3> QED
            BY <1>2, <3>1, SMTT(30)
    <2> QED
        BY <2>1, <2>2, <1>3 DEF ApprovalTypeOK
<1>5. ASSUME NEW r \in Record, RecordFits(r) PROVE RecordFits(r)'
    BY <1>1, <1>2, <1>5, EpochGrows, Fields DEF RecordFits
<1>6. ASSUME NEW n \in DOMAIN approvals PROVE RecordFits(approvals[n])'
    <2>1. PICK r \in Record : r = approvals[n] /\ r = approvals'[n]
        BY <1>3 DEF ApprovalTypeOK
    <2> QED
        BY <1>5, <2>1 DEF RecordFits
<1>7. ASSUME NEW c \in Issue \union Claim, CallFits(c) PROVE CallFits(c)'
    <2>1. CASE c \in Issue
        <3>1. Current(ProjectOf[c.review], c.session.actor, c.epoch, c.before)'
            BY <1>1, <1>2, <1>7, <2>1, EpochGrows, Fields DEF CallFits
        <3> QED
            BY <1>3, <1>7, <2>1, <3>1, Fields DEF CallFits
    <2>2. CASE c \in Claim
        <3>1. RecordFits(c.record)'
            BY <1>5, <1>7, <2>2, Fields DEF CallFits
        <3> QED
            BY <1>3, <1>7, <2>2, <3>1, Fields DEF CallFits, Observed
    <2> QED
        BY <2>1, <2>2
<1>8. ASSUME NEW t \in Callers, work'[t] # NoWork PROVE CallFits(work[t])'
    <2>1. PICK c \in Issue \union Claim : c = work[t] /\ c = work'[t] /\ CallFits(c)
        BY <1>3, <1>8 DEF ApprovalTypeOK
    <2>2. CallFits(c)'
        BY <1>7, <2>1
    <2> QED
        BY <2>1, <2>2, SameCall
<1>9. (ClockFits /\ \A n \in 1 .. MaxIssued : SerialFits(n))'
    BY <1>3 DEF ClockFits, SerialFits, Holds
<1>10. (\A n \in DOMAIN untried : n \in Nat /\ n < free_serial /\ UntriedFits(n))'
    BY <1>3 DEF UntriedFits, Observed
<1> QED
    BY <1>3, <1>4, <1>6, <1>8, <1>9, <1>10

\* A step of thread t that leaves the registry and the other calls alone: it is
\* enough to look at t's own call.
LEMMA OwnStep ==
    ASSUME ApprovalInv, NEW t \in Callers, NEW c \in {NoWork} \union Issue \union Claim,
           work' = [work EXCEPT ![t] = c],
           UNCHANGED <<projects, approvals, free_serial, ready, mono, revoked, untried, claimed>>,
           clock' \in {NoClock} \union [last : Nat, at : Nat],
           latest' \in Nat, latest <= latest', ClockFits',
           c # NoWork => CallFits(c)',
           c # NoWork /\ Claiming(c) => Holds(t, c.serial)
    PROVE  ApprovalInv'
<1> USE DEF ApprovalInv
<1>1. ApprovalTypeOK'
    BY DEF ApprovalTypeOK
<1>2. \A u \in Callers : work'[u] = IF u = t THEN c ELSE work[u]
    BY DEF ApprovalTypeOK
<1>3. ASSUME NEW u \in Callers, work'[u] # NoWork PROVE CallFits(work[u])'
    <2>1. PICK d \in Issue \union Claim : d = work'[u] /\ d # NoWork /\ (u # t => d = work[u])
        BY <1>2, <1>3 DEF ApprovalTypeOK
    <2>2. CallFits(d)'
        BY <1>2, <2>1, CallStays, SMTT(30) DEF ApprovalTypeOK
    <2> QED
        BY <2>1, <2>2, SameCall
<1>4. (\A n \in DOMAIN approvals :
         n \in 1 .. MaxIssued /\ n < free_serial /\ RecordFits(approvals[n]))'
    BY DEF RecordFits, Current
<1>5. (\A n \in DOMAIN untried : n \in Nat /\ n < free_serial /\ UntriedFits(n))'
    BY Fields, SMTT(30) DEF UntriedFits, Observed, ApprovalTypeOK
<1>6. ASSUME NEW n \in 1 .. MaxIssued PROVE SerialFits(n)'
    <2>1. \A u \in Callers : Holds(u, n)' => Holds(u, n)
        BY <1>2 DEF Holds
    <2> QED
        BY <2>1 DEF SerialFits
<1> QED
    BY <1>1, <1>3, <1>4, <1>5, <1>6

\* The first lock of an issue reads the epoch and the revocations so far.
LEMMA IssueIInv ==
    ASSUME ApprovalInv, NEW t \in Callers, issue_artifact_decision(t)
    PROVE  ApprovalInv'
<1>1. PICK s \in Sessions, r \in ready, i \in Intents :
        work' = [work EXCEPT ![t] =
          [step |-> "issuing", session |-> s, review |-> r, intent |-> i,
           epoch |-> projects[ProjectOf[r]].epoch,
           before |-> revoked[ProjectOf[r]][s.actor], now |-> 0]]
    BY DEF issue_artifact_decision, Moves
<1> DEFINE q == ProjectOf[r]
           c == [step |-> "issuing", session |-> s, review |-> r, intent |-> i,
                 epoch |-> projects[q].epoch, before |-> revoked[q][s.actor], now |-> 0]
<1>2. q \in Projects /\ s.actor \in Actors /\ r \in Reviews
    BY DEF Projects, Actors, ApprovalInv, ApprovalTypeOK
<1>3. projects[q].epoch \in Nat /\ revoked[q][s.actor] \in Nat
    BY <1>2, SMTT(30) DEF ApprovalInv, ApprovalTypeOK
<1>4. c \in Issue
    BY <1>2, <1>3 DEF Issue
<1>5. UNCHANGED <<projects, approvals, free_serial, ready, mono, clock, latest, revoked,
                  untried, claimed>>
    BY DEF issue_artifact_decision
<1>6. PICK d \in Issue : d = c
    BY <1>4
<1>7. CallFits(d)'
    BY <1>3, <1>5, <1>6, SMTT(30) DEF CallFits, Current, Issuing, Claiming
<1>8. ClockFits' /\ latest \in Nat /\ clock \in {NoClock} \union [last : Nat, at : Nat]
    BY <1>5 DEF ApprovalInv, ClockFits, ApprovalTypeOK
<1>9. work' = [work EXCEPT ![t] = d] /\ ~Claiming(d) /\ latest <= latest'
    BY <1>1, <1>5, <1>6, <1>8, Fields, SMTT(30)
<1> HIDE DEF c
<1> QED
    BY <1>5, <1>7, <1>8, <1>9, OwnStep

\* A call that ends without a change of the registry.
LEMMA EndIInv ==
    ASSUME ApprovalInv, NEW t \in Callers, Moves(t, NoWork),
           UNCHANGED <<projects, approvals, free_serial, ready, mono, clock, latest, revoked,
                       untried, claimed>>
    PROVE  ApprovalInv'
<1>1. ClockFits' /\ latest \in Nat /\ clock \in {NoClock} \union [last : Nat, at : Nat]
    BY DEF ApprovalInv, ClockFits, ApprovalTypeOK
<1>2. latest <= latest' /\ work' = [work EXCEPT ![t] = NoWork]
    BY <1>1, SMTT(30) DEF Moves
<1> QED
    BY <1>1, <1>2, OwnStep

\* An issue reads a time that is observed from then on.
LEMMA IssueReadsTimeIInv ==
    ASSUME RegistryAssumption, ApprovalInv, NEW t \in Callers, IssueReadsTime(t)
    PROVE  ApprovalInv'
<1> USE DEF IssueReadsTime
<1>1. CASE Moves(t, NoWork) /\ UNCHANGED <<clock, latest>>
    BY <1>1, EndIInv
<1>2. CASE \E wall \in 0 .. MaxWall :
             /\ now_unix_nanos(wall)
             /\ Moves(t, [work[t] EXCEPT !.step = "insert", !.now = clock'.last])
    <2>1. PICK wall \in 0 .. MaxWall : now_unix_nanos(wall)
        BY <1>2
    <2>2. /\ clock' \in [last : Nat, at : Nat] /\ clock'.last \in Nat
          /\ clock'.last = latest' /\ latest' \in Nat /\ latest <= latest' /\ ClockFits'
        BY <2>1, Observation DEF ApprovalInv
    <2>3. PICK e \in Issue : e = work[t] /\ CallFits(e)
        BY DEF ApprovalInv, ApprovalTypeOK, Claim
    <2>4. PICK d : d = [e EXCEPT !.step = "insert", !.now = clock'.last]
        OBVIOUS
    <2>5. /\ d \in Issue /\ d.review = e.review /\ d.session = e.session
          /\ d.epoch = e.epoch /\ d.before = e.before /\ d.now = latest'
        BY <2>2, <2>4 DEF Issue
    <2>6. CallFits(d)'
        <3>1. Current(ProjectOf[e.review], e.session.actor, e.epoch, e.before)
            BY <2>3, Fields DEF CallFits
        <3>2. latest' <= latest'
            BY <2>2, SMTT(30)
        <3> QED
            BY <2>2, <2>5, <3>1, <3>2, Fields DEF CallFits, Current
    <2>7. work' = [work EXCEPT ![t] = d]
        BY <1>2, <2>3, <2>4 DEF Moves
    <2> QED
        BY <2>2, <2>5, <2>6, <2>7, OwnStep, Fields
<1> QED
    BY <1>1, <1>2

\* A claim reads a time at which all that was observed before is over.
LEMMA ClaimReadsTimeIInv ==
    ASSUME RegistryAssumption, ApprovalInv, NEW t \in Callers, ClaimReadsTime(t)
    PROVE  ApprovalInv'
<1> USE DEF ClaimReadsTime
<1>1. CASE Moves(t, NoWork) /\ UNCHANGED <<clock, latest>>
    BY <1>1, EndIInv
<1>2. CASE \E wall \in 0 .. MaxWall :
             /\ now_unix_nanos(wall)
             /\ Moves(t, [work[t] EXCEPT !.step = "validate", !.now = clock'.last])
    <2>1. PICK wall \in 0 .. MaxWall : now_unix_nanos(wall)
        BY <1>2
    <2>2. /\ clock' \in [last : Nat, at : Nat] /\ clock'.last \in Nat
          /\ clock'.last = latest' /\ latest' \in Nat /\ latest <= latest' /\ ClockFits'
        BY <2>1, Observation DEF ApprovalInv
    <2>3. PICK e \in Claim : e = work[t] /\ CallFits(e)
        BY DEF ApprovalInv, ApprovalTypeOK, Issue
    <2>4. PICK d : d = [e EXCEPT !.step = "validate", !.now = clock'.last]
        OBVIOUS
    <2>5. /\ d \in Claim /\ d.serial = e.serial /\ d.record = e.record
          /\ d.late = e.late /\ d.now = latest'
        BY <2>2, <2>4 DEF Claim
    <2>6. CallFits(d)'
        <3>1. CallFits(e)'
            BY <2>2, <2>3, CallStays, SMTT(30) DEF ApprovalInv, ApprovalTypeOK
        <3> QED
            BY <2>2, <2>5, <3>1, Fields, SMTT(30) DEF CallFits, Observed
    <2>7. work' = [work EXCEPT ![t] = d] /\ Holds(t, d.serial)
        BY <1>2, <2>3, <2>4, <2>5, Fields DEF Moves, Holds
    <2> QED
        BY <2>2, <2>5, <2>6, <2>7, OwnStep
<1> QED
    BY <1>1, <1>2

\* The second lock of an issue: a record under a new serial, of the present
\* epoch, and without the records whose end the issue's own time has passed.
LEMMA InsertIInv ==
    ASSUME RegistryAssumption, ApprovalInv, NEW t \in Callers, InsertApproval(t)
    PROVE  ApprovalInv'
<1>1. PICK c \in Issue : c = work[t] /\ c # NoWork /\ c.step = "insert" /\ CallFits(c)
    BY DEF InsertApproval, ApprovalInv, ApprovalTypeOK, Claim
<1>2. UNCHANGED <<projects, ready, mono, clock, latest, revoked, claimed>> /\ Moves(t, NoWork)
    BY DEF InsertApproval
<1>3. CASE ~StillAllowed(c)
    BY <1>1, <1>2, <1>3, EndIInv DEF InsertApproval
<1>4. CASE StillAllowed(c)
    <2> DEFINE q == ProjectOf[c.review]
               kept == {n \in DOMAIN approvals : ~Expired(approvals[n], c.now)}
    <2>1. PICK r :
            /\ r = [actor |-> c.session.actor, session |-> c.session.id, review |-> c.review,
                    intent |-> c.intent, epoch |-> projects[q].epoch, issued |-> c.now,
                    not_after |-> c.now + ApprovalTtl, before |-> c.before]
            /\ free_serial <= MaxIssued
            /\ approvals' = Inserted(approvals, kept, r)
            /\ untried' = Inserted(untried, DOMAIN untried, r)
            /\ free_serial' = free_serial + 1
        BY <1>1, <1>4 DEF InsertApproval
    <2>2. /\ c.session.actor \in Actors /\ c.session.id \in {s.id : s \in Sessions}
          /\ c.review \in Reviews /\ c.intent \in Intents /\ q \in Projects
          /\ c.epoch \in Nat /\ c.now \in Nat /\ c.before \in Nat
        BY Fields DEF Issue
    <2>3. projects[q].epoch \in Nat /\ projects[q].epoch = c.epoch
        BY <1>4, <2>2 DEF ApprovalInv, ApprovalTypeOK, StillAllowed
    <2>4. r \in Record /\ RecordFits(r) /\ r.not_after \in Nat
        <3>1. r \in Record
            BY <2>1, <2>2, <2>3, SMTT(30) DEF Record, RegistryAssumption
        <3>2. /\ r.actor = c.session.actor /\ r.review = c.review
              /\ r.epoch = projects[q].epoch /\ r.before = c.before
            BY <2>1
        <3>3. Current(q, c.session.actor, c.epoch, c.before)
            BY <1>1, Fields DEF CallFits
        <3> QED
            BY <2>2, <2>3, <3>1, <3>2, <3>3, Fields DEF RecordFits, Current
    <2> DEFINE new == free_serial
    <2>a. free_serial \in Nat \ {0} /\ free_serial <= MaxIssued /\ free_serial' = free_serial + 1
        BY <2>1 DEF ApprovalInv, ApprovalTypeOK
    <2>b. /\ free_serial' \in Nat \ {0} /\ free_serial < free_serial' /\ free_serial <= free_serial'
          /\ \A n \in Nat : n < free_serial => n < free_serial'
          /\ \A n \in 1 .. MaxIssued : /\ n \in Nat
                                       /\ n >= free_serial' => n >= free_serial
                                       /\ n = free_serial => n >= free_serial
        BY <2>a, SMTT(30)
    <2>5. new \in Nat \ {0} /\ new \in 1 .. MaxIssued
        BY <2>a, RegistryAssumption, SMTT(30) DEF RegistryAssumption
    <2>6. \A n \in DOMAIN approvals : n \in 1 .. MaxIssued /\ n < new /\ approvals[n] \in Record
                                      /\ RecordFits(approvals[n])
        BY DEF ApprovalInv, ApprovalTypeOK
    <2>7. \A n \in DOMAIN untried : n \in Nat /\ n < new /\ untried[n] \in Record
        BY DEF ApprovalInv, ApprovalTypeOK
    <2>8. /\ DOMAIN approvals' = kept \union {new}
          /\ approvals'[new] = r
          /\ \A n \in kept : approvals'[n] = approvals[n]
        BY <2>1, <2>5, <2>6, SMTT(30) DEF Inserted
    <2>9. /\ DOMAIN untried' = DOMAIN untried \union {new}
          /\ untried'[new] = r
          /\ \A n \in DOMAIN untried : untried'[n] = untried[n]
        BY <2>1, <2>5, <2>7, SMTT(30) DEF Inserted
    <2>10. ApprovalTypeOK'
        <3>1. approvals' \in [DOMAIN approvals' -> Record]
            BY <2>1, <2>4, <2>6, <2>8 DEF Inserted
        <3>2. untried' \in [DOMAIN untried' -> Record]
            BY <2>1, <2>4, <2>7, <2>9 DEF Inserted
        <3>3. work' \in [Callers -> {NoWork} \union Issue \union Claim]
            BY <1>2 DEF Moves, ApprovalInv, ApprovalTypeOK
        <3> QED
            BY <1>2, <2>b, <3>1, <3>2, <3>3 DEF ApprovalInv, ApprovalTypeOK
    <2>11. ClockFits'
        BY <1>2 DEF ApprovalInv, ClockFits
    <2>12. ASSUME NEW n \in DOMAIN approvals'
           PROVE  n \in 1 .. MaxIssued /\ n < free_serial' /\ RecordFits(approvals[n])'
        <3>1. PICK w : w = approvals'[n] /\ RecordFits(w)
            BY <2>4, <2>6, <2>8
        <3>2. n \in 1 .. MaxIssued /\ n < free_serial'
            BY <2>5, <2>6, <2>8, <2>b
        <3> QED
            BY <1>2, <3>1, <3>2 DEF RecordFits, Current
    <2>13. ASSUME NEW n \in DOMAIN untried'
           PROVE  n \in Nat /\ n < free_serial' /\ UntriedFits(n)'
        <3>1. CASE n = new
            <4>1. n \in Nat /\ n < free_serial'
                BY <2>5, <2>b, <3>1
            <4>2. n \in DOMAIN approvals' /\ approvals'[n] = r /\ untried'[n] = r
                BY <2>8, <2>9, <3>1
            <4> QED
                BY <4>1, <4>2 DEF UntriedFits
        <3>2. CASE n # new
            <4>1. n \in DOMAIN untried /\ UntriedFits(n) /\ n < new /\ untried[n] \in Record
                BY <2>7, <2>9, <3>2 DEF ApprovalInv
            <4>2. c.now \in Nat /\ latest \in Nat /\ c.now <= latest
                BY <1>1, <2>2 DEF ApprovalInv, ApprovalTypeOK, CallFits
            <4>3. n \in Nat /\ n < free_serial' /\ untried'[n] = untried[n] /\ latest' = latest
                BY <1>2, <2>7, <2>9, <2>b, <4>1
            <4>4. n \in DOMAIN approvals' <=> n \in kept
                BY <2>8, <3>2
            <4>5. CASE n \in kept
                BY <2>8, <4>1, <4>3, <4>4, <4>5 DEF UntriedFits
            <4>6. CASE n \notin kept
                <5>1. untried[n].not_after \in Nat
                    BY <4>1, Fields
                <5>2. Observed(untried[n].not_after)
                    BY <4>1, <4>2, <4>6, <5>1, SMTT(30) DEF UntriedFits, Observed, Expired
                <5> QED
                    BY <4>3, <4>4, <4>6, <5>2 DEF UntriedFits, Observed
            <4> QED
                BY <4>5, <4>6
        <3> QED
            BY <3>1, <3>2
    <2>14. \A u \in Callers : work'[u] = IF u = t THEN NoWork ELSE work[u]
        BY <1>2 DEF Moves, ApprovalInv, ApprovalTypeOK
    <2>15. ASSUME NEW u \in Callers, work'[u] # NoWork PROVE CallFits(work[u])'
        <3>1. PICK d \in Issue \union Claim : d = work'[u] /\ d = work[u] /\ CallFits(d)
            BY <2>14, <2>15 DEF ApprovalInv, ApprovalTypeOK
        <3>2. CallFits(d)'
            <4>1. /\ latest' \in Nat /\ latest <= latest'
                  /\ free_serial' \in Nat /\ free_serial <= free_serial'
                <5>1. latest \in Nat /\ latest' = latest
                    BY <1>2 DEF ApprovalInv, ApprovalTypeOK
                <5>2. latest <= latest
                    BY <5>1, SMTT(30)
                <5> QED
                    BY <2>b, <5>1, <5>2
            <4> QED
                BY <1>2, <3>1, <4>1, CallStays DEF ApprovalInv
        <3> QED
            BY <3>1, <3>2, SameCall
    <2>16. ASSUME NEW n \in 1 .. MaxIssued PROVE SerialFits(n)'
        <3>1. \A u \in Callers : Holds(u, n)' => Holds(u, n)
            BY <2>14 DEF Holds
        <3>2. SerialFits(n) /\ claimed'[n] = claimed[n]
            BY <1>2 DEF ApprovalInv
        <3>3. n \in DOMAIN approvals' \/ n >= free_serial' => n \in DOMAIN approvals \/ n >= free_serial
            BY <2>8, <2>b
        <3> QED
            BY <3>1, <3>2, <3>3 DEF SerialFits
    <2> QED
        BY <2>10, <2>11, <2>12, <2>13, <2>15, <2>16 DEF ApprovalInv
<1> QED
    BY <1>3, <1>4

\* The first lock of a claim: the record leaves the registry into the hands of
\* this claim alone, which knows whether its end was observed already.
LEMMA ClaimIInv ==
    ASSUME ApprovalInv, NEW t \in Callers, claim_artifact_decision(t)
    PROVE  ApprovalInv'
<1>1. PICK n \in DOMAIN approvals, s \in Sessions, v \in Reviews, i \in Intents :
        /\ burn(n)
        /\ untried' = [m \in DOMAIN untried \ {n} |-> untried[m]]
        /\ Moves(t, [step |-> "claiming", serial |-> n, record |-> approvals[n],
                     session |-> s, review |-> v, intent |-> i,
                     late |-> Observed(approvals[n].not_after), now |-> 0])
    BY DEF claim_artifact_decision
<1>2. /\ work[t] = NoWork
      /\ UNCHANGED <<projects, free_serial, ready, mono, clock, latest, revoked, claimed>>
    BY DEF claim_artifact_decision
<1>3. PICK r \in Record : r = approvals[n] /\ RecordFits(r)
    BY DEF ApprovalInv, ApprovalTypeOK
<1>4. n \in 1 .. MaxIssued /\ n < free_serial /\ n \in Nat /\ SerialFits(n)
    BY SMTT(30) DEF ApprovalInv
<1>5. PICK d : d = [step |-> "claiming", serial |-> n, record |-> r, session |-> s,
                    review |-> v, intent |-> i, late |-> Observed(r.not_after), now |-> 0]
    OBVIOUS
<1>6. work' = [work EXCEPT ![t] = d]
    BY <1>1, <1>3, <1>5 DEF Moves
<1>7. /\ d \in Claim /\ d.serial = n /\ d.record = r /\ d.step = "claiming"
      /\ d.late = Observed(r.not_after) /\ d.now = 0
    <2>1. Observed(r.not_after) \in BOOLEAN
        BY SMTT(30) DEF Observed
    <2> QED
        BY <1>4, <1>5, <2>1 DEF Claim
<1>8. /\ DOMAIN approvals' = DOMAIN approvals \ {n}
      /\ \A m \in DOMAIN approvals' : approvals'[m] = approvals[m]
      /\ DOMAIN untried' = DOMAIN untried \ {n}
      /\ \A m \in DOMAIN untried' : untried'[m] = untried[m]
    BY <1>1 DEF burn
<1>9. \A u \in Callers : work'[u] = IF u = t THEN d ELSE work[u]
    BY <1>6 DEF ApprovalInv, ApprovalTypeOK
<1>10. ApprovalTypeOK'
    <2>1. /\ approvals' \in [DOMAIN approvals' -> Record]
          /\ untried' \in [DOMAIN untried' -> Record]
        BY <1>1, <1>8 DEF burn, ApprovalInv, ApprovalTypeOK
    <2>2. work' \in [Callers -> {NoWork} \union Issue \union Claim]
        BY <1>6, <1>7 DEF ApprovalInv, ApprovalTypeOK
    <2> QED
        BY <1>2, <2>1, <2>2 DEF ApprovalInv, ApprovalTypeOK
<1>11. ClockFits'
    BY <1>2 DEF ApprovalInv, ClockFits
<1>12. (\A m \in DOMAIN approvals :
          m \in 1 .. MaxIssued /\ m < free_serial /\ RecordFits(approvals[m]))'
    BY <1>2, <1>8 DEF ApprovalInv, RecordFits, Current
<1>13. (\A m \in DOMAIN untried : m \in Nat /\ m < free_serial /\ UntriedFits(m))'
    BY <1>2, <1>8 DEF ApprovalInv, UntriedFits, Observed
<1>14. ASSUME NEW u \in Callers, work'[u] # NoWork PROVE CallFits(work[u])'
    <2>1. PICK e \in Issue \union Claim :
            e = work'[u] /\ (u = t => e = d) /\ (u # t => e = work[u] /\ CallFits(e))
        BY <1>7, <1>9, <1>14 DEF ApprovalInv, ApprovalTypeOK
    <2>2. CallFits(e)'
        <3>1. CASE u = t
            BY <1>2, <1>3, <1>4, <1>7, <2>1, <3>1, Fields
            DEF CallFits, RecordFits, Current, Observed
        <3>2. CASE u # t
            <4>1. /\ latest' \in Nat /\ latest <= latest'
                  /\ free_serial' \in Nat /\ free_serial <= free_serial'
                BY <1>2, SMTT(30) DEF ApprovalInv, ApprovalTypeOK
            <4> QED
                BY <1>2, <2>1, <3>2, <4>1, CallStays DEF ApprovalInv
        <3> QED
            BY <3>1, <3>2
    <2> QED
        BY <2>1, <2>2, SameCall
<1>15. ASSUME NEW m \in 1 .. MaxIssued PROVE SerialFits(m)'
    <2>1. SerialFits(m) /\ claimed'[m] = claimed[m]
        BY <1>2 DEF ApprovalInv
    <2>2. \A u \in Callers : Holds(u, m)' => Holds(u, m) \/ (u = t /\ m = n)
        BY <1>7, <1>9 DEF Holds
    <2>3. CASE m = n
        <3>1. n \notin DOMAIN approvals' /\ ~(n >= free_serial')
            BY <1>2, <1>4, <1>8, SMTT(30) DEF ApprovalInv, ApprovalTypeOK
        <3> QED
            BY <1>4, <2>1, <2>2, <2>3, <3>1 DEF SerialFits
    <2>4. CASE m # n
        BY <1>2, <1>8, <2>1, <2>2, <2>4 DEF SerialFits
    <2> QED
        BY <2>3, <2>4
<1> QED
    BY <1>10, <1>11, <1>12, <1>13, <1>14, <1>15 DEF ApprovalInv

\* The second lock of a claim spends the serial that this claim alone holds.
LEMMA ValidateIInv ==
    ASSUME ApprovalInv, NEW t \in Callers, ValidateClaim(t)
    PROVE  ApprovalInv'
<1>1. PICK c \in Claim : c = work[t] /\ c # NoWork /\ CallFits(c)
    BY DEF ValidateClaim, ApprovalInv, ApprovalTypeOK, Issue
<1>2. /\ UNCHANGED <<projects, approvals, free_serial, ready, mono, clock, latest, revoked,
                     untried>>
      /\ work' = [work EXCEPT ![t] = NoWork]
    BY DEF ValidateClaim, Moves
<1>3. PICK spent \in {0, 1} : claimed' = [claimed EXCEPT ![c.serial] = @ + spent]
    <2>1. CASE Valid(c)
        BY <1>1, <2>1 DEF ValidateClaim
    <2>2. CASE ~Valid(c)
        BY <1>1, <2>2 DEF ValidateClaim
    <2> QED
        BY <2>1, <2>2
<1>4. c.serial \in 1 .. MaxIssued /\ c.serial < free_serial /\ Holds(t, c.serial)
    BY <1>1, Fields DEF CallFits, Holds
<1>5. claimed[c.serial] = 0 /\ c.serial \notin DOMAIN approvals
      /\ \A u \in Callers : Holds(u, c.serial) => u = t
    BY <1>4 DEF ApprovalInv, SerialFits
<1>6. \A u \in Callers : work'[u] = IF u = t THEN NoWork ELSE work[u]
    BY <1>2 DEF ApprovalInv, ApprovalTypeOK
<1>7. ApprovalTypeOK'
    BY <1>2, <1>3, <1>4, SMTT(30) DEF ApprovalInv, ApprovalTypeOK
<1>8. ClockFits'
    BY <1>2 DEF ApprovalInv, ClockFits
<1>9. (\A m \in DOMAIN approvals :
          m \in 1 .. MaxIssued /\ m < free_serial /\ RecordFits(approvals[m]))'
    BY <1>2 DEF ApprovalInv, RecordFits, Current
<1>10. (\A m \in DOMAIN untried : m \in Nat /\ m < free_serial /\ UntriedFits(m))'
    BY <1>2 DEF ApprovalInv, UntriedFits, Observed
<1>11. ASSUME NEW u \in Callers, work'[u] # NoWork PROVE CallFits(work[u])'
    <2>1. PICK e \in Issue \union Claim : e = work'[u] /\ CallFits(e)
        BY <1>6, <1>11 DEF ApprovalInv, ApprovalTypeOK
    <2>2. /\ latest' \in Nat /\ latest <= latest'
          /\ free_serial' \in Nat /\ free_serial <= free_serial'
        BY <1>2, SMTT(30) DEF ApprovalInv, ApprovalTypeOK
    <2>3. CallFits(e)'
        BY <1>2, <2>1, <2>2, CallStays DEF ApprovalInv
    <2> QED
        BY <2>1, <2>3, SameCall
<1>12. ASSUME NEW m \in 1 .. MaxIssued PROVE SerialFits(m)'
    <2>1. SerialFits(m)
        BY DEF ApprovalInv
    <2>2. \A u \in Callers : Holds(u, m)' => Holds(u, m) /\ u # t
        BY <1>6 DEF Holds
    <2>3. CASE m = c.serial
        <3>1. claimed'[m] <= 1
            BY <1>3, <1>4, <1>5, <2>3, SMTT(30) DEF ApprovalInv, ApprovalTypeOK
        <3>2. m \notin DOMAIN approvals' /\ ~(m >= free_serial')
            BY <1>2, <1>4, <1>5, <2>3, SMTT(30) DEF ApprovalInv, ApprovalTypeOK
        <3> QED
            BY <1>5, <2>2, <2>3, <3>1, <3>2 DEF SerialFits
    <2>4. CASE m # c.serial
        <3>1. claimed'[m] = claimed[m]
            BY <1>3, <2>4 DEF ApprovalInv, ApprovalTypeOK
        <3> QED
            BY <1>2, <2>1, <2>2, <3>1 DEF SerialFits
    <2> QED
        BY <2>3, <2>4
<1> QED
    BY <1>7, <1>8, <1>9, <1>10, <1>11, <1>12 DEF ApprovalInv

\* Every step of the registry keeps the invariant.
LEMMA ApprovalNextInv ==
    ASSUME RegistryAssumption, ApprovalInv, [RegistryNext]_registryVars
    PROVE  ApprovalInv'
<1>1. CASE UNCHANGED registryVars
    BY <1>1 DEF registryVars, ApprovalInv, ApprovalTypeOK, ClockFits, RecordFits, Current, UntriedFits,
        CallFits, SerialFits, Holds, Observed
<1>2. CASE RegistryNext
    <2>1. CASE MonoTick
        BY <2>1, TickIInv
    <2>2. ASSUME NEW p \in Projects, NEW a \in Actors,
                 grant_project_access(p, a) \/ revoke_project_access(p, a)
          PROVE  ApprovalInv'
        BY <2>2, MembershipIInv
    <2>3. ASSUME NEW t \in Callers,
                 \/ issue_artifact_decision(t) \/ IssueReadsTime(t) \/ InsertApproval(t)
                 \/ claim_artifact_decision(t) \/ ClaimReadsTime(t) \/ ValidateClaim(t)
          PROVE  ApprovalInv'
        BY <2>3, IssueIInv, IssueReadsTimeIInv, InsertIInv, ClaimIInv, ClaimReadsTimeIInv,
            ValidateIInv
    <2>4. ASSUME NEW r \in Reviews, ConsumeReview(r) PROVE ApprovalInv'
        BY <2>4, ConsumeIInv
    <2> QED
        BY <1>2, <2>1, <2>2, <2>3, <2>4 DEF RegistryNext
<1> QED
    BY <1>1, <1>2

\* What the invariant says of an approval.  A claim about to succeed has a
\* record of the present epoch, which counts all revocations, and a time before
\* the record's end, which nobody has therefore seen passed when it began.
LEMMA IInvIsSound ==
    ASSUME ApprovalInv
    PROVE  ApprovalsAreSound
<1>1. ClaimedOnce
    BY DEF ApprovalInv, ApprovalTypeOK, SerialFits, ClaimedOnce
<1>2. UntriedIsKept
    BY DEF ApprovalInv, UntriedFits, UntriedIsKept
<1>3. ASSUME NEW t \in Callers, Succeeds(t)
      PROVE  /\ ~work[t].late
             /\ revoked[ProjectOf[work[t].record.review]][work[t].record.actor]
                  = work[t].record.before
    <2>1. PICK c \in Claim : c = work[t] /\ CallFits(c) /\ Valid(c) /\ c.step = "validate"
        BY <1>3 DEF Succeeds, ApprovalInv, ApprovalTypeOK, Issue
    <2>2. ~c.late
        <3>1. /\ c.now \in Nat /\ c.record.not_after \in Nat /\ c.now < c.record.not_after
              /\ c.late => c.record.not_after <= c.now
            BY <2>1, Fields DEF CallFits, Valid
        <3> QED
            BY <3>1, SMTT(30)
    <2>3. revoked[ProjectOf[c.record.review]][c.record.actor] = c.record.before
        BY <2>1, Fields DEF CallFits, Valid, RecordFits, Current
    <2> QED
        BY <2>1, <2>2, <2>3
<1> QED
    BY <1>1, <1>2, <1>3
    DEF ApprovalsAreSound, RevocationReaches, ExpiredStaysExpired

-----------------------------------------------------------------------------
(* Theorems *)

\* The inductive invariant holds of every behaviour of the registry.
THEOREM ApprovalInvariance ==
    ASSUME RegistryAssumption
    PROVE  RegistrySpec => []ApprovalInv
<1>1. RegistryInit => ApprovalInv
    BY ApprovalInitInv
<1>2. ApprovalInv /\ [RegistryNext]_registryVars => ApprovalInv'
    BY ApprovalNextInv
<1> QED
    BY <1>1, <1>2, PTL DEF RegistrySpec

\* Approvals are sound (issue_artifact_decision, claim_artifact_decision,
\* revoke_project_access, SystemAuthorizationClockState::observe): an approval is
\* claimed at most once, never after a revocation that its issue preceded, never
\* after its end was observed, and it is there to be claimed until then.
THEOREM ApprovalsStaySound ==
    ASSUME RegistryAssumption
    PROVE  RegistrySpec => []ApprovalsAreSound
<1>1. ApprovalInv => ApprovalsAreSound
    BY IInvIsSound
<1> QED
    BY <1>1, ApprovalInvariance, PTL

-----------------------------------------------------------------------------
(* The gate *)

Holding(t) == pc[t] # "out"

\* tickets in hand are distinct and not yet served
TicketsInRange ==
    \A t \in Threads : Holding(t) => serving <= ticket[t] /\ ticket[t] < next_ticket

TicketsDistinct ==
    \A t, u \in Threads : Holding(t) /\ Holding(u) /\ ticket[t] = ticket[u] => t = u

\* every number between serving and next_ticket is in somebody's hand
NoGap ==
    \A n \in Nat : serving <= n /\ n < next_ticket =>
        \E t \in Threads : Holding(t) /\ ticket[t] = n

\* the gate is occupied exactly when the thread being served is inside
InsideIsServed ==
    /\ \A t \in Threads : pc[t] = "inside" => occupied /\ ticket[t] = serving
    /\ occupied => \E t \in Threads : pc[t] = "inside"

IInv ==
    /\ TypeOK
    /\ serving <= next_ticket
    /\ TicketsInRange
    /\ TicketsDistinct
    /\ NoGap
    /\ InsideIsServed
    /\ NoLostWakeup

\* A fresh gate satisfies the invariant.
LEMMA InitIInv == Init => IInv
<1> SUFFICES ASSUME Init PROVE IInv
  OBVIOUS
<1>1. TypeOK
  <2>1. 0 \in 0..MaxTicket /\ 0 \in Nat
    BY FairGateAssumption, SMTT(30)
  <2>2. occupied \in BOOLEAN
    BY Zenon DEF Init
  <2> QED BY <2>1, <2>2 DEF Init, TypeOK
<1>2. serving <= next_ticket /\ NoGap
  BY SMTT(30) DEF Init, NoGap
<1>3. TicketsInRange /\ TicketsDistinct /\ InsideIsServed /\ NoLostWakeup
  BY DEF Init, TicketsInRange, TicketsDistinct, InsideIsServed, NoLostWakeup,
         Holding
<1> QED BY <1>1, <1>2, <1>3 DEF IInv

\* Every critical section keeps it.
LEMMA NextIInv == IInv /\ [Next]_vars => IInv'
<1> SUFFICES ASSUME IInv, [Next]_vars PROVE IInv'
  OBVIOUS
<1> USE FairGateAssumption DEF IInv
<1>1. ASSUME NEW t \in Threads, Enter(t) PROVE IInv'
  <2> USE <1>1 DEF Enter, MayEnter
  <2>1. TypeOK' /\ (serving <= next_ticket)'
    <3>1. occupied' \in BOOLEAN
      BY Zenon DEF TypeOK
    <3>2. next_ticket' \in 0..MaxTicket /\ next_ticket \in 0..MaxTicket
      BY SMTT(30) DEF TypeOK
    <3>3. ticket' \in [Threads -> 0..MaxTicket]
      BY <3>2 DEF TypeOK
    <3>4. pc' \in [Threads -> {"out", "asleep", "woken", "inside"}]
      BY DEF TypeOK
    <3> QED BY <3>1, <3>2, <3>3, <3>4, SMTT(30) DEF TypeOK
  <2>2. TicketsInRange' /\ TicketsDistinct'
    BY SMTT(30) DEF TypeOK, TicketsInRange, TicketsDistinct, Holding
  <2>3. NoGap'
    <3>1. SUFFICES ASSUME NEW n \in Nat, serving <= n, n < next_ticket + 1
                   PROVE  \E u \in Threads : pc'[u] # "out" /\ ticket'[u] = n
      BY DEF NoGap, Holding
    <3>2. CASE n = next_ticket
      BY <3>2 DEF TypeOK
    <3>3. CASE n # next_ticket
      <4>1. PICK u \in Threads : Holding(u) /\ ticket[u] = n
        BY <3>1, <3>3, SMTT(30) DEF NoGap, TypeOK
      <4>2. u # t
        BY <4>1 DEF Holding
      <4> QED BY <4>1, <4>2 DEF Holding, TypeOK
    <3> QED BY <3>2, <3>3
  <2>4. InsideIsServed'
    <3>1. \A u \in Threads : u # t => pc'[u] = pc[u] /\ ticket'[u] = ticket[u]
      BY DEF TypeOK
    <3>2. ticket'[t] = next_ticket /\ pc'[t] \in {"inside", "asleep"}
      BY DEF TypeOK
    <3> QED BY <3>1, <3>2, SMTT(30) DEF InsideIsServed, TypeOK
  <2>5. NoLostWakeup'
    BY SMTT(30) DEF NoLostWakeup, TypeOK
  <2> QED BY <2>1, <2>2, <2>3, <2>4, <2>5
<1>2. ASSUME NEW t \in Threads, Stir(t) \/ Recheck(t) PROVE IInv'
  <2> USE <1>2 DEF Stir, Recheck, MayEnter
  <2>1. TypeOK' /\ (serving <= next_ticket)'
    BY DEF TypeOK
  <2>2. TicketsInRange' /\ TicketsDistinct' /\ NoGap'
    <3>1. \A u \in Threads : Holding(u)' <=> Holding(u)
      BY DEF Holding, TypeOK
    <3> QED BY <3>1, SMTT(30) DEF TicketsInRange, TicketsDistinct, NoGap
  <2>3. InsideIsServed'
    BY SMTT(30) DEF InsideIsServed, TypeOK
  <2>4. NoLostWakeup'
    BY DEF NoLostWakeup, TypeOK
  <2> QED BY <2>1, <2>2, <2>3, <2>4
<1>3. ASSUME NEW t \in Threads, Leave(t) PROVE IInv'
  <2> USE <1>3 DEF Leave, NotifyAll
  <2>1. occupied /\ ticket[t] = serving /\ serving < next_ticket
    BY DEF InsideIsServed, TicketsInRange, Holding
  <2>2. /\ ~Holding(t)'
        /\ \A u \in Threads \ {t} : Holding(u)' <=> Holding(u)
    BY DEF Holding, TypeOK
  <2>3. TypeOK' /\ (serving <= next_ticket)'
    <3>1. pc' \in [Threads -> {"out", "asleep", "woken", "inside"}]
      BY DEF TypeOK
    <3>2. serving' \in Nat /\ (serving <= next_ticket)'
      BY <2>1, SMTT(30) DEF TypeOK
    <3> QED BY <3>1, <3>2 DEF TypeOK
  <2>4. TicketsInRange'
    <3>1. ASSUME NEW u \in Threads \ {t}, Holding(u)
          PROVE  serving + 1 <= ticket[u] /\ ticket[u] < next_ticket
      <4>1. ticket[u] # ticket[t] /\ serving <= ticket[u]
        BY <3>1 DEF TicketsDistinct, TicketsInRange, Holding
      <4>2. ticket[u] < next_ticket
        BY <3>1 DEF TicketsInRange
      <4> QED BY <2>1, <4>1, <4>2, SMTT(30) DEF TypeOK
    <3> QED BY <2>2, <3>1 DEF TicketsInRange
  <2>5. TicketsDistinct'
    BY <2>2 DEF TicketsDistinct
  <2>6. NoGap'
    <3>1. SUFFICES ASSUME NEW n \in Nat, serving + 1 <= n, n < next_ticket
                   PROVE  \E u \in Threads : Holding(u)' /\ ticket'[u] = n
      BY DEF NoGap
    <3>2. PICK u \in Threads : Holding(u) /\ ticket[u] = n
      BY <3>1, SMTT(30) DEF NoGap, TypeOK
    <3>3. u # t
      BY <2>1, <3>1, <3>2, SMTT(30) DEF TypeOK
    <3> QED BY <2>2, <3>2, <3>3
  <2>7. InsideIsServed'
    <3>1. \A u \in Threads : pc'[u] = "inside" => u # t /\ pc[u] = "inside"
      BY DEF TypeOK
    <3>2. \A u \in Threads : pc[u] = "inside" => u = t
      BY <2>1 DEF InsideIsServed, TicketsDistinct, Holding
    <3> QED BY <3>1, <3>2 DEF InsideIsServed
  <2>8. NoLostWakeup'
    BY DEF NoLostWakeup, TypeOK
  <2> QED BY <2>3, <2>4, <2>5, <2>6, <2>7, <2>8
<1>4. CASE UNCHANGED vars
  BY <1>4
  DEF vars, TypeOK, TicketsInRange, TicketsDistinct, NoGap, InsideIsServed,
      NoLostWakeup, Holding
<1> QED BY <1>1, <1>2, <1>3, <1>4 DEF Next, EnterFails

\* The invariant holds of every reachable state.
THEOREM Invariance == Spec => []IInv
<1>1. Init => IInv
  BY InitIInv
<1>2. IInv /\ [Next]_vars => IInv'
  BY NextIInv
<1> QED BY <1>1, <1>2, PTL DEF Spec

\* Type correctness of the gate.
THEOREM TypeCorrect == Spec => []TypeOK
<1>1. IInv => TypeOK
  BY DEF IInv
<1> QED BY <1>1, Invariance, PTL

\* The expect on the serving counter never fires, whatever the ticket limit.
THEOREM ServingNeverOverflows == Spec => []ServingCanGrow
<1>1. IInv => ServingCanGrow
  BY FairGateAssumption, SMTT(30)
  DEF IInv, ServingCanGrow, InsideIsServed, TicketsInRange, Holding, TypeOK
<1> QED BY <1>1, Invariance, PTL

\* No thread sleeps through its own turn.
THEOREM NoWakeupIsLost == Spec => []NoLostWakeup
<1>1. IInv => NoLostWakeup
  BY DEF IInv
<1> QED BY <1>1, Invariance, PTL

-----------------------------------------------------------------------------
(* Refinement *)

\* HolderOf over any assignment of program counters and tickets
Owner(p, k, n) == CHOOSE t \in Threads : p[t] # "out" /\ k[t] = n

\* The owner of a number only one thread holds is that thread.
LEMMA OwnerIs ==
    ASSUME NEW p, NEW k, NEW t \in Threads, NEW n, p[t] # "out", k[t] = n,
           \A u \in Threads : p[u] # "out" /\ k[u] = n => u = t
    PROVE  Owner(p, k, n) = t
BY DEF Owner

\* Every number in line has an owner that holds it, and only one.
LEMMA OwnersInLine ==
    ASSUME IInv, NEW n \in Nat, serving <= n, n < next_ticket
    PROVE  /\ Owner(pc, ticket, n) \in Threads
           /\ Holding(Owner(pc, ticket, n)) /\ ticket[Owner(pc, ticket, n)] = n
           /\ \A u \in Threads : Holding(u) /\ ticket[u] = n => u = Owner(pc, ticket, n)
<1>1. PICK t \in Threads : Holding(t) /\ ticket[t] = n
  BY DEF IInv, NoGap
<1>2. \A u \in Threads : Holding(u) /\ ticket[u] = n => u = t
  BY <1>1 DEF IInv, TicketsDistinct
<1>3. Owner(pc, ticket, n) = t
  BY <1>1, <1>2, OwnerIs, SMTT(30) DEF Holding
<1> QED BY <1>1, <1>2, <1>3

\* A number keeps its owner as long as its owner keeps the number.
LEMMA OwnersStay ==
    ASSUME IInv, IInv', NEW n \in Nat, serving <= n, n < next_ticket,
           pc'[Owner(pc, ticket, n)] # "out", ticket'[Owner(pc, ticket, n)] = n
    PROVE  Owner(pc', ticket', n) = Owner(pc, ticket, n)
<1>1. Owner(pc, ticket, n) \in Threads
  BY OwnersInLine
<1>2. \A u \in Threads : pc'[u] # "out" /\ ticket'[u] = n => u = Owner(pc, ticket, n)
  BY <1>1 DEF IInv, TicketsDistinct, Holding
<1> QED BY <1>1, <1>2, OwnerIs, SMTT(30) DEF Holding

\* The line in terms of owners, now and after the step.
LEMMA LineOfOwners ==
    /\ InLine = [i \in 1..(next_ticket - serving) |->
                    Owner(pc, ticket, serving + i - 1)]
    /\ InLine' = [i \in 1..(next_ticket' - serving') |->
                     Owner(pc', ticket', serving' + i - 1)]
BY DEF InLine, HolderOf, Owner

\* The thread inside is the one whose number is being served.
LEMMA InsideOwns ==
    ASSUME NEW p, NEW k, NEW s, NEW t \in Threads, p[t] = "inside", k[t] = s,
           \A u \in Threads : p[u] # "out" /\ k[u] = s => u = t,
           \A u \in Threads : p[u] = "inside" => k[u] = s
    PROVE  /\ (CHOOSE u \in Threads : p[u] = "inside") = t
           /\ Owner(p, k, s) = t
<1>1. \A u \in Threads : p[u] = "inside" => u = t
  OBVIOUS
<1>2. Owner(p, k, s) = t
  BY OwnerIs, SMTT(30)
<1> QED BY <1>1, <1>2

\* The holder in terms of owners, now and after the step.
LEMMA HolderIsOwner ==
    ASSUME IInv, IInv'
    PROVE  /\ Inside = IF occupied THEN Owner(pc, ticket, serving) ELSE NoThread
           /\ Inside' = IF occupied' THEN Owner(pc', ticket', serving')
                        ELSE NoThread
<1>1. Inside = IF occupied THEN Owner(pc, ticket, serving) ELSE NoThread
  <2>1. CASE occupied
    <3>1. PICK t \in Threads : pc[t] = "inside"
      BY <2>1 DEF IInv, InsideIsServed
    <3>2. /\ ticket[t] = serving
          /\ \A u \in Threads : pc[u] # "out" /\ ticket[u] = serving => u = t
          /\ \A u \in Threads : pc[u] = "inside" => ticket[u] = serving
      BY <3>1 DEF IInv, InsideIsServed, TicketsDistinct, Holding
    <3> QED BY <2>1, <3>1, <3>2, InsideOwns, SMTT(30) DEF Inside
  <2>2. CASE ~occupied
    BY <2>2 DEF IInv, InsideIsServed, Inside
  <2> QED BY <2>1, <2>2
<1>2. Inside' = IF occupied' THEN Owner(pc', ticket', serving') ELSE NoThread
  <2>1. CASE occupied'
    <3>1. PICK t \in Threads : pc'[t] = "inside"
      BY <2>1 DEF IInv, InsideIsServed
    <3>2. /\ ticket'[t] = serving'
          /\ \A u \in Threads : pc'[u] # "out" /\ ticket'[u] = serving' => u = t
          /\ \A u \in Threads : pc'[u] = "inside" => ticket'[u] = serving'
      BY <3>1 DEF IInv, InsideIsServed, TicketsDistinct, Holding
    <3> QED BY <2>1, <3>1, <3>2, InsideOwns, SMTT(30) DEF Inside
  <2>2. CASE ~occupied'
    BY <2>2 DEF IInv, InsideIsServed, Inside
  <2> QED BY <2>1, <2>2
<1> QED BY <1>1, <1>2

\* The line is a sequence of threads, one for each number not yet served.
LEMMA LineIsSequence ==
    ASSUME IInv
    PROVE  /\ InLine \in Seq(Threads)
           /\ Len(InLine) = next_ticket - serving
           /\ \A i \in 1..(next_ticket - serving) :
                 InLine[i] = Owner(pc, ticket, serving + i - 1)
<1>1. serving \in Nat /\ next_ticket \in Nat /\ serving <= next_ticket
  BY FairGateAssumption, SMTT(30) DEF IInv, TypeOK
<1>2. ASSUME NEW i \in 1..(next_ticket - serving)
      PROVE  Owner(pc, ticket, serving + i - 1) \in Threads
  <2>1. serving + i - 1 \in Nat /\ serving <= serving + i - 1
        /\ serving + i - 1 < next_ticket
    BY <1>1, SMTT(30)
  <2> QED BY <2>1, OwnersInLine
<1>3. InLine = [i \in 1..(next_ticket - serving) |->
                   Owner(pc, ticket, serving + i - 1)]
  BY LineOfOwners
<1>4. next_ticket - serving \in Nat
  BY <1>1, SMTT(30)
<1> QED BY <1>2, <1>3, <1>4, SMTT(30)

\* What Append and Tail return, element by element.
LEMMA AppendIs ==
    ASSUME NEW S, NEW q \in Seq(S), NEW e \in S
    PROVE  Append(q, e) = [i \in 1..(Len(q) + 1) |->
                              IF i <= Len(q) THEN q[i] ELSE e]
<1> DEFINE r == [i \in 1..(Len(q) + 1) |-> IF i <= Len(q) THEN q[i] ELSE e]
<1>1. \A i \in 1..(Len(q) + 1) : (IF i <= Len(q) THEN q[i] ELSE e) \in S
  BY SMTT(30)
<1>2. Len(q) + 1 \in Nat
  BY SMTT(30)
<1>3. r \in Seq(S) /\ Len(r) = Len(q) + 1
  BY <1>1, <1>2, SMTT(30)
<1>4. \A i \in 1..Len(r) : r[i] = Append(q, e)[i]
  BY <1>3, AppendProperties, SMTT(30)
<1>5. Append(q, e) \in Seq(S) /\ Len(Append(q, e)) = Len(q) + 1
  BY AppendProperties
<1> HIDE DEF r
<1>6. r = Append(q, e)
  BY <1>3, <1>4, <1>5, SeqEqual
<1> QED BY <1>6 DEF r

\* The tail of a queue is the queue shifted by one place.
LEMMA TailIs ==
    ASSUME NEW S, NEW q \in Seq(S), q # <<>>
    PROVE  Tail(q) = [i \in 1..(Len(q) - 1) |-> q[i + 1]]
<1> DEFINE r == [i \in 1..(Len(q) - 1) |-> q[i + 1]]
<1>1. Len(q) \in Nat /\ Len(q) - 1 \in Nat
  BY SMTT(30)
<1>2. \A i \in 1..(Len(q) - 1) : q[i + 1] \in S
  BY <1>1, SMTT(30)
<1>3. r \in Seq(S) /\ Len(r) = Len(q) - 1
  BY <1>1, <1>2, SMTT(30)
<1>4. /\ Tail(q) \in Seq(S) /\ Len(Tail(q)) = Len(q) - 1
      /\ \A i \in 1..Len(Tail(q)) : Tail(q)[i] = q[i + 1]
  BY HeadTailProperties
<1>5. \A i \in 1..Len(r) : r[i] = Tail(q)[i]
  BY <1>3, <1>4
<1> HIDE DEF r
<1>6. r = Tail(q)
  BY <1>3, <1>4, <1>5, SeqEqual
<1> QED BY <1>6 DEF r

\* Every critical section is a step of the FIFO lock or none.
LEMMA StepRefines ==
    ASSUME IInv, IInv', [Next]_vars
    PROVE  [F!Next]_<<InLine, Inside>>
<1> USE FairGateAssumption
<1>0. /\ serving \in Nat /\ next_ticket \in Nat /\ serving <= next_ticket
      /\ serving' \in Nat /\ next_ticket' \in Nat
  BY SMTT(30) DEF IInv, TypeOK
<1>1. ASSUME NEW t \in Threads, Enter(t)
      PROVE  F!Ask(t) \/ F!AskAndTake(t)
  <2> USE <1>1 DEF Enter
  <2>1. Owner(pc', ticket', next_ticket) = t
    <3>1. pc'[t] # "out" /\ ticket'[t] = next_ticket
      BY DEF IInv, TypeOK
    <3>2. \A u \in Threads : pc'[u] # "out" /\ ticket'[u] = next_ticket => u = t
      BY <3>1 DEF IInv, TicketsDistinct, Holding
    <3> QED BY <3>1, <3>2 DEF Owner
  <2>2. ASSUME NEW n \in Nat, serving <= n, n < next_ticket
        PROVE  Owner(pc', ticket', n) = Owner(pc, ticket, n)
    <3>1. Owner(pc, ticket, n) \in Threads /\ Holding(Owner(pc, ticket, n)) /\ ticket[Owner(pc, ticket, n)] = n
      BY <2>2, OwnersInLine
    <3>2. Owner(pc, ticket, n) # t
      BY <3>1 DEF Holding
    <3>3. pc'[Owner(pc, ticket, n)] # "out" /\ ticket'[Owner(pc, ticket, n)] = n
      BY <3>1, <3>2 DEF Holding, IInv, TypeOK
    <3> QED BY <2>2, <3>3, OwnersStay DEF Holding
  <2>3. CASE MayEnter(next_ticket)
    <3>1. serving = next_ticket /\ serving' = next_ticket /\ ~occupied /\ occupied'
      BY <2>3 DEF MayEnter
    <3>2. InLine = <<>>
      BY <1>0, <3>1, LineIsSequence, SMTT(30)
    <3>3. InLine' = <<t>>
      <4>1. InLine' = [i \in 1..1 |-> Owner(pc', ticket', next_ticket + i - 1)]
        BY <1>0, <3>1, LineOfOwners, SMTT(30)
      <4>2. \A i \in 1..1 : next_ticket + i - 1 = next_ticket
        BY <1>0, SMTT(30)
      <4> QED BY <2>1, <4>1, <4>2, SMTT(30)
    <3>4. Inside' = t
      BY <2>1, <3>1, HolderIsOwner
    <3> QED BY <3>2, <3>3, <3>4 DEF F!AskAndTake
  <2>4. CASE ~MayEnter(next_ticket)
    <3>1. occupied' = occupied /\ serving' = serving /\ next_ticket' = next_ticket + 1
      BY <2>4
    <3>2. InLine' = Append(InLine, t)
      <4>1. InLine' = [i \in 1..(next_ticket + 1 - serving) |->
                          Owner(pc', ticket', serving + i - 1)]
        BY <1>0, <3>1, LineOfOwners, SMTT(30)
      <4>2. ASSUME NEW i \in 1..(next_ticket - serving)
            PROVE  Owner(pc', ticket', serving + i - 1) = InLine[i]
        <5>1. serving + i - 1 \in Nat /\ serving <= serving + i - 1
              /\ serving + i - 1 < next_ticket
          BY <1>0, SMTT(30)
        <5> QED BY <2>2, <5>1, LineIsSequence
      <4>3. Owner(pc', ticket', serving + (next_ticket + 1 - serving) - 1) = t
        <5>1. serving + (next_ticket + 1 - serving) - 1 = next_ticket
          BY <1>0, SMTT(30)
        <5> QED BY <2>1, <5>1
      <4>4. InLine \in Seq(Threads) /\ Len(InLine) = next_ticket - serving
        BY LineIsSequence
      <4>5. Append(InLine, t) = [i \in 1..(Len(InLine) + 1) |->
                                    IF i <= Len(InLine) THEN InLine[i] ELSE t]
        BY <4>4, AppendIs, SMTT(30)
      <4>6. Len(InLine) + 1 = next_ticket + 1 - serving
        BY <1>0, <4>4, SMTT(30)
      <4>7. ASSUME NEW i \in 1..(next_ticket + 1 - serving)
            PROVE  Owner(pc', ticket', serving + i - 1)
                     = IF i <= Len(InLine) THEN InLine[i] ELSE t
        <5>1. CASE i <= next_ticket - serving
          <6>1. i \in 1..(next_ticket - serving)
            BY <1>0, <5>1, SMTT(30)
          <6> QED BY <4>2, <4>4, <5>1, <6>1
        <5>2. CASE i = next_ticket + 1 - serving
          <6>1. ~(i <= Len(InLine))
            BY <1>0, <4>4, <5>2, SMTT(30)
          <6> QED BY <4>3, <5>2, <6>1
        <5> QED BY <1>0, <5>1, <5>2, SMTT(30)
      <4> QED BY <4>1, <4>5, <4>6, <4>7
    <3>3. Inside' = Inside
      BY <1>0, <2>2, <3>1, HolderIsOwner, SMTT(30)
      DEF IInv, InsideIsServed, TicketsInRange, Holding
    <3> QED BY <3>2, <3>3 DEF F!Ask
  <2> QED BY <2>3, <2>4
<1>2. ASSUME NEW t \in Threads, Stir(t) \/ Recheck(t)
      PROVE  F!Take(t) \/ UNCHANGED <<InLine, Inside>>
  <2>1. next_ticket' = next_ticket /\ serving' = serving /\ ticket' = ticket
    BY <1>2 DEF Stir, Recheck
  <2>2. ASSUME NEW n \in Nat, serving <= n, n < next_ticket
        PROVE  Owner(pc', ticket', n) = Owner(pc, ticket, n)
    <3>1. Owner(pc, ticket, n) \in Threads /\ Holding(Owner(pc, ticket, n)) /\ ticket[Owner(pc, ticket, n)] = n
      BY <2>2, OwnersInLine
    <3>2. pc'[Owner(pc, ticket, n)] # "out"
      BY <1>2, <3>1 DEF Holding, Stir, Recheck, IInv, TypeOK
    <3> QED BY <2>1, <2>2, <3>1, <3>2, OwnersStay
  <2>3. InLine' = InLine
    <3>1. \A i \in 1..(next_ticket - serving) :
             Owner(pc', ticket', serving + i - 1)
               = Owner(pc, ticket, serving + i - 1)
      BY <1>0, <2>2, SMTT(30)
    <3> QED BY <2>1, <3>1, LineOfOwners
  <2>4. CASE occupied' = occupied
    <3>1. Inside' = Inside
      BY <1>0, <2>1, <2>2, <2>4, HolderIsOwner, SMTT(30)
      DEF IInv, InsideIsServed, TicketsInRange, Holding
    <3> QED BY <2>3, <3>1
  <2>5. CASE occupied' # occupied
    <3>1. ~occupied /\ occupied' /\ ticket[t] = serving /\ Holding(t)
      BY <1>2, <2>5 DEF Stir, Recheck, MayEnter, Holding
    <3>2. serving < next_ticket /\ Owner(pc, ticket, serving) = t
      BY <1>0, <3>1, OwnersInLine DEF IInv, TicketsInRange
    <3>3. Inside = NoThread /\ Inside' = t
      BY <1>0, <2>1, <2>2, <3>1, <3>2, HolderIsOwner, SMTT(30)
    <3>4. InLine # <<>> /\ Head(InLine) = t
      <4>1. /\ InLine \in Seq(Threads) /\ Len(InLine) > 0
            /\ InLine[1] = Owner(pc, ticket, serving + 1 - 1)
        BY <1>0, <3>2, LineIsSequence, SMTT(30)
      <4>2. serving + 1 - 1 = serving
        BY <1>0, SMTT(30)
      <4> QED BY <3>2, <4>1, <4>2, SMTT(30)
    <3> QED BY <2>3, <3>3, <3>4 DEF F!Take
  <2> QED BY <2>4, <2>5
<1>3. ASSUME NEW t \in Threads, Leave(t)
      PROVE  F!Release(t)
  <2> USE <1>3 DEF Leave
  <2>1. occupied /\ ticket[t] = serving /\ serving < next_ticket /\ Holding(t)
    BY DEF IInv, InsideIsServed, TicketsInRange, Holding
  <2>2. Owner(pc, ticket, serving) = t
    BY <1>0, <2>1, OwnersInLine, SMTT(30)
  <2>3. Inside = t /\ Inside' = NoThread
    BY <2>1, <2>2, HolderIsOwner
  <2>4. ASSUME NEW n \in Nat, serving < n, n < next_ticket
        PROVE  Owner(pc', ticket', n) = Owner(pc, ticket, n)
    <3>1. Owner(pc, ticket, n) \in Threads /\ Holding(Owner(pc, ticket, n)) /\ ticket[Owner(pc, ticket, n)] = n
      BY <1>0, <2>4, OwnersInLine, SMTT(30)
    <3>2. Owner(pc, ticket, n) # t
      BY <1>0, <2>1, <2>4, <3>1, SMTT(30)
    <3>3. pc'[Owner(pc, ticket, n)] # "out" /\ ticket'[Owner(pc, ticket, n)] = n
      BY <3>1, <3>2 DEF Holding, NotifyAll, IInv, TypeOK
    <3> QED BY <1>0, <2>4, <3>3, OwnersStay, SMTT(30)
  <2>5. InLine' = Tail(InLine)
    <3>1. InLine' = [i \in 1..(next_ticket - (serving + 1)) |->
                        Owner(pc', ticket', (serving + 1) + i - 1)]
      BY <1>0, LineOfOwners
    <3>2. /\ InLine \in Seq(Threads) /\ Len(InLine) = next_ticket - serving
          /\ InLine # <<>>
      BY <1>0, <2>1, LineIsSequence, SMTT(30)
    <3>3. Tail(InLine) = [i \in 1..(Len(InLine) - 1) |-> InLine[i + 1]]
      BY <3>2, TailIs
    <3>4. Len(InLine) - 1 = next_ticket - (serving + 1)
      BY <1>0, <3>2, SMTT(30)
    <3>5. ASSUME NEW i \in 1..(next_ticket - (serving + 1))
          PROVE  Owner(pc', ticket', (serving + 1) + i - 1) = InLine[i + 1]
      <4>1. /\ (serving + 1) + i - 1 \in Nat
            /\ serving < (serving + 1) + i - 1
            /\ (serving + 1) + i - 1 < next_ticket
            /\ i + 1 \in 1..(next_ticket - serving)
            /\ serving + (i + 1) - 1 = (serving + 1) + i - 1
        BY <1>0, SMTT(30)
      <4>2. InLine[i + 1] = Owner(pc, ticket, serving + (i + 1) - 1)
        BY <4>1, LineIsSequence
      <4> QED BY <2>4, <4>1, <4>2
    <3> QED BY <3>1, <3>3, <3>4, <3>5
  <2> QED BY <2>3, <2>5 DEF F!Release
<1>4. CASE UNCHANGED vars
  BY <1>4, SMTT(30) DEF vars, InLine, Inside, HolderOf
<1>5. ASSUME NEW t \in Threads, EnterFails(t)
      PROVE  UNCHANGED <<InLine, Inside>>
  BY <1>5, SMTT(30) DEF EnterFails, vars, InLine, Inside, HolderOf
<1> QED BY <1>1, <1>2, <1>3, <1>4, <1>5 DEF Next, F!Next

\* The gate implements the FIFO lock for any number of threads.
THEOREM GateImplementsFifoLock == Spec => ImplementsFifoLock
<1>1. Init => F!Init
  <2> SUFFICES ASSUME Init PROVE F!Init
    OBVIOUS
  <2>1. InLine = <<>>
    BY SMTT(30) DEF Init, InLine
  <2>2. Inside = NoThread
    BY DEF Init, Inside
  <2> QED BY <2>1, <2>2 DEF F!Init
<1>2. IInv /\ IInv' /\ [Next]_vars => [F!Next]_<<InLine, Inside>>
  BY StepRefines
<1> QED BY <1>1, <1>2, Invariance, PTL DEF Spec, ImplementsFifoLock, F!Spec

=============================================================================
