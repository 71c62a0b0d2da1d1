----------------------------- MODULE Application ----------------------------
(***************************************************************************)
(* LocalApplication of synapse-application for one project: access list,   *)
(* authority profiles, registrations and one-shot permits in memory, and   *)
(* the two routes that publish through Core, an AI proposal and a Human    *)
(* decision about it.  Threads meet at the project's publication gate, a   *)
(* FIFO lock (FairGate implements it); the executor of an AI proposal runs *)
(* outside it.  Other processes write the same Refs through SQLite.        *)
(***************************************************************************)
EXTENDS Integers, Sequences, FiniteSets

CONSTANTS
    Threads,
    Operations,      \* the calls that are made
    Ttl,             \* permit_ttl_nanos
    GrantExpiry,     \* expires_at of the DelegationGrant
    MaxTime,         \* bound on the clock
    MaxEpoch,        \* u64::MAX for epochs and generations
    MaxSerial,       \* u64::MAX for serials
    MaxProposals,    \* bound on proposals before another process adds one
    Relogins,        \* actors whose credential may change its session
    ClockCanRetreat  \* the trusted clock may be set back

\* times, epochs and serials are counted
ApplicationAssumption ==
    /\ Ttl \in Nat /\ GrantExpiry \in Nat
    /\ MaxTime \in Nat /\ MaxEpoch \in Nat /\ MaxSerial \in Nat

\* the two routes, each with the one actor its profile names
Routes == {"ai", "human"}

VARIABLES
    now,            \* AuthorizationClock
    session,        \* session each actor's credential authenticates, 0 for none
    allowed, epoch, \* ProjectSecurity
    profile,        \* authority profile of each route
    next_serial,
    registrations, permits,
    admitted,       \* proposals an AdmittedProposalHandle was returned for
    fence,          \* threads at the publication gate, its holder first
    pc, call,
    proposal,       \* head of the proposal Ref, 0 when absent
    decided,        \* chain of the decision Ref above its root
    base,           \* decision head each proposal was made for
    attempts,       \* publications begun for each registration (history)
    published       \* what this application committed (history)

security == <<allowed, epoch, profile>>
registry == <<next_serial, registrations, permits>>
refs == <<proposal, decided, base>>
vars == <<now, session, allowed, epoch, profile, next_serial, registrations,
          permits, admitted, fence, pc, call, proposal, decided, base, attempts, published>>

NoCall == [op |-> "none"]

\* the decision Ref's head, counted from its root
DecisionHead == Len(decided)

Proposals == 1..Len(base)

Init ==
    /\ now = 0
    /\ session = [a \in Routes |-> 1]
    /\ allowed = Routes /\ epoch = 0
    /\ profile = [r \in Routes |-> [generation |-> 0, suspended |-> FALSE, base |-> 0]]
    /\ next_serial = 1 /\ registrations = {} /\ permits = {}
    /\ admitted = {}
    /\ fence = <<>>
    /\ pc = [t \in Threads |-> "idle"]
    /\ call = [t \in Threads |-> NoCall]
    /\ proposal = 0 /\ decided = <<>> /\ base = <<>>
    /\ attempts = [e \in 1..MaxSerial |-> 0]
    /\ published = <<>>

-----------------------------------------------------------------------------
(* The gate *)

Goto(t, l) == pc' = [pc EXCEPT ![t] = l]

\* FairGate::enter
Enter(t, l) == fence' = Append(fence, t) /\ Goto(t, l)

AtGate(t) == fence # <<>> /\ Head(fence) = t

Return(t) == Goto(t, "idle") /\ call' = [call EXCEPT ![t] = NoCall]

\* the call returns, and its FairGateGuard is dropped
Leave(t) == fence' = Tail(fence) /\ Return(t)

\* a call that does all of its work under the gate
Ask(t, c) ==
    /\ pc[t] = "idle"
    /\ c.op \in Operations
    /\ Enter(t, "queued")
    /\ call' = [call EXCEPT ![t] = c]
    /\ UNCHANGED <<now, session, security, registry, admitted, refs, attempts, published>>

Turn(t, ops) == pc[t] = "queued" /\ AtGate(t) /\ call[t].op \in ops

-----------------------------------------------------------------------------
(* Trusted control plane *)

\* grant_project_access, revoke_project_access
SetAccess(t) ==
    /\ Turn(t, {"grant", "revoke"})
    /\ LET a == call[t].route
           wanted == IF call[t].op = "grant" THEN allowed \cup {a} ELSE allowed \ {a}
       IN IF wanted # allowed /\ epoch < MaxEpoch
          THEN allowed' = wanted /\ epoch' = epoch + 1
          ELSE UNCHANGED <<allowed, epoch>>
    /\ Leave(t)
    /\ UNCHANGED <<now, session, profile, registry, admitted, refs, attempts, published>>

\* next_epoch on the generation and on the project's epoch, both or neither
Supersede(r, suspended, b) ==
    IF profile[r].generation < MaxEpoch /\ epoch < MaxEpoch
    THEN /\ profile' = [profile EXCEPT ![r] = [generation |-> @.generation + 1,
                                               suspended |-> suspended, base |-> b]]
         /\ epoch' = epoch + 1
    ELSE UNCHANGED <<profile, epoch>>

\* set_authority_profile_suspended, set_human_profile_suspended
SetSuspended(t) ==
    /\ Turn(t, {"suspend", "resume"})
    /\ LET r == call[t].route
           wanted == call[t].op = "suspend"
       IN IF profile[r].suspended # wanted THEN Supersede(r, wanted, profile[r].base)
                                           ELSE UNCHANGED <<profile, epoch>>
    /\ Leave(t)
    /\ UNCHANGED <<now, session, allowed, registry, admitted, refs, attempts, published>>

\* replace_authority_profile, replace_human_profile; the ContextPack of the
\* new AI profile may be for any past decision head
Replace(t) ==
    /\ Turn(t, {"replace"})
    /\ \E b \in 0..DecisionHead : Supersede(call[t].route, FALSE, b)
    /\ Leave(t)
    /\ UNCHANGED <<now, session, allowed, registry, admitted, refs, attempts, published>>

AddRegistration(r, p, b) ==
    /\ next_serial <= MaxSerial
    /\ next_serial' = next_serial + 1
    /\ registrations' = registrations \cup
          {[serial |-> next_serial, route |-> r, generation |-> profile[r].generation,
            proposal |-> p, base |-> b]}

\* a registration is refused: nothing is recorded
NotRegistered == UNCHANGED <<next_serial, registrations>>

\* register_execution seals the proposal Ref's head
RegisterExecution(t) ==
    /\ Turn(t, {"register"}) /\ call[t].route = "ai"
    /\ \/ /\ ~profile["ai"].suspended
          /\ AddRegistration("ai", proposal, profile["ai"].base)
       \/ /\ profile["ai"].suspended \/ next_serial > MaxSerial
          /\ NotRegistered
    /\ Leave(t)
    /\ UNCHANGED <<now, session, security, permits, admitted, refs, attempts, published>>

\* register_human_decision: an admitted proposal that is still the head; it
\* seals the decision Ref's head
RegisterDecision(t) ==
    /\ Turn(t, {"register"}) /\ call[t].route = "human"
    /\ \/ /\ ~profile["human"].suspended /\ call[t].proposal = proposal
          /\ AddRegistration("human", proposal, DecisionHead)
       \/ /\ \/ profile["human"].suspended \/ call[t].proposal # proposal
             \/ next_serial > MaxSerial
          /\ NotRegistered
    /\ Leave(t)
    /\ UNCHANGED <<now, session, security, permits, admitted, refs, attempts, published>>

\* register_recovered_human_decision: both heads of the DurableProposalBinding
\* must still be current
RegisterRecovered(t) ==
    /\ Turn(t, {"recover"})
    /\ LET current == call[t].proposal = proposal /\ call[t].base = DecisionHead
       IN \/ /\ ~profile["human"].suspended /\ current
             /\ AddRegistration("human", proposal, DecisionHead)
          \/ /\ profile["human"].suspended \/ ~current \/ next_serial > MaxSerial
             /\ NotRegistered
    /\ Leave(t)
    /\ UNCHANGED <<now, session, security, permits, admitted, refs, attempts, published>>

-----------------------------------------------------------------------------
(* Permits *)

\* preflight_proposal: the configured base and the sealed target are current
Preflight(g) ==
    g.route = "ai" => g.base = DecisionHead /\ g.proposal = proposal /\ now < GrantExpiry

MayPrepare(g) ==
    /\ g.route \in allowed
    /\ ~profile[g.route].suspended
    /\ profile[g.route].generation = g.generation
    /\ Preflight(g)
    /\ next_serial <= MaxSerial

Deadline(r) ==
    IF r = "ai" /\ GrantExpiry < now + Ttl THEN GrantExpiry ELSE now + Ttl

\* prepare_ai, prepare_human_decision: exchange a registration for a permit;
\* the session was authenticated before the gate
Prepare(t) ==
    /\ Turn(t, {"prepare"})
    /\ \/ \E g \in registrations :
             /\ g.serial = call[t].serial
             /\ MayPrepare(g)
             /\ next_serial' = next_serial + 1
             /\ registrations' = registrations \ {g}
             /\ permits' = permits \cup
                  {[serial |-> next_serial, execution |-> g.serial, route |-> g.route,
                    session |-> call[t].session, epoch |-> epoch,
                    generation |-> g.generation, proposal |-> g.proposal,
                    base |-> g.base, issued |-> now, not_after |-> Deadline(g.route)]}
       \/ /\ \A g \in registrations : g.serial = call[t].serial => ~MayPrepare(g)
          /\ UNCHANGED registry
    /\ Leave(t)
    /\ UNCHANGED <<now, session, security, admitted, refs, attempts, published>>

\* validate_live_permit, validate_live_human_permit
Live(p) ==
    /\ p.route \in allowed
    /\ epoch = p.epoch
    /\ ~profile[p.route].suspended
    /\ profile[p.route].generation = p.generation

\* permit_time: not before the last time seen, not after the deadline
InTime(t) == call[t].seen <= now /\ now < call[t].permit.not_after

See(t) == call' = [call EXCEPT ![t] = [@ EXCEPT !.seen = now]]

\* what the steps of a publication leave alone
Quiet == UNCHANGED <<now, session, security, next_serial, registrations, admitted,
                     refs, published>>

Attempt(p) == attempts' = [attempts EXCEPT ![p.execution] = @ + 1]

\* execute_and_publish_ai, publish_human_decision: whoever authenticates burns
\* the permit, even one issued to another actor or session
Burn(t, p, a) ==
    /\ pc[t] = "idle"
    /\ "publish" \in Operations
    /\ p \in permits /\ session[a] # 0
    /\ permits' = permits \ {p}
    /\ \/ /\ a = p.route /\ session[a] = p.session
          /\ Goto(t, "start")
          /\ call' = [call EXCEPT ![t] = [op |-> "publish", permit |-> p,
                                          seen |-> p.issued, at |-> 0, guard |-> 0]]
       \/ /\ a # p.route \/ session[a] # p.session
          /\ UNCHANGED <<pc, call>>
    /\ UNCHANGED <<fence, attempts>> /\ Quiet

\* the first look at the clock, and for the AI route at the live authority
Start(t) ==
    /\ pc[t] = "start"
    /\ LET p == call[t].permit
           ok == InTime(t) /\ (p.route = "ai" => Live(p))
       IN \/ /\ ok /\ See(t) /\ Attempt(p)
             /\ \/ p.route = "ai" /\ Goto(t, "executing") /\ UNCHANGED fence
                \/ p.route = "human" /\ Enter(t, "waiting")
          \/ ~ok /\ Return(t) /\ UNCHANGED <<fence, attempts>>
    /\ UNCHANGED permits /\ Quiet

\* the executor answers, fails or panics; it may take forever
Executor(t) ==
    /\ pc[t] = "executing"
    /\ \/ Goto(t, "reauth") /\ UNCHANGED call
       \/ Return(t)
    /\ UNCHANGED <<fence, permits, attempts>> /\ Quiet

\* the credential must still authenticate the same session
Reauth(t) ==
    /\ pc[t] = "reauth"
    /\ \/ /\ session["ai"] = call[t].permit.session
          /\ Enter(t, "waiting") /\ UNCHANGED call
       \/ /\ session["ai"] # call[t].permit.session
          /\ Return(t) /\ UNCHANGED fence
    /\ UNCHANGED <<permits, attempts>> /\ Quiet

\* mutant: the authority seen before the executor ran is trusted
Check_TrustsStart(t) ==
    /\ pc[t] = "waiting" /\ AtGate(t)
    /\ \/ InTime(t) /\ See(t) /\ Goto(t, "evaluate") /\ UNCHANGED fence
       \/ ~InTime(t) /\ Leave(t)
    /\ UNCHANGED <<permits, attempts>> /\ Quiet

\* inside the gate: clock and authority once more
Check(t) ==
    /\ pc[t] = "waiting" /\ AtGate(t)
    /\ \/ InTime(t) /\ Live(call[t].permit) /\ See(t) /\ Goto(t, "evaluate") /\ UNCHANGED fence
       \/ ~(InTime(t) /\ Live(call[t].permit)) /\ Leave(t)
    /\ UNCHANGED <<permits, attempts>> /\ Quiet

-----------------------------------------------------------------------------
(* Publication through Core, the gate held throughout *)

\* publish_decision: the proposal's one parent is the sealed decision head and
\* no decision up to that head is about it
Admissible(p) ==
    p.route = "human" => /\ base[p.proposal] = p.base
                         /\ p.proposal \notin {decided[i] : i \in 1..p.base}

\* the closure, the authority chain and the candidate are examined, last the
\* time through the deadline clock
Evaluate(t) ==
    /\ pc[t] = "evaluate"
    /\ \/ /\ Admissible(call[t].permit) /\ InTime(t)
          /\ call' = [call EXCEPT ![t] = [@ EXCEPT !.at = now]]
          /\ Goto(t, "begin") /\ UNCHANGED fence
       \/ Leave(t)
    /\ UNCHANGED <<permits, attempts>> /\ Quiet

\* mutant: the wait for the write lock is not looked at again
Begin_NoGuard(t) ==
    /\ pc[t] = "begin"
    /\ Goto(t, "commit") /\ call' = [call EXCEPT ![t] = [@ EXCEPT !.guard = now]]
    /\ UNCHANGED <<fence, permits, attempts>> /\ Quiet

\* BEGIN IMMEDIATE and the transaction guard, or the busy timeout
Begin(t) ==
    /\ pc[t] = "begin"
    /\ \/ /\ InTime(t) /\ call[t].at <= now
          /\ Goto(t, "commit") /\ call' = [call EXCEPT ![t] = [@ EXCEPT !.guard = now]]
          /\ UNCHANGED fence
       \/ Leave(t)
    /\ UNCHANGED <<permits, attempts>> /\ Quiet

\* precondition and target compare: the base and the old proposal for an AI
\* proposal, the proposal and the base for a decision
HeadsMatch(p) == DecisionHead = p.base /\ proposal = p.proposal

\* the Ref, and the proposal's handle in the receipt; or a conflict
Commit(t) ==
    /\ pc[t] = "commit"
    /\ LET p == call[t].permit
       IN IF HeadsMatch(p)
          THEN /\ published' = Append(published,
                     [route |-> p.route, issued |-> p.issued,
                      at |-> call[t].at, guard |-> call[t].guard])
               /\ \/ /\ p.route = "ai"
                     /\ base' = Append(base, p.base)
                     /\ proposal' = Len(base')
                     /\ admitted' = admitted \cup {proposal'}
                     /\ UNCHANGED decided
                  \/ /\ p.route = "human"
                     /\ decided' = Append(decided, p.proposal)
                     /\ UNCHANGED <<base, proposal, admitted>>
          ELSE UNCHANGED <<published, refs, admitted>>
    /\ Leave(t)
    /\ UNCHANGED <<now, session, security, registry, attempts>>

\* another process publishes through the same code; SQLite keeps it out while
\* a transaction of ours is open
Foreign ==
    /\ "foreign" \in Operations
    /\ \A t \in Threads : pc[t] # "commit"
    /\ \/ /\ Len(base) < MaxProposals
          /\ base' = Append(base, DecisionHead) /\ proposal' = Len(base')
          /\ UNCHANGED decided
       \/ /\ proposal # 0 /\ base[proposal] = DecisionHead
          /\ decided' = Append(decided, proposal)
          /\ UNCHANGED <<base, proposal>>
    /\ UNCHANGED <<now, session, security, registry, admitted, fence, pc, call, attempts, published>>

Tick ==
    /\ \/ now < MaxTime /\ now' = now + 1
       \/ ClockCanRetreat /\ now > 0 /\ now' = now - 1
    /\ UNCHANGED <<session, security, registry, admitted, fence, pc, call, refs, attempts, published>>

\* a credential expires, or authenticates a new session
Relogin(a) ==
    /\ session' = [session EXCEPT ![a] = (@ + 1) % 3]
    /\ UNCHANGED <<now, security, registry, admitted, fence, pc, call, refs, attempts, published>>

-----------------------------------------------------------------------------

AskAny(t) ==
    \/ \E r \in Routes, o \in {"grant", "revoke", "suspend", "resume", "replace"} :
          Ask(t, [op |-> o, route |-> r])
    \/ Ask(t, [op |-> "register", route |-> "ai"])
    \/ \E p \in admitted : Ask(t, [op |-> "register", route |-> "human", proposal |-> p])
    \/ \E p \in Proposals :
          Ask(t, [op |-> "recover", route |-> "human", proposal |-> p, base |-> base[p]])
    \/ \E g \in registrations :
          /\ session[g.route] # 0
          /\ Ask(t, [op |-> "prepare", route |-> g.route, serial |-> g.serial,
                     session |-> session[g.route]])

\* the steps of a call that do not depend on the executor
Work(t) ==
    \/ SetAccess(t) \/ SetSuspended(t) \/ Replace(t)
    \/ RegisterExecution(t) \/ RegisterDecision(t) \/ RegisterRecovered(t) \/ Prepare(t)
    \/ Start(t) \/ Reauth(t) \/ Check(t) \/ Evaluate(t) \/ Begin(t) \/ Commit(t)

Next ==
    \/ \E t \in Threads :
          \/ AskAny(t)
          \/ \E p \in permits, a \in Routes : Burn(t, p, a)
          \/ Executor(t)
          \/ Work(t)
    \/ Foreign
    \/ Tick
    \/ \E a \in Relogins : Relogin(a)

Spec == Init /\ [][Next]_vars

\* a thread keeps running, except inside the executor
FairSpec == Spec /\ \A t \in Threads : WF_vars(Work(t))

-----------------------------------------------------------------------------
(* Properties *)

Registration ==
    [serial : Nat, route : Routes, generation : Nat, proposal : Nat, base : Nat]

Permit ==
    [serial : Nat, execution : Nat, route : Routes, session : Nat, epoch : Nat,
     generation : Nat, proposal : Nat, base : Nat, issued : Nat, not_after : Nat]

\* Every variable has the type the Rust structures give it.
TypeOK ==
    /\ now \in 0..MaxTime
    /\ session \in [Routes -> 0..2]
    /\ allowed \subseteq Routes /\ epoch \in 0..MaxEpoch
    /\ profile \in [Routes -> [generation : 0..MaxEpoch, suspended : BOOLEAN, base : Nat]]
    /\ next_serial \in 1..(MaxSerial + 1)
    /\ registrations \subseteq Registration /\ permits \subseteq Permit
    /\ admitted \subseteq Proposals
    /\ \A i \in DOMAIN fence : fence[i] \in Threads
    /\ proposal \in 0..Len(base)
    /\ \A i \in DOMAIN decided : decided[i] \in Proposals

\* Nothing is published for an actor whose access was revoked, or under a
\* profile that was suspended, resumed or replaced, at any time since the permit was
\* issued, up to the instant of the commit: revocation goes through the same
\* fence, so that once revoke_project_access returns no older permit commits.
PublishesOnlyWhileAuthorizedStep ==
    \A t \in Threads : pc[t] = "commit" /\ published' # published => Live(call[t].permit)

PublishesOnlyWhileAuthorized == [][PublishesOnlyWhileAuthorizedStep]_vars

\* A registration runs its executor, or presents its decision, once at most,
\* however many threads prepare it and present its permit: the permit is gone
\* before the first check that could fail.
OneShot == \A e \in 1..MaxSerial : attempts[e] <= 1

\* A publication is evaluated and its transaction begun, in this order, after
\* its permit was issued and before the permit's time to live and the
\* DelegationGrant have run out, however long the executor, the gate and the
\* write lock keep it waiting and even if the clock is set back meanwhile.
PublishedWithinPermit ==
    \A i \in DOMAIN published :
        LET e == published[i]
        IN /\ e.issued <= e.at /\ e.at <= e.guard
           /\ e.guard < e.issued + Ttl
           /\ e.route = "ai" => e.guard < GrantExpiry

\* Each decision is about a proposal that was made for the decision before it;
\* so no proposal is decided twice and none is decided on a base its author
\* did not see, whatever other threads and processes commit in between.
DecisionsExtendTheirBase ==
    \A i \in DOMAIN decided : base[decided[i]] = i - 1

\* What was published was lawful.  A registration runs its executor, or presents
\* its decision, once at most, however many threads present its permit.  Each
\* publication was evaluated and its transaction begun after its permit was
\* issued and before permit and DelegationGrant ran out, however long the
\* executor, the gate and the write lock kept it waiting and even if the clock
\* was set back.  Each decision is about a proposal made for the decision before
\* it: none is decided twice, or on a base its author did not see (lib.rs,
\* prepare_ai, execute_and_publish_ai; human.rs, publish_human_decision).
PublicationsAreSound ==
    /\ TypeOK
    /\ OneShot
    /\ PublishedWithinPermit
    /\ DecisionsExtendTheirBase

\* A call ends, unless its own executor never answers: nobody waits for
\* another thread's executor, because it runs outside the gate.
CallsReturn ==
    \A t \in Threads :
        pc[t] \notin {"idle", "executing"} ~> pc[t] \in {"idle", "executing"}
=============================================================================
