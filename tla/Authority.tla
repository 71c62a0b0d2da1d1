------------------------------ MODULE Authority ------------------------------
(***************************************************************************)
(* What the Core accepts as an AI proposal (synapse-core, authorization.rs) *)
(* and as a human decision on it (human_decision.rs), as predicates over    *)
(* one repository.  A case gives every OID an object, and the names         *)
(* "authority", "request", "review" and "world" what the embedding service  *)
(* configures, what the caller asks for, and the Refs and clock readings    *)
(* that the call meets.  Error codes are abstracted to acceptance and       *)
(* refusal; the graph limits of the traversals are those of ClosureWalk and *)
(* are not reached here.  Ref names and selectors are sequences of segments. *)
(***************************************************************************)
EXTENDS Naturals, Sequences, FiniteSets, SequencesExt, FiniteSetsExt

CONSTANTS KindOf,   \* the kind of every OID: "blob", "tree", "commit", "record"
          Genuine,  \* a case that both routes accept
          Changes   \* sequences of changes to it, each of one field: [of, field, value]

VARIABLE case

Changed(c, change) == [c EXCEPT ![change.of] = [@ EXCEPT ![change.field] = change.value]]

AuthorityInit == \E changes \in Changes : case = FoldLeft(Changed, Genuine, changes)
AuthorityNext == UNCHANGED case

-----------------------------------------------------------------------------
(* Loading objects, closures, snapshots *)

load_structured(o, kind) == KindOf[o] = kind /\ case[o].present

load_record(o, type) == load_structured(o, "record") /\ case[o].type = type

Oids(references) == {r.oid : r \in ToSet(references)}

References(o) ==
    LET x == case[o]
    IN  CASE ~x.present -> {}
          [] x.present /\ KindOf[o] = "blob" -> {}
          [] x.present /\ KindOf[o] = "tree" -> x.entries
          [] x.present /\ KindOf[o] = "commit" ->
               ToSet(x.parents) \union {x.snapshot} \union ToSet(x.transitions)
                   \union x.declarations
          [] x.present /\ KindOf[o] = "record" ->
               CASE x.type = "context_pack" ->
                      {x.grant, x.policy, x.base_commit, x.expected_ref_head} \union x.selected
                 [] x.type = "activity" ->
                      {x.context, x.grant} \union Oids(x.inputs) \union Oids(x.outputs)
                          \union x.prompts
                 [] x.type = "decision_feedback" -> {x.proposal}
                 [] OTHER -> x.refs

RECURSIVE Reaching(_, _)
Reaching(frontier, seen) ==
    IF frontier = {} THEN seen
    ELSE LET known == seen \union frontier
         IN  Reaching(UNION {References(o) : o \in frontier} \ known, known)

ClosureOf(roots) == Reaching(roots, {})

validate_prepared_head(c) == \A o \in ClosureOf({c}) : case[o].present

RECURSIVE Trees(_, _)
Trees(frontier, seen) ==
    IF frontier = {} THEN seen
    ELSE LET known == seen \union frontier
             below == {o \in UNION {References(t) : t \in frontier} : KindOf[o] = "tree"}
         IN  Trees(below \ known, known)

SnapshotTrees(c) == Trees({case[c].snapshot}, {})

SnapshotLoads(c) ==
    load_structured(c, "commit") /\ \A t \in SnapshotTrees(c) : load_structured(t, "tree")

snapshot_object_set(c) ==
    SnapshotTrees(c) \union UNION {case[t].entries : t \in SnapshotTrees(c)}

Retains(candidate, base) ==
    {o \in snapshot_object_set(base) : KindOf[o] # "tree"} \subseteq snapshot_object_set(candidate)

AllPresent(oids) == \A o \in oids : case[o].present

-----------------------------------------------------------------------------
(* Selectors and Policy rules *)

\* a selector is [base, sub, supported]; sub is a trailing "/**"
segment_prefix_matches(prefix, value) == prefix # << >> /\ IsPrefix(prefix, value)

selector_matches(s, resource) ==
    s.supported /\ IF s.sub THEN segment_prefix_matches(s.base, resource) ELSE s.base = resource

require_writable_prefix(grant, ref) ==
    \E p \in grant.prefixes : segment_prefix_matches(p, ref)

require_project_resource(grant, project) ==
    \E s \in grant.resources : selector_matches(s, <<"project", project>>)

AiCapability == {"read_context", "analyze", "propose_branch", "submit_claim",
                 "request_review", "render_preview"}

policy_action(capability) ==
    CASE capability = "read_context" -> "read"
      [] capability = "analyze" -> "analyze"
      [] capability \in {"propose_branch", "request_review"} -> "propose"
      [] OTHER -> "derive"

Rank(effect) == CASE effect = "allow" -> 1 [] effect = "require_human_gate" -> 2 [] OTHER -> 3

\* one rule folded into the effect so far: "none" before the first match, and
\* "error" once a rule cannot be evaluated
JoinRule(action, resource, rule, effect) ==
    IF rule.action # action \/ effect = "error" THEN effect
    ELSE IF ~rule.selector.supported THEN "error"
    ELSE IF ~selector_matches(rule.selector, resource) THEN effect
    ELSE IF rule.effect = "allow" /\ rule.condition THEN "error"
    ELSE IF effect = "none" \/ Rank(rule.effect) > Rank(effect) THEN rule.effect
    ELSE effect

CapabilityResource(capability, project, ref) ==
    IF capability \in {"propose_branch", "request_review"} THEN ref ELSE <<"project", project>>

authorize_policy_capability(policy, capability, project, ref) ==
    LET join(rule, effect) ==
            JoinRule(policy_action(capability), CapabilityResource(capability, project, ref),
                     rule, effect)
        effect == FoldLeft(LAMBDA e, r : join(r, e), "none", policy.rules)
    IN  IF effect = "none" THEN policy.default = "allow" ELSE effect = "allow"

\* the reviewer's rule: a Deny wins over any gate, an unsatisfied gate over a
\* satisfied one, and the default decides only when no rule matches
authorize_human_publish(policy, decision_ref) ==
    LET publish == {r \in ToSet(policy.rules) : r.action = "publish"}
        matching == {r \in publish : selector_matches(r.selector, decision_ref)}
        refuses(r) == \/ r.effect = "deny"
                      \/ r.effect = "require_human_gate" /\ r.gate # "before_decision_ref"
    IN  /\ \A r \in publish : r.selector.supported
        /\ \A r \in matching : ~r.condition /\ ~refuses(r)
        /\ matching # {} \/ policy.default = "allow"


-----------------------------------------------------------------------------
(* The authority of an AI execution *)

require_ai_namespace(ref) == Head(ref) = "proposal"
require_human_gated_base(ref) == Head(ref) \in {"decision", "release"}

\* the records that say who acts for whom
ResolveIdentity ==
    LET a == case["authority"]
        context == case[a.context_pack]
        grant == case[context.grant]
        policy == case[context.policy]
        actor == case[a.actor_record]
        principal == case[a.principal_record]
    IN  /\ load_record(a.context_pack, "context_pack") /\ context.by = a.principal
        /\ load_record(context.grant, "delegation_grant")
        /\ grant.delegate = a.actor /\ grant.principal = a.principal /\ grant.by = a.principal
        /\ load_record(context.policy, "policy") /\ policy.by = a.principal
        /\ load_record(a.actor_record, "actor") /\ actor.entity = a.actor
        /\ actor.kind = "ai_agent" /\ actor.by = a.principal
        /\ load_record(a.principal_record, "actor") /\ principal.entity = a.principal
        /\ principal.by = a.principal /\ principal.kind \in {"human", "organization"}

\* the base that the context pack names, and the scope of grant and policy
ResolveScope(ref) ==
    LET a == case["authority"]
        context == case[a.context_pack]
        grant == case[context.grant]
    IN  /\ context.base_commit = context.expected_ref_head
        /\ context.base_commit \in context.selected
        /\ AllPresent(context.selected)
        /\ SnapshotLoads(context.base_commit)
        /\ {a.actor_record, a.principal_record, context.grant, context.policy}
               \subseteq snapshot_object_set(context.base_commit)
        /\ context.base_ref = a.base_ref
        /\ grant.project = a.project
        /\ grant.project \in case[context.policy].scope
        /\ context.classification \in grant.classes
        /\ require_project_resource(grant, grant.project)
        /\ require_writable_prefix(grant, ref)

normalized_capabilities(list) == ToSet(list)

\* every capability is in the actor's, the grant's and the runtime's set, and
\* the policy allows it; the grant is active
ResolveCapabilities(ref, now) ==
    LET a == case["authority"]
        context == case[a.context_pack]
        grant == case[context.grant]
        exact == normalized_capabilities(a.capabilities)
    IN  /\ "propose_branch" \in exact
        /\ case[a.actor_record].capabilities \union grant.capabilities \subseteq AiCapability
        /\ exact \subseteq case[a.actor_record].capabilities \intersect grant.capabilities
                               \intersect normalized_capabilities(a.runtime)
        /\ \A c \in exact :
             authorize_policy_capability(case[context.policy], c, grant.project, ref)
        /\ grant.from <= now /\ now < grant.until

resolve_ai_authority(ref, now) ==
    /\ require_ai_namespace(ref)
    /\ require_human_gated_base(case["authority"].base_ref)
    /\ ResolveIdentity
    /\ ResolveScope(ref)
    /\ ResolveCapabilities(ref, now)

-----------------------------------------------------------------------------
(* What a candidate adds, and to what it must be bound *)

Roots(activity) == Oids(case[activity].outputs)

InputClosure(context) == ClosureOf(case[context].selected \union {context})

\* what the run produced: its outputs and what they reach, inputs left out
Produced(activity, context) ==
    Roots(activity) \union (ClosureOf(Roots(activity)) \ InputClosure(context))

\* the trees of a snapshot that contain a bound object, at any depth
RECURSIVE BoundTrees(_, _)
BoundTrees(trees, bound) ==
    LET above == {t \in trees \ bound : case[t].entries \intersect bound # {}}
    IN  IF above = {} THEN bound ELSE BoundTrees(trees, bound \union above)

\* what a candidate snapshot may hold: base objects, the run's records and
\* what the run produced
Named(base, activity, context) ==
    snapshot_object_set(base) \union {activity, context} \union Produced(activity, context)

\* trees apart, the snapshot holds nothing else
DeclaredSnapshot(candidate, base, activity, context) ==
    LET snapshot == snapshot_object_set(candidate)
        named == Named(base, activity, context)
        bound == BoundTrees(SnapshotTrees(candidate), named \intersect snapshot)
    IN  \A o \in snapshot :
            \/ o \in named
            \/ KindOf[o] = "tree" /\ (o = case[candidate].snapshot \/ o \in bound)

\* so does everything that the candidate reaches, the inputs and trees apart
DeclaredClosure(candidate, base, activity, context) ==
    LET known == ClosureOf({base}) \union InputClosure(context)
        added == ClosureOf({candidate}) \ known
    IN  {o \in added : KindOf[o] # "tree"} \ {candidate, activity, context}
            \subseteq Produced(activity, context)

\* the objects whose size counts against the grant
Counted(candidate, base, activity, context) ==
    (SnapshotTrees(candidate) \union Produced(activity, context)) \ snapshot_object_set(base)

Size(oids) == MapThenSumSet(LAMBDA o : case[o].bytes, oids)

\* what an output record or role requires of the run
RequiredCapabilities(activity, context) ==
    LET types == {case[o].type : o \in {p \in Produced(activity, context) : KindOf[p] = "record"}}
        roles == {r.role : r \in ToSet(case[activity].outputs)}
        when(present, c) == IF present THEN {c} ELSE {}
    IN  {"read_context", "propose_branch"}
          \union when("claim" \in types, "submit_claim")
          \union when("analysis_result" \in types, "analyze")
          \union when("preview" \in roles, "render_preview")
          \union when("review_request" \in roles, "request_review")

\* mutant: any Record of the agent may be an output
OutputAdmitted_AnyRecord(o, agent) ==
    KindOf[o] # "commit" /\ (KindOf[o] = "record" => case[o].by = agent)

\* a produced Record is the agent's own analysis result or claim
OutputAdmitted(o, agent) ==
    /\ KindOf[o] # "commit"
    /\ KindOf[o] = "record" => /\ case[o].by = agent
                               /\ case[o].type \in {"analysis_result", "claim"}
                               /\ case[o].type = "claim" => ~case[o].ai_run

\* require_candidate_output_binding, but for the capabilities it returns
OutputsBound(candidate, base, activity, context, agent, grant) ==
    /\ validate_prepared_head(candidate) /\ validate_prepared_head(base)
    /\ Roots(activity) \subseteq snapshot_object_set(candidate)
    /\ InputClosure(context) \subseteq ClosureOf({candidate})
    /\ DeclaredSnapshot(candidate, base, activity, context)
    /\ DeclaredClosure(candidate, base, activity, context)
    /\ \A o \in Produced(activity, context) : OutputAdmitted(o, agent)
    /\ Size(Counted(candidate, base, activity, context)) <= case[grant].max_output_bytes

require_role(entries, role) == SelectSeq(entries, LAMBDA e : e.role = role)

require_present_activity_references(activity) ==
    AllPresent(Oids(case[activity].inputs) \union Oids(case[activity].outputs)
                   \union case[activity].prompts)

-----------------------------------------------------------------------------
(* Publishing an AI proposal *)

\* the candidate and its Activity name the authenticated agent and principal
CandidateIsTheRun ==
    LET a == case["authority"]
        request == case["request"]
        commit == case[request.new_head]
        run == case[request.activity]
    IN  /\ load_structured(request.new_head, "commit") /\ load_record(request.activity, "activity")
        /\ commit.commit_kind = "checkpoint" /\ commit.author = a.actor
        /\ request.activity \in ToSet(commit.transitions)
        /\ run.activity_kind = "ai_run" /\ run.status = "proposal_ready"
        /\ run.side_effect \in {"none", "project_internal"}
        /\ run.agent = a.actor /\ run.principal = a.principal /\ run.by = run.agent
        /\ require_role(run.actors, "agent") = <<[role |-> "agent", actor |-> run.agent]>>
        /\ require_role(run.actors, "responsible_principal")
             = <<[role |-> "responsible_principal", actor |-> run.principal]>>
        /\ run.context = a.context_pack
        /\ require_role(run.inputs, "context") = <<[role |-> "context", oid |-> run.context]>>

\* everything that publish_proposal_internal checks before the transaction
CandidateChecks(side_effect, now) ==
    LET a == case["authority"]
        request == case["request"]
        run == case[request.activity]
        base == case[a.context_pack].base_commit
        exact == normalized_capabilities(a.capabilities)
    IN  /\ require_ai_namespace(request.ref) /\ require_human_gated_base(a.base_ref)
        /\ validate_prepared_head(request.new_head)
        /\ CandidateIsTheRun
        /\ resolve_ai_authority(request.ref, now)
        /\ run.side_effect = side_effect
        /\ run.grant = case[a.context_pack].grant
        /\ case[request.new_head].parents = <<base>>
        /\ Retains(request.new_head, base)
        /\ require_present_activity_references(request.activity)
        /\ OutputsBound(request.new_head, base, request.activity, run.context, a.actor, run.grant)
        /\ run.capabilities = exact /\ "propose_branch" \in exact
        /\ RequiredCapabilities(request.activity, run.context) \subseteq exact

\* the transaction: guard, base precondition, compare-and-swap
ProposalTransaction ==
    LET world == case["world"]
        context == case[case["authority"].context_pack]
        grant == case[context.grant]
    IN  /\ world.evaluated <= world.guarded
        /\ grant.from <= world.guarded /\ world.guarded < grant.until
        /\ world.base_head = context.base_commit
        /\ world.target_head = case["request"].expected

publish_proposal ==
    /\ CandidateChecks(case[case["request"].activity].side_effect, case["world"].evaluated)
    /\ ProposalTransaction

\* an earlier preflight of the same target
preflight_proposal ==
    LET world == case["world"]
    IN  /\ resolve_ai_authority(case["request"].ref, world.preflighted)
        /\ world.base_head = case[case["authority"].context_pack].base_commit
        /\ world.target_head = case["request"].expected

\* the capability lists that the preflight recorded, and those of the runtime
require_preflight_authority_binding(granted, now) ==
    normalized_capabilities(granted) = normalized_capabilities(now)

\* the runtime that publishes may list the same capabilities differently
publish_preflighted ==
    LET a == case["authority"]
        request == case["request"]
        world == case["world"]
    IN  /\ preflight_proposal
        /\ require_preflight_authority_binding(a.preflight_capabilities, a.capabilities)
        /\ world.preflighted <= world.evaluated
        /\ CandidateChecks(request.side_effect, world.evaluated)
        /\ ProposalTransaction

-----------------------------------------------------------------------------
(* Publishing a human decision *)

RECURSIVE Ancestors(_, _)
Ancestors(frontier, seen) ==
    IF frontier = {} THEN seen
    ELSE LET known == seen \union frontier
         IN  Ancestors(UNION {ToSet(case[c].parents) : c \in frontier} \ known, known)

require_proposal_not_previously_decided(base, proposal) ==
    \A c \in Ancestors({base}, {}) : \A t \in ToSet(case[c].transitions) :
        case[t].type = "decision_feedback" => case[t].proposal # proposal

protected_control_set(c) ==
    {o \in snapshot_object_set(c) :
        KindOf[o] = "record" /\ case[o].type \in {"actor", "policy", "delegation_grant", "tombstone"}}

require_disposition_snapshot(base, proposal, decision, disposition) ==
    \/ /\ disposition = "adopted_unchanged"
       /\ case[decision].snapshot = case[proposal].snapshot
    \/ /\ disposition \in {"rejected", "deferred", "experiment_only"}
       /\ case[decision].snapshot = case[base].snapshot

\* the run, context pack and grant behind the proposal, against the reviewer
ChainIdentity(review, activity) ==
    LET run == case[activity]
        context == case[run.context]
        grant == case[run.grant]
        proposal == case[review.proposal_head]
    IN  /\ load_record(activity, "activity")
        /\ run.activity_kind = "ai_run" /\ run.status = "proposal_ready"
        /\ proposal.author = run.agent /\ run.by = run.agent /\ run.principal = review.human
        /\ require_role(run.actors, "agent") = <<[role |-> "agent", actor |-> run.agent]>>
        /\ require_role(run.actors, "responsible_principal")
             = <<[role |-> "responsible_principal", actor |-> review.human]>>
        /\ run.side_effect \in {"none", "project_internal"}
        /\ "before_decision_ref" \in run.gates
        /\ require_role(run.inputs, "context") = <<[role |-> "context", oid |-> run.context]>>
        /\ load_record(run.context, "context_pack") /\ context.by = review.human
        /\ load_record(run.grant, "delegation_grant") /\ grant.by = review.human
        /\ grant.principal = review.human /\ grant.delegate = run.agent
        /\ grant.project = review.project

\* mutant: the grant's prefixes must cover the Decision Ref
ChainRef_Decision(review) == review.decision_ref

\* the Ref that the grant's prefixes must cover
ChainRef(review) == review.proposal_ref

require_ai_proposal_chain(review) ==
    LET transitions == case[review.proposal_head].transitions
        activity == Head(transitions)
        run == case[activity]
        context == case[run.context]
        grant == case[run.grant]
    IN  /\ Len(transitions) = 1
        /\ ChainIdentity(review, activity)
        /\ context.base_commit = review.decision_head
        /\ context.expected_ref_head = review.decision_head
        /\ context.base_ref = review.decision_ref
        /\ context.policy = review.policy_record /\ context.grant = run.grant
        /\ review.decision_head \in context.selected /\ AllPresent(context.selected)
        /\ run.grant \in snapshot_object_set(review.decision_head)
        /\ context.classification \in grant.classes
        /\ require_project_resource(grant, review.project)
        /\ require_writable_prefix(grant, ChainRef(review))
        /\ "before_decision_ref" \in grant.gates
        /\ require_present_activity_references(activity)
        /\ OutputsBound(review.proposal_head, review.decision_head, activity, run.context,
                        run.agent, run.grant)

\* the reviewer, the policy and the proposal, before the decision is looked at
ReviewAdmitted ==
    LET review == case["review"]
        human == case[review.human_record]
        policy == case[review.policy_record]
        proposal == case[review.proposal_head]
    IN  /\ Head(review.decision_ref) = "decision" /\ Head(review.proposal_ref) = "proposal"
        /\ load_record(review.human_record, "actor") /\ load_record(review.policy_record, "policy")
        /\ human.entity = review.human /\ human.by = review.human /\ human.kind = "human"
        /\ {review.human_record, review.policy_record}
               \subseteq snapshot_object_set(review.decision_head)
        /\ policy.by = review.human /\ review.project \in policy.scope
        /\ authorize_human_publish(policy, review.decision_ref)
        /\ require_proposal_not_previously_decided(review.decision_head, review.proposal_head)
        /\ proposal.commit_kind = "checkpoint" /\ proposal.parents = <<review.decision_head>>
        /\ protected_control_set(review.proposal_head) = protected_control_set(review.decision_head)
        /\ \A c \in {review.decision_head, review.proposal_head, review.new_head} :
             validate_prepared_head(c)
        /\ require_ai_proposal_chain(review)
        /\ Retains(review.proposal_head, review.decision_head)

DecisionFits ==
    LET review == case["review"]
        decision == case[review.new_head]
        feedback == case[review.feedback]
    IN  /\ load_record(review.feedback, "decision_feedback")
        /\ decision.commit_kind = "decision" /\ decision.parents = <<review.decision_head>>
        /\ decision.author = review.human /\ decision.transitions = <<review.feedback>>
        /\ decision.declarations = {}
        /\ feedback.by = review.human /\ feedback.origin = "self_declared"
        /\ feedback.proposal = review.proposal_head
        /\ require_disposition_snapshot(review.decision_head, review.proposal_head,
                                        review.new_head, feedback.disposition)
        /\ Retains(review.new_head, review.decision_head)
        /\ protected_control_set(review.new_head) = protected_control_set(review.decision_head)

DecisionTransaction ==
    LET world == case["world"]
        review == case["review"]
    IN  /\ world.evaluated <= world.guarded
        /\ world.proposal_head = review.proposal_head
        /\ world.decision_head = review.decision_head

publish_decision == ReviewAdmitted /\ DecisionFits /\ DecisionTransaction

-----------------------------------------------------------------------------
(* Properties *)

\* An accepted AI proposal leaves the actors, policies, grants and Tombstones
\* of its base snapshot exactly as they are, whatever its outputs refer to
\* (require_candidate_output_binding with
\* require_candidate_preserves_base_snapshot_objects).
ControlsAreKept ==
    publish_proposal =>
        protected_control_set(case["request"].new_head)
            = protected_control_set(case[case["authority"].context_pack].base_commit)

Added(candidate, base, activity) ==
    (snapshot_object_set(candidate) \ snapshot_object_set(base))
        \ {activity, case[activity].context}

\* What an accepted proposal adds to the snapshot, and what an accepted
\* decision adds to the canonical one, fits the grant's max_output_bytes; only
\* the run's Activity and ContextPack are free (the byte count of
\* require_candidate_output_binding, which both routes call).
OutputsAreAccounted ==
    LET request == case["request"]
        review == case["review"]
        run == case[request.activity]
        decided == Head(case[review.proposal_head].transitions)
    IN  /\ publish_proposal =>
             Size(Added(request.new_head, case[run.context].base_commit, request.activity))
                 <= case[run.grant].max_output_bytes
        /\ publish_decision =>
             Size(Added(review.new_head, review.decision_head, decided))
                 <= case[case[decided].grant].max_output_bytes

\* the review and the decision are about this publication, and well formed
ReviewMatches ==
    LET a == case["authority"]
        context == case[a.context_pack]
        review == case["review"]
    IN  /\ review.human = a.principal /\ review.human_record = a.principal_record
        /\ review.project = a.project /\ review.policy_record = context.policy
        /\ review.decision_ref = a.base_ref /\ review.decision_head = context.base_commit
        /\ review.proposal_ref = case["request"].ref
        /\ review.proposal_head = case["request"].new_head
        /\ validate_prepared_head(review.new_head) /\ DecisionFits /\ DecisionTransaction

\* what only the reviewer's route demands
ReviewerDemands ==
    LET review == case["review"]
        run == case[case["request"].activity]
    IN  /\ Head(review.decision_ref) = "decision"
        /\ case[review.human_record].kind = "human"
        /\ Len(case[review.proposal_head].transitions) = 1
        /\ "before_decision_ref" \in run.gates \intersect case[run.grant].gates
        /\ authorize_human_publish(case[review.policy_record], review.decision_ref)
        /\ require_proposal_not_previously_decided(review.decision_head, review.proposal_head)

\* A proposal that the AI route accepted can be decided by its principal: the
\* second chain of checks demands nothing more than the listed points
\* (publish_proposal_internal against require_ai_proposal_chain).
AcceptedCanBeDecided == publish_proposal /\ ReviewMatches /\ ReviewerDemands => publish_decision

\* the meaning of a rule list, without its order
PolicyAllows(policy, capability, project, ref) ==
    LET same == {r \in ToSet(policy.rules) : r.action = policy_action(capability)}
        matching == {r \in same : selector_matches(r.selector,
                                     CapabilityResource(capability, project, ref))}
    IN  /\ \A r \in same : r.selector.supported
        /\ \A r \in matching : r.effect = "allow" /\ ~r.condition
        /\ matching # {} \/ policy.default = "allow"

\* The verdict of a Policy on a capability does not depend on the order of its
\* rules: one matching Deny, gate, conditional allow or unsupported selector
\* refuses (authorize_policy_capability).
PolicyIsOrderFree ==
    LET a == case["authority"]
        policy == case[case[a.context_pack].policy]
    IN  load_record(case[a.context_pack].policy, "policy") =>
          \A c \in AiCapability :
             authorize_policy_capability(policy, c, a.project, case["request"].ref)
                 <=> PolicyAllows(policy, c, a.project, case["request"].ref)

\* A preflight neither adds nor takes away authority: with the same set of
\* capabilities, however listed, and the same side effect class, a publication
\* under a granted preflight is accepted exactly when the direct one is
\* (publish_preflighted, require_resolved_preflight_binding).
PreflightIsFaithful ==
    LET a == case["authority"]
        world == case["world"]
    IN  /\ ToSet(a.preflight_capabilities) = ToSet(a.capabilities)
        /\ case["request"].side_effect = case[case["request"].activity].side_effect
        /\ preflight_proposal /\ world.preflighted <= world.evaluated
        => (publish_preflighted <=> publish_proposal)
=============================================================================
