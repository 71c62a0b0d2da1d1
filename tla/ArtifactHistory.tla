---------------------------- MODULE ArtifactHistory ----------------------------
(***************************************************************************)
(* The decision history of one artifact project (synapse-artifact):        *)
(* proposals that build on the decided site, the human's decisions, and    *)
(* the readers that prove a decided site from the stored graph alone --    *)
(* checkout of the current decision, verification of a former one, and the *)
(* proof that one decision descends from another.                          *)
(*                                                                         *)
(* Commits and Trees are numbered in the order they are stored; equal      *)
(* contents have one number, as equal OIDs do.  A history can therefore    *)
(* have no cycle and the readers' visited sets are left out.  A site is    *)
(* named by its digest; readers answer Refused for every error.            *)
(***************************************************************************)
EXTENDS Naturals, Sequences, FiniteSets

CONSTANTS Writers, Sites, Configs,
          MaxHistory,           \* the 10,000 commits a traversal follows
          MaxNodes, MaxEdges,   \* the authority budget of one checkout
          None, Refused

VARIABLES commits, trees, decision, proposals, pc, draft, outcomes, begins

historyVars == <<commits, trees, decision, proposals, pc, draft, outcomes, begins>>

Dispositions == {"adopted_unchanged", "rejected", "deferred"}

-----------------------------------------------------------------------------
(* Stored values *)

\* the protected control entries of a project made with this configuration
expected_artifact_authority_oids(config) ==
    [human  |-> <<config.at, "human", config.creator>>,
     agent  |-> <<config.at, "ai_agent", config.agent>>,
     policy |-> <<config.at, "policy">>,
     grant  |-> <<config.at, "grant", config.expires>>]

ControlTree(control, site) ==
    [control |-> control, base |-> None, context |-> None, activity |-> None, site |-> site]

context_record(base, policy, grant, at) ==
    [asserted_by |-> "human", base |-> base, policy |-> policy, grant |-> grant, at |-> at]

activity_record(context, grant, site, at) ==
    [asserted_by |-> "agent", context |-> context, grant |-> grant, output |-> site, at |-> at]

ProposalTree(base, context, activity, site) ==
    [control |-> None, base |-> base, context |-> context, activity |-> activity, site |-> site]

feedback_record(proposal, disposition, at) ==
    [asserted_by |-> "human", proposal |-> proposal, disposition |-> disposition, at |-> at]

commit(kind, parents, snapshot, transitions, author, at) ==
    [kind |-> kind, parents |-> parents, snapshot |-> snapshot,
     transitions |-> transitions, author |-> author, at |-> at]

Number(store, value) ==
    IF \E i \in DOMAIN store : store[i] = value
    THEN CHOOSE i \in DOMAIN store : store[i] = value
    ELSE Len(store) + 1

Stored(store, value) ==
    IF \E i \in DOMAIN store : store[i] = value THEN store ELSE Append(store, value)

-----------------------------------------------------------------------------
(* Availability of the project for the next review *)

RECURSIVE DecidedFrom(_, _, _)
DecidedFrom(cursor, left, decided) ==
    LET c == commits[cursor] IN
    IF left = 0 THEN Refused
    ELSE IF c.kind = "checkpoint"
         THEN IF c.parents = <<>> /\ c.transitions = <<>> THEN decided ELSE Refused
    ELSE IF Len(c.parents) # 1 \/ Len(c.transitions) # 1 THEN Refused
    ELSE DecidedFrom(c.parents[1], left - 1, decided \union {c.transitions[1].proposal})

decided_proposal_heads(head) == DecidedFrom(head, MaxHistory, {})

\* the name of a proposal's Ref: a digest of the head that it builds on
artifact_attempt_id(base, proposal) == base

\* the Proposal Refs of the project
Heads == {proposals[b] : b \in DOMAIN proposals} \ {None}

validate_review_availability(head) ==
    /\ decided_proposal_heads(head) # Refused
    /\ Heads \subseteq decided_proposal_heads(head)

-----------------------------------------------------------------------------
(* Checkout *)

Add(work, nodes, edges) ==
    [nodes |-> work.nodes + nodes, edges |-> work.edges + edges]

Within(work) == work.nodes <= MaxNodes /\ work.edges <= MaxEdges

ChosenTree(disposition, proposalTree, baseTree) ==
    IF disposition = "adopted_unchanged" THEN proposalTree ELSE baseTree

\* what a decision's proposal must be, whoever reads it
ProposalFits(p, parent) ==
    /\ p.kind = "checkpoint" /\ p.parents = <<parent>> /\ p.author = "agent"
    /\ Len(p.transitions) = 1
    /\ trees[p.snapshot].control = None
    /\ trees[p.snapshot].activity = p.transitions[1]
    /\ trees[p.snapshot].base = commits[parent].snapshot

RECURSIVE verify_prior_decision_chain(_, _, _, _)
verify_prior_decision_chain(cursor, policy, grant, work) ==
    LET c == commits[cursor] IN
    IF c.author # "human" THEN Refused
    ELSE IF c.kind = "checkpoint"
         THEN IF c.parents = <<>> /\ c.transitions = <<>> /\ trees[c.snapshot].control # None
              THEN Add(work, 2, 2) ELSE Refused
    ELSE IF Len(c.parents) # 1 \/ Len(c.transitions) # 1 THEN Refused
    ELSE LET parent == c.parents[1]
             feedback == c.transitions[1]
             p == commits[feedback.proposal]
             tree == trees[p.snapshot]
         IN  IF /\ feedback.asserted_by = "human"
                /\ feedback.disposition \in Dispositions
                /\ ProposalFits(p, parent)
                /\ c.snapshot = ChosenTree(feedback.disposition, p.snapshot,
                                           commits[parent].snapshot)
                /\ tree.context.asserted_by = "human"
                /\ tree.context.base = parent
                /\ tree.context.policy = policy
                /\ tree.context.grant = grant
                /\ tree.activity.asserted_by = "agent"
                /\ tree.activity.context = tree.context
                /\ tree.activity.output = tree.site
                /\ tree.activity.grant = grant
             THEN verify_prior_decision_chain(parent, policy, grant, Add(work, 7, 6))
             ELSE Refused

\* mutant: the control entries are looked for in the base snapshot itself
verify_base_authority_Flat(snapshot, policy, grant, work) ==
    LET control == trees[snapshot].control IN
    IF control # None /\ control.grant = grant /\ control.policy = policy
    THEN Add(work, 7, 8) ELSE Refused

RECURSIVE verify_base_authority(_, _, _, _)
verify_base_authority(snapshot, policy, grant, work) ==
    LET tree == trees[snapshot] IN
    IF tree.control = None
    THEN verify_base_authority(tree.base, policy, grant, Add(work, 1, 4))
    ELSE IF /\ tree.control.grant = grant /\ tree.control.policy = policy
            /\ tree.control.human[2] = "human" /\ tree.control.agent[2] = "ai_agent"
         THEN Add(work, 7, 8)
         ELSE Refused

NoWork == [nodes |-> 0, edges |-> 0]

verify_context_and_activity(base, tree) ==
    LET context == tree.context
        prior == verify_prior_decision_chain(base, context.policy, context.grant, NoWork)
        all == IF prior = Refused THEN Refused
               ELSE verify_base_authority(commits[base].snapshot, context.policy,
                                          context.grant, prior)
    IN  /\ context.asserted_by = "human" /\ context.base = base
        /\ tree.activity.asserted_by = "agent"
        /\ tree.activity.context = context
        /\ tree.activity.grant = context.grant
        /\ tree.activity.output = tree.site
        /\ all # Refused
        /\ Within(all)

\* the site that the bound decision selects, proved from the graph
verify_generic_decision(binding) ==
    LET d == commits[binding.decision]
        base == commits[binding.base]
        p == commits[binding.proposal]
        chosen == ChosenTree(binding.disposition, p.snapshot, base.snapshot)
    IN  IF /\ d.kind = "decision" /\ d.parents = <<binding.base>>
           /\ Len(d.transitions) = 1
           /\ d.transitions[1].proposal = binding.proposal
           /\ d.transitions[1].disposition = binding.disposition
           /\ d.transitions[1].asserted_by = d.author
           /\ base.author = d.author
           /\ IF base.kind = "checkpoint" THEN base.parents = <<>> /\ base.transitions = <<>>
              ELSE Len(base.parents) = 1 /\ Len(base.transitions) = 1
           /\ ProposalFits(p, binding.base)
           /\ verify_context_and_activity(binding.base, trees[p.snapshot])
           /\ d.snapshot = chosen
        THEN trees[chosen].site ELSE Refused

verify_selected_artifact(binding) ==
    LET site == verify_generic_decision(binding)
    IN  IF site # Refused /\ site = binding.digest THEN site ELSE Refused

HasProposalRef(binding) ==
    LET name == artifact_attempt_id(binding.base, binding.proposal)
    IN  name \in DOMAIN proposals /\ proposals[name] = binding.proposal

checkout_artifact_decision(binding) ==
    IF HasProposalRef(binding) /\ decision = binding.decision
    THEN verify_selected_artifact(binding) ELSE Refused

verify_historical_artifact_decision(binding) ==
    HasProposalRef(binding) /\ verify_selected_artifact(binding) # Refused

-----------------------------------------------------------------------------
(* Descent *)

RECURSIVE verify_protected_authority(_, _, _, _, _)
verify_protected_authority(config, snapshot, policy, grant, left) ==
    LET tree == trees[snapshot] IN
    IF left = 0 THEN Refused
    ELSE IF tree.control = None
         THEN verify_protected_authority(config, tree.base, policy, grant, left - 1)
    ELSE IF /\ tree.control.policy = policy /\ tree.control.grant = grant
            /\ tree.control.human[2] = "human" /\ tree.control.human[3] = config.creator
            /\ tree.control.agent[2] = "ai_agent" /\ tree.control.agent[3] = config.agent
            /\ tree.control.grant[3] = config.expires
         THEN tree.control ELSE Refused

\* the first head is exactly what begin would have stored
GeneratedBase(config, c) ==
    LET authority == expected_artifact_authority_oids(config)
    IN  /\ c = commit("checkpoint", <<>>, c.snapshot, <<>>, "human", config.at)
        /\ trees[c.snapshot] = ControlTree(authority, trees[c.snapshot].site)
        /\ verify_protected_authority(config, c.snapshot, authority.policy, authority.grant,
                                      MaxHistory) = authority

\* what propose would have stored on the parent
GeneratedProposal(config, parent, p) ==
    LET authority == expected_artifact_authority_oids(config)
        site == trees[p.snapshot].site
        context == context_record(parent, authority.policy, authority.grant, config.at)
        activity == activity_record(context, authority.grant, site, config.at)
    IN  /\ p = commit("checkpoint", <<parent>>, p.snapshot, <<activity>>, "agent", config.at)
        /\ trees[p.snapshot] = ProposalTree(commits[parent].snapshot, context, activity, site)

\* a later head: what decide would have stored for a proposal that its Ref holds
GeneratedDecision(config, c) ==
    LET parent == c.parents[1]
        feedback == c.transitions[1]
        p == commits[feedback.proposal]
    IN  /\ Len(c.parents) = 1 /\ Len(c.transitions) = 1
        /\ feedback = feedback_record(feedback.proposal, feedback.disposition, config.at)
        /\ feedback.disposition \in Dispositions
        /\ HasProposalRef([base |-> parent, proposal |-> feedback.proposal])
        /\ GeneratedProposal(config, parent, p)
        /\ c = commit("decision", <<parent>>,
                      ChosenTree(feedback.disposition, p.snapshot, commits[parent].snapshot),
                      <<feedback>>, "human", config.at)

validate_artifact_history_commit(config, head) ==
    LET c == commits[head]
    IN  IF c.kind = "checkpoint" THEN GeneratedBase(config, c) ELSE GeneratedDecision(config, c)

RECURSIVE DescentFrom(_, _, _, _, _)
DescentFrom(config, cursor, ancestor, seen, left) ==
    LET found == seen \/ cursor = ancestor IN
    IF left = 0 \/ ~ validate_artifact_history_commit(config, cursor) THEN Refused
    ELSE IF commits[cursor].kind = "checkpoint" THEN found
    ELSE DescentFrom(config, commits[cursor].parents[1], ancestor, found, left - 1)

verify_artifact_decision_descendant(config, ancestor, descendant) ==
    IF decision # descendant THEN Refused
    ELSE DescentFrom(config, descendant, ancestor, FALSE, MaxHistory)

-----------------------------------------------------------------------------
(* The base of the next proposal *)

\* the binding of the current decision, recovered from the graph
Recovered(head, accepted) ==
    LET d == commits[head]
    IN  [base |-> d.parents[1], proposal |-> d.transitions[1].proposal, decision |-> head,
         disposition |-> d.transitions[1].disposition, digest |-> accepted]

inspect_decision(head) ==
    LET d == commits[head]
    IN  /\ d.kind = "decision"
        /\ Len(d.parents) = 1 /\ Len(d.transitions) = 1
        /\ d.transitions[1].disposition \in Dispositions

\* the control entries of the base, or Refused
verify_existing_artifact_base(config, accepted, head) ==
    LET b == Recovered(head, accepted)
        context == trees[commits[b.proposal].snapshot].context
    IN  IF /\ inspect_decision(head)
           /\ Cardinality({r \in DOMAIN proposals : proposals[r] = b.proposal}) = 1
           /\ checkout_artifact_decision(b) # Refused
           /\ commits[head].author = "human"
           /\ commits[b.proposal].author = "agent"
        THEN verify_protected_authority(config, commits[head].snapshot, context.policy,
                                        context.grant, MaxHistory)
        ELSE Refused

-----------------------------------------------------------------------------
(* Writers *)

Idle == [base |-> None, control |-> None, accepted |-> None, proposed |-> None,
         proposal |-> None, config |-> None]

Start(s) ==
    /\ commits = s.commits /\ trees = s.trees
    /\ decision = s.decision /\ proposals = s.proposals
    /\ begins = s.begins

HistoryInit(starts) ==
    /\ \E s \in starts : Start(s)
    /\ pc = [w \in Writers |-> "idle"]
    /\ draft = [w \in Writers |-> Idle]
    /\ outcomes = {}

\* prepare_artifact_proposal: the first proposal, which brings its own base
PrepareInitial(w, config, accepted, proposed) ==
    LET authority == expected_artifact_authority_oids(config)
        tree == ControlTree(authority, accepted)
        root == commit("checkpoint", <<>>, Number(trees, tree), <<>>, "human", config.at)
        base == Number(commits, root)
        context == context_record(base, authority.policy, authority.grant, config.at)
        activity == activity_record(context, authority.grant, proposed, config.at)
        next == ProposalTree(Number(trees, tree), context, activity, proposed)
        withBase == Stored(trees, tree)
        proposal == commit("checkpoint", <<base>>, Number(withBase, next), <<activity>>, "agent",
                           config.at)
        withRoot == Stored(commits, root)
    IN  /\ pc[w] = "idle" /\ decision = None /\ Heads = {}
        /\ begins > 0 /\ begins' = begins - 1
        /\ trees' = Stored(withBase, next)
        /\ commits' = Stored(withRoot, proposal)
        /\ draft' = [draft EXCEPT ![w] =
                        [base |-> base, control |-> authority, accepted |-> accepted,
                         proposed |-> proposed, proposal |-> Number(withRoot, proposal),
                         config |-> config]]
        /\ pc' = [pc EXCEPT ![w] = "initial"]
        /\ UNCHANGED <<decision, proposals, outcomes>>

\* prepare_next_artifact_proposal, first part: the base is proved
PrepareNext(w, config, accepted, proposed) ==
    /\ pc[w] = "idle" /\ decision # None
    /\ begins > 0 /\ begins' = begins - 1
    /\ validate_review_availability(decision)
    /\ verify_existing_artifact_base(config, accepted, decision) # Refused
    /\ draft' = [draft EXCEPT ![w] =
                    [base |-> decision,
                     control |-> verify_existing_artifact_base(config, accepted, decision),
                     accepted |-> accepted, proposed |-> proposed, proposal |-> None,
                     config |-> config]]
    /\ pc' = [pc EXCEPT ![w] = "verified"]
    /\ UNCHANGED <<commits, trees, decision, proposals, outcomes>>

\* second part, in a repository opened anew: nothing moved; store the proposal
StoreNext(w) ==
    LET d == draft[w]
        context == context_record(d.base, d.control.policy, d.control.grant, d.config.at)
        activity == activity_record(context, d.control.grant, d.proposed, d.config.at)
        next == ProposalTree(commits[d.base].snapshot, context, activity, d.proposed)
        proposal == commit("checkpoint", <<d.base>>, Number(trees, next), <<activity>>, "agent",
                           d.config.at)
    IN  /\ pc[w] = "verified"
        /\ IF /\ decision = d.base
              /\ validate_review_availability(decision)
              /\ trees[commits[d.base].snapshot].site = d.accepted
           THEN /\ trees' = Stored(trees, next)
                /\ commits' = Stored(commits, proposal)
                /\ draft' = [draft EXCEPT ![w].proposal = Number(commits, proposal)]
                /\ pc' = [pc EXCEPT ![w] = "stored"]
           ELSE /\ draft' = [draft EXCEPT ![w] = Idle]
                /\ pc' = [pc EXCEPT ![w] = "idle"]
                /\ UNCHANGED <<trees, commits>>
        /\ UNCHANGED <<decision, proposals, outcomes, begins>>

GiveUp(w) ==
    /\ draft' = [draft EXCEPT ![w] = Idle]
    /\ pc' = [pc EXCEPT ![w] = "idle"]

initialize_decision_ref_if_needed(w) ==
    /\ pc[w] = "initial"
    /\ IF decision \in {None, draft[w].base}
       THEN /\ decision' = draft[w].base
            /\ pc' = [pc EXCEPT ![w] = "stored"]
            /\ UNCHANGED draft
       ELSE GiveUp(w) /\ UNCHANGED decision
    /\ UNCHANGED <<commits, trees, proposals, outcomes, begins>>

\* the Ref update of the proposal: created at the base it was prepared for
PublishProposal(w) ==
    LET d == draft[w]
        name == artifact_attempt_id(d.base, d.proposal)
    IN  /\ pc[w] = "stored"
        /\ IF decision = d.base /\ name \notin DOMAIN proposals
           THEN /\ proposals' = [n \in DOMAIN proposals \union {name} |->
                                    IF n = name THEN d.proposal ELSE proposals[n]]
                /\ pc' = [pc EXCEPT ![w] = "pending"]
                /\ UNCHANGED draft
           ELSE GiveUp(w) /\ UNCHANGED proposals
        /\ UNCHANGED <<commits, trees, decision, outcomes, begins>>

\* the human decides the pending review
Decide(w, disposition) ==
    LET d == draft[w]
        p == commits[d.proposal]
        snapshot == ChosenTree(disposition, p.snapshot, commits[d.base].snapshot)
        made == commit("decision", <<d.base>>, snapshot,
                       <<feedback_record(d.proposal, disposition, d.config.at)>>, "human",
                       d.config.at)
    IN  /\ pc[w] = "pending" /\ decision = d.base
        /\ commits' = Stored(commits, made)
        /\ decision' = Number(commits, made)
        /\ outcomes' = outcomes \union
              {[base |-> d.base, proposal |-> d.proposal, decision |-> Number(commits, made),
                disposition |-> disposition, config |-> d.config,
                digest |-> IF disposition = "adopted_unchanged" THEN d.proposed ELSE d.accepted]}
        /\ GiveUp(w)
        /\ UNCHANGED <<trees, proposals, begins>>

HistoryNext ==
    \E w \in Writers :
        \/ \E config \in Configs, accepted, proposed \in Sites :
              PrepareInitial(w, config, accepted, proposed)
        \/ \E config \in Configs, accepted, proposed \in Sites :
              PrepareNext(w, config, accepted, proposed)
        \/ StoreNext(w)
        \/ initialize_decision_ref_if_needed(w)
        \/ PublishProposal(w)
        \/ \E disposition \in Dispositions : Decide(w, disposition)

HistorySpec(starts) == HistoryInit(starts) /\ [][HistoryNext]_historyVars

-----------------------------------------------------------------------------
(* Properties *)

RECURSIVE SiteAt(_)
SiteAt(head) ==
    LET c == commits[head] IN
    IF c.kind = "checkpoint" THEN trees[c.snapshot].site
    ELSE IF c.transitions[1].disposition = "adopted_unchanged"
         THEN trees[commits[c.transitions[1].proposal].snapshot].site
    ELSE SiteAt(c.parents[1])

\* Every decision the project took can be proved again for as long as the
\* repository exists: the current one checks out to the site the human chose,
\* within the reader's authority budget, and each former one passes the
\* historical verification, however many decisions followed
\* (checkout.rs:223-311, 684-1028).
DecidedStaysProvable ==
    \A o \in outcomes :
        IF o.decision = decision THEN checkout_artifact_decision(o) = o.digest
        ELSE verify_historical_artifact_decision(o)

\* A checkout answers for the current decision only, and with the site that
\* the recorded sequence of human choices selects -- also when the stored
\* history was not written by this code (checkout.rs:405-416, 418-524).
CheckoutIsTheDecidedSite ==
    \A b \in DOMAIN proposals, d \in DOMAIN commits, disposition \in Dispositions,
       digest \in Sites :
        LET binding == [base |-> b, proposal |-> proposals[b], decision |-> d,
                        disposition |-> disposition, digest |-> digest]
            site == checkout_artifact_decision(binding)
        IN  site # Refused => /\ d = decision
                              /\ site = SiteAt(decision)
                              /\ disposition = commits[d].transitions[1].disposition

Taken == {i \in DOMAIN commits : commits[i].kind = "decision"}

\* When every call was made with one configuration, the descent proof finds
\* each completed decision below the current one, so that a review which
\* finished and was overtaken is never reported as lost.  The proposal on the
\* last history that a traversal can follow is still admitted; its decision is
\* one commit beyond the bound and is left out
\* (workflow.rs:1791-1893, 1972-2277).
DescentIsFound ==
    \A o \in outcomes, config \in Configs :
        /\ {x.config : x \in outcomes} = {config}
        /\ \A i \in Taken : commits[i].at = config.at
        /\ Cardinality(Taken) < MaxHistory
        => verify_artifact_decision_descendant(config, o.decision, decision) = TRUE

\* At most one review of the project is open: two writers that prepared at
\* the same decision, or one that prepared before the other decided, cannot
\* both have an undecided Proposal Ref (workflow.rs:1747-1834).
OneOpenReview ==
    decision # None =>
        Cardinality(Heads \ {commits[i].transitions[1].proposal : i \in Taken}) <= 1
=============================================================================
