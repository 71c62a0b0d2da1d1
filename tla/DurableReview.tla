---------------------------- MODULE DurableReview ---------------------------
(***************************************************************************)
(* The durable review of one artifact Proposal: synapse-artifact/durable.rs *)
(* over two stores that share no transaction, the review journal and the   *)
(* Refs of the repository.  Workers prepare, publish and commit a Proposal *)
(* and its Decision, recover after a crash, and reconcile a Decision whose *)
(* outcome is unknown.  Every step is one transaction or one read of one   *)
(* store; a worker that crashes or fails between two steps loses its       *)
(* handles, the stores keep what was committed.                            *)
(*                                                                         *)
(* All requests share the accepted manifest, so they have one base head    *)
(* and one proposal Ref; they differ in the proposed manifest.  Other      *)
(* writers of the repository (`synapse update-ref`, the artifact workflow  *)
(* without a journal) may move both Refs to any Commit the repository has, *)
(* back to the base included.                                              *)
(***************************************************************************)
EXTENDS Integers, Sequences, FiniteSets

CONSTANTS
    Clients,       \* workers that propose and decide
    Reconcilers,   \* workers that reconcile
    Proposals,     \* proposal heads
    Dispositions,
    Keys,          \* idempotency keys
    Foreign,       \* Commits of other writers
    Kinds,         \* what other writers do, of AllKinds
    MaxFaults,     \* bound on crashes and failed calls
    MaxMoves,      \* bound on the moves of other writers
    Base,          \* head of the initial checkpoint
    None

\* Other writers give the decision Ref a new Decision on its current head, a
\* new one on the base, any other new Commit, or a Commit that is there
\* already; and they move the proposal Ref.
AllKinds == {"next", "sibling", "stray", "return", "propose"}

States == {"pending_review", "retryable_failure", "outcome_unknown",
           "decision_committed", "terminal_denial"}
Decisionable == {"pending_review", "retryable_failure"}

ASSUME DurableReviewAssumption ==
    /\ None \notin Proposals \cup Keys \cup Foreign \cup {Base} \cup States
    /\ None \notin (Proposals \X Dispositions) \cup [key : Keys, head : Proposals \X Dispositions]
    /\ Base \notin Foreign \cup (Proposals \X Dispositions)
    /\ Foreign \cap (Proposals \X Dispositions) = {}
    /\ Kinds \subseteq AllKinds
    /\ MaxFaults \in Nat /\ MaxMoves \in Nat

Workers == Clients \cup Reconcilers

VARIABLES
    proposal_intents,   \* journal: the request registered under each key
    reviews,            \* journal: state, Decision intent and outcome
    proposal_log,       \* Refs: heads the proposal Ref had
    decision_log,       \* Refs: heads the decision Ref had, and who set them
    commits,            \* the Decisions of other writers: parent and proposal
    pc, task,           \* what each worker is doing, and for which request
    faults, moves

journal == <<proposal_intents, reviews>>
refs == <<proposal_log, decision_log, commits>>
bounds == <<faults, moves>>
vars == <<proposal_intents, reviews, proposal_log, decision_log, commits, pc, task,
          faults, moves>>

\* the Decision commit a request leads to: it is content addressed
Candidate(p, d) == <<p, d>>

NoReview == [state |-> None, intent |-> None, outcome |-> None]
NewTask(k, p, s) == [key |-> k, proposal |-> p, disposition |-> None, seen |-> s]
NoTask == NewTask(None, None, None)
NoDecision == [parent |-> None, proposal |-> None]

Init ==
    /\ proposal_intents = [k \in Keys |-> None]
    /\ reviews = [p \in Proposals |-> NoReview]
    /\ proposal_log = <<>>
    /\ decision_log = <<>>
    /\ commits = [h \in Foreign |-> NoDecision]
    /\ pc = [w \in Workers |-> "idle"]
    /\ task = [w \in Workers |-> NoTask]
    /\ faults = 0
    /\ moves = 0

-----------------------------------------------------------------------------
(* Steps of a worker *)

At(w, l) == pc[w] = l

Goto(w, l) == pc' = [pc EXCEPT ![w] = l] /\ UNCHANGED task

See(w, l, x) ==
    /\ pc' = [pc EXCEPT ![w] = l]
    /\ task' = [task EXCEPT ![w].seen = x]

\* the call returns and its handles are consumed
Drop(w) ==
    /\ pc' = [pc EXCEPT ![w] = "idle"]
    /\ task' = [task EXCEPT ![w] = NoTask]

\* a worker with nothing in hand begins a call
Begin(w, l, t) ==
    /\ At(w, "idle")
    /\ pc' = [pc EXCEPT ![w] = l]
    /\ task' = [task EXCEPT ![w] = t]
    /\ UNCHANGED <<journal, refs, bounds>>

\* go on to l when the step's condition holds, or fail
GoIf(w, l, condition) == IF condition THEN Goto(w, l) ELSE Drop(w)

DecisionHead == IF decision_log = <<>> THEN None
                                       ELSE decision_log[Len(decision_log)].head

ProposalHead == IF proposal_log = <<>> THEN None ELSE proposal_log[Len(proposal_log)]

\* an entry of the decision Ref's reflog
Moved(h, who) == [head |-> h, by |-> who]

Linked(p) == reviews[p].state # None

Heads == {Base} \cup (Proposals \X Dispositions) \cup Foreign

-----------------------------------------------------------------------------
(* The Proposal: prepare, publish, commit *)

\* prepare_artifact_proposal for an initial base: no Ref may exist
PrepareProposal(w, k, p) ==
    /\ w \in Clients
    /\ proposal_log = <<>> /\ decision_log = <<>>
    /\ Begin(w, "register", NewTask(k, p, None))

\* register_proposal_intent: an exact retry replays, all else conflicts
RegisterProposal(w) ==
    /\ At(w, "register")
    /\ LET k == task[w].key
           p == task[w].proposal
           replayed == proposal_intents[k] = p
           created == proposal_intents[k] = None /\ ~Linked(p)
                      /\ \A j \in Keys : proposal_intents[j] # p
       IN /\ proposal_intents' = IF created THEN [proposal_intents EXCEPT ![k] = p]
                                            ELSE proposal_intents
          /\ GoIf(w, "prepared", created \/ (replayed /\ ~Linked(p)))
    /\ UNCHANGED <<reviews, refs, bounds>>

\* initialize_decision_ref_if_needed
InitializeDecisionRef(w) ==
    /\ At(w, "prepared")
    /\ decision_log' = IF decision_log = <<>> THEN <<Moved(Base, "workflow")>>
                                              ELSE decision_log
    /\ GoIf(w, "initialized", DecisionHead \in {None, Base})
    /\ UNCHANGED <<journal, proposal_log, commits, bounds>>

\* execute_and_publish_ai: compare-and-swap from absent, at the base head
PublishProposal(w) ==
    /\ At(w, "initialized")
    /\ LET free == proposal_log = <<>> /\ DecisionHead = Base
       IN /\ proposal_log' = IF free THEN <<task[w].proposal>> ELSE proposal_log
          /\ GoIf(w, "published", free)
    /\ UNCHANGED <<journal, decision_log, commits, bounds>>

\* commit_proposal_publication: the review is created once
CommitProposal(w) ==
    /\ At(w, "published")
    /\ LET p == task[w].proposal
       IN reviews' = IF Linked(p) THEN reviews
                     ELSE [reviews EXCEPT ![p].state = "pending_review"]
    /\ pc' = [pc EXCEPT ![w] = "pending"]
    /\ task' = [task EXCEPT ![w].key = None]
    /\ UNCHANGED <<proposal_intents, refs, bounds>>

\* recover_durable_artifact_proposal finds the intent, its request unchanged
RecoverProposal(w, k) ==
    /\ w \in Clients
    /\ proposal_intents[k] # None
    /\ Begin(w, "recovering", NewTask(k, proposal_intents[k], None))

\* inspect_cas on the proposal Ref, then recover_prepared_artifact_proposal
\* or recover_published_artifact_proposal, which read the live Refs again
InspectProposal(w) ==
    /\ At(w, "recovering")
    /\ LET p == task[w].proposal
       IN \/ proposal_log = <<>> /\ GoIf(w, "reprepare", ~Linked(p))
          \/ proposal_log = <<p>> /\ Goto(w, "republish")
          \/ proposal_log \notin {<<>>, <<p>>} /\ Drop(w)
    /\ UNCHANGED <<journal, refs, bounds>>

ReprepareProposal(w) ==
    /\ At(w, "reprepare")
    /\ GoIf(w, "prepared", proposal_log = <<>> /\ DecisionHead \in {None, Base})
    /\ UNCHANGED <<journal, refs, bounds>>

\* derive_published_artifact_proposal
Published(p) == ProposalHead = p /\ DecisionHead = Base

RederiveProposal(w) ==
    /\ At(w, "republish")
    /\ GoIf(w, "published", Published(task[w].proposal))
    /\ UNCHANGED <<journal, refs, bounds>>

-----------------------------------------------------------------------------
(* The Decision: prepare, publish, commit *)

\* recover_durable_artifact_review: the journal, then the live Refs
RecoverReview(w, p) ==
    /\ w \in Clients
    /\ reviews[p].state \in Decisionable
    /\ Begin(w, "rederive", NewTask(None, p, None))

RederiveReview(w) ==
    /\ At(w, "rederive")
    /\ GoIf(w, "pending", Published(task[w].proposal))
    /\ UNCHANGED <<journal, refs, bounds>>

\* prepare_durable_artifact_decision reads the journal
AskDecision(w, k, d) ==
    /\ At(w, "pending")
    /\ reviews[task[w].proposal].state \in Decisionable
    /\ pc' = [pc EXCEPT ![w] = "claim"]
    /\ task' = [task EXCEPT ![w] = [@ EXCEPT !.key = k, !.disposition = d]]
    /\ UNCHANGED <<journal, refs, bounds>>

\* prepare_artifact_decision: the approval is claimed, the binding verified
\* against the live Refs, the objects are put and the permit is prepared; a
\* handle that fails here stays ready
PrepareDecision(w) ==
    /\ At(w, "claim")
    /\ IF Published(task[w].proposal)
       THEN Goto(w, "intend")
       ELSE /\ pc' = [pc EXCEPT ![w] = "pending"]
            /\ task' = [task EXCEPT ![w] = [@ EXCEPT !.key = None, !.disposition = None]]
    /\ UNCHANGED <<journal, refs, bounds>>

Intent(w) == [key |-> task[w].key, head |-> Candidate(task[w].proposal, task[w].disposition)]

\* register_decision_commit_intent: one intent per review, replayed exactly
RegisterDecision(w) ==
    /\ At(w, "intend")
    /\ LET p == task[w].proposal
           created == reviews[p].intent = None /\ reviews[p].state \in Decisionable
           replayed == reviews[p].intent = Intent(w)
       IN /\ reviews' = IF created THEN [reviews EXCEPT ![p].intent = Intent(w)] ELSE reviews
          /\ GoIf(w, "decision_prepared", created \/ replayed)
    /\ UNCHANGED <<proposal_intents, refs, bounds>>

\* publish_prepared_durable_artifact_decision reads the state
ReadBeforePublish(w) ==
    /\ At(w, "decision_prepared")
    /\ LET r == reviews[task[w].proposal]
       IN IF r.intent # None /\ r.intent.head = Intent(w).head /\ r.state \in Decisionable
          THEN See(w, "arm", r.state)
          ELSE Drop(w)
    /\ UNCHANGED <<journal, refs, bounds>>

\* mutant: the state read before is not compared
Transition_Blind(p, expected, next) ==
    reviews' = [reviews EXCEPT ![p].state = next]

\* transition_review_state: compare-and-set; a conflict changes nothing.  The
\* callers ask only for transitions that state_transition_allowed admits.
Transition(p, expected, next) ==
    reviews' = IF reviews[p].state = expected THEN [reviews EXCEPT ![p].state = next]
                                              ELSE reviews

\* the attempt is marked outcome_unknown before its one compare-and-swap
Arm(w) ==
    /\ At(w, "arm")
    /\ LET p == task[w].proposal
       IN /\ Transition(p, task[w].seen, "outcome_unknown")
          /\ GoIf(w, "armed", reviews[p].state = task[w].seen)
    /\ UNCHANGED <<proposal_intents, refs, bounds>>

\* publish_human_decision: base to candidate, the proposal Ref unchanged
PublishDecision(w) ==
    /\ At(w, "armed")
    /\ LET free == Published(task[w].proposal)
       IN /\ decision_log' = IF free THEN Append(decision_log, Moved(Intent(w).head, "workflow"))
                                     ELSE decision_log
          /\ GoIf(w, "decision_published", free)
    /\ UNCHANGED <<journal, proposal_log, commits, bounds>>

\* commit_published_durable_artifact_decision: checkout of the live head
CheckoutDecision(w) ==
    /\ At(w, "decision_published")
    /\ GoIf(w, "checked_out", DecisionHead = Intent(w).head)
    /\ UNCHANGED <<journal, refs, bounds>>

\* commit_decision_outcome: replayed when recorded, refused when denied
RecordOutcome(p, c) ==
    reviews' = IF /\ reviews[p].intent # None /\ reviews[p].intent.head = c
                  /\ reviews[p].state \in Decisionable \cup {"outcome_unknown"}
               THEN [reviews EXCEPT ![p].state = "decision_committed", ![p].outcome = c]
               ELSE reviews

CommitDecision(w) ==
    /\ At(w, "checked_out")
    /\ RecordOutcome(task[w].proposal, Intent(w).head)
    /\ Drop(w)
    /\ UNCHANGED <<proposal_intents, refs, bounds>>

-----------------------------------------------------------------------------
(* Reconciliation *)

\* reflog entries of the decision Ref, each with the head it replaced
Old(i) == IF i = 1 THEN None ELSE decision_log[i - 1].head
Entries == DOMAIN decision_log
Into(c) == {i \in Entries : decision_log[i].head = c}
Touches(c) == Cardinality({i \in Entries : c \in {decision_log[i].head, Old(i)}})
ExactTransitions(c) == Cardinality({i \in Into(c) : Old(i) = Base})

\* what validate_artifact_history_commit finds in a Commit: its parent and, for
\* a Decision on the base, the proposal it is about
Decision(h) == IF h \in Foreign THEN commits[h] ELSE [parent |-> Base, proposal |-> h[1]]

\* it accepts the checkpoint, and a Decision whose proposal is still published
Accepted(h) == \/ h = Base
               \/ /\ Decision(h).parent # None
                  /\ Decision(h).parent = Base => Decision(h).proposal = ProposalHead

\* the Commits verify_artifact_decision_descendant meets on its way from a head
\* to the checkpoint, or to a Commit it does not accept
Walk ==
    LET walk[h \in Heads] ==
            {h} \cup IF h # Base /\ Accepted(h) THEN walk[Decision(h).parent] ELSE {}
    IN walk

\* mutant: only the current head is compared
DecisionEvidence_HeadOnly(c) ==
    CASE DecisionHead = c -> "committed"
      [] DecisionHead = Base -> "not_committed"
      [] OTHER -> "stale_not_committed"

\* mutant: descendants of the candidate are not looked for
DecisionEvidence_NoDescendants(c) ==
    CASE DecisionHead = c -> "committed"
      [] Touches(c) = 0 /\ DecisionHead = Base -> "not_committed"
      [] Touches(c) = 0 /\ DecisionHead # Base -> "stale_not_committed"
      [] OTHER -> "ambiguous"

\* inspect_decision_cas
DecisionEvidence(c) ==
    CASE DecisionHead = c /\ Touches(c) = 1 /\ ExactTransitions(c) = 1 -> "committed"
      [] Touches(c) = 0 /\ DecisionHead = Base -> "not_committed"
      [] Touches(c) = 0 /\ DecisionHead # Base -> "stale_not_committed"
      [] Touches(c) = 2 /\ ExactTransitions(c) = 1 /\ DecisionHead # c ->
            CASE \E h \in Walk[DecisionHead] : ~Accepted(h) -> "integrity_error"
              [] c \in Walk[DecisionHead] -> "committed_superseded"
              [] OTHER -> "ambiguous"
      [] OTHER -> "ambiguous"

\* reconcile_durable_artifact_review reads the journal; terminal states and a
\* review without an intent return at once
Reconcile(w, p) ==
    /\ w \in Reconcilers
    /\ reviews[p].state \in Decisionable \cup {"outcome_unknown"}
    /\ reviews[p].intent # None
    /\ Begin(w, "inspect", NewTask(None, p, reviews[p].state))

\* the candidate of the intent that was read: it never changes again
Intended(w) == reviews[task[w].proposal].intent.head

\* the evidence, from one read-only snapshot of the Refs
InspectDecision(w) ==
    /\ At(w, "inspect")
    /\ LET evidence == DecisionEvidence(Intended(w))
       IN IF evidence = "integrity_error" THEN Drop(w) ELSE Goto(w, evidence)
    /\ UNCHANGED <<journal, refs, bounds>>

\* reconcile_decision_not_committed, for a review that was read as unknown
ReturnToRetryable(w) ==
    /\ At(w, "not_committed")
    /\ IF task[w].seen = "outcome_unknown"
       THEN Transition(task[w].proposal, "outcome_unknown", "retryable_failure")
       ELSE UNCHANGED reviews
    /\ Drop(w)
    /\ UNCHANGED <<proposal_intents, refs, bounds>>

\* checkout_from_intent opens the repository again
CheckoutIntent(w) ==
    /\ At(w, "committed")
    /\ GoIf(w, "committed_superseded", DecisionHead = Intended(w))
    /\ UNCHANGED <<journal, refs, bounds>>

RecordReconciled(w) ==
    /\ At(w, "committed_superseded")
    /\ RecordOutcome(task[w].proposal, Intended(w))
    /\ Drop(w)
    /\ UNCHANGED <<proposal_intents, refs, bounds>>

Deny(w) ==
    /\ At(w, "stale_not_committed")
    /\ Transition(task[w].proposal, task[w].seen, "terminal_denial")
    /\ Drop(w)
    /\ UNCHANGED <<proposal_intents, refs, bounds>>

StayUnknown(w) ==
    /\ At(w, "ambiguous")
    /\ IF task[w].seen \in Decisionable
       THEN Transition(task[w].proposal, task[w].seen, "outcome_unknown")
       ELSE UNCHANGED reviews
    /\ Drop(w)
    /\ UNCHANGED <<proposal_intents, refs, bounds>>

-----------------------------------------------------------------------------
(* Environment *)

\* a crash, an I/O error, an expired permit or approval, a lost lock: the
\* handles are gone
Fail(w) ==
    /\ ~At(w, "idle")
    /\ faults < MaxFaults
    /\ faults' = faults + 1
    /\ Drop(w)
    /\ UNCHANGED <<journal, refs, moves>>

\* a caller lets go of a pending review
Release(w) ==
    /\ At(w, "pending")
    /\ Drop(w)
    /\ UNCHANGED <<journal, refs, bounds>>

\* a move of another writer, of a kind it makes
OtherWriter(k) ==
    /\ k \in Kinds
    /\ moves < MaxMoves
    /\ moves' = moves + 1
    /\ UNCHANGED <<journal, pc, task, faults>>

Move(h) ==
    /\ decision_log # <<>>
    /\ decision_log' = Append(decision_log, Moved(h, "other"))
    /\ UNCHANGED proposal_log

\* it gives the decision Ref a Commit of its own; a Decision on the base is
\* about the published proposal
Advance(h, k) ==
    /\ OtherWriter(k)
    /\ Move(h)
    /\ Into(h) = {}
    /\ LET parent == IF k = "next" THEN DecisionHead ELSE Base
       IN \/ k = "stray" /\ UNCHANGED commits
          \/ /\ k \in {"next", "sibling"}
             /\ parent = Base => proposal_log # <<>>
             /\ commits' = [commits EXCEPT ![h].parent = parent,
                               ![h].proposal = IF parent = Base THEN ProposalHead ELSE None]

\* the Commits that are there: those the Ref had, and those that registered
\* intents name
Present == {decision_log[i].head : i \in Entries}
             \cup {reviews[p].intent.head : p \in {q \in Proposals : reviews[q].intent # None}}

\* it gives the decision Ref a Commit that is there: an earlier head, the base,
\* or the candidate of a review
Return(h) ==
    /\ OtherWriter("return")
    /\ Move(h)
    /\ h \in Present
    /\ UNCHANGED commits

\* it gives the proposal Ref a registered proposal
MoveProposal(p) ==
    /\ OtherWriter("propose")
    /\ \E k \in Keys : proposal_intents[k] = p
    /\ proposal_log' = Append(proposal_log, p)
    /\ UNCHANGED <<decision_log, commits>>

-----------------------------------------------------------------------------
(* Specification *)

ProposalStep(w) ==
    \/ RegisterProposal(w) \/ InitializeDecisionRef(w) \/ PublishProposal(w)
    \/ CommitProposal(w) \/ InspectProposal(w) \/ ReprepareProposal(w)
    \/ RederiveProposal(w)

DecisionStep(w) ==
    \/ RederiveReview(w) \/ PrepareDecision(w) \/ RegisterDecision(w)
    \/ ReadBeforePublish(w) \/ Arm(w) \/ PublishDecision(w)
    \/ CheckoutDecision(w) \/ CommitDecision(w)

ReconcileStep(w) ==
    \/ InspectDecision(w) \/ ReturnToRetryable(w) \/ CheckoutIntent(w)
    \/ RecordReconciled(w) \/ Deny(w) \/ StayUnknown(w)

Next ==
    \/ \E w \in Workers :
          \/ \E k \in Keys, p \in Proposals : PrepareProposal(w, k, p)
          \/ \E k \in Keys : RecoverProposal(w, k)
          \/ \E p \in Proposals : RecoverReview(w, p) \/ Reconcile(w, p)
          \/ \E k \in Keys, d \in Dispositions : AskDecision(w, k, d)
          \/ ProposalStep(w) \/ DecisionStep(w) \/ ReconcileStep(w)
          \/ Fail(w) \/ Release(w)
    \/ \E h \in Foreign, k \in Kinds : Advance(h, k)
    \/ \E h \in Heads : Return(h)
    \/ \E p \in Proposals : MoveProposal(p)

Spec == Init /\ [][Next]_vars

\* a call that was begun goes on, and a review in outcome_unknown is queried
FairSpec ==
    /\ Spec
    /\ \A w \in Reconcilers :
          /\ WF_vars(ReconcileStep(w))
          /\ WF_vars(\E p \in Proposals : reviews[p].state = "outcome_unknown" /\ Reconcile(w, p))

-----------------------------------------------------------------------------
(* Properties *)

ReviewRows == [state : States \cup {None},
               intent : [key : Keys, head : Proposals \X Dispositions] \cup {None},
               outcome : (Proposals \X Dispositions) \cup {None}]

Tasks == [key : Keys \cup {None}, proposal : Proposals \cup {None},
          disposition : Dispositions \cup {None}, seen : States \cup {None}]

\* The journal's rows, the Refs and the workers' tasks are well typed.
TypeOK ==
    /\ proposal_intents \in [Keys -> Proposals \cup {None}]
    /\ reviews \in [Proposals -> ReviewRows]
    /\ proposal_log \in Seq(Proposals)
    /\ decision_log \in Seq([head : Heads, by : {"workflow", "other"}])
    /\ commits \in [Foreign -> [parent : Heads \cup {None}, proposal : Proposals \cup {None}]]
    /\ task \in [Workers -> Tasks]
    /\ faults \in 0..MaxFaults /\ moves \in 0..MaxMoves

\* The candidate of a review's intent is in the history of the decision Ref.
Committed(p) == reviews[p].intent # None /\ Into(reviews[p].intent.head) # {}

Proposed(p) == proposal_log # <<>> /\ proposal_log[1] = p

\* A public review exists only for the first head the proposal Ref ever had: no
\* crash, retry, competing request or other writer makes
\* commit_proposal_publication create one for any other proposal.
ReviewsArePublished == \A p \in Proposals : Linked(p) => Proposed(p)

\* decision_committed is recorded only for a step that happened: the decision
\* Ref's history holds the exact step from the base to the recorded head,
\* whatever other writers and reconcilers did meanwhile.
OutcomesHappened ==
    \A p \in Proposals : reviews[p].state = "decision_committed" =>
        /\ reviews[p].outcome = reviews[p].intent.head
        /\ \E i \in Into(reviews[p].outcome) : Old(i) = Base

\* A review is closed as terminal_denial only when its Decision is not in the
\* history of the decision Ref.  A publisher may be on its way to the
\* compare-and-swap when reconciliation closes the review; its Decision still
\* gets into the history only if another writer brings the Ref back to the
\* base, or to that Decision.
DenialIsFinal ==
    \A p \in Proposals : reviews[p].state = "terminal_denial" =>
        \A i \in Into(reviews[p].intent.head) :
            \E j \in 2..i : /\ decision_log[j].by = "other"
                            /\ decision_log[j].head \in {Base, reviews[p].intent.head}

\* No Decision that publish_prepared_durable_artifact_decision swapped in is in
\* the Ref's history while its review still says pending_review: the attempt is
\* marked first, so a crash after the compare-and-swap is found.
CasIsArmed ==
    \A p \in Proposals, i \in Entries :
        decision_log[i].by = "workflow" /\ decision_log[i].head \in {p} \X Dispositions
            => reviews[p].state # "pending_review"

\* The journal tells the truth about the Refs, whatever crashes, retries,
\* competing requests, other writers and reconcilers come between: a public
\* review has had its proposal on the proposal Ref, decision_committed stands
\* for a step that happened, terminal_denial for a Decision that no worker gets
\* into the history unless others bring the Ref back, and no Decision that was
\* swapped in is still pending_review.
JournalIsTrue ==
    /\ TypeOK
    /\ ReviewsArePublished
    /\ OutcomesHappened
    /\ DenialIsFinal
    /\ CasIsArmed

\* what a step leaves of the journal's CAS-time facts
FactsStay ==
    /\ \A k \in Keys : proposal_intents[k] # None => proposal_intents'[k] = proposal_intents[k]
    /\ \A p \in Proposals :
          LET r == reviews[p]
              s == reviews'[p]
          IN /\ r.intent # None => s.intent = r.intent
             /\ r.outcome # None => s.outcome = r.outcome
             /\ r.state \in {"decision_committed", "terminal_denial"} => s.state = r.state
             /\ r.state \notin {None, "pending_review"} => s.state # "pending_review"

\* The journal's CAS-time facts are write-once: the request of a key, the
\* intent and the outcome of a review and its terminal states never change,
\* and no state leads back to pending_review.
RecordedFactsStay == [][FactsStay]_vars

\* A review is retryable_failure only while its Decision has not been
\* committed: reconciliation returns to retryable what is proved uncommitted.
RetryableIsUncommitted ==
    \A p \in Proposals : reviews[p].state = "retryable_failure" => ~Committed(p)

\* A review in outcome_unknown leaves that state again once it is queried:
\* crashes, a successor Decision or a competing one do not leave it stuck, as
\* long as other writers add Decisions to the head they find (Kinds = {"next"}).
UnknownIsReconciled ==
    \A p \in Proposals :
        (reviews[p].state = "outcome_unknown") ~> (reviews[p].state # "outcome_unknown")

=============================================================================
