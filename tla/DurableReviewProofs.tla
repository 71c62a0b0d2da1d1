------------------------ MODULE DurableReviewProofs -------------------------
(***************************************************************************)
(* The journal and the Refs share no transaction.  For every number of     *)
(* workers, proposals, keys, dispositions, faults and moves of other       *)
(* writers, the journal records nothing that did not happen and denies     *)
(* nothing that did.                                                       *)
(***************************************************************************)
EXTENDS DurableReview, FiniteSetTheorems, TLAPS

\* Leaves are first-order; those about numbers, records and sequences cite SMT.
USE ZenonT(40)

ClaimLabels == {"claim", "intend"}
IntentLabels == {"decision_prepared", "arm", "armed", "decision_published",
                 "checked_out"}
ReconcileLabels == {"inspect", "not_committed", "committed",
                    "committed_superseded", "stale_not_committed", "ambiguous"}
Labels == {"idle", "register", "prepared", "initialized", "published",
           "recovering", "reprepare", "republish", "rederive", "pending"}
             \cup ClaimLabels \cup IntentLabels \cup ReconcileLabels

Decisions == Proposals \X Dispositions

\* the states a reconciler starts from
Open == Decisionable \cup {"outcome_unknown"}

LogEntries == [head : Heads, by : {"workflow", "other"}]

\* The decision Ref once went from the base to c; and it once had left the base
\* before it had ever been at c.
Happened(c) == \E i \in 2..Len(decision_log) :
                  decision_log[i].head = c /\ decision_log[i - 1].head = Base
Missed(c) == \E n \in 1..Len(decision_log) :
                /\ decision_log[n].head # Base
                /\ \A j \in 1..n : decision_log[j].head # c

BoundsOK == faults \in 0..MaxFaults /\ moves \in 0..MaxMoves

\* a call carries what its next step needs
Fits(w) ==
    /\ pc[w] # "idle" => task[w].proposal \in Proposals
    /\ pc[w] \in {"register", "recovering"} => task[w].key \in Keys
    /\ pc[w] \in ClaimLabels \cup IntentLabels =>
          task[w].key \in Keys /\ task[w].disposition \in Dispositions
    /\ pc[w] = "arm" => task[w].seen \in Decisionable
    /\ pc[w] \in ReconcileLabels => task[w].seen \in Open

\* what a worker has found out is still true when it uses it
Knows(w) ==
    LET p == task[w].proposal
    IN /\ pc[w] \in {"republish", "published"} => Proposed(p)
       /\ pc[w] = "intend" => decision_log # <<>>
       /\ pc[w] \in IntentLabels =>
             reviews[p].intent # None /\ reviews[p].intent.head = Intent(w).head
       /\ pc[w] = "armed" => reviews[p].state \notin {None, "pending_review"}
       /\ pc[w] \in {"decision_published", "checked_out"} => Happened(Intent(w).head)
       /\ pc[w] \in ReconcileLabels => reviews[p].intent # None
       /\ pc[w] \in {"committed", "committed_superseded"} => Happened(Intended(w))
       /\ pc[w] = "stale_not_committed" => Missed(Intended(w))

WorkersFit ==
    /\ pc \in [Workers -> Labels]
    /\ task \in [Workers -> Tasks]
    /\ \A w \in Workers : Fits(w) /\ Knows(w)

\* the decision Ref starts at the base; the workers move it only there, and from
\* the base to a candidate
LogShape ==
    /\ decision_log # <<>> => decision_log[1].head = Base
    /\ \A i \in 2..Len(decision_log) : decision_log[i].by = "workflow" =>
          decision_log[i].head # Base /\ decision_log[i - 1].head = Base

\* the row of a review fits its state
RowFits(p) ==
    /\ reviews[p].intent # None =>
          /\ Linked(p)
          /\ decision_log # <<>>
          /\ reviews[p].intent.head \in {p} \X Dispositions
    /\ reviews[p].state # "decision_committed" => reviews[p].outcome = None
    /\ reviews[p].state = "decision_committed" =>
          /\ reviews[p].intent # None
          /\ reviews[p].outcome = reviews[p].intent.head
          /\ Happened(reviews[p].outcome)
    /\ reviews[p].state = "terminal_denial" =>
          reviews[p].intent # None /\ Missed(reviews[p].intent.head)

\* a Decision in the history was registered and armed before
HistoryIsArmed ==
    \A i \in Entries, p \in Proposals :
        decision_log[i].by = "workflow" /\ decision_log[i].head \in {p} \X Dispositions =>
            /\ reviews[p].intent # None
            /\ reviews[p].intent.head = decision_log[i].head
            /\ reviews[p].state \notin {None, "pending_review"}

IInv ==
    /\ TypeOK
    /\ WorkersFit
    /\ LogShape
    /\ ReviewsArePublished
    /\ \A p \in Proposals : RowFits(p)
    /\ HistoryIsArmed

-----------------------------------------------------------------------------
(* What no step takes back *)

Grows ==
    /\ \A p \in Proposals : Proposed(p) => Proposed(p)'
    /\ decision_log # <<>> => decision_log' # <<>>
    /\ \A c \in Decisions : (Happened(c) => Happened(c)') /\ (Missed(c) => Missed(c)')
    /\ \A p \in Proposals :
          /\ reviews[p].intent # None => reviews'[p].intent = reviews[p].intent
          /\ reviews[p].state \notin {None, "pending_review"} =>
                reviews'[p].state \notin {None, "pending_review"}

\* The journal's rows are well typed.
LEMMA Rows == IInv => reviews \in [Proposals -> ReviewRows]
BY DEF IInv, TypeOK

\* What a worker knows survives the steps of the others.
LEMMA KnowledgeLasts ==
    ASSUME IInv, Grows, NEW v \in Workers, pc'[v] = pc[v], task'[v] = task[v]
    PROVE  Fits(v)' /\ Knows(v)'
<1>1. Fits(v) /\ Knows(v)
  BY DEF IInv, WorkersFit
<1>2. Fits(v)'
  BY <1>1 DEF Fits
<1>3. CASE pc[v] = "idle"
  BY <1>2, <1>3 DEF Knows, IntentLabels, ReconcileLabels
<1>4. CASE pc[v] # "idle"
  <2>1. PICK q \in Proposals : q = task[v].proposal
    BY <1>1, <1>4 DEF Fits
  <2>2. None \notin Proposals
    BY DurableReviewAssumption
  <2>3. reviews[q].intent # None => reviews[q].intent.head \in Decisions
    BY DEF IInv, RowFits, Decisions
  <2>4. Intent(v)' = Intent(v)
    BY DEF Intent, Candidate
  <2>5. reviews[q].intent # None =>
           /\ reviews'[q].intent = reviews[q].intent
           /\ Intended(v)' = Intended(v) /\ Intended(v) = reviews[q].intent.head
    BY <2>1 DEF Grows, Intended
  <2>6. pc[v] \in IntentLabels => Intent(v).head \in Decisions
    BY <1>1, <2>1, <2>3 DEF Knows
  <2>7. Knows(v)'
    <3>1. /\ pc'[v] \in {"republish", "published"} => Proposed(q)'
          /\ pc'[v] = "intend" => decision_log' # <<>>
      BY <1>1, <2>1 DEF Knows, Grows
    <3>2. pc'[v] \in IntentLabels =>
             reviews'[q].intent # None /\ reviews'[q].intent.head = Intent(v)'.head
      BY <1>1, <2>1, <2>4, <2>5 DEF Knows
    <3>3. pc'[v] = "armed" => reviews'[q].state \notin {None, "pending_review"}
      BY <1>1, <2>1 DEF Knows, Grows
    <3>4. pc'[v] \in {"decision_published", "checked_out"} => Happened(Intent(v).head)'
      <4>1. CASE pc[v] \in {"decision_published", "checked_out"}
        <5>1. Happened(Intent(v).head) /\ Intent(v).head \in Decisions
          BY <1>1, <2>6, <4>1 DEF Knows, IntentLabels
        <5>2. \A c \in Decisions : Happened(c) => Happened(c)'
          BY DEF Grows
        <5> QED BY <2>4, <5>1, <5>2
      <4> QED BY <4>1
    <3>5. pc'[v] \in ReconcileLabels => reviews'[q].intent # None
      BY <1>1, <2>1, <2>5 DEF Knows
    <3>6. pc'[v] \in {"committed", "committed_superseded"} => Happened(Intended(v))'
      BY <1>1, <2>1, <2>3, <2>5 DEF Knows, Grows, ReconcileLabels
    <3>7. pc'[v] = "stale_not_committed" => Missed(Intended(v))'
      BY <1>1, <2>1, <2>3, <2>5 DEF Knows, Grows, ReconcileLabels
    <3> QED BY <2>1, <3>1, <3>2, <3>3, <3>4, <3>5, <3>6, <3>7 DEF Knows
  <2> QED BY <1>2, <2>7
<1> QED BY <1>2, <1>3, <1>4

ActsAlone(w) ==
    /\ pc' = [pc EXCEPT ![w] = pc'[w]]
    /\ task' = [task EXCEPT ![w] = task'[w]]

\* It is enough to look at the worker that takes the step.
LEMMA WorkerStep ==
    ASSUME IInv, Grows, NEW w \in Workers, ActsAlone(w), pc'[w] \in Labels,
           task'[w] \in Tasks, Fits(w)', Knows(w)'
    PROVE  WorkersFit'
<1>1. pc' \in [Workers -> Labels] /\ task' \in [Workers -> Tasks]
  BY DEF ActsAlone, IInv, WorkersFit
<1>2. ASSUME NEW v \in Workers, v # w
      PROVE  pc'[v] = pc[v] /\ task'[v] = task[v]
  BY <1>2 DEF ActsAlone, IInv, WorkersFit
<1> QED BY <1>1, <1>2, KnowledgeLasts DEF WorkersFit

\* A call that ends leaves a worker that needs and knows nothing.
LEMMA DropFits ==
    ASSUME IInv, Grows, NEW w \in Workers, Drop(w)
    PROVE  WorkersFit'
<1>1. pc'[w] = "idle" /\ task'[w] = NoTask /\ ActsAlone(w)
  BY DEF Drop, ActsAlone, IInv, WorkersFit
<1>2. Fits(w)' /\ Knows(w)'
  BY <1>1
  DEF Fits, Knows, ClaimLabels, IntentLabels, ReconcileLabels
<1>3. NoTask \in Tasks
  BY DEF NoTask, NewTask, Tasks
<1> QED BY <1>1, <1>2, <1>3, WorkerStep DEF Labels

-----------------------------------------------------------------------------
(* Steps of the two stores *)

StoresFit ==
    /\ LogShape
    /\ ReviewsArePublished
    /\ \A p \in Proposals : RowFits(p)
    /\ HistoryIsArmed

\* A step that leaves the decision Ref alone takes nothing of its history back.
LEMMA StillThere ==
    ASSUME UNCHANGED decision_log
    PROVE  /\ \A c \in Decisions : (Happened(c) => Happened(c)') /\ (Missed(c) => Missed(c)')
           /\ decision_log # <<>> => decision_log' # <<>>
BY DEF Happened, Missed

\* A step that leaves the reviews and the decision Ref alone leaves what the
\* stores hold fit, wherever it leaves the proposal Ref.
LEMMA StoresStay ==
    ASSUME IInv, UNCHANGED <<reviews, decision_log>>, ReviewsArePublished'
    PROVE  StoresFit'
<1>1. LogShape' /\ HistoryIsArmed'
  BY DEF IInv, LogShape, HistoryIsArmed, Entries
<1>2. \A p \in Proposals : RowFits(p)'
  BY DEF IInv, RowFits, Linked, Happened, Missed
<1> QED BY <1>1, <1>2 DEF StoresFit

\* A step that leaves both stores alone only has to leave its worker fit.
LEMMA QuietStep ==
    ASSUME IInv, UNCHANGED <<journal, refs>>, BoundsOK' \/ UNCHANGED bounds,
           Grows => WorkersFit'
    PROVE  IInv'
<1>1. Grows
  BY StillThere DEF Grows, Proposed, journal, refs
<1>2. TypeOK'
  BY <1>1 DEF IInv, TypeOK, WorkersFit, journal, refs, BoundsOK, bounds
<1>3. StoresFit'
  <2>1. ReviewsArePublished'
    BY DEF IInv, ReviewsArePublished, Linked, Proposed, journal, refs
  <2> QED BY <2>1, StoresStay DEF journal, refs
<1> QED BY <1>1, <1>2, <1>3 DEF IInv, StoresFit

\* A step on one row of the journal that takes nothing back.
LEMMA RowStep ==
    ASSUME IInv, NEW p \in Proposals, NEW row \in ReviewRows,
           reviews' = [reviews EXCEPT ![p] = row],
           UNCHANGED <<proposal_intents, refs, bounds>>,
           Grows, row.state # None => Proposed(p), RowFits(p)',
           WorkersFit'
    PROVE  IInv'
<1>1. reviews' \in [Proposals -> ReviewRows] /\ reviews'[p] = row
  BY DEF IInv, TypeOK
<1>2. \A q \in Proposals : q # p => reviews'[q] = reviews[q]
  BY DEF IInv, TypeOK
<1>3. TypeOK'
  BY <1>1 DEF IInv, TypeOK, WorkersFit, refs, bounds
<1>4. LogShape'
  BY DEF IInv, LogShape, Entries, refs
<1>5. ReviewsArePublished'
  BY <1>1, <1>2 DEF IInv, ReviewsArePublished, Linked, Proposed, refs
<1>6. ASSUME NEW q \in Proposals PROVE RowFits(q)'
  <2>1. CASE q = p
    BY <2>1
  <2>2. CASE q # p
    <3>1. RowFits(q) /\ reviews'[q] = reviews[q] /\ decision_log' = decision_log
      BY <1>2, <2>2 DEF IInv, refs
    <3>2. (Happened(reviews[q].outcome) => Happened(reviews[q].outcome)')
          /\ (Missed(reviews[q].intent.head) => Missed(reviews[q].intent.head)')
      BY <3>1 DEF Happened, Missed
    <3> QED BY <3>1, <3>2 DEF RowFits, Linked
  <2> QED BY <2>1, <2>2
<1>7. HistoryIsArmed'
  BY DEF IInv, HistoryIsArmed, Grows, Entries, refs
<1> QED BY <1>3, <1>4, <1>5, <1>6, <1>7 DEF IInv

\* A move of the decision Ref: its creation, the compare-and-swap of an armed
\* Decision from the base, or another writer's.
LEMMA LogStep ==
    ASSUME IInv, NEW e \in LogEntries,
           decision_log' = Append(decision_log, e),
           UNCHANGED <<journal, proposal_log>>,
           commits' \in [Foreign -> [parent : Heads \cup {None},
                                    proposal : Proposals \cup {None}]],
           BoundsOK',
           decision_log = <<>> => e.head = Base,
           e.by = "workflow" /\ decision_log # <<>> =>
              e.head # Base /\ DecisionHead = Base,
           \A p \in Proposals : e.by = "workflow" /\ e.head \in {p} \X Dispositions =>
              /\ reviews[p].intent # None
              /\ reviews[p].intent.head = e.head
              /\ reviews[p].state \notin {None, "pending_review"},
           Grows => WorkersFit'
    PROVE  IInv'
<1> DEFINE log == decision_log
<1>1. /\ log \in Seq(LogEntries)
      /\ log' \in Seq(LogEntries)
      /\ Len(log') = Len(log) + 1
      /\ \A i \in 1..Len(log) : log'[i] = log[i]
      /\ log'[Len(log) + 1] = e
      /\ Len(log) \in Nat
      /\ DOMAIN log = 1..Len(log) /\ DOMAIN log' = 1..Len(log')
      /\ log = <<>> <=> Len(log) = 0
      /\ log' = <<>> <=> Len(log') = 0
  <2>1. log \in Seq(LogEntries)
    BY DEF IInv, TypeOK, LogEntries
  <2> HIDE DEF log
  <2>2. log' = Append(log, e)
    BY DEF log
  <2> QED BY <2>1, <2>2, SMTT(30)
<1>2. /\ \A c \in Decisions : Happened(c) => Happened(c)'
      /\ \A c \in Decisions : Missed(c) => Missed(c)'
      /\ decision_log' # <<>>
  <2>1. ASSUME NEW c \in Decisions, Happened(c) PROVE Happened(c)'
    <3>1. PICK i \in 2..Len(log) : log[i].head = c /\ log[i - 1].head = Base
      BY <2>1 DEF Happened
    <3>2. i \in 1..Len(log) /\ i - 1 \in 1..Len(log) /\ i \in 2..Len(log')
      BY <1>1, <3>1, SMTT(30)
    <3>3. log'[i] = log[i] /\ log'[i - 1] = log[i - 1]
      BY <1>1, <3>2
    <3> QED BY <3>1, <3>2, <3>3 DEF Happened
  <2>2. ASSUME NEW c \in Decisions, Missed(c) PROVE Missed(c)'
    <3>1. PICK n \in 1..Len(log) :
             log[n].head # Base /\ \A j \in 1..n : log[j].head # c
      BY <2>2 DEF Missed
    <3>2. n \in 1..Len(log') /\ 1..n \subseteq 1..Len(log)
      BY <1>1, <3>1, SMTT(30)
    <3>3. log'[n].head # Base /\ \A j \in 1..n : log'[j].head # c
      BY <1>1, <3>1, <3>2
    <3> QED BY <3>2, <3>3 DEF Missed
  <2>3. decision_log' # <<>>
    BY <1>1, SMTT(30)
  <2> QED BY <2>1, <2>2, <2>3
<1>3. Grows
  BY <1>2 DEF Grows, Proposed, journal
<1>4. TypeOK'
  BY <1>1, <1>3 DEF IInv, TypeOK, WorkersFit, journal, BoundsOK, LogEntries
<1>5. LogShape'
  <2>1. log'[1].head = Base
    BY <1>1, SMTT(30) DEF IInv, LogShape
  <2>2. ASSUME NEW i \in 2..Len(log'), log'[i].by = "workflow"
        PROVE  log'[i].head # Base /\ log'[i - 1].head = Base
    <3>1. CASE i \in 2..Len(log)
      <4>1. i \in 1..Len(log) /\ i - 1 \in 1..Len(log)
        BY <1>1, <3>1, SMTT(30)
      <4>2. log'[i] = log[i] /\ log'[i - 1] = log[i - 1]
        BY <1>1, <4>1
      <4> QED BY <2>2, <3>1, <4>2 DEF IInv, LogShape
    <3>2. CASE i \notin 2..Len(log)
      <4>1. i = Len(log) + 1 /\ Len(log) \in 1..Len(log) /\ Len(log) # 0
        BY <1>1, <3>2, SMTT(30)
      <4>2. log'[i] = e /\ log'[Len(log)] = log[Len(log)] /\ log # <<>>
        BY <1>1, <4>1
      <4>3. e.head # Base /\ log[Len(log)].head = Base
        BY <2>2, <4>2 DEF DecisionHead
      <4>4. i - 1 = Len(log)
        BY <1>1, <4>1, SMTT(30)
      <4> QED BY <4>2, <4>3, <4>4
    <3> QED BY <3>1, <3>2
  <2> QED BY <2>1, <2>2 DEF LogShape
<1>6. ReviewsArePublished'
  BY DEF IInv, ReviewsArePublished, Linked, Proposed, journal
<1>7. ASSUME NEW q \in Proposals PROVE RowFits(q)'
  <2>1. RowFits(q) /\ reviews' = reviews
    BY DEF IInv, journal
  <2>2. reviews[q].intent # None => reviews[q].intent.head \in Decisions
    BY <2>1 DEF RowFits, Decisions
  <2> QED BY <1>2, <2>1, <2>2 DEF RowFits, Linked
<1>8. HistoryIsArmed'
  <2> SUFFICES ASSUME NEW i \in 1..Len(log'), NEW p \in Proposals,
                      log'[i].by = "workflow", log'[i].head \in {p} \X Dispositions
               PROVE  /\ reviews[p].intent # None
                      /\ reviews[p].intent.head = log'[i].head
                      /\ reviews[p].state \notin {None, "pending_review"}
    BY <1>1 DEF HistoryIsArmed, Entries, journal
  <2>1. CASE i \in 1..Len(log)
    BY <1>1, <2>1 DEF IInv, HistoryIsArmed, Entries
  <2>2. CASE i \notin 1..Len(log)
    <3>1. log'[i] = e
      BY <1>1, <2>2, SMTT(30)
    <3> QED BY <3>1
  <2> QED BY <2>1, <2>2
<1> QED BY <1>3, <1>4, <1>5, <1>6, <1>7, <1>8 DEF IInv
-----------------------------------------------------------------------------
(* The evidence of a reconciliation *)

\* The entries of the reflog are finite in number, so counting them tells
\* whether there is one.
LEMMA CountsTell ==
    ASSUME IInv, NEW S \in SUBSET Entries
    PROVE  /\ Cardinality(S) = 0 => S = {}
           /\ Cardinality(S) = 1 => S # {}
<1>1. IsFiniteSet(Entries)
  <2>1. Len(decision_log) \in Nat /\ Entries = 1..Len(decision_log)
    BY SMTT(30) DEF IInv, TypeOK, Entries
  <2> QED BY <2>1, FS_Interval, SMTT(30)
<1>2. IsFiniteSet(S)
  BY <1>1, FS_Subset
<1>3. Cardinality(S) = 0 <=> S = {}
  BY <1>2, FS_EmptySet
<1>4. Cardinality({}) = 0
  BY FS_EmptySet
<1> QED BY <1>3, <1>4, SMTT(30)

\* inspect_decision_cas is right about a candidate: committed means that the
\* step from the base took place, stale means that the Ref had left the base
\* without it.
LEMMA EvidenceIsTrue ==
    ASSUME IInv, decision_log # <<>>, NEW c \in Decisions
    PROVE  LET e == DecisionEvidence(c)
           IN /\ e \in ReconcileLabels \cup {"integrity_error"}
              /\ e \in {"committed", "committed_superseded"} => Happened(c)
              /\ e = "stale_not_committed" => Missed(c)
<1> DEFINE log == decision_log
<1>0. /\ Len(log) \in Nat /\ Len(log) >= 1 /\ Entries = 1..Len(log)
      /\ DecisionHead = log[Len(log)].head
      /\ None # Base
  BY DurableReviewAssumption, SMTT(30) DEF IInv, TypeOK, Entries, DecisionHead
<1>1. ASSUME ExactTransitions(c) = 1 PROVE Happened(c)
  <2>1. {i \in Into(c) : Old(i) = Base} # {}
    BY <1>1, CountsTell DEF ExactTransitions, Into
  <2>2. PICK i \in Entries : log[i].head = c /\ Old(i) = Base
    BY <2>1 DEF Into
  <2>3. i # 1 /\ log[i - 1].head = Base
    BY <1>0, <2>2 DEF Old
  <2>4. i \in 2..Len(log)
    BY <1>0, <2>2, <2>3, SMTT(30)
  <2> QED BY <2>2, <2>3, <2>4 DEF Happened
<1>2. ASSUME Touches(c) = 0, DecisionHead # Base PROVE Missed(c)
  <2>1. {i \in Entries : c \in {log[i].head, Old(i)}} = {}
    BY <1>2, CountsTell DEF Touches
  <2>2. \A j \in 1..Len(log) : log[j].head # c
    BY <1>0, <2>1
  <2>3. Len(log) \in 1..Len(log)
    BY <1>0, SMTT(30)
  <2> QED BY <1>0, <1>2, <2>2, <2>3 DEF Missed
<1>3. DecisionEvidence(c) \in ReconcileLabels \cup {"integrity_error"}
  BY DEF DecisionEvidence, ReconcileLabels
<1>4. DecisionEvidence(c) \in {"committed", "committed_superseded"}
        => ExactTransitions(c) = 1
  BY DEF DecisionEvidence
<1>5. DecisionEvidence(c) = "stale_not_committed"
        => Touches(c) = 0 /\ DecisionHead # Base
  BY DEF DecisionEvidence
<1> QED BY <1>1, <1>2, <1>3, <1>4, <1>5
-----------------------------------------------------------------------------
(* Steps of the workers *)

\* Going on to l, with the task as it is.
LEMMA GotoFits ==
    ASSUME IInv, Grows, NEW w \in Workers, NEW l \in Labels, Goto(w, l),
           pc'[w] = l /\ task'[w] = task[w] => Fits(w)' /\ Knows(w)'
    PROVE  WorkersFit'
<1>1. pc'[w] = l /\ task'[w] = task[w] /\ ActsAlone(w) /\ task[w] \in Tasks
  BY DEF Goto, ActsAlone, IInv, WorkersFit
<1> QED BY <1>1, WorkerStep

\* Labels at which a worker has to know nothing.
Carefree == {"register", "prepared", "initialized", "recovering", "reprepare",
             "rederive", "pending", "claim"}

\* Going on to a label at which the proposal and the key at hand are enough.
LEMMA CarefreeFits ==
    ASSUME IInv, Grows, NEW w \in Workers, NEW l \in Carefree, Goto(w, l),
           task[w].proposal \in Proposals,
           l \in {"register", "recovering", "claim"} => task[w].key \in Keys,
           l = "claim" => task[w].disposition \in Dispositions
    PROVE  WorkersFit'
<1>1. l \in Labels
  BY DEF Carefree, Labels, ClaimLabels
<1>2. ASSUME pc'[w] = l, task'[w] = task[w] PROVE Fits(w)' /\ Knows(w)'
  <2>1. Fits(w)'
    BY <1>2 DEF Fits, Carefree, ClaimLabels, IntentLabels, ReconcileLabels
  <2>2. Knows(w)'
    BY <1>2 DEF Knows, Carefree, IntentLabels, ReconcileLabels
  <2> QED BY <2>1, <2>2
<1> QED BY <1>1, <1>2, GotoFits

\* A call that begins with a task of its own.
LEMMA BeginFits ==
    ASSUME IInv, Grows, NEW w \in Workers, NEW l \in Carefree \cup {"inspect"},
           NEW t \in Tasks,
           pc' = [pc EXCEPT ![w] = l], task' = [task EXCEPT ![w] = t],
           t.proposal \in Proposals,
           l \in {"register", "recovering", "claim"} => t.key \in Keys,
           l = "claim" => t.disposition \in Dispositions,
           l = "inspect" => /\ t.seen \in Open
                            /\ reviews'[t.proposal].intent # None
    PROVE  WorkersFit'
<1>1. pc'[w] = l /\ task'[w] = t /\ ActsAlone(w)
  BY DEF ActsAlone, IInv, WorkersFit
<1>2. l \in Labels
  BY DEF Carefree, Labels, ClaimLabels, ReconcileLabels
<1>3. Fits(w)'
  BY <1>1 DEF Fits, Carefree, ClaimLabels, IntentLabels, ReconcileLabels
<1>4. Knows(w)'
  BY <1>1 DEF Knows, Carefree, IntentLabels, ReconcileLabels
<1> QED BY <1>1, <1>2, <1>3, <1>4, WorkerStep

\* The calls, and the ways a worker lets go, keep the invariant.
LEMMA CallIInv ==
    ASSUME IInv, NEW w \in Workers,
           \/ \E k \in Keys, p \in Proposals : PrepareProposal(w, k, p)
           \/ \E k \in Keys : RecoverProposal(w, k)
           \/ \E p \in Proposals : RecoverReview(w, p) \/ Reconcile(w, p)
           \/ Fail(w) \/ Release(w)
    PROVE  IInv'
<1>0. {"register", "recovering", "rederive"} \subseteq Carefree
  BY DEF Carefree
<1>1. ASSUME NEW k \in Keys, NEW p \in Proposals, PrepareProposal(w, k, p)
      PROVE  IInv'
  <2> DEFINE t == NewTask(k, p, None)
  <2>1. t \in Tasks /\ t.key = k /\ t.proposal = p
    BY DEF NewTask, Tasks
  <2>2. Begin(w, "register", t)
    BY <1>1 DEF PrepareProposal
  <2> HIDE DEF t
  <2>3. Grows => WorkersFit'
    BY <1>0, <2>1, <2>2, BeginFits DEF Begin
  <2> QED BY <2>2, <2>3, QuietStep DEF Begin
<1>2. ASSUME NEW k \in Keys, RecoverProposal(w, k) PROVE IInv'
  <2> DEFINE t == NewTask(k, proposal_intents[k], None)
  <2>1. proposal_intents[k] \in Proposals
    BY <1>2 DEF RecoverProposal, IInv, TypeOK
  <2>2. t \in Tasks /\ t.key = k /\ t.proposal \in Proposals
    BY <2>1 DEF NewTask, Tasks
  <2>3. Begin(w, "recovering", t)
    BY <1>2 DEF RecoverProposal
  <2> HIDE DEF t
  <2>4. Grows => WorkersFit'
    BY <1>0, <2>2, <2>3, BeginFits DEF Begin
  <2> QED BY <2>3, <2>4, QuietStep DEF Begin
<1>3. ASSUME NEW p \in Proposals, RecoverReview(w, p) PROVE IInv'
  <2> DEFINE t == NewTask(None, p, None)
  <2>1. t \in Tasks /\ t.proposal = p
    BY DEF NewTask, Tasks
  <2>2. Begin(w, "rederive", t)
    BY <1>3 DEF RecoverReview
  <2> HIDE DEF t
  <2>3. Grows => WorkersFit'
    BY <1>0, <2>1, <2>2, BeginFits DEF Begin
  <2> QED BY <2>2, <2>3, QuietStep DEF Begin
<1>4. ASSUME NEW p \in Proposals, Reconcile(w, p) PROVE IInv'
  <2> DEFINE t == NewTask(None, p, reviews[p].state)
  <2>1. reviews[p].state \in Open /\ reviews[p].intent # None /\ reviews' = reviews
    BY <1>4 DEF Reconcile, Open, Begin, journal
  <2>2. t \in Tasks /\ t.proposal = p /\ t.seen \in Open
    BY <2>1 DEF NewTask, Tasks, Open, Decisionable, States
  <2>3. Begin(w, "inspect", t)
    BY <1>4 DEF Reconcile
  <2> HIDE DEF t
  <2>4. Grows => WorkersFit'
    BY <2>1, <2>2, <2>3, BeginFits DEF Begin
  <2> QED BY <2>3, <2>4, QuietStep DEF Begin
<1>5. CASE Fail(w)
  <2>1. BoundsOK'
    BY <1>5, DurableReviewAssumption, SMTT(30) DEF Fail, IInv, TypeOK, BoundsOK
  <2> QED BY <1>5, <2>1, DropFits, QuietStep DEF Fail
<1>6. CASE Release(w)
  BY <1>6, DropFits, QuietStep DEF Release
<1> QED BY <1>1, <1>2, <1>3, <1>4, <1>5, <1>6
\* A quiet step that goes on to a label that needs no knowledge, or ends.
LEMMA GoIfIInv ==
    ASSUME IInv, NEW w \in Workers, NEW l \in Carefree \ {"register", "recovering", "claim"},
           pc[w] # "idle", Goto(w, l) \/ Drop(w), UNCHANGED <<journal, refs, bounds>>
    PROVE  IInv'
<1>1. task[w].proposal \in Proposals
  BY DEF IInv, WorkersFit, Fits
<1>2. Grows => WorkersFit'
  BY <1>1, CarefreeFits, DropFits DEF Carefree
<1> QED BY <1>2, QuietStep

\* Preparing, publishing and recovering a Proposal keep the invariant: a review
\* is created only by a worker that saw its proposal on the proposal Ref, which
\* never moves again.
LEMMA ProposalStepIInv ==
    ASSUME IInv, NEW w \in Workers, ProposalStep(w)
    PROVE  IInv'
<1>a. pc[w] # "idle"
  BY DEF ProposalStep, RegisterProposal, InitializeDecisionRef, PublishProposal,
         CommitProposal, InspectProposal, ReprepareProposal, RederiveProposal, At
<1>b. PICK q \in Proposals : q = task[w].proposal
  BY <1>a DEF IInv, WorkersFit, Fits
<1>0. /\ Fits(w) /\ Knows(w) /\ task[w] \in Tasks
      /\ None \notin Proposals
  BY DurableReviewAssumption DEF IInv, WorkersFit
<1> USE <1>b
<1>1. CASE RegisterProposal(w)
  <2>1. task[w].key \in Keys
    BY <1>0, <1>1 DEF RegisterProposal, At, Fits
  <2>2. proposal_intents' \in [Keys -> Proposals \cup {None}]
    BY <1>1, <2>1 DEF RegisterProposal, IInv, TypeOK
  <2>3. Grows
    BY <1>1, StillThere DEF RegisterProposal, Grows, Proposed, refs
  <2>4. WorkersFit'
    BY <1>1, <2>1, <2>3, CarefreeFits, DropFits
    DEF RegisterProposal, GoIf, Carefree
  <2>5. TypeOK'
    BY <1>1, <2>2, <2>4 DEF RegisterProposal, IInv, TypeOK, WorkersFit, refs, bounds
  <2>6. StoresFit'
    <3>1. UNCHANGED <<reviews, proposal_log, decision_log>>
      BY <1>1 DEF RegisterProposal, refs
    <3>2. ReviewsArePublished'
      BY <3>1 DEF IInv, ReviewsArePublished, Linked, Proposed
    <3> QED BY <3>1, <3>2, StoresStay
  <2> QED BY <2>4, <2>5, <2>6 DEF IInv, StoresFit
<1>2. CASE InitializeDecisionRef(w)
  <2>2. CASE decision_log = <<>>
    <3> DEFINE e == Moved(Base, "workflow")
    <3>1. decision_log' = Append(decision_log, e)
      BY <1>2, <2>2, SMTT(30) DEF InitializeDecisionRef
    <3>2. e \in LogEntries /\ e.head = Base
      BY DEF Heads, LogEntries, Moved
    <3>3. Base \notin Decisions
          /\ \A r \in Proposals : Base \notin {r} \X Dispositions
      BY DurableReviewAssumption DEF Decisions
    <3>4. Grows => WorkersFit'
      BY <1>2, CarefreeFits, DropFits
      DEF InitializeDecisionRef, GoIf, Carefree
    <3> HIDE DEF e
    <3>5. UNCHANGED <<journal, proposal_log, commits, bounds>>
      BY <1>2 DEF InitializeDecisionRef
    <3>6. /\ BoundsOK'
          /\ commits' \in [Foreign -> [parent : Heads \cup {None},
                                      proposal : Proposals \cup {None}]]
      BY <3>5 DEF IInv, TypeOK, BoundsOK, bounds
    <3> QED BY <2>2, <3>1, <3>2, <3>3, <3>4, <3>5, <3>6, LogStep
  <2>3. CASE decision_log # <<>>
    <3>1. UNCHANGED <<journal, refs, bounds>>
      BY <1>2, <2>3 DEF InitializeDecisionRef, refs
    <3> QED BY <1>2, <3>1, GoIfIInv
            DEF InitializeDecisionRef, GoIf, Carefree, At
  <2> QED BY <2>2, <2>3
<1>3. CASE PublishProposal(w)
  <2>2. CASE proposal_log = <<>> /\ DecisionHead = Base
    <3>1. proposal_log' = <<q>> /\ Goto(w, "published")
      BY <1>3, <2>2 DEF PublishProposal, GoIf
    <3>a. Proposed(q)'
      BY <3>1, SMTT(30) DEF Proposed
    <3>2. Grows
      BY <1>3, <2>2, StillThere DEF PublishProposal, Grows, Proposed, journal
    <3>3. ASSUME pc'[w] = "published", task'[w] = task[w]
          PROVE  Fits(w)' /\ Knows(w)'
      <4>1. Fits(w)'
        BY <3>3 DEF Fits, ClaimLabels, IntentLabels, ReconcileLabels
      <4>2. Knows(w)'
        BY <3>a, <3>3 DEF Knows, IntentLabels, ReconcileLabels
      <4> QED BY <4>1, <4>2
    <3>4. WorkersFit'
      BY <3>1, <3>2, <3>3, GotoFits DEF Labels
    <3>5. TypeOK'
      <4>1. proposal_log' \in Seq(Proposals)
        BY <3>1, SMTT(30)
      <4> QED BY <1>3, <3>4, <4>1
              DEF PublishProposal, IInv, TypeOK, WorkersFit, journal, bounds
    <3>6. StoresFit'
      <4>1. UNCHANGED <<reviews, decision_log>>
        BY <1>3 DEF PublishProposal, journal
      <4>2. \A p \in Proposals : ~Linked(p)
        BY <2>2 DEF IInv, ReviewsArePublished, Proposed
      <4>3. ReviewsArePublished'
        BY <4>1, <4>2 DEF ReviewsArePublished, Linked
      <4> QED BY <4>1, <4>3, StoresStay
    <3> QED BY <3>4, <3>5, <3>6 DEF IInv, StoresFit
  <2>3. CASE ~(proposal_log = <<>> /\ DecisionHead = Base)
    <3>1. Drop(w) /\ UNCHANGED <<journal, refs, bounds>>
      BY <1>3, <2>3 DEF PublishProposal, GoIf, refs
    <3> QED BY <3>1, DropFits, QuietStep
  <2> QED BY <2>2, <2>3
<1>4. CASE CommitProposal(w)
  <2>1. Proposed(q)
    BY <1>0, <1>4 DEF CommitProposal, At, Knows
  <2> DEFINE t == [task[w] EXCEPT !.key = None]
             row == IF Linked(q) THEN reviews[q]
                    ELSE [reviews[q] EXCEPT !.state = "pending_review"]
  <2>2. t \in Tasks /\ t.proposal = q /\ task' = [task EXCEPT ![w] = t]
    BY <1>0, <1>4 DEF CommitProposal, Tasks, IInv, WorkersFit
  <2>3. /\ reviews' = [reviews EXCEPT ![q] = row]
        /\ row \in ReviewRows /\ reviews'[q] = row
    <3>1. CASE Linked(q)
      BY <1>4, <3>1, Rows DEF CommitProposal
    <3>2. CASE ~Linked(q)
      <4>1. reviews' = [reviews EXCEPT ![q].state = "pending_review"]
        BY <1>4, <3>2 DEF CommitProposal
      <4>2. row = [reviews[q] EXCEPT !.state = "pending_review"]
        BY <3>2
      <4> QED BY <4>1, <4>2, Rows DEF ReviewRows, States
    <3> QED BY <3>1, <3>2
  <2>4. /\ UNCHANGED <<proposal_intents, refs, bounds>>
        /\ pc' = [pc EXCEPT ![w] = "pending"]
    BY <1>4 DEF CommitProposal
  <2>5. Grows
    BY <2>3, <2>4, StillThere DEF Grows, Linked, Proposed, IInv, TypeOK, ReviewRows, refs
  <2>6. WorkersFit'
    <3> HIDE DEF t
    <3>1. "pending" \in Carefree
      BY DEF Carefree
    <3> QED BY <2>1, <2>2, <2>4, <2>5, <3>1, BeginFits
  <2>7. RowFits(q)'
    <3>1. CASE Linked(q)
      <4>1. reviews'[q] = reviews[q] /\ decision_log' = decision_log
        BY <2>3, <2>4, <3>1 DEF refs
      <4>2. RowFits(q)
        BY DEF IInv
      <4> QED BY <4>1, <4>2 DEF RowFits, Linked, Happened, Missed
    <3>2. CASE ~Linked(q)
      <4>1. reviews[q].intent = None /\ reviews[q].outcome = None
        BY <2>1, <3>2, DurableReviewAssumption
        DEF IInv, RowFits, Linked, States
      <4> QED BY <2>1, <2>3, <3>2, <4>1
              DEF RowFits, ReviewRows, IInv, TypeOK
    <3> QED BY <3>1, <3>2
  <2> HIDE DEF row
  <2> QED BY <2>1, <2>3, <2>4, <2>5, <2>6, <2>7, RowStep
<1>5. CASE InspectProposal(w)
  <2>1. UNCHANGED <<journal, refs, bounds>> /\ pc[w] # "idle"
    BY <1>5 DEF InspectProposal, At
  <2>a. "reprepare" \in Carefree \ {"register", "recovering", "claim"}
    BY DEF Carefree
  <2>2. CASE Goto(w, "reprepare") \/ Drop(w)
    BY <2>1, <2>2, <2>a, GoIfIInv
  <2>3. CASE proposal_log = <<q>> /\ Goto(w, "republish")
    <3>1. Proposed(q)'
      BY <2>1, <2>3, SMTT(30) DEF Proposed, refs
    <3>2. ASSUME pc'[w] = "republish", task'[w] = task[w]
          PROVE  Fits(w)' /\ Knows(w)'
      <4>1. Fits(w)'
        BY <3>2 DEF Fits, ClaimLabels, IntentLabels, ReconcileLabels
      <4>2. Knows(w)'
        BY <3>1, <3>2 DEF Knows, IntentLabels, ReconcileLabels
      <4> QED BY <4>1, <4>2
    <3>3. Grows => WorkersFit'
      BY <2>3, <3>2, GotoFits DEF Labels
    <3> QED BY <2>1, <3>3, QuietStep
  <2> QED BY <1>5, <2>2, <2>3 DEF InspectProposal, GoIf
<1>6. CASE ReprepareProposal(w)
  BY <1>6, GoIfIInv DEF ReprepareProposal, GoIf, Carefree, At
<1>7. CASE RederiveProposal(w)
  <2>1. UNCHANGED <<journal, refs, bounds>>
    BY <1>7 DEF RederiveProposal
  <2>2. CASE Published(q)
    <3>1. Goto(w, "published") /\ Proposed(q)'
      <4>1. Proposed(q)
        BY <1>0, <1>7 DEF RederiveProposal, At, Knows
      <4> QED BY <1>7, <2>2, <4>1 DEF RederiveProposal, GoIf, Proposed, refs
    <3>2. ASSUME pc'[w] = "published", task'[w] = task[w]
          PROVE  Fits(w)' /\ Knows(w)'
      <4>1. Fits(w)'
        BY <3>2 DEF Fits, ClaimLabels, IntentLabels, ReconcileLabels
      <4>2. Knows(w)'
        BY <3>1, <3>2 DEF Knows, IntentLabels, ReconcileLabels
      <4> QED BY <4>1, <4>2
    <3>3. Grows => WorkersFit'
      BY <3>1, <3>2, GotoFits DEF Labels
    <3> QED BY <2>1, <3>3, QuietStep
  <2>3. CASE ~Published(q)
    BY <1>7, <2>1, <2>3, DropFits, QuietStep
    DEF RederiveProposal, GoIf
  <2> QED BY <2>2, <2>3
<1> QED BY <1>1, <1>2, <1>3, <1>4, <1>5, <1>6, <1>7 DEF ProposalStep
\* What publishes a Decision: its candidate is the proposal's, and a record.
LEMMA IntentFits ==
    ASSUME IInv, NEW w \in Workers, pc[w] \in ClaimLabels \cup IntentLabels,
           NEW q \in Proposals, q = task[w].proposal
    PROVE  /\ Intent(w) \in [key : Keys, head : Decisions]
           /\ Intent(w) # None
           /\ Intent(w).head \in {q} \X Dispositions
           /\ task' = task => Intent(w)' = Intent(w)
<1>1. task[w].key \in Keys /\ task[w].disposition \in Dispositions
  BY DEF IInv, WorkersFit, Fits
<1>2. Intent(w) = [key |-> task[w].key, head |-> <<q, task[w].disposition>>]
  BY DEF Intent, Candidate
<1>3. Intent(w) \in [key : Keys, head : Decisions]
  BY <1>1, <1>2, SMTT(30) DEF Decisions
<1>4. Intent(w).head \in {q} \X Dispositions
  BY <1>1, <1>2, SMTT(30)
<1>5. Intent(w) # None
  BY <1>3, DurableReviewAssumption DEF Decisions
<1>6. task' = task => Intent(w)' = Intent(w)
  BY DEF Intent, Candidate
<1> QED BY <1>3, <1>4, <1>5, <1>6

\* Preparing a Decision keeps the invariant: an intent is registered only while
\* the decision Ref exists, and only once.
LEMMA PrepareDecisionIInv ==
    ASSUME IInv, NEW w \in Workers,
           \/ \E k \in Keys, d \in Dispositions : AskDecision(w, k, d)
           \/ RederiveReview(w) \/ PrepareDecision(w) \/ RegisterDecision(w)
    PROVE  IInv'
<1>a. pc[w] # "idle"
  BY DEF AskDecision, RederiveReview, PrepareDecision, RegisterDecision, At
<1>b. PICK q \in Proposals : q = task[w].proposal
  BY <1>a DEF IInv, WorkersFit, Fits
<1>0. /\ Fits(w) /\ Knows(w) /\ task[w] \in Tasks /\ pc[w] \in Labels
      /\ {"claim", "pending"} \subseteq Carefree
  BY DEF IInv, TypeOK, WorkersFit, Carefree
<1> USE <1>b
<1>1. ASSUME NEW k \in Keys, NEW d \in Dispositions, AskDecision(w, k, d)
      PROVE  IInv'
  <2> DEFINE t == [task[w] EXCEPT !.key = k, !.disposition = d]
  <2>1. t \in Tasks /\ t.key = k /\ t.proposal = q /\ t.disposition = d
    BY <1>0 DEF Tasks
  <2>2. task' = [task EXCEPT ![w] = t]
    BY <1>1 DEF AskDecision
  <2>3. pc' = [pc EXCEPT ![w] = "claim"] /\ UNCHANGED <<journal, refs, bounds>>
    BY <1>1 DEF AskDecision
  <2> HIDE DEF t
  <2>4. Grows => WorkersFit'
    BY <1>0, <2>1, <2>2, <2>3, BeginFits
  <2> QED BY <1>0, <2>3, <2>4, QuietStep
<1>2. CASE RederiveReview(w)
  <2>1. Goto(w, "pending") \/ Drop(w)
    BY <1>2 DEF RederiveReview, GoIf
  <2>2. "pending" \in Carefree \ {"register", "recovering", "claim"}
    BY <1>0
  <2> QED BY <1>2, <1>a, <2>1, <2>2, GoIfIInv DEF RederiveReview
<1>3. CASE PrepareDecision(w)
  <2>1. UNCHANGED <<journal, refs, bounds>> /\ pc[w] = "claim"
    BY <1>3 DEF PrepareDecision, At
  <2>2. CASE Published(q)
    <3>1. Goto(w, "intend")
      BY <1>3, <2>2 DEF PrepareDecision
    <3>2. decision_log # <<>>
      BY <2>2, DurableReviewAssumption DEF Published, DecisionHead
    <3>3. ASSUME pc'[w] = "intend", task'[w] = task[w]
          PROVE  Fits(w)' /\ Knows(w)'
      <4>1. Fits(w)'
        BY <1>0, <2>1, <3>3
        DEF Fits, ClaimLabels, IntentLabels, ReconcileLabels
      <4>2. Knows(w)'
        BY <2>1, <3>2, <3>3 DEF Knows, IntentLabels, ReconcileLabels, refs
      <4> QED BY <4>1, <4>2
    <3>4. "intend" \in Labels
      BY DEF Labels, ClaimLabels
    <3>5. Grows => WorkersFit'
      BY <3>1, <3>3, <3>4, GotoFits
    <3> QED BY <1>0, <2>1, <3>5, QuietStep
  <2>3. CASE ~Published(q)
    <3> DEFINE t == [task[w] EXCEPT !.key = None, !.disposition = None]
    <3>1. t \in Tasks /\ t.proposal = q
      BY <1>0 DEF Tasks
    <3>2. pc' = [pc EXCEPT ![w] = "pending"] /\ task' = [task EXCEPT ![w] = t]
      BY <1>3, <2>3 DEF PrepareDecision
    <3> HIDE DEF t
    <3>3. Grows => WorkersFit'
      BY <1>0, <3>1, <3>2, BeginFits
    <3> QED BY <1>0, <2>1, <3>3, QuietStep
  <2> QED BY <2>2, <2>3
<1>4. CASE RegisterDecision(w)
  <2>0. /\ pc[w] = "intend" /\ decision_log # <<>>
        /\ UNCHANGED <<proposal_intents, refs, bounds>>
    BY <1>0, <1>4 DEF RegisterDecision, At, Knows
  <2>1. /\ Intent(w) \in [key : Keys, head : Decisions]
        /\ Intent(w) # None
        /\ Intent(w).head \in {q} \X Dispositions
        /\ task' = task => Intent(w)' = Intent(w)
    BY <2>0, IntentFits DEF ClaimLabels
  <2>2. ASSUME Grows, Goto(w, "decision_prepared"), reviews'[q].intent = Intent(w)
        PROVE  WorkersFit'
    <3>1. ASSUME pc'[w] = "decision_prepared", task'[w] = task[w]
          PROVE  Fits(w)' /\ Knows(w)'
      <4>1. Fits(w)'
        BY <1>0, <2>0, <3>1
        DEF Fits, ClaimLabels, IntentLabels, ReconcileLabels
      <4>2. Knows(w)'
        BY <2>1, <2>2, <3>1 DEF Knows, Goto, IntentLabels, ReconcileLabels
      <4> QED BY <4>1, <4>2
    <3>2. "decision_prepared" \in Labels
      BY DEF Labels, IntentLabels
    <3> QED BY <2>2, <3>1, <3>2, GotoFits
  <2>3. CASE reviews[q].intent = None /\ reviews[q].state \in Decisionable
    <3> DEFINE row == [reviews[q] EXCEPT !.intent = Intent(w)]
    <3>1. /\ reviews' = [reviews EXCEPT ![q].intent = Intent(w)]
          /\ Goto(w, "decision_prepared")
      BY <1>4, <2>3 DEF RegisterDecision, GoIf
    <3>2. /\ reviews' = [reviews EXCEPT ![q] = row]
          /\ row \in ReviewRows /\ row.intent = Intent(w)
          /\ row.state = reviews[q].state /\ row.outcome = reviews[q].outcome
          /\ reviews'[q] = row
      BY <2>1, <3>1, Rows DEF ReviewRows, Decisions
    <3> HIDE DEF row
    <3>3. Grows
      BY <2>0, <2>3, <3>2, StillThere DEF Grows, Proposed, IInv, TypeOK, refs
    <3>4. WorkersFit'
      BY <2>2, <3>1, <3>2, <3>3
    <3>5. reviews[q].state \notin {None, "decision_committed", "terminal_denial"}
      BY <2>3, DurableReviewAssumption DEF Decisionable, States
    <3>6. RowFits(q)'
      BY <2>0, <2>1, <3>2, <3>5 DEF IInv, RowFits, Linked, refs
    <3>7. row.state # None => Proposed(q)
      BY <3>2, <3>5 DEF IInv, ReviewsArePublished, Linked
    <3> QED BY <2>0, <3>2, <3>3, <3>4, <3>6, <3>7, RowStep
  <2>4. CASE ~(reviews[q].intent = None /\ reviews[q].state \in Decisionable)
    <3>1. reviews' = reviews /\ GoIf(w, "decision_prepared", reviews[q].intent = Intent(w))
      BY <1>4, <2>4 DEF RegisterDecision, GoIf
    <3>2. UNCHANGED <<journal, refs>>
      BY <2>0, <3>1 DEF journal
    <3>3. Grows => WorkersFit'
      BY <2>2, <3>1, DropFits DEF GoIf
    <3> QED BY <1>0, <2>0, <3>2, <3>3, QuietStep
  <2> QED BY <2>3, <2>4
<1> QED BY <1>1, <1>2, <1>3, <1>4
\* A compare-and-set of a review's state keeps the invariant when it starts from
\* an open state; a denial also needs a Decision that missed its chance.
LEMMA TransitionIInv ==
    ASSUME IInv, NEW q \in Proposals, NEW old \in Open,
           NEW new \in {"outcome_unknown", "retryable_failure", "terminal_denial"},
           Transition(q, old, new), UNCHANGED <<proposal_intents, refs, bounds>>,
           new = "terminal_denial" =>
              reviews[q].intent # None /\ Missed(reviews[q].intent.head),
           Grows => WorkersFit'
    PROVE  IInv'
<1>1. CASE reviews[q].state # old
  <2>1. UNCHANGED <<journal, refs, bounds>>
    BY <1>1 DEF Transition, journal, IInv, TypeOK
  <2> QED BY <2>1, QuietStep
<1>2. CASE reviews[q].state = old
  <2> DEFINE row == [reviews[q] EXCEPT !.state = new]
  <2>1. /\ reviews' = [reviews EXCEPT ![q] = row]
        /\ row \in ReviewRows /\ row.state = new /\ reviews'[q] = row
        /\ row.intent = reviews[q].intent /\ row.outcome = reviews[q].outcome
    BY <1>2, Rows DEF Transition, ReviewRows, States
  <2> HIDE DEF row
  <2>2. old \notin {None, "decision_committed", "terminal_denial"} /\ new # None
    BY DurableReviewAssumption DEF Open, Decisionable, States
  <2>3. Grows
    BY <2>1, <2>2, StillThere DEF Grows, Proposed, IInv, TypeOK, refs
  <2>4. RowFits(q)'
    <3>1. reviews[q].intent # None =>
             decision_log # <<>> /\ reviews[q].intent.head \in {q} \X Dispositions
      BY DEF IInv, RowFits
    <3>2. reviews[q].outcome = None
      BY <1>2, <2>2 DEF IInv, RowFits
    <3>3. new # "decision_committed" /\ decision_log' = decision_log
      BY DEF refs
    <3>4. ASSUME new = "terminal_denial" PROVE Missed(reviews[q].intent.head)'
      <4>1. Missed(reviews[q].intent.head) /\ reviews'[q].intent = reviews[q].intent
        BY <2>1, <3>4
      <4> QED BY <3>3, <4>1 DEF Missed
    <3> QED BY <2>1, <2>2, <3>1, <3>2, <3>3, <3>4 DEF RowFits, Linked
  <2>5. Proposed(q)
    BY <1>2, <2>2 DEF IInv, ReviewsArePublished, Linked
  <2> QED BY <2>1, <2>3, <2>4, <2>5, RowStep
<1> QED BY <1>1, <1>2

\* Recording an outcome keeps the invariant when the Decision did happen.
LEMMA OutcomeIInv ==
    ASSUME IInv, NEW q \in Proposals, NEW c \in Decisions, Happened(c),
           RecordOutcome(q, c), UNCHANGED <<proposal_intents, refs, bounds>>,
           Grows => WorkersFit'
    PROVE  IInv'
<1>1. CASE ~(/\ reviews[q].intent # None /\ reviews[q].intent.head = c
             /\ reviews[q].state \in Open)
  <2>1. UNCHANGED <<journal, refs, bounds>>
    BY <1>1 DEF RecordOutcome, journal, IInv, TypeOK, Open
  <2> QED BY <2>1, QuietStep
<1>2. CASE /\ reviews[q].intent # None /\ reviews[q].intent.head = c
           /\ reviews[q].state \in Open
  <2> DEFINE row == [reviews[q] EXCEPT !.state = "decision_committed", !.outcome = c]
  <2>1. /\ reviews' = [reviews EXCEPT ![q] = row]
        /\ row \in ReviewRows /\ reviews'[q] = row
        /\ row.state = "decision_committed" /\ row.outcome = c
        /\ row.intent = reviews[q].intent
    BY <1>2, Rows DEF RecordOutcome, ReviewRows, States, Open, Decisions
  <2> HIDE DEF row
  <2>2. /\ reviews[q].state \notin {None, "decision_committed", "terminal_denial"}
        /\ None # "decision_committed"
    BY <1>2, DurableReviewAssumption DEF Open, Decisionable, States
  <2>3. Grows
    BY <2>1, <2>2, StillThere DEF Grows, Proposed, IInv, TypeOK, refs
  <2>4. RowFits(q)'
    <3>1. decision_log # <<>> /\ c \in {q} \X Dispositions
      BY <1>2 DEF IInv, RowFits
    <3>2. Happened(c)' /\ decision_log' = decision_log
      BY DEF Happened, refs
    <3> QED BY <1>2, <2>1, <2>2, <3>1, <3>2 DEF RowFits, Linked
  <2>5. Proposed(q)
    BY <2>2 DEF IInv, ReviewsArePublished, Linked
  <2> QED BY <2>1, <2>3, <2>4, <2>5, RowStep
<1> QED BY <1>1, <1>2

\* Publishing a Decision keeps the invariant: the attempt is armed before the
\* one compare-and-swap from the base.
LEMMA PublishDecisionIInv ==
    ASSUME IInv, NEW w \in Workers,
           \/ ReadBeforePublish(w) \/ Arm(w) \/ PublishDecision(w)
           \/ CheckoutDecision(w) \/ CommitDecision(w)
    PROVE  IInv'
<1>a. pc[w] \in IntentLabels /\ pc[w] # "idle"
  BY DEF ReadBeforePublish, Arm, PublishDecision, CheckoutDecision,
         CommitDecision, At, IntentLabels
<1>b. PICK q \in Proposals : q = task[w].proposal
  BY <1>a DEF IInv, WorkersFit, Fits
<1>0. /\ Fits(w) /\ Knows(w) /\ task[w] \in Tasks
      /\ IntentLabels \subseteq Labels
  BY DEF IInv, TypeOK, WorkersFit, Labels
<1> USE <1>b
<1>c. /\ Intent(w) \in [key : Keys, head : Decisions]
      /\ Intent(w).head \in {q} \X Dispositions
      /\ Intent(w).head \in Decisions
      /\ task' = task => Intent(w)' = Intent(w)
      /\ reviews[q].intent # None /\ reviews[q].intent.head = Intent(w).head
  BY <1>0, <1>a, IntentFits DEF Knows
\* it is enough to know the new facts at the next label
<1>d. ASSUME Grows, NEW l \in IntentLabels \ {"decision_prepared", "arm"}, Goto(w, l),
             l = "armed" => reviews'[q].state \notin {None, "pending_review"},
             l \in {"decision_published", "checked_out"} => Happened(Intent(w).head)'
      PROVE  WorkersFit'
  <2>1. ASSUME pc'[w] = l, task'[w] = task[w] PROVE Fits(w)' /\ Knows(w)'
    <3>1. Fits(w)'
      BY <1>0, <1>a, <2>1 DEF Fits, ClaimLabels, IntentLabels, ReconcileLabels
    <3>2. reviews'[q].intent # None /\ reviews'[q].intent.head = Intent(w)'.head
      BY <1>c, <1>d DEF Grows, Goto
    <3>3. Knows(w)'
      BY <1>d, <2>1, <3>2 DEF Knows, IntentLabels, ReconcileLabels
    <3> QED BY <3>1, <3>3
  <2> QED BY <1>0, <1>d, <2>1, GotoFits
<1>1. CASE ReadBeforePublish(w)
  <2>1. UNCHANGED <<journal, refs, bounds>>
    BY <1>1 DEF ReadBeforePublish
  <2>2. CASE Drop(w)
    BY <1>0, <2>1, <2>2, DropFits, QuietStep
  <2>3. CASE ~Drop(w)
    <3> DEFINE t == [task[w] EXCEPT !.seen = reviews[q].state]
    <3>1. /\ reviews[q].state \in Decisionable
          /\ pc' = [pc EXCEPT ![w] = "arm"] /\ task' = [task EXCEPT ![w] = t]
      BY <1>1, <2>3 DEF ReadBeforePublish, See
    <3>2. /\ t \in Tasks /\ t.seen \in Decisionable /\ t.proposal = q
          /\ t.key = task[w].key /\ t.disposition = task[w].disposition
      BY <1>0, <3>1 DEF Tasks, Decisionable, States
    <3> HIDE DEF t
    <3>3. pc'[w] = "arm" /\ task'[w] = t /\ ActsAlone(w)
      BY <3>1 DEF ActsAlone, IInv, WorkersFit
    <3>4. Fits(w)'
      BY <1>0, <1>a, <3>2, <3>3
      DEF Fits, ClaimLabels, IntentLabels, ReconcileLabels
    <3>5. Intent(w)' = Intent(w)
      BY <3>2, <3>3 DEF Intent, Candidate
    <3>6. Knows(w)'
      BY <1>c, <2>1, <3>2, <3>3, <3>5
      DEF Knows, IntentLabels, ReconcileLabels, journal
    <3>7. "arm" \in Labels
      BY <1>0 DEF IntentLabels
    <3>8. Grows => WorkersFit'
      BY <3>2, <3>3, <3>4, <3>6, <3>7, WorkerStep
    <3> QED BY <1>0, <2>1, <3>8, QuietStep
  <2> QED BY <2>2, <2>3
<1>2. CASE Arm(w)
  <2>1. /\ task[w].seen \in Open
        /\ Transition(q, task[w].seen, "outcome_unknown")
        /\ GoIf(w, "armed", reviews[q].state = task[w].seen)
        /\ UNCHANGED <<proposal_intents, refs, bounds>>
    BY <1>0, <1>2 DEF Arm, At, Fits, Open
  <2>2. ASSUME Grows, Goto(w, "armed"), reviews[q].state = task[w].seen
        PROVE  WorkersFit'
    <3>1. reviews'[q].state = "outcome_unknown"
      BY <2>1, <2>2 DEF Transition, IInv, TypeOK, ReviewRows
    <3>2. None # "outcome_unknown"
      BY DurableReviewAssumption DEF States
    <3> QED BY <1>d, <2>2, <3>1, <3>2 DEF IntentLabels
  <2>3. Grows => WorkersFit'
    BY <2>1, <2>2, DropFits DEF GoIf
  <2> QED BY <2>1, <2>3, TransitionIInv
<1>3. CASE PublishDecision(w)
  <2>0. UNCHANGED <<journal, proposal_log, commits, bounds>>
    BY <1>3 DEF PublishDecision
  <2>1. CASE Published(q)
    <3>1. /\ decision_log' = Append(decision_log, Moved(Intent(w).head, "workflow"))
          /\ Goto(w, "decision_published")
      BY <1>3, <2>1 DEF PublishDecision, GoIf
    <3>2. PICK e \in LogEntries :
             e.head = Intent(w).head /\ decision_log' = Append(decision_log, e)
      BY <1>c, <3>1 DEF Heads, LogEntries, Moved, Decisions
    <3>3. /\ decision_log # <<>> /\ DecisionHead = Base
          /\ decision_log[Len(decision_log)].head = Base
          /\ e.head # Base
      BY <1>c, <2>1, <3>2, DurableReviewAssumption
      DEF Published, DecisionHead, Decisions
    <3>4. /\ BoundsOK'
          /\ commits' \in [Foreign -> [parent : Heads \cup {None},
                                      proposal : Proposals \cup {None}]]
      BY <2>0 DEF IInv, TypeOK, BoundsOK, bounds
    <3>5. \A r \in Proposals : e.head \in {r} \X Dispositions => r = q
      BY <1>c, <3>2
    <3>6. reviews[q].state \notin {None, "pending_review"}
      BY <1>0, <1>3 DEF PublishDecision, At, Knows
    <3>7. Happened(Intent(w).head)'
      <4>1. /\ Len(decision_log) \in Nat /\ Len(decision_log) >= 1
            /\ Len(decision_log') = Len(decision_log) + 1
            /\ decision_log'[Len(decision_log) + 1] = e
            /\ decision_log'[Len(decision_log)] = decision_log[Len(decision_log)]
        <5>1. decision_log \in Seq(LogEntries)
          BY DEF IInv, TypeOK, LogEntries
        <5>2. decision_log' = Append(decision_log, e) /\ decision_log # <<>>
          BY <3>2, <3>3
        <5> QED BY <5>1, <5>2, SMTT(30)
      <4>2. PICK i \in 2..Len(decision_log') :
               i = Len(decision_log) + 1 /\ i - 1 = Len(decision_log)
        BY <4>1, SMTT(30)
      <4>3. decision_log'[i].head = Intent(w).head /\ decision_log'[i - 1].head = Base
        BY <3>2, <3>3, <4>1, <4>2
      <4>4. Intent(w)' = Intent(w)
        BY <1>c, <3>1 DEF Goto
      <4> QED BY <4>3, <4>4 DEF Happened
    <3>8. Grows => WorkersFit'
      BY <1>d, <3>1, <3>7 DEF IntentLabels
    <3>9. \A r \in Proposals : e.head \in {r} \X Dispositions =>
             /\ reviews[r].intent # None
             /\ reviews[r].intent.head = e.head
             /\ reviews[r].state \notin {None, "pending_review"}
      BY <1>c, <3>2, <3>5, <3>6
    <3> QED BY <2>0, <3>1, <3>2, <3>3, <3>4, <3>8, <3>9, LogStep
  <2>2. CASE ~Published(q)
    <3>1. Drop(w) /\ UNCHANGED <<journal, refs, bounds>>
      BY <1>3, <2>0, <2>2 DEF PublishDecision, GoIf, refs
    <3> QED BY <1>0, <3>1, DropFits, QuietStep
  <2> QED BY <2>1, <2>2
<1>4. CASE CheckoutDecision(w)
  <2>1. UNCHANGED <<journal, refs, bounds>> /\ Happened(Intent(w).head)
    BY <1>0, <1>4 DEF CheckoutDecision, At, Knows
  <2>2. ASSUME Goto(w, "checked_out") PROVE Happened(Intent(w).head)'
    BY <1>c, <2>1, <2>2 DEF Happened, Goto, refs
  <2>3. Grows => WorkersFit'
    BY <1>4, <1>d, <2>2, DropFits DEF CheckoutDecision, GoIf, IntentLabels
  <2> QED BY <1>0, <2>1, <2>3, QuietStep
<1>5. CASE CommitDecision(w)
  <2>1. /\ Happened(Intent(w).head) /\ RecordOutcome(q, Intent(w).head)
        /\ Drop(w) /\ UNCHANGED <<proposal_intents, refs, bounds>>
    BY <1>0, <1>5 DEF CommitDecision, At, Knows
  <2> QED BY <1>c, <2>1, DropFits, OutcomeIInv
<1> QED BY <1>1, <1>2, <1>3, <1>4, <1>5
\* Reconciliation keeps the invariant, although its evidence is old when it is
\* applied: that a Decision happened, or that the Ref once left the base without
\* it, stays true.
LEMMA ReconcileStepIInv ==
    ASSUME IInv, NEW w \in Workers, ReconcileStep(w)
    PROVE  IInv'
<1>a. pc[w] \in ReconcileLabels /\ pc[w] # "idle"
  BY DEF ReconcileStep, InspectDecision, ReturnToRetryable, CheckoutIntent,
         RecordReconciled, Deny, StayUnknown, At, ReconcileLabels
<1>b. PICK q \in Proposals : q = task[w].proposal
  BY <1>a DEF IInv, WorkersFit, Fits
<1>0. /\ Fits(w) /\ Knows(w) /\ task[w].seen \in Open
      /\ ReconcileLabels \subseteq Labels
  BY <1>a DEF IInv, TypeOK, WorkersFit, Labels, Fits
<1> USE <1>b
<1>c. /\ reviews[q].intent # None /\ decision_log # <<>>
      /\ Intended(w) = reviews[q].intent.head /\ Intended(w) \in Decisions
  BY <1>0, <1>a DEF Knows, Intended, IInv, RowFits, Decisions
<1>d. ASSUME Grows, NEW l \in ReconcileLabels, Goto(w, l),
             UNCHANGED <<journal, refs>>,
             l \in {"committed", "committed_superseded"} => Happened(Intended(w)),
             l = "stale_not_committed" => Missed(Intended(w))
      PROVE  WorkersFit'
  <2>1. ASSUME pc'[w] = l, task'[w] = task[w] PROVE Fits(w)' /\ Knows(w)'
    <3>1. Fits(w)'
      BY <1>0, <2>1 DEF Fits, ClaimLabels, IntentLabels, ReconcileLabels
    <3>2. Knows(w)'
      BY <1>c, <1>d, <2>1
      DEF Knows, Intended, Happened, Missed, IntentLabels, ReconcileLabels,
          journal, refs
    <3> QED BY <3>1, <3>2
  <2> QED BY <1>0, <1>d, <2>1, GotoFits
<1>1. CASE InspectDecision(w)
  <2> DEFINE e == DecisionEvidence(Intended(w))
  <2>1. /\ e \in ReconcileLabels \cup {"integrity_error"}
        /\ e \in {"committed", "committed_superseded"} => Happened(Intended(w))
        /\ e = "stale_not_committed" => Missed(Intended(w))
    BY <1>c, EvidenceIsTrue
  <2>2. /\ UNCHANGED <<journal, refs, bounds>>
        /\ IF e = "integrity_error" THEN Drop(w) ELSE Goto(w, e)
    BY <1>1 DEF InspectDecision
  <2> HIDE DEF e
  <2>3. Grows => WorkersFit'
    BY <1>d, <2>1, <2>2, DropFits
  <2> QED BY <1>0, <2>2, <2>3, QuietStep
<1>2. CASE ReturnToRetryable(w)
  <2>1. Drop(w) /\ UNCHANGED <<proposal_intents, refs, bounds>>
    BY <1>2 DEF ReturnToRetryable
  <2>2. Grows => WorkersFit'
    BY <2>1, DropFits
  <2>3. CASE task[w].seen = "outcome_unknown"
    BY <1>2, <2>1, <2>2, <2>3, TransitionIInv DEF ReturnToRetryable, Open
  <2>4. CASE task[w].seen # "outcome_unknown"
    <3>1. UNCHANGED <<journal, refs>>
      BY <1>2, <2>1, <2>4 DEF ReturnToRetryable, journal
    <3> QED BY <1>0, <2>1, <2>2, <3>1, QuietStep
  <2> QED BY <2>3, <2>4
<1>3. CASE CheckoutIntent(w)
  <2>1. UNCHANGED <<journal, refs, bounds>> /\ Happened(Intended(w))
    BY <1>0, <1>3 DEF CheckoutIntent, At, Knows
  <2>2. Goto(w, "committed_superseded") \/ Drop(w)
    BY <1>3 DEF CheckoutIntent, GoIf
  <2>3. Grows => WorkersFit'
    BY <1>d, <2>1, <2>2, DropFits DEF ReconcileLabels
  <2> QED BY <1>0, <2>1, <2>3, QuietStep
<1>4. CASE RecordReconciled(w)
  <2>1. /\ Happened(Intended(w)) /\ RecordOutcome(q, Intended(w))
        /\ Drop(w) /\ UNCHANGED <<proposal_intents, refs, bounds>>
    BY <1>0, <1>4 DEF RecordReconciled, At, Knows
  <2> QED BY <1>c, <2>1, DropFits, OutcomeIInv
<1>5. CASE Deny(w)
  <2>1. /\ Missed(Intended(w)) /\ Transition(q, task[w].seen, "terminal_denial")
        /\ Drop(w) /\ UNCHANGED <<proposal_intents, refs, bounds>>
    BY <1>0, <1>5 DEF Deny, At, Knows
  <2> QED BY <1>0, <1>c, <2>1, DropFits, TransitionIInv
<1>6. CASE StayUnknown(w)
  <2>1. Drop(w) /\ UNCHANGED <<proposal_intents, refs, bounds>>
    BY <1>6 DEF StayUnknown
  <2>2. Grows => WorkersFit'
    BY <2>1, DropFits
  <2>3. CASE task[w].seen \in Decisionable
    BY <1>0, <1>6, <2>1, <2>2, <2>3, TransitionIInv DEF StayUnknown
  <2>4. CASE task[w].seen \notin Decisionable
    <3>1. UNCHANGED <<journal, refs>>
      BY <1>6, <2>1, <2>4 DEF StayUnknown, journal
    <3> QED BY <1>0, <2>1, <2>2, <3>1, QuietStep
  <2> QED BY <2>3, <2>4
<1> QED BY <1>1, <1>2, <1>3, <1>4, <1>5, <1>6 DEF ReconcileStep

\* A move of another writer is within its bound and leaves the journal and the
\* workers alone.
LEMMA OthersAreBounded ==
    ASSUME IInv, NEW k, OtherWriter(k)
    PROVE  /\ BoundsOK' /\ UNCHANGED <<journal, pc, task>>
           /\ Grows => WorkersFit'
<1>1. UNCHANGED <<journal, pc, task, faults>>
  BY DEF OtherWriter
<1>2. BoundsOK'
  BY <1>1, DurableReviewAssumption, SMTT(30) DEF OtherWriter, IInv, TypeOK, BoundsOK
<1>3. Grows => WorkersFit'
  BY <1>1, KnowledgeLasts DEF IInv, WorkersFit
<1> QED BY <1>1, <1>2, <1>3

\* Wherever another writer moves the decision Ref, the invariant stays.
LEMMA MoveIInv ==
    ASSUME IInv, NEW h \in Heads, NEW k, OtherWriter(k), Move(h),
           commits' \in [Foreign -> [parent : Heads \cup {None},
                                    proposal : Proposals \cup {None}]]
    PROVE  IInv'
<1> DEFINE e == Moved(h, "other")
<1>1. e \in LogEntries /\ e.head = h /\ e.by # "workflow"
  BY DEF LogEntries, Moved
<1>2. /\ decision_log # <<>> /\ decision_log' = Append(decision_log, e)
      /\ UNCHANGED proposal_log
  BY DEF Move
<1> HIDE DEF e
<1>3. BoundsOK' /\ UNCHANGED <<journal, pc, task>> /\ (Grows => WorkersFit')
  BY OthersAreBounded
<1> QED BY <1>1, <1>2, <1>3, LogStep

\* Other writers keep the invariant, wherever they move the two Refs.
LEMMA OthersIInv ==
    ASSUME IInv,
           \/ \E h \in Foreign, k \in Kinds : Advance(h, k)
           \/ \E h \in Heads : Return(h)
           \/ \E p \in Proposals : MoveProposal(p)
    PROVE  IInv'
<1>0. commits \in [Foreign -> [parent : Heads \cup {None}, proposal : Proposals \cup {None}]]
  BY DEF IInv, TypeOK
<1>1. ASSUME NEW h \in Foreign, NEW k \in Kinds, Advance(h, k) PROVE IInv'
  <2>1. OtherWriter(k) /\ Move(h) /\ h \in Heads
    BY <1>1 DEF Advance, Heads
  <2>2. DecisionHead \in Heads \cup {None} /\ ProposalHead \in Proposals \cup {None}
    <3>1. DecisionHead \in Heads \cup {None}
      <4>1. decision_log \in Seq(LogEntries)
        BY DEF IInv, TypeOK, LogEntries
      <4>2. decision_log # <<>> => decision_log[Len(decision_log)] \in LogEntries
        BY <4>1, SMTT(30)
      <4> QED BY <4>2 DEF DecisionHead, LogEntries
    <3>2. ProposalHead \in Proposals \cup {None}
      <4>1. proposal_log \in Seq(Proposals)
        BY DEF IInv, TypeOK
      <4>2. proposal_log # <<>> => proposal_log[Len(proposal_log)] \in Proposals
        BY <4>1, SMTT(30)
      <4> QED BY <4>2 DEF ProposalHead
    <3> QED BY <3>1, <3>2
  <2>3. commits' \in [Foreign -> [parent : Heads \cup {None}, proposal : Proposals \cup {None}]]
    <3>1. CASE UNCHANGED commits
      BY <1>0, <3>1
    <3>2. CASE ~UNCHANGED commits
      <4>1. PICK x \in Heads \cup {None}, y \in Proposals \cup {None} :
               commits' = [commits EXCEPT ![h].parent = x, ![h].proposal = y]
        BY <1>1, <2>2, <3>2 DEF Advance, Heads
      <4> QED BY <1>0, <4>1
    <3> QED BY <3>1, <3>2
  <2> QED BY <2>1, <2>3, MoveIInv
<1>2. ASSUME NEW h \in Heads, Return(h) PROVE IInv'
  BY <1>0, <1>2, MoveIInv DEF Return
<1>3. ASSUME NEW p \in Proposals, MoveProposal(p) PROVE IInv'
  <2>1. /\ BoundsOK' /\ UNCHANGED <<journal, pc, task>> /\ (Grows => WorkersFit')
        /\ proposal_log' = Append(proposal_log, p)
        /\ UNCHANGED <<decision_log, commits>>
    BY <1>3, OthersAreBounded DEF MoveProposal
  <2>2. /\ proposal_log' \in Seq(Proposals)
        /\ proposal_log # <<>> => proposal_log' # <<>> /\ proposal_log'[1] = proposal_log[1]
    <3>1. proposal_log \in Seq(Proposals)
      BY DEF IInv, TypeOK
    <3> QED BY <2>1, <3>1, SMTT(30)
  <2>3. Grows
    BY <2>1, <2>2, StillThere DEF Grows, Proposed, journal
  <2>4. TypeOK'
    BY <2>1, <2>2 DEF IInv, TypeOK, BoundsOK, journal
  <2>5. ReviewsArePublished'
    BY <2>1, <2>2 DEF IInv, ReviewsArePublished, Linked, Proposed, journal
  <2>6. StoresFit'
    BY <2>1, <2>5, StoresStay DEF journal
  <2> QED BY <2>1, <2>3, <2>4, <2>6 DEF IInv, StoresFit
<1> QED BY <1>1, <1>2, <1>3

\* Every step of every worker and of the others keeps the invariant.
LEMMA NextIInv == IInv /\ [Next]_vars => IInv'
<1> SUFFICES ASSUME IInv, [Next]_vars PROVE IInv'
  OBVIOUS
<1>1. CASE UNCHANGED vars
  <2>1. UNCHANGED <<journal, refs>> /\ UNCHANGED <<pc, task, bounds>>
    BY <1>1 DEF vars, journal, refs, bounds
  <2>2. Grows => WorkersFit'
    BY <2>1, KnowledgeLasts DEF IInv, WorkersFit
  <2> QED BY <2>1, <2>2, QuietStep
<1>2. ASSUME NEW w \in Workers, DecisionStep(w) PROVE IInv'
  BY <1>2, PrepareDecisionIInv, PublishDecisionIInv DEF DecisionStep
<1> QED BY <1>1, <1>2, CallIInv, PrepareDecisionIInv, ProposalStepIInv,
           ReconcileStepIInv, OthersIInv
        DEF Next

\* An empty journal beside an empty repository satisfies the invariant.
LEMMA InitIInv == Init => IInv
<1> SUFFICES ASSUME Init PROVE IInv
  OBVIOUS
<1>1. NoReview \in ReviewRows /\ NoTask \in Tasks
  BY DEF NoReview, ReviewRows, NoTask, NewTask, Tasks
<1>2. TypeOK
  <2>1. NoDecision \in [parent : Heads \cup {None}, proposal : Proposals \cup {None}]
    BY DEF NoDecision
  <2>2. commits \in [Foreign -> [parent : Heads \cup {None}, proposal : Proposals \cup {None}]]
    BY <2>1 DEF Init
  <2>3. decision_log \in Seq([head : Heads, by : {"workflow", "other"}])
        /\ proposal_log \in Seq(Proposals)
    BY SMTT(30) DEF Init
  <2>4. faults \in 0..MaxFaults /\ moves \in 0..MaxMoves
    BY DurableReviewAssumption, SMTT(30) DEF Init
  <2> QED BY <1>1, <2>2, <2>3, <2>4 DEF Init, TypeOK
<1>3. WorkersFit
  BY <1>1
  DEF Init, WorkersFit, Fits, Knows, Labels, ClaimLabels, IntentLabels,
      ReconcileLabels
<1>4. LogShape /\ HistoryIsArmed
  BY SMTT(30) DEF Init, LogShape, HistoryIsArmed, Entries
<1>5. ReviewsArePublished /\ \A p \in Proposals : RowFits(p)
  BY DurableReviewAssumption
  DEF Init, ReviewsArePublished, RowFits, Linked, NoReview, States
<1> QED BY <1>2, <1>3, <1>4, <1>5 DEF IInv

-----------------------------------------------------------------------------
(* The results *)

\* The invariant holds in every reachable state.
THEOREM Invariance == Spec => []IInv
BY InitIInv, NextIInv, PTL DEF Spec

\* JournalIsTrue for every number of workers, proposals, keys, faults and moves
\* of other writers: decision_committed stands for a step from the base that
\* happened, terminal_denial for a Decision that gets into the decision Ref's
\* history only if another writer brings the Ref back.
THEOREM JournalTells == Spec => []JournalIsTrue
<1>1. IInv => JournalIsTrue
  <2> SUFFICES ASSUME IInv PROVE JournalIsTrue
    OBVIOUS
  <2> DEFINE log == decision_log
  <2>0. /\ Len(log) \in Nat /\ Entries = 1..Len(log)
        /\ \A i \in Entries : log[i].by # "workflow" => log[i].by = "other"
    <3>1. log \in Seq(LogEntries)
      BY DEF IInv, TypeOK, LogEntries
    <3>2. /\ Len(log) \in Nat /\ Entries = 1..Len(log)
          /\ \A i \in Entries : log[i] \in LogEntries
      BY <3>1, SMTT(30) DEF Entries
    <3> QED BY <3>2 DEF LogEntries
  <2>1. OutcomesHappened
    <3> SUFFICES ASSUME NEW p \in Proposals, reviews[p].state = "decision_committed"
                 PROVE  /\ reviews[p].outcome = reviews[p].intent.head
                        /\ \E i \in Into(reviews[p].outcome) : Old(i) = Base
      BY DEF OutcomesHappened
    <3>1. /\ reviews[p].outcome = reviews[p].intent.head
          /\ Happened(reviews[p].outcome)
      BY DEF IInv, RowFits
    <3>2. PICK i \in 2..Len(log) :
             log[i].head = reviews[p].outcome /\ log[i - 1].head = Base
      BY <3>1 DEF Happened
    <3>3. i \in Entries /\ i # 1
      BY <2>0, <3>2, SMTT(30)
    <3>4. i \in Into(reviews[p].outcome) /\ Old(i) = Base
      BY <3>2, <3>3 DEF Into, Old
    <3> QED BY <3>1, <3>4
  <2>2. DenialIsFinal
    <3> SUFFICES ASSUME NEW p \in Proposals, reviews[p].state = "terminal_denial",
                        NEW i \in Into(reviews[p].intent.head)
                 PROVE  \E j \in 2..i : /\ log[j].by = "other"
                                        /\ log[j].head \in {Base, reviews[p].intent.head}
      BY DEF DenialIsFinal
    <3>1. PICK n \in 1..Len(log) :
             log[n].head # Base /\ \A j \in 1..n : log[j].head # reviews[p].intent.head
      BY DEF IInv, RowFits, Missed
    <3>2. i \in 1..Len(log) /\ log[i].head = reviews[p].intent.head
      BY <2>0 DEF Into
    <3>3. i \notin 1..n
      BY <3>1, <3>2
    <3>4. i \in 2..Len(log) /\ i \in 2..i /\ i - 1 \in 1..Len(log) /\ n <= i - 1
      BY <2>0, <3>1, <3>2, <3>3, SMTT(30)
    <3>5. CASE log[i].by = "other"
      BY <3>2, <3>4, <3>5
    <3>6. CASE log[i].by = "workflow"
      <4>1. log[i - 1].head = Base
        BY <3>4, <3>6 DEF IInv, LogShape
      <4>2. n # i - 1
        BY <3>1, <4>1
      <4>3. i - 1 \in 2..Len(log) /\ i - 1 \in 2..i /\ i - 1 \in Entries
        BY <2>0, <3>1, <3>4, <4>2, SMTT(30)
      <4>4. log[i - 1].by # "workflow"
        BY <4>1, <4>3 DEF IInv, LogShape
      <4> QED BY <2>0, <4>1, <4>3, <4>4
    <3> QED BY <2>0, <3>2, <3>5, <3>6
  <2>3. CasIsArmed
    BY DEF CasIsArmed, IInv, HistoryIsArmed
  <2> QED BY <2>1, <2>2, <2>3 DEF JournalIsTrue, IInv
<1> QED BY <1>1, Invariance, PTL

RowStays(p) ==
    LET r == reviews[p]
        s == reviews'[p]
    IN /\ r.intent # None => s.intent = r.intent
       /\ r.outcome # None => s.outcome = r.outcome
       /\ r.state \in {"decision_committed", "terminal_denial"} => s.state = r.state
       /\ r.state \notin {None, "pending_review"} => s.state # "pending_review"

\* A step that leaves the journal alone keeps its facts.
LEMMA JournalStays == ASSUME UNCHANGED journal PROVE FactsStay
BY DEF journal, FactsStay

\* So does one that rewrites one row and keeps the facts of that row.
LEMMA RowStaysStep ==
    ASSUME IInv, NEW q \in Proposals, UNCHANGED proposal_intents,
           NEW row \in ReviewRows, reviews' = [reviews EXCEPT ![q] = row],
           LET r == reviews[q]
           IN /\ r.intent # None => row.intent = r.intent
              /\ r.outcome # None => row.outcome = r.outcome
              /\ r.state \in {"decision_committed", "terminal_denial"} => row.state = r.state
              /\ r.state \notin {None, "pending_review"} => row.state # "pending_review"
    PROVE  FactsStay
<1>1. ASSUME NEW p \in Proposals PROVE RowStays(p)
  <2>1. CASE p = q
    BY <2>1 DEF RowStays, IInv, TypeOK
  <2>2. CASE p # q
    BY <2>2 DEF RowStays, IInv, TypeOK
  <2> QED BY <2>1, <2>2
<1> QED BY <1>1 DEF FactsStay, RowStays

\* A compare-and-set from an open state to another keeps the facts.
LEMMA TransitionStays ==
    ASSUME IInv, NEW q \in Proposals, NEW old \in Open,
           NEW new \in {"outcome_unknown", "retryable_failure", "terminal_denial"},
           Transition(q, old, new), UNCHANGED proposal_intents
    PROVE  FactsStay
<1>1. CASE reviews[q].state # old
  BY <1>1, JournalStays DEF Transition, journal
<1>2. CASE reviews[q].state = old
  <2> DEFINE row == [reviews[q] EXCEPT !.state = new]
  <2>1. /\ reviews' = [reviews EXCEPT ![q] = row]
        /\ row \in ReviewRows /\ row.state = new
        /\ row.intent = reviews[q].intent /\ row.outcome = reviews[q].outcome
    BY <1>2, Rows DEF Transition, ReviewRows, States
  <2> HIDE DEF row
  <2>2. old \notin {"decision_committed", "terminal_denial"}
    BY DEF Open, Decisionable
  <2> QED BY <1>2, <2>1, <2>2, RowStaysStep
<1> QED BY <1>1, <1>2

\* Recording an outcome keeps the facts: only a row without one gets one.
LEMMA OutcomeStays ==
    ASSUME IInv, NEW q \in Proposals, NEW c \in Decisions,
           RecordOutcome(q, c), UNCHANGED proposal_intents
    PROVE  FactsStay
<1>1. CASE ~(/\ reviews[q].intent # None /\ reviews[q].intent.head = c
             /\ reviews[q].state \in Open)
  BY <1>1, JournalStays DEF RecordOutcome, journal, Open
<1>2. CASE /\ reviews[q].intent # None /\ reviews[q].intent.head = c
           /\ reviews[q].state \in Open
  <2> DEFINE row == [reviews[q] EXCEPT !.state = "decision_committed", !.outcome = c]
  <2>1. /\ reviews' = [reviews EXCEPT ![q] = row]
        /\ row \in ReviewRows /\ reviews'[q] = row
        /\ row.state = "decision_committed" /\ row.outcome = c
        /\ row.intent = reviews[q].intent
    BY <1>2, Rows DEF RecordOutcome, ReviewRows, States, Open, Decisions
  <2> HIDE DEF row
  <2>2. reviews[q].state \notin {"decision_committed", "terminal_denial"}
    BY <1>2 DEF Open, Decisionable
  <2>3. reviews[q].outcome = None
    BY <2>2 DEF IInv, RowFits
  <2> QED BY <2>1, <2>2, <2>3, RowStaysStep
<1> QED BY <1>1, <1>2

\* The steps of a worker that write the journal keep its facts.
LEMMA WriterStays ==
    ASSUME IInv, NEW w \in Workers,
           \/ RegisterProposal(w) \/ CommitProposal(w) \/ RegisterDecision(w)
           \/ Arm(w) \/ CommitDecision(w) \/ ReturnToRetryable(w)
           \/ RecordReconciled(w) \/ Deny(w) \/ StayUnknown(w)
    PROVE  FactsStay
<1>a. pc[w] # "idle"
  BY DEF RegisterProposal, CommitProposal, RegisterDecision, Arm, CommitDecision,
         ReturnToRetryable, RecordReconciled, Deny, StayUnknown, At
<1>b. PICK q \in Proposals : q = task[w].proposal
  BY <1>a DEF IInv, WorkersFit, Fits
<1>0. Fits(w) /\ Knows(w)
  BY DEF IInv, WorkersFit
<1> USE <1>b
<1>1. CASE RegisterProposal(w)
  <2>1. task[w].key \in Keys
    BY <1>0, <1>1 DEF RegisterProposal, At, Fits
  <2>2. \A k \in Keys : proposal_intents[k] # None => proposal_intents'[k] = proposal_intents[k]
    BY <1>1, <2>1 DEF RegisterProposal, IInv, TypeOK
  <2> QED BY <1>1, <2>2 DEF RegisterProposal, FactsStay
<1>2. CASE CommitProposal(w)
  <2>1. CASE Linked(q)
    BY <1>2, <2>1, JournalStays DEF CommitProposal, journal
  <2>2. CASE ~Linked(q)
    <3> DEFINE row == [reviews[q] EXCEPT !.state = "pending_review"]
    <3>1. reviews' = [reviews EXCEPT ![q].state = "pending_review"]
      BY <1>2, <2>2 DEF CommitProposal
    <3>2. /\ reviews' = [reviews EXCEPT ![q] = row] /\ row \in ReviewRows
          /\ row.intent = reviews[q].intent /\ row.outcome = reviews[q].outcome
      BY <3>1, Rows DEF ReviewRows, States
    <3> HIDE DEF row
    <3>3. reviews[q].state = None
      BY <2>2 DEF Linked
    <3>4. None \notin States
      BY DurableReviewAssumption
    <3>5. proposal_intents' = proposal_intents
      BY <1>2 DEF CommitProposal
    <3> QED BY <3>2, <3>3, <3>4, <3>5, RowStaysStep DEF States
  <2> QED BY <2>1, <2>2
<1>3. CASE RegisterDecision(w)
  <2>1. CASE reviews[q].intent = None /\ reviews[q].state \in Decisionable
    <3> DEFINE row == [reviews[q] EXCEPT !.intent = Intent(w)]
    <3>1. reviews' = [reviews EXCEPT ![q].intent = Intent(w)]
      BY <1>3, <2>1 DEF RegisterDecision
    <3>2. Intent(w) \in [key : Keys, head : Decisions]
      BY <1>3, IntentFits DEF RegisterDecision, At, ClaimLabels
    <3>3. /\ reviews' = [reviews EXCEPT ![q] = row] /\ row \in ReviewRows
          /\ row.state = reviews[q].state /\ row.outcome = reviews[q].outcome
      BY <3>1, <3>2, Rows DEF ReviewRows, Decisions
    <3> HIDE DEF row
    <3>4. proposal_intents' = proposal_intents
      BY <1>3 DEF RegisterDecision
    <3> QED BY <2>1, <3>3, <3>4, RowStaysStep
  <2>2. CASE ~(reviews[q].intent = None /\ reviews[q].state \in Decisionable)
    BY <1>3, <2>2, JournalStays DEF RegisterDecision, journal
  <2> QED BY <2>1, <2>2
<1>4. CASE Arm(w)
  BY <1>0, <1>4, TransitionStays DEF Arm, At, Fits, Open
<1>5. CASE CommitDecision(w)
  <2>1. Intent(w).head \in Decisions
    BY <1>5, IntentFits DEF CommitDecision, At, IntentLabels
  <2> QED BY <1>5, <2>1, OutcomeStays DEF CommitDecision
<1>6. CASE ReturnToRetryable(w)
  BY <1>6, TransitionStays, JournalStays DEF ReturnToRetryable, Open, journal
<1>7. CASE RecordReconciled(w)
  <2>1. Intended(w) \in Decisions
    BY <1>0, <1>7
    DEF RecordReconciled, At, Knows, Intended, ReconcileLabels, IInv, RowFits,
        Decisions
  <2> QED BY <1>7, <2>1, OutcomeStays DEF RecordReconciled
<1>8. CASE Deny(w)
  BY <1>0, <1>8, TransitionStays DEF Deny, At, Fits, ReconcileLabels
<1>9. CASE StayUnknown(w)
  BY <1>9, TransitionStays, JournalStays DEF StayUnknown, Open, journal
<1> QED BY <1>1, <1>2, <1>3, <1>4, <1>5, <1>6, <1>7, <1>8, <1>9

\* RecordedFactsStay for every number of workers, proposals, keys, faults and
\* moves of other writers: no retry, competing request or late reconciler changes
\* a request, an intent, an outcome or a terminal state.
THEOREM FactsAreWriteOnce == Spec => RecordedFactsStay
<1>1. IInv /\ [Next]_vars => [FactsStay]_vars
  <2> SUFFICES ASSUME IInv, Next PROVE FactsStay
    OBVIOUS
  <2>1. ASSUME NEW w \in Workers,
               \/ \E k \in Keys, p \in Proposals : PrepareProposal(w, k, p)
               \/ \E k \in Keys : RecoverProposal(w, k)
               \/ \E p \in Proposals : RecoverReview(w, p) \/ Reconcile(w, p)
               \/ \E k \in Keys, d \in Dispositions : AskDecision(w, k, d)
               \/ Fail(w) \/ Release(w)
        PROVE  UNCHANGED journal
    BY <2>1 DEF PrepareProposal, RecoverProposal, RecoverReview, Reconcile,
                AskDecision, Fail, Release, Begin
  <2>2. ASSUME NEW w \in Workers, ProposalStep(w) PROVE FactsStay
    BY <2>2, WriterStays, JournalStays
    DEF ProposalStep, InitializeDecisionRef, PublishProposal, InspectProposal,
        ReprepareProposal, RederiveProposal
  <2>3. ASSUME NEW w \in Workers, DecisionStep(w) PROVE FactsStay
    BY <2>3, WriterStays, JournalStays
    DEF DecisionStep, RederiveReview, PrepareDecision, ReadBeforePublish,
        PublishDecision, CheckoutDecision
  <2>4. ASSUME NEW w \in Workers, ReconcileStep(w) PROVE FactsStay
    BY <2>4, WriterStays, JournalStays
    DEF ReconcileStep, InspectDecision, CheckoutIntent
  <2>5. ASSUME \/ \E h \in Foreign, k \in Kinds : Advance(h, k)
               \/ \E h \in Heads : Return(h)
               \/ \E p \in Proposals : MoveProposal(p)
        PROVE  UNCHANGED journal
    BY <2>5 DEF Advance, Return, MoveProposal, OtherWriter
  <2> QED BY <2>1, <2>2, <2>3, <2>4, <2>5, JournalStays DEF Next
<1> QED BY <1>1, Invariance, PTL DEF Spec, RecordedFactsStay
=============================================================================
