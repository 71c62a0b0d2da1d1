----------------------------- MODULE MCProgress ------------------------------
(***************************************************************************)
(* What must eventually happen: threads get through the fair gate, calls   *)
(* of the AI route return although executors hang, and a review whose      *)
(* outcome is unknown is reconciled.  The parts do not run together: each  *)
(* behaviour is a behaviour of one part, and the others stay as they       *)
(* start.                                                                  *)
(***************************************************************************)
EXTENDS FairGate

CONSTANTS t1, t2, w1, r1, p1, k1, k2, d1, d2, Base, None

VARIABLE part

VARIABLES now, session, allowed, epoch, profile, next_serial, registrations, permits,
          admitted, fence, callAt, call, proposal, decided, base, attempts, published

VARIABLES proposal_intents, reviews, proposal_log, decision_log, commits, workerAt, task,
          faults, moves

\* the AI route against revocation, new profiles, time and changing sessions
A == INSTANCE Application WITH
        Threads <- {t1, t2},
        Operations <- {"revoke", "replace", "register", "prepare", "publish"},
        Ttl <- 2, GrantExpiry <- 1, MaxTime <- 1, MaxEpoch <- 1, MaxSerial <- 2,
        MaxProposals <- 0, Relogins <- {"ai"}, ClockCanRetreat <- FALSE, pc <- callAt

\* a review that a client decides, other writers that only add Decisions to the
\* current head, and a reconciler
D == INSTANCE DurableReview WITH
        Clients <- {w1}, Reconcilers <- {r1}, Proposals <- {p1},
        Dispositions <- {"adopted", "rejected"}, Keys <- {k1, k2}, Foreign <- {d1, d2},
        Kinds <- {"next"}, MaxFaults <- 2, MaxMoves <- 2, pc <- workerAt

callVars == <<now, session, allowed, epoch, profile, next_serial, registrations, permits,
              admitted, fence, callAt, call, proposal, decided, base, attempts, published>>

reviewVars == <<proposal_intents, reviews, proposal_log, decision_log, commits, workerAt,
                task, faults, moves>>

allVars == <<part, vars, callVars, reviewVars>>

ProgressInit ==
    /\ part \in {"gate", "calls", "reviews"}
    /\ Init /\ A!Init /\ D!Init

\* the work on reviews ends when the requests and the faults are used up
ProgressNext ==
    \/ part = "gate" /\ Next /\ UNCHANGED <<part, callVars, reviewVars>>
    \/ part = "calls" /\ A!Next /\ UNCHANGED <<part, vars, reviewVars>>
    \/ part = "reviews" /\ D!Next /\ UNCHANGED <<part, vars, callVars>>
    \/ part = "reviews" /\ UNCHANGED allVars

\* A woken thread gets the mutex and a holder's critical section ends; a
\* thread keeps running, except inside the executor; the reconciler is run
\* again and finishes its queries.
Fairness ==
    /\ \A t \in Threads :
          WF_vars(part = "gate" /\ Recheck(t)) /\ WF_vars(part = "gate" /\ Leave(t))
    /\ \A t \in {t1, t2} : WF_callVars(part = "calls" /\ A!Work(t))
    /\ WF_reviewVars(part = "reviews" /\ D!ReconcileStep(r1))
    /\ WF_reviewVars(/\ part = "reviews" /\ reviews[p1].state = "outcome_unknown"
                     /\ D!Reconcile(r1, p1))

ProgressSpec == ProgressInit /\ [][ProgressNext]_allVars /\ Fairness

-----------------------------------------------------------------------------
(* Properties; that the gate is a FIFO lock is stated in FairGate *)

\* Nobody waits for ever.  Whoever took a number of the fair gate gets in, as
\* long as holders leave; and a call of the AI route ends, unless its own
\* executor never answers, because executors run outside the gate.
NobodyWaitsForEver == EveryTicketIsServed /\ A!CallsReturn

\* A review in outcome_unknown leaves that state again once it is queried:
\* crashes, a successor Decision or a competing one do not leave it stuck, as
\* long as other writers add Decisions to the head they find.
UnknownIsReconciled == D!UnknownIsReconciled
=============================================================================
