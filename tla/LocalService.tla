---------------------------- MODULE LocalService ----------------------------
(***************************************************************************)
(* The pending-review registry of the localhost application                *)
(* (synapse-local-service/src/service.rs) with the creator session calls   *)
(* it drives (synapse-creator/src/session.rs).                             *)
(*                                                                         *)
(* A begin publishes two Refs of its session and leaves the one same-      *)
(* process capability to decide it, the handle, in a registry entry.  A    *)
(* decide claims the entry, publishes the Decision and removes the entry.  *)
(* Both hold the writer mutex of their project; reads hold none.  Every    *)
(* access to the registry is one critical section; the Ref snapshot it is  *)
(* compared with was captured before the registry lock was taken.          *)
(*                                                                         *)
(* A session's Refs are create-only for the service, so each session has   *)
(* one base head and one proposal head and a receipt needs no heads of its *)
(* own.  Other processes write the same Refs through the command line.     *)
(***************************************************************************)
EXTENDS Naturals, FiniteSets

CONSTANTS Projects,     \* catalog entries
          Sessions,     \* session slugs of a project
          Threads,      \* request threads of the server
          Reviews,      \* random review ids, never issued twice
          MAX_PENDING_CREATOR_SESSIONS,
          MAX_PENDING_CREATOR_SESSIONS_PER_PROJECT,
          MaxForeign,   \* bound: Ref moves by other processes
          MaxRestarts,  \* bound: restarts of the server
          None

States == {"reserved", "ready", "deciding", "outcome_unknown"}
Entry == [project : Projects, session : Sessions, state : States]

ASSUME LocalServiceAssumption ==
    /\ None \notin Projects \cup Sessions \cup Threads \cup Reviews
    /\ None \notin Entry
    /\ IsFiniteSet(Reviews)
    /\ MAX_PENDING_CREATOR_SESSIONS \in Nat
    /\ MAX_PENDING_CREATOR_SESSIONS_PER_PROJECT \in Nat
    /\ MaxForeign \in Nat /\ MaxRestarts \in Nat

VARIABLES
    refs,      \* live Refs: project -> session -> the session's two Refs
    entries,   \* registry: review id -> entry or None
    issued,    \* review ids in use or once shown to a client
    writer,    \* project -> thread that holds its writer mutex
    task,      \* thread -> the call it executes
    fate,      \* history: what this server process did to a session
    foreign,   \* Ref moves by other processes so far
    restarts

vars == <<refs, entries, issued, writer, task, fate, foreign, restarts>>

------------------------------------------------------------------------------
(* State *)

Heads == {"none", "base", "proposed", "decided", "foreign"}
RefRow == [head : Heads, event : Nat]
NoRef == [head |-> "none", event |-> 0]
SessionRefs == [decision : RefRow, proposal : RefRow]
Snapshots == [Sessions -> SessionRefs]

Idle == [at |-> "idle", project |-> None, session |-> None, review |-> None,
         snapshot |-> None, agrees |-> FALSE]

BeginSteps == {"reserve", "before", "begin", "initialize", "propose", "fill",
               "settle", "settle_entry", "respond", "respond_overlay"}
DecideSteps == {"claim_snapshot", "claim", "decide", "recheck", "restore",
                "finish", "consume", "consume_committed"}
Steps == {"idle", "lock_begin", "lock_decide", "overlay"}
            \cup BeginSteps \cup DecideSteps
Tasks == [at : Steps, project : Projects \cup {None},
          session : Sessions \cup {None}, review : Reviews \cup {None},
          snapshot : Snapshots \cup {None}, agrees : BOOLEAN]

\* A thread that holds the handle it took out of a claimed entry.
HoldsHandle(t, r) ==
    /\ task[t].review = r
    /\ task[t].at \in {"decide", "recheck", "restore", "finish", "consume"}

Init ==
    /\ refs = [p \in Projects |->
                 [s \in Sessions |-> [decision |-> NoRef, proposal |-> NoRef]]]
    /\ entries = [r \in Reviews |-> None]
    /\ issued = {}
    /\ writer = [p \in Projects |-> None]
    /\ task = [t \in Threads |-> Idle]
    /\ fate = [p \in Projects |-> [s \in Sessions |-> "untouched"]]
    /\ foreign = 0
    /\ restarts = 0

------------------------------------------------------------------------------
(* Helpers *)

Moved(row, head) == [head |-> head, event |-> row.event + 1]

Live(t) == refs[task[t].project][task[t].session]

\* The live Refs are the ones the session's receipt names.
pending_heads_match(session) ==
    session.decision.head = "base" /\ session.proposal.head = "proposed"

SetState(r, state) ==
    IF entries[r] = None THEN entries
    ELSE [entries EXCEPT ![r].state = state]

Remove(r) == [entries EXCEPT ![r] = None]

IsReserved(r) == entries[r] # None /\ entries[r].state = "reserved"

remove_reserved(r) ==
    IF IsReserved(r) THEN Remove(r) ELSE entries

Goto(t, step) == task' = [task EXCEPT ![t].at = step]

\* The end of a call: the thread is free again and the mutex guard drops.
Return(t) ==
    /\ task' = [task EXCEPT ![t] = Idle]
    /\ writer' = [p \in Projects |->
                    IF writer[p] = t THEN None ELSE writer[p]]

Start(t, step, p, s, r) ==
    /\ task[t] = Idle
    /\ task' = [task EXCEPT ![t] = [Idle EXCEPT !.at = step, !.project = p,
                                                 !.session = s, !.review = r]]

capture_snapshot(t, step) ==
    task' = [task EXCEPT ![t] = [@ EXCEPT !.snapshot = refs[task[t].project],
                                          !.at = step]]

\* The part of the state a registry operation leaves alone.
RefsStay == UNCHANGED <<refs, fate, foreign, restarts>>

------------------------------------------------------------------------------
(* begin_creator_session *)

begin_creator_session(t, p, s, r) ==
    /\ r \notin issued
    /\ Start(t, "lock_begin", p, s, r)
    /\ issued' = issued \cup {r}
    /\ UNCHANGED <<entries, writer>> /\ RefsStay

acquire_project_writer(t) ==
    /\ task[t].at \in {"lock_begin", "lock_decide"}
    /\ writer[task[t].project] = None
    /\ writer' = [writer EXCEPT ![task[t].project] = t]
    /\ Goto(t, IF task[t].at = "lock_begin" THEN "reserve" ELSE "claim_snapshot")
    /\ UNCHANGED <<entries, issued>> /\ RefsStay

Retained == {r \in Reviews : entries[r] # None}
RetainedIn(p) == {r \in Retained : entries[r].project = p}

Admits(p, s) ==
    /\ Cardinality(Retained) < MAX_PENDING_CREATOR_SESSIONS
    /\ Cardinality(RetainedIn(p)) < MAX_PENDING_CREATOR_SESSIONS_PER_PROJECT
    /\ \A r \in RetainedIn(p) : entries[r].session # s

\* A refused reservation returns before anything is published; its id was
\* shown to nobody.
reserve(t) ==
    /\ task[t].at = "reserve"
    /\ LET r == task[t].review
           p == task[t].project
           s == task[t].session
       IN \/ /\ Admits(p, s)
             /\ entries' = [entries EXCEPT ![r] =
                   [project |-> p, session |-> s, state |-> "reserved"]]
             /\ Goto(t, "before")
             /\ UNCHANGED <<issued, writer>>
          \/ /\ ~Admits(p, s)
             /\ issued' = issued \ {r}
             /\ Return(t)
             /\ UNCHANGED entries
    /\ RefsStay

capture_before(t) ==
    /\ task[t].at = "before"
    /\ \/ capture_snapshot(t, "begin") /\ UNCHANGED <<entries, writer>>
       \/ \* the repository cannot be opened or read
          /\ entries' = remove_reserved(task[t].review)
          /\ Return(t)
    /\ UNCHANGED issued /\ RefsStay

\* The creator call refuses a session either of whose Refs exists; inputs,
\* limits or the preflight fsck can fail it too (core_begin_fails).
core_begin_checks(t) ==
    /\ task[t].at = "begin"
    /\ Live(t).decision.head = "none" /\ Live(t).proposal.head = "none"
    /\ Goto(t, "initialize")
    /\ UNCHANGED <<entries, issued, writer>> /\ RefsStay

core_begin_fails(t) ==
    /\ task[t].at \in {"begin", "initialize", "propose"}
    /\ Goto(t, "settle")
    /\ UNCHANGED <<entries, issued, writer>> /\ RefsStay

core_begin_panics(t) ==
    /\ task[t].at \in {"begin", "initialize", "propose", "fill"}
    /\ entries' = SetState(task[t].review, "outcome_unknown")
    /\ Return(t)
    /\ UNCHANGED issued /\ RefsStay

\* The two create-only publications of a begin.  Either may commit and
\* still be reported as an error.
initialize_decision_ref(t) ==
    /\ task[t].at = "initialize"
    /\ Live(t).decision.head = "none"
    /\ refs' = [refs EXCEPT ![task[t].project][task[t].session].decision =
                                Moved(@, "base")]
    /\ fate' = [fate EXCEPT ![task[t].project][task[t].session] = "began"]
    /\ \E step \in {"propose", "settle"} : Goto(t, step)
    /\ UNCHANGED <<entries, issued, writer, foreign, restarts>>

publish_proposal(t) ==
    /\ task[t].at = "propose"
    /\ Live(t).decision.head = "base" /\ Live(t).proposal.head = "none"
    /\ refs' = [refs EXCEPT ![task[t].project][task[t].session].proposal =
                                Moved(@, "proposed")]
    /\ \E step \in {"fill", "settle"} : Goto(t, step)
    /\ UNCHANGED <<entries, issued, writer, fate, foreign, restarts>>

\* The slot of a failed begin is freed only if neither Ref of the session
\* moved since the snapshot taken before it; a failed capture is a move.
settle_failed_begin(t) ==
    /\ task[t].at = "settle"
    /\ \E readable \in BOOLEAN :
         task' = [task EXCEPT ![t] = [@ EXCEPT
            !.agrees = readable /\ task[t].snapshot[task[t].session] = Live(t),
            !.at = "settle_entry"]]
    /\ UNCHANGED <<entries, issued, writer>> /\ RefsStay

settle_entry(t) ==
    /\ task[t].at = "settle_entry"
    /\ entries' = IF task[t].agrees THEN remove_reserved(task[t].review)
                  ELSE SetState(task[t].review, "outcome_unknown")
    /\ Return(t)
    /\ UNCHANGED issued /\ RefsStay

fill_ready(t) ==
    /\ task[t].at = "fill"
    /\ IF IsReserved(task[t].review)
       THEN /\ entries' = SetState(task[t].review, "ready")
            /\ Goto(t, "respond")
            /\ UNCHANGED writer
       ELSE /\ entries' = SetState(task[t].review, "outcome_unknown")
            /\ Return(t)
    /\ UNCHANGED issued /\ RefsStay

\* The response is derived from a fresh snapshot and the registry overlay.
begin_responds(t) ==
    /\ task[t].at = "respond"
    /\ \/ capture_snapshot(t, "respond_overlay") /\ UNCHANGED writer
       \/ Return(t)
    /\ UNCHANGED <<entries, issued>> /\ RefsStay

------------------------------------------------------------------------------
(* Reads: list, detail, diagnostic, image and source preparation *)

\* Any read captures the Refs of its project and then overlays the registry.
read_snapshot(t, p) ==
    /\ task[t] = Idle
    /\ task' = [task EXCEPT ![t] = [Idle EXCEPT !.at = "overlay",
                                 !.project = p, !.snapshot = refs[p]]]
    /\ UNCHANGED <<entries, issued, writer>> /\ RefsStay

\* Every ready entry of the project whose receipt the snapshot does not show
\* becomes outcome_unknown.
ready_pending(p, snapshot) ==
    [r \in Reviews |->
        IF /\ entries[r] # None
           /\ entries[r].project = p
           /\ entries[r].state = "ready"
           /\ ~pending_heads_match(snapshot[entries[r].session])
        THEN [entries[r] EXCEPT !.state = "outcome_unknown"]
        ELSE entries[r]]

overlay(t) ==
    /\ task[t].at \in {"overlay", "respond_overlay"}
    /\ entries' = ready_pending(task[t].project, task[t].snapshot)
    /\ Return(t)
    /\ UNCHANGED issued /\ RefsStay

------------------------------------------------------------------------------
(* decide_creator_session *)

decide_creator_session(t, p, s, r) ==
    /\ r \in issued
    /\ Start(t, "lock_decide", p, s, r)
    /\ UNCHANGED <<entries, issued, writer>> /\ RefsStay

capture_claim(t) ==
    /\ task[t].at = "claim_snapshot"
    /\ \/ capture_snapshot(t, "claim") /\ UNCHANGED writer
       \/ Return(t)
    /\ UNCHANGED <<entries, issued>> /\ RefsStay

Named(t) ==
    LET e == entries[task[t].review] IN
    e # None /\ e.project = task[t].project /\ e.session = task[t].session

claim_ready(t) ==
    /\ task[t].at = "claim"
    /\ LET r == task[t].review
           shown == pending_heads_match(task[t].snapshot[task[t].session])
           ready == Named(t) /\ entries[r].state = "ready"
       IN \/ /\ ~ready
             /\ Return(t)
             /\ UNCHANGED entries
          \/ /\ ready /\ ~shown
             /\ entries' = SetState(r, "outcome_unknown")
             /\ Return(t)
          \/ /\ ready /\ shown
             /\ entries' = SetState(r, "deciding")
             /\ Goto(t, "decide")
             /\ UNCHANGED writer
    /\ UNCHANGED issued /\ RefsStay

\* The creator call fails before its publication; the handle stays usable.
core_decide_fails(t) ==
    /\ task[t].at = "decide"
    /\ Goto(t, "recheck")
    /\ UNCHANGED <<entries, issued, writer>> /\ RefsStay

\* The publication is refused, or the call panics.
core_decide_unknown(t) ==
    /\ task[t].at = "decide"
    /\ entries' = SetState(task[t].review, "outcome_unknown")
    /\ Return(t)
    /\ UNCHANGED issued /\ RefsStay

\* Mutant: a publication error is handled like one before publication.
publish_decision_Retryable(t) ==
    /\ task[t].at = "decide"
    /\ pending_heads_match(Live(t))
    /\ refs' = [refs EXCEPT ![task[t].project][task[t].session].decision =
                                Moved(@, "decided")]
    /\ \/ /\ fate' = [fate EXCEPT ![task[t].project][task[t].session] = "known"]
          /\ Goto(t, "finish")
       \/ /\ fate' = [fate EXCEPT ![task[t].project][task[t].session] = "committed"]
          /\ Goto(t, "recheck")
    /\ UNCHANGED <<entries, writer, issued, foreign, restarts>>

\* The compare-and-swap of the Decision commits.  The call then returns the
\* receipt (also when its last fsck fails), or reports an error.
publish_decision(t) ==
    /\ task[t].at = "decide"
    /\ pending_heads_match(Live(t))
    /\ refs' = [refs EXCEPT ![task[t].project][task[t].session].decision =
                                Moved(@, "decided")]
    /\ \/ /\ fate' = [fate EXCEPT ![task[t].project][task[t].session] = "known"]
          /\ Goto(t, "finish")
          /\ UNCHANGED <<entries, writer>>
       \/ /\ fate' = [fate EXCEPT ![task[t].project][task[t].session] = "committed"]
          /\ entries' = SetState(task[t].review, "outcome_unknown")
          /\ Return(t)
    /\ UNCHANGED <<issued, foreign, restarts>>

recheck_after_error(t) ==
    /\ task[t].at = "recheck"
    /\ \E readable \in BOOLEAN :
         task' = [task EXCEPT ![t] = [@ EXCEPT
            !.agrees = readable /\ pending_heads_match(Live(t)),
            !.at = "restore"]]
    /\ UNCHANGED <<entries, issued, writer>> /\ RefsStay

\* Mutant: the live Refs are rechecked until they match.
restore_ready_after_error_Waits(t) ==
    /\ task[t].at = "restore"
    /\ IF task[t].agrees
       THEN entries' = SetState(task[t].review, "ready") /\ Return(t)
       ELSE Goto(t, "recheck") /\ UNCHANGED <<entries, writer>>
    /\ UNCHANGED issued /\ RefsStay

restore_ready_after_error(t) ==
    /\ task[t].at = "restore"
    /\ entries' = SetState(task[t].review,
                     IF task[t].agrees /\ entries[task[t].review].state = "deciding"
                     THEN "ready" ELSE "outcome_unknown")
    /\ Return(t)
    /\ UNCHANGED issued /\ RefsStay

\* The completed report is rebuilt from a fresh snapshot and compared with
\* the receipt; it needs the session's live Refs to be the decided ones.
finish_decision(t) ==
    /\ task[t].at = "finish"
    /\ \/ /\ Live(t).decision.head = "decided" /\ Live(t).proposal.head = "proposed"
          /\ Goto(t, "consume")
          /\ UNCHANGED entries
       \/ /\ entries' = SetState(task[t].review, "outcome_unknown")
          /\ Goto(t, "consume_committed")
    /\ UNCHANGED <<issued, writer>> /\ RefsStay

consume_deciding(t) ==
    /\ task[t].at = "consume"
    /\ IF entries[task[t].review].state = "deciding"
       THEN entries' = Remove(task[t].review) /\ Return(t)
       ELSE /\ entries' = SetState(task[t].review, "outcome_unknown")
            /\ Goto(t, "consume_committed")
            /\ UNCHANGED writer
    /\ UNCHANGED issued /\ RefsStay

\* No report, but a committed receipt: the entry is dropped all the same.
consume_committed(t) ==
    /\ task[t].at = "consume_committed"
    /\ entries' = Remove(task[t].review)
    /\ Return(t)
    /\ UNCHANGED issued /\ RefsStay

------------------------------------------------------------------------------
(* The environment *)

\* Another process moves a Ref: it creates one, moves one away, or moves one
\* back to the head this server gave it.
Original(p, s, which) ==
    IF fate[p][s] = "untouched" THEN "foreign"
    ELSE IF which = "decision" THEN "base" ELSE "proposed"

move_foreign(p, s, which) ==
    /\ foreign < MaxForeign
    /\ foreign' = foreign + 1
    /\ LET row == refs[p][s][which] IN
       refs' = [refs EXCEPT ![p][s][which] =
                   Moved(row, IF row.head = "foreign" THEN Original(p, s, which)
                              ELSE "foreign")]
    /\ UNCHANGED <<entries, issued, writer, task, fate, restarts>>

\* A new server process: nothing of the registry survives.
restart ==
    /\ restarts < MaxRestarts
    /\ restarts' = restarts + 1
    /\ entries' = [r \in Reviews |-> None]
    /\ writer' = [p \in Projects |-> None]
    /\ task' = [t \in Threads |-> Idle]
    /\ fate' = [p \in Projects |-> [s \in Sessions |-> "untouched"]]
    /\ UNCHANGED <<refs, issued, foreign>>

------------------------------------------------------------------------------
(* The specification *)

Call(t) ==
    \/ \E p \in Projects : read_snapshot(t, p)
    \/ \E p \in Projects, s \in Sessions, r \in Reviews :
          \/ begin_creator_session(t, p, s, r)
          \/ decide_creator_session(t, p, s, r)

Begin(t) ==
    \/ reserve(t) \/ capture_before(t) \/ core_begin_checks(t)
    \/ core_begin_fails(t) \/ core_begin_panics(t)
    \/ initialize_decision_ref(t) \/ publish_proposal(t)
    \/ settle_failed_begin(t) \/ settle_entry(t)
    \/ fill_ready(t) \/ begin_responds(t) \/ overlay(t)

Decide(t) ==
    \/ capture_claim(t) \/ claim_ready(t)
    \/ core_decide_fails(t) \/ core_decide_unknown(t) \/ publish_decision(t)
    \/ recheck_after_error(t) \/ restore_ready_after_error(t)
    \/ finish_decision(t) \/ consume_deciding(t) \/ consume_committed(t)

Next ==
    \/ \E t \in Threads :
          Call(t) \/ acquire_project_writer(t) \/ Begin(t) \/ Decide(t)
    \/ \E p \in Projects, s \in Sessions, which \in {"decision", "proposal"} :
          move_foreign(p, s, which)
    \/ restart

Spec == Init /\ [][Next]_vars

\* A call that is past the writer mutex runs to its end: its thread is
\* scheduled and its file and SQLite operations return.  Nothing is assumed
\* about the wait for the mutex itself.
FairSpec == Spec /\ \A t \in Threads : WF_vars(Begin(t) \/ Decide(t))

------------------------------------------------------------------------------
(* Properties *)

\* Types, and the writer mutex: a thread inside a begin or a decide is the
\* one that holds its project's mutex.
TypeOK ==
    /\ refs \in [Projects -> Snapshots]
    /\ entries \in [Reviews -> Entry \cup {None}]
    /\ issued \subseteq Reviews
    /\ writer \in [Projects -> Threads \cup {None}]
    /\ task \in [Threads -> Tasks]
    /\ fate \in [Projects -> [Sessions -> {"untouched", "began", "committed", "known"}]]
    /\ foreign \in 0..MaxForeign
    /\ restarts \in 0..MaxRestarts
    /\ \A t \in Threads : task[t].at \in BeginSteps \cup DecideSteps
                             <=> \E p \in Projects : writer[p] = t

\* A session this server began to publish keeps its registry entry until a
\* committed Decision receipt is known, whatever failed or was cancelled in
\* between: the handle is never dropped between publication and registry,
\* and a half-published session is not offered a second begin.
PublishedReviewsKeepTheirSlot ==
    \A p \in Projects, s \in Sessions :
        fate[p][s] \in {"began", "committed"} =>
            \E r \in Reviews : /\ entries[r] # None
                              /\ entries[r].project = p
                              /\ entries[r].session = s

\* No review is offered for a decision once its Decision was committed, also
\* when the commit was reported as an error and the Refs were moved back.
ReadyIsUndecided ==
    \A r \in Reviews :
        entries[r] # None /\ entries[r].state = "ready" =>
            fate[entries[r].project][entries[r].session] = "began"

\* An entry is deciding exactly while one call holds its handle, and reserved
\* only while a begin works on it: no error path leaks a slot or lets a
\* second request at the same capability.
SlotsHaveOneOwner ==
    \A r \in Reviews :
        /\ entries[r] # None /\ entries[r].state = "deciding"
              <=> \E t \in Threads : HoldsHandle(t, r)
        /\ \A t, u \in Threads : HoldsHandle(t, r) /\ HoldsHandle(u, r) => t = u
        /\ IsReserved(r) => \E t \in Threads :
              task[t].review = r /\ task[t].at \in BeginSteps

\* The registry never holds more entries than it may, in all and of a project.
SlotsAreBounded ==
    /\ Cardinality(Retained) <= MAX_PENDING_CREATOR_SESSIONS
    /\ \A p \in Projects :
          Cardinality(RetainedIn(p)) <= MAX_PENDING_CREATOR_SESSIONS_PER_PROJECT

\* The registry tells the truth about the sessions: whatever fails or is
\* cancelled, a session that this server began to publish keeps its entry until
\* a committed Decision is known, an entry is ready only while its session is
\* undecided, every reserved or deciding entry has exactly one owner, and the
\* entries stay within their limits.
RegistryIsTrue ==
    /\ TypeOK
    /\ SlotsAreBounded
    /\ PublishedReviewsKeepTheirSlot
    /\ ReadyIsUndecided
    /\ SlotsHaveOneOwner

\* A reserved or deciding entry does not stay so: the call that works on it
\* makes it ready, frees it or gives it up.
InFlightEntriesSettle ==
    \A r \in Reviews :
        (entries[r] # None /\ entries[r].state \in {"reserved", "deciding"})
            ~> (entries[r] = None \/ entries[r].state \in {"ready", "outcome_unknown"})

\* docs/localhost_application_architecture.md: a ready review becomes
\* outcome_unknown on an unexpected Ref state.  So it does not become so
\* while both live Refs are the ones its receipt names.
ReadyIsLostOnlyToRefChange ==
    [][\A r \in Reviews :
         /\ entries[r] # None /\ entries[r].state = "ready"
         /\ entries'[r] # None /\ entries'[r].state = "outcome_unknown"
         => ~pending_heads_match(refs[entries[r].project][entries[r].session])]_vars

==============================================================================
