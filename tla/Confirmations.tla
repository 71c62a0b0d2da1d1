--------------------------- MODULE Confirmations ---------------------------
(***************************************************************************)
(* What the localhost application keeps in memory between two requests of   *)
(* one person (synapse-local-service/src/service.rs): the confirmations of  *)
(* a source session before a derivation or a reuse, staged inbox imports,   *)
(* and the result of the last integrity check.                              *)
(*                                                                         *)
(* One project.  A session is absent, proposed or decided; its state stands *)
(* for its heads, so it is also the binding a confirmation records.  The    *)
(* review registry and the begin it drives are LocalService's: here a begin *)
(* publishes and succeeds, publishes and still answers with an error, or    *)
(* fails.  Other processes work on the same repository.                     *)
(***************************************************************************)
EXTENDS Naturals, FiniteSets, Sequences

CONSTANTS Workers, CreatorSessions,
          Starts,         \* the sessions there are, and the calls that clients will make
          MAX_CONFIRMATIONS, MAX_STAGED_IMPORTS, MaxIds, MaxCalls, MaxForeign, MaxRestarts,
          None

VARIABLES sessionOf,      \* session -> its published state
          handle,         \* session -> this process's review of it
          confirmations,  \* id -> what was confirmed
          stages,         \* id -> the staged bytes
          inbox,          \* the bytes of the candidate in the inbox
          last_fsck, stock,
          writer, stagesLock, task, nextId, menu, calls, foreign, instance,
          reused, cancelled,        \* history
          used            \* the begins that published, in order: their id and answer

deskVars == <<sessionOf, handle, confirmations, stages, inbox, last_fsck, stock, writer, stagesLock,
              task, nextId, menu, calls, foreign, instance, reused, used, cancelled>>
store == <<sessionOf, handle, inbox, stock, foreign, instance>>
memory == <<confirmations, stages, last_fsck, nextId>>
history == <<reused, used, cancelled>>

Decisions == {"deferred", "accepted"}
States == {"absent", "proposed"} \union Decisions

\* no call has begun when the process starts
ASSUME DeskAssumption ==
    /\ None \notin Workers
    /\ \A start \in Starts :
         /\ start.session \in [CreatorSessions -> States]
         /\ start.handle \in [CreatorSessions -> {"none", "ready", "unknown", "elsewhere"}]

Idle == [op |-> "idle", at |-> 0, of |-> None, to |-> None, id |-> 0, seen |-> None]

DeskInit ==
    /\ \E start \in Starts : sessionOf = start.session /\ handle = start.handle /\ menu \in start.menus
    /\ confirmations = << >> /\ stages = << >>
    /\ inbox = 1
    /\ last_fsck = None /\ stock = 0
    /\ writer = None /\ stagesLock = None
    /\ task = [t \in Workers |-> Idle]
    /\ nextId = 1
    /\ calls = 0 /\ foreign = 0 /\ instance = 0
    /\ reused = {} /\ used = << >> /\ cancelled = {}

With(f, k, v) == [x \in DOMAIN f \union {k} |-> IF x = k THEN v ELSE f[x]]
Without(f, ks) == [x \in DOMAIN f \ ks |-> f[x]]

\* the steps of each call, its arguments checked: what it reads before it takes
\* a lock, the locks, and what it does with them
Steps ==
    [prepare_source |-> <<"read", "confirm">>,
     prepare_reuse  |-> <<"read", "confirm">>,
     derived        |-> <<"writer", "lookup", "verify", "begin", "remove">>,
     reuse          |-> <<"writer", "lookup", "verify", "begin", "remove">>,
     decide         |-> <<"writer", "claim", "publish">>,
     stage          |-> <<"inspect", "stages", "copy">>,
     begin_staged   |-> <<"stages", "take", "writer", "begin">>,
     cancel         |-> <<"stages", "drop">>,
     fsck           |-> <<"writer", "scan", "record">>,
     restore        |-> <<"validate", "writer", "forget", "restore">>]

\* mutant: a confirmation is looked up before the writer is taken
Plan_LookupFirst(op) ==
    IF op \in {"derived", "reuse"} THEN <<"lookup", "writer", "verify", "begin", "remove">>
    ELSE Steps[op]

\* the steps of a request, in the order in which it takes them
Plan(op) == Steps[op]

\* a request: a begin names the confirmation or stage that some page showed
Call(t, op, s, to, id) ==
    /\ task[t] = Idle /\ op \in menu /\ calls < MaxCalls
    /\ calls' = calls + 1
    /\ task' = [task EXCEPT ![t] = [op |-> op, at |-> 1, of |-> s, to |-> to,
                                    id |-> id, seen |-> None]]
    /\ UNCHANGED <<writer, stagesLock, menu>> /\ UNCHANGED store /\ UNCHANGED memory
    /\ UNCHANGED history

Shown == {s \in CreatorSessions : sessionOf[s] # "absent"}
Request(t) ==
    \/ \E op \in {"prepare_source", "prepare_reuse", "decide"}, s \in Shown : Call(t, op, s, None, 0)
    \/ \E op \in {"derived", "reuse"}, s \in Shown, to \in CreatorSessions, id \in 1 .. nextId - 1 :
         to # s /\ Call(t, op, s, to, id)
    \/ \E to \in CreatorSessions, id \in 1 .. nextId - 1 : Call(t, "begin_staged", None, to, id)
    \/ \E id \in 1 .. nextId - 1 : Call(t, "cancel", None, None, id)
    \/ \E op \in {"stage", "fsck", "restore"} : Call(t, op, None, None, 0)

At(t, step) == task[t] # Idle /\ Plan(task[t].op)[task[t].at] = step
Advance(t) == task' = [task EXCEPT ![t].at = @ + 1]
Saw(t, value) == task' = [task EXCEPT ![t] = [task[t] EXCEPT !.at = @ + 1, !.seen = value]]
Answer(t) ==
    /\ task' = [task EXCEPT ![t] = Idle]
    /\ writer' = IF writer = t THEN None ELSE writer
    /\ stagesLock' = IF stagesLock = t THEN None ELSE stagesLock
KeepLocks == UNCHANGED <<writer, stagesLock>>
Same == UNCHANGED <<menu, calls>>

acquire_project_writer(t) ==
    /\ At(t, "writer") /\ writer = None
    /\ writer' = t
    /\ Advance(t)
    /\ UNCHANGED stagesLock /\ Same
    /\ UNCHANGED store /\ UNCHANGED memory /\ UNCHANGED history

-----------------------------------------------------------------------------
(* Confirmations of a source *)

\* the binding the source has now; a derivation needs a complete session, a
\* reuse a deferred or interrupted one that this process is not reviewing
ready_pending(s) == handle[s] = "ready" /\ sessionOf[s] = "proposed"
Offered(op, s) ==
    IF op \in {"prepare_source", "derived"} THEN sessionOf[s] \in Decisions
    ELSE sessionOf[s] \in {"proposed", "deferred"} /\ ~ready_pending(s)

ReadSource(t) ==
    /\ At(t, "read")
    /\ \/ /\ Offered(task[t].op, task[t].of)
          /\ Saw(t, sessionOf[task[t].of]) /\ KeepLocks
       \/ ~Offered(task[t].op, task[t].of) /\ Answer(t)
    /\ Same /\ UNCHANGED store /\ UNCHANGED memory /\ UNCHANGED history

\* the confirmation in the registry; an equal one of a source is returned
\* again, an older one of the same session is replaced
Confirm(t) ==
    LET kind == IF task[t].op = "prepare_source" THEN "derived" ELSE "reuse"
        made == [kind |-> kind, of |-> task[t].of, seen |-> task[t].seen, instance |-> instance]
        same == {i \in DOMAIN confirmations : confirmations[i] = made /\ kind = "derived"}
        kept == Without(confirmations, {i \in DOMAIN confirmations :
                  confirmations[i].kind = kind /\ confirmations[i].of = task[t].of})
        count == Cardinality({i \in DOMAIN kept : kept[i].kind = kind})
    IN  /\ At(t, "confirm")
        /\ \/ same # {} /\ UNCHANGED <<confirmations, nextId>>
           \/ /\ same = {} /\ count >= MAX_CONFIRMATIONS
              /\ confirmations' = kept /\ UNCHANGED nextId
           \/ /\ same = {} /\ count < MAX_CONFIRMATIONS /\ nextId <= MaxIds
              /\ confirmations' = With(kept, nextId, made)
              /\ nextId' = nextId + 1
        /\ Answer(t)
        /\ Same /\ UNCHANGED <<stages, last_fsck>> /\ UNCHANGED store /\ UNCHANGED history

Known(t) ==
    /\ task[t].id \in DOMAIN confirmations
    /\ LET c == confirmations[task[t].id]
       IN  c.kind = task[t].op /\ c.of = task[t].of /\ c.instance = instance

\* the confirmation, copied out of the registry
Lookup(t) ==
    /\ At(t, "lookup")
    /\ \/ Known(t) /\ Saw(t, confirmations[task[t].id].seen) /\ KeepLocks
       \/ ~Known(t) /\ Answer(t)
    /\ Same /\ UNCHANGED store /\ UNCHANGED memory /\ UNCHANGED history

\* mutant: only the state is compared, not whether the review is open again
Fresh_StateOnly(t) == sessionOf[task[t].of] = task[t].seen

\* the source is still what was confirmed, and still not under review here
Fresh(t) == Offered(task[t].op, task[t].of) /\ sessionOf[task[t].of] = task[t].seen

Verify(t) ==
    /\ At(t, "verify")
    /\ \/ Fresh(t) /\ Advance(t) /\ KeepLocks
       \/ ~Fresh(t) /\ Answer(t)
    /\ Same /\ UNCHANGED store /\ UNCHANGED memory /\ UNCHANGED history

\* the begin itself: the target is new, and the Refs of the source are
\* preconditions of its transaction
Begins(t) ==
    /\ sessionOf[task[t].to] = "absent"
    /\ task[t].of # None => sessionOf[task[t].of] = task[t].seen

\* the session is published: its review is open here, or its outcome is unknown
Published(t, reviews, answer) ==
    /\ Begins(t)
    /\ sessionOf' = [sessionOf EXCEPT ![task[t].to] = "proposed"]
    /\ \E h \in reviews : handle' = [handle EXCEPT ![task[t].to] = h]
    /\ used' = Append(used, [op |-> task[t].op, id |-> task[t].id, answer |-> answer])
    /\ reused' = IF task[t].op = "reuse" THEN reused \union {task[t].of} ELSE reused

\* a begin that succeeds goes on to remove its confirmation; one that
\* published and then could not settle its review, or could not read the
\* project again, answers with an error and leaves the confirmation in place
begin_creator_session_locked(t) ==
    /\ At(t, "begin")
    /\ \/ /\ Published(t, {"ready"}, "success")
          /\ \/ task[t].op = "begin_staged" /\ Answer(t)
             \/ task[t].op # "begin_staged" /\ Advance(t) /\ KeepLocks
       \/ Published(t, {"ready", "unknown"}, "error") /\ Answer(t)
       \/ Answer(t) /\ UNCHANGED <<sessionOf, handle, used, reused>>
    /\ Same /\ UNCHANGED <<inbox, stock, foreign, instance, cancelled>> /\ UNCHANGED memory

RemoveConfirmation(t) ==
    /\ At(t, "remove")
    /\ confirmations' = Without(confirmations, {task[t].id})
    /\ Answer(t)
    /\ Same /\ UNCHANGED <<stages, last_fsck, nextId>> /\ UNCHANGED store /\ UNCHANGED history

-----------------------------------------------------------------------------
(* Decisions, as far as a confirmation can race one *)

\* a review is claimed when its heads are still the proposed ones
Claim(t) ==
    /\ At(t, "claim")
    /\ \/ /\ ready_pending(task[t].of)
          /\ handle' = [handle EXCEPT ![task[t].of] = "deciding"]
          /\ Advance(t) /\ KeepLocks
       \/ ~ready_pending(task[t].of) /\ Answer(t) /\ UNCHANGED handle
    /\ Same /\ UNCHANGED <<sessionOf, inbox, stock, foreign, instance>>
    /\ UNCHANGED memory /\ UNCHANGED history

\* the decision commits, is refused and can be tried again, or nobody knows
Decide(t) ==
    LET s == task[t].of
    IN  /\ At(t, "publish")
        /\ \/ /\ sessionOf[s] = "proposed"
              /\ \E d \in Decisions : sessionOf' = [sessionOf EXCEPT ![s] = d]
              /\ handle' = [handle EXCEPT ![s] = "none"]
           \/ sessionOf[s] = "proposed" /\ handle' = [handle EXCEPT ![s] = "ready"]
              /\ UNCHANGED sessionOf
           \/ handle' = [handle EXCEPT ![s] = "unknown"] /\ UNCHANGED sessionOf
        /\ Answer(t)
        /\ Same /\ UNCHANGED <<inbox, stock, foreign, instance>>
        /\ UNCHANGED memory /\ UNCHANGED history

-----------------------------------------------------------------------------
(* Staged inbox imports *)

inspect_inbox_manifest(t) ==
    /\ At(t, "inspect")
    /\ \/ Saw(t, inbox) /\ KeepLocks
       \/ Answer(t)
    /\ Same /\ UNCHANGED store /\ UNCHANGED memory /\ UNCHANGED history

\* any stage may have reached its time when the lock is taken and stages are purged
lock_stages(t) ==
    /\ At(t, "stages") /\ stagesLock = None
    /\ stagesLock' = t
    /\ \E expired \in SUBSET DOMAIN stages : stages' = Without(stages, expired)
    /\ Advance(t)
    /\ UNCHANGED writer /\ Same
    /\ UNCHANGED <<confirmations, last_fsck, nextId>> /\ UNCHANGED store /\ UNCHANGED history

\* three files that still hash to what the manifest said
copy_inbox_file(t) ==
    /\ At(t, "copy")
    /\ \/ /\ Cardinality(DOMAIN stages) < MAX_STAGED_IMPORTS /\ nextId <= MaxIds
          /\ inbox = task[t].seen
          /\ stages' = With(stages, nextId, inbox)
          /\ nextId' = nextId + 1
       \/ UNCHANGED <<stages, nextId>>
    /\ Answer(t)
    /\ Same /\ UNCHANGED <<confirmations, last_fsck>> /\ UNCHANGED store /\ UNCHANGED history

\* a begin takes the stage out of the registry, whose lock it keeps
TakeStage(t) ==
    /\ At(t, "take")
    /\ \/ /\ task[t].id \in DOMAIN stages
          /\ Saw(t, stages[task[t].id])
          /\ stages' = Without(stages, {task[t].id})
          /\ KeepLocks
       \/ task[t].id \notin DOMAIN stages /\ Answer(t) /\ UNCHANGED stages
    /\ Same /\ UNCHANGED <<confirmations, last_fsck, nextId>> /\ UNCHANGED store /\ UNCHANGED history

cancel_staged_import_inbox(t) ==
    /\ At(t, "drop")
    /\ cancelled' = IF task[t].id \in DOMAIN stages THEN cancelled \union {task[t].id} ELSE cancelled
    /\ stages' = Without(stages, {task[t].id})
    /\ Answer(t)
    /\ Same /\ UNCHANGED <<confirmations, last_fsck, nextId, reused, used>>
    /\ UNCHANGED store

-----------------------------------------------------------------------------
(* Maintenance *)

run_maintenance_fsck(t) ==
    /\ \/ At(t, "scan") /\ ((Saw(t, stock) /\ KeepLocks) \/ Answer(t)) /\ UNCHANGED last_fsck
       \/ At(t, "record") /\ last_fsck' = task[t].seen /\ Answer(t)
    /\ Same /\ UNCHANGED <<confirmations, stages, nextId>> /\ UNCHANGED store /\ UNCHANGED history

EmptyTarget == \A s \in CreatorSessions : sessionOf[s] = "absent"

validate_archive_restore_request(t) ==
    /\ At(t, "validate")
    /\ \/ EmptyTarget /\ Advance(t) /\ KeepLocks
       \/ ~EmptyTarget /\ Answer(t)
    /\ Same /\ UNCHANGED store /\ UNCHANGED memory /\ UNCHANGED history

\* the last result is forgotten, then objects are copied
ForgetFsck(t) ==
    /\ At(t, "forget")
    /\ last_fsck' = None
    /\ stock' = stock + 1
    /\ Advance(t) /\ KeepLocks
    /\ Same /\ UNCHANGED <<confirmations, stages, nextId, sessionOf, handle, inbox, foreign, instance>>
    /\ UNCHANGED history

\* the Refs last, if the target is still empty
run_archive_restore(t) ==
    /\ At(t, "restore")
    /\ \/ EmptyTarget /\ \E s \in CreatorSessions : sessionOf' = [sessionOf EXCEPT ![s] = "accepted"]
       \/ UNCHANGED sessionOf
    /\ Answer(t)
    /\ Same /\ UNCHANGED <<handle, inbox, stock, foreign, instance>>
    /\ UNCHANGED memory /\ UNCHANGED history

-----------------------------------------------------------------------------
(* Other processes *)

\* the command line runs a session of its own; its review is out of this
\* server's sight
OtherProcess ==
    /\ foreign < MaxForeign /\ foreign' = foreign + 1
    /\ \/ \E s \in CreatorSessions :
            \/ /\ sessionOf[s] = "absent"
               /\ sessionOf' = [sessionOf EXCEPT ![s] = "proposed"]
               /\ handle' = [handle EXCEPT ![s] = "elsewhere"]
            \/ /\ sessionOf[s] = "proposed" /\ handle[s] = "elsewhere"
               /\ \E d \in Decisions : sessionOf' = [sessionOf EXCEPT ![s] = d]
               /\ UNCHANGED handle
          /\ UNCHANGED inbox
       \/ "stage" \in menu /\ inbox' = inbox + 1 /\ UNCHANGED <<sessionOf, handle>>
    /\ UNCHANGED <<stock, instance, writer, stagesLock, task>>
    /\ Same /\ UNCHANGED memory /\ UNCHANGED history

\* a restart loses everything that was only in memory
Restart ==
    /\ instance < MaxRestarts /\ instance' = instance + 1
    /\ handle' = [s \in CreatorSessions |-> IF handle[s] = "elsewhere" THEN "elsewhere" ELSE "none"]
    /\ confirmations' = << >> /\ stages' = << >> /\ last_fsck' = None
    /\ writer' = None /\ stagesLock' = None
    /\ task' = [t \in Workers |-> Idle]
    /\ UNCHANGED <<sessionOf, inbox, stock, foreign, nextId>> /\ Same /\ UNCHANGED history

Step(t) ==
    \/ Request(t) \/ acquire_project_writer(t)
    \/ ReadSource(t) \/ Confirm(t) \/ Lookup(t) \/ Verify(t)
    \/ begin_creator_session_locked(t) \/ RemoveConfirmation(t)
    \/ Claim(t) \/ Decide(t)
    \/ inspect_inbox_manifest(t) \/ lock_stages(t) \/ copy_inbox_file(t) \/ TakeStage(t)
    \/ cancel_staged_import_inbox(t)
    \/ run_maintenance_fsck(t) \/ validate_archive_restore_request(t) \/ ForgetFsck(t)
    \/ run_archive_restore(t)

DeskNext == (\E t \in Workers : Step(t)) \/ OtherProcess \/ Restart

DeskSpec == DeskInit /\ [][DeskNext]_deskVars

-----------------------------------------------------------------------------
(* Properties *)

ReusedIsNeverDecidedStep ==
    \A s \in reused :
        sessionOf[s] = "proposed" /\ sessionOf'[s] \in Decisions => handle[s] = "elsewhere"

\* Once an undecided session was reused as the source of a new review, this
\* server never decides the old one: a confirmation given while the old review
\* was being decided is refused if that decision failed and the review is open
\* again (service.rs, begin_reuse_creator_session, ready_pending).
ReusedIsNeverDecided == [][ReusedIsNeverDecidedStep]_deskVars

\* no other session may start from the id of this begin
Final(begin) == begin.op = "begin_staged" \/ begin.answer = "success"

\* A staged import starts at most one session.  A confirmation starts no session
\* after one whose begin was answered with success, whatever requests race with
\* it; it starts a second one only when the begin of the first was answered
\* with an error after it had published, as it is then still in the registry
\* (service.rs, begin_derived_creator_session, begin_reuse_creator_session,
\* begin_staged_import_inbox).
UsedOnce ==
    \A m, n \in DOMAIN used : m < n /\ used[m].id = used[n].id => ~Final(used[m])

\* When a cancellation has been answered with success, no session was and
\* none will be started from that staged import (service.rs,
\* cancel_staged_import_inbox).
CancelledIsNotBegun == \A n \in DOMAIN used : used[n].id \notin cancelled

\* The integrity result that a status page shows is about the objects there
\* are now: none from before a restore began is kept or recorded (service.rs,
\* run_maintenance_fsck, run_archive_restore).
FsckIsCurrent == last_fsck # None => last_fsck = stock

Waiting(t) ==
    (At(t, "writer") /\ writer # None) \/ (At(t, "stages") /\ stagesLock # None)

\* A begin waits for the project's writer lock with the lock of the staged
\* imports in its hand, and so never the other way round: of the calls that
\* hold a lock one can go on (service.rs, begin_staged_import_inbox).
NoStandstill ==
    LET holders == {writer, stagesLock} \ {None}
    IN  holders # {} => \E t \in holders : ~Waiting(t)

\* What the service has answered stays true, whatever requests race: a
\* confirmation starts no session after one whose begin was answered with
\* success (after an error a begin may already have published, and the
\* confirmation can be used again); a staged import starts at most one session,
\* and none after its cancellation was confirmed; the integrity result on the
\* status page is about the objects there are now, none from before a restore;
\* and of the calls that hold a lock one can go on, as the lock of the staged
\* imports is always taken before the project's writer lock (service.rs,
\* begin_derived_creator_session, begin_staged_import_inbox,
\* cancel_staged_import_inbox, run_maintenance_fsck).
AnswersStayTrue == UsedOnce /\ CancelledIsNotBegun /\ FsckIsCurrent /\ NoStandstill
=============================================================================
