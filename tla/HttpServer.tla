----------------------------- MODULE HttpServer -----------------------------
(***************************************************************************)
(* The local HTTP server (synapse-local-http): the gates in front of the    *)
(* blocking service calls (state.rs, BlockingGates), uploads and their      *)
(* staging directories (staging.rs), and the registry of maintenance        *)
(* operations (state.rs, OperationRegistry).                                *)
(*                                                                         *)
(* A request is a handler future.  When its client goes away the future is  *)
(* dropped at the await it stands at, with everything it owns; a blocking   *)
(* closure that has started, and the spawned worker of an operation, live   *)
(* on.  What a service call does is modelled elsewhere (LocalService,       *)
(* CreatorReports); here it only takes time.  Semaphores are FIFO.          *)
(***************************************************************************)
EXTENDS Naturals, Sequences, FiniteSets

CONSTANTS Requests, KindOf,      \* "call", "upload" or "operation"
          ProjectGate,           \* the project, or "overall" for a call without one
          Crowds,                \* the requests that come together
          MaxUploads, MaxBlocking, MaxPerProject,
          Files, Texts,          \* the multipart fields of an upload, all required
          MaxFile, MaxAggregate, MaxChunk,
          MaxActive, MaxEntries, MaxClock, NoTime, Nobody

VARIABLES requestAt,             \* where each request is
          queue, held,           \* waiters and holders of each gate
          connected,
          staged,                \* per request: its directory, the fields read, bytes written
          field,                 \* the file field being written: its name and bytes
          entries, order, last,  \* the operation registry
          outcome                \* what an operation's work returned

ASSUME HttpAssumption ==
    /\ IsFiniteSet(Requests)
    /\ KindOf \in [Requests -> {"call", "upload", "operation"}]
    /\ \A r \in Requests : ProjectGate[r] # "uploads"
    /\ MaxUploads \in Nat /\ MaxBlocking \in Nat /\ MaxPerProject \in Nat
    /\ MaxFile \in Nat /\ MaxAggregate \in Nat /\ MaxChunk \in Nat /\ MaxClock \in Nat
    /\ NoTime \notin Nat

httpVars == <<requestAt, queue, held, connected, staged, field, entries, order, last, outcome>>

Gates == {"uploads", "overall"} \union {ProjectGate[r] : r \in Requests}
Limit(g) == CASE g = "uploads" -> MaxUploads [] g = "overall" -> MaxBlocking
              [] OTHER -> MaxPerProject

NoDirectory == [live |-> FALSE, fields |-> {}, bytes |-> 0]

HttpInit ==
    /\ \E crowd \in Crowds : requestAt = [r \in Requests |-> IF r \in crowd THEN "new" ELSE "away"]
    /\ queue = [g \in Gates |-> << >>]
    /\ held = [g \in Gates |-> {}]
    /\ connected = Requests
    /\ staged = [r \in Requests |-> NoDirectory]
    /\ field = [r \in Requests |-> [file |-> Nobody, bytes |-> 0]]
    /\ entries = << >>
    /\ order = << >>
    /\ last = NoTime
    /\ outcome = [r \in Requests |-> "none"]

Move(r, to) == requestAt' = [requestAt EXCEPT ![r] = to]
Registry == <<entries, order, last, outcome>>

-----------------------------------------------------------------------------
(* The gates *)

\* the gates in front of the work, in the order in which they are taken: the
\* project's first
acquire(r) == IF ProjectGate[r] = "overall" THEN <<"overall">>
              ELSE <<ProjectGate[r], "overall">>

Enqueue(r, g, q) == [q EXCEPT ![g] = Append(@, r)]
Place(r, s) == CHOOSE i \in 1 .. Len(s) : s[i] = r
Cut(s, i) == [j \in 1 .. Len(s) - 1 |-> IF j < i THEN s[j] ELSE s[j + 1]]
Waits(r, s) == \E i \in 1 .. Len(s) : s[i] = r
Dequeue(r, q) == [g \in Gates |-> IF Waits(r, q[g]) THEN Cut(q[g], Place(r, q[g])) ELSE q[g]]
FirstGate(r) == acquire(r)[1]

Granted(r, g) ==
    queue[g] # << >> /\ Head(queue[g]) = r /\ Cardinality(held[g]) < Limit(g)

\* the first of two gates: on to the second
PassGate(r) ==
    /\ requestAt[r] = "gate" /\ Len(acquire(r)) = 2
    /\ LET g == acquire(r)[1]
       IN  /\ Granted(r, g)
           /\ held' = [held EXCEPT ![g] = @ \union {r}]
           /\ queue' = Enqueue(r, acquire(r)[2], Dequeue(r, queue))
    /\ UNCHANGED <<requestAt, connected, staged, field>> /\ UNCHANGED Registry

mark_running(r) ==
    entries' = IF r \in DOMAIN entries /\ entries[r].state = "queued"
               THEN [entries EXCEPT ![r].state = "running"] ELSE entries

\* the last gate: the closure that holds the permits is dispatched
run_blocking_after_acquire(r) ==
    /\ requestAt[r] = "gate"
    /\ LET g == acquire(r)[Len(acquire(r))]
       IN  /\ Granted(r, g)
           /\ held' = [held EXCEPT ![g] = @ \union {r}]
           /\ queue' = Dequeue(r, queue)
    /\ Move(r, "run")
    /\ mark_running(r)
    /\ UNCHANGED <<connected, staged, field, order, last, outcome>>

\* the closure ends; its permits and staging directory are dropped with it
EndWork(r) ==
    /\ requestAt[r] = "run"
    /\ held' = [g \in Gates |-> held[g] \ {r}]
    /\ staged' = [staged EXCEPT ![r] = NoDirectory]
    /\ \/ KindOf[r] # "operation" /\ Move(r, "end") /\ UNCHANGED outcome
       \/ /\ KindOf[r] = "operation" /\ Move(r, "record")
          /\ \E o \in {"succeeded", "failed", "outcome_unknown"} :
               outcome' = [outcome EXCEPT ![r] = o]
    /\ UNCHANGED <<queue, connected, field, entries, order, last>>

-----------------------------------------------------------------------------
(* Calls and uploads *)

Refuse(r) ==
    /\ requestAt[r] = "new"
    /\ Move(r, "end")
    /\ UNCHANGED <<queue, held, connected, staged, field>> /\ UNCHANGED Registry

\* a read, a reuse or a decision: its body parsed, it waits for the gates
api_blocking(r) ==
    /\ requestAt[r] = "new" /\ KindOf[r] = "call"
    /\ Move(r, "gate")
    /\ queue' = Enqueue(r, FirstGate(r), queue)
    /\ UNCHANGED <<held, connected, staged, field>> /\ UNCHANGED Registry

api_begin_creator_session(r) ==
    /\ requestAt[r] = "new" /\ KindOf[r] = "upload"
    /\ Move(r, "uploads")
    /\ queue' = Enqueue(r, "uploads", queue)
    /\ UNCHANGED <<held, connected, staged, field>> /\ UNCHANGED Registry

AcquireUpload(r) ==
    /\ requestAt[r] = "uploads" /\ Granted(r, "uploads")
    /\ held' = [held EXCEPT !["uploads"] = @ \union {r}]
    /\ queue' = Dequeue(r, queue)
    /\ Move(r, "create")
    /\ UNCHANGED <<connected, staged, field>> /\ UNCHANGED Registry

\* an upload fails: its permit and its directory go
DropUpload(r) ==
    /\ Move(r, "end")
    /\ held' = [g \in Gates |-> held[g] \ {r}]
    /\ staged' = [staged EXCEPT ![r] = NoDirectory]
    /\ field' = [field EXCEPT ![r] = [file |-> Nobody, bytes |-> 0]]
    /\ UNCHANGED <<queue, connected>> /\ UNCHANGED Registry

create(r) ==
    /\ requestAt[r] = "create"
    /\ \/ /\ Move(r, "parts")
          /\ staged' = [staged EXCEPT ![r] = [live |-> TRUE, fields |-> {}, bytes |-> 0]]
          /\ UNCHANGED <<queue, held, connected, field>> /\ UNCHANGED Registry
       \/ DropUpload(r)

\* the next multipart field: each known field once
read_text_part(r) ==
    /\ requestAt[r] = "parts"
    /\ \/ \E f \in Texts \ staged[r].fields :
            /\ staged' = [staged EXCEPT ![r].fields = @ \union {f}]
            /\ UNCHANGED <<requestAt, queue, held, connected, field>> /\ UNCHANGED Registry
       \/ DropUpload(r)

OpenPart(r) ==
    /\ requestAt[r] = "parts"
    /\ \E f \in Files \ staged[r].fields : field' = [field EXCEPT ![r] = [file |-> f, bytes |-> 0]]
    /\ Move(r, "open")
    /\ UNCHANGED <<queue, held, connected, staged>> /\ UNCHANGED Registry

Opened(r) ==
    /\ requestAt[r] = "open"
    /\ \/ /\ Move(r, "chunk")
          /\ UNCHANGED <<queue, held, connected, staged, field>> /\ UNCHANGED Registry
       \/ DropUpload(r)

\* the sizes that a chunk would make
Fits(r, n) == field[r].bytes + n <= MaxFile /\ staged[r].bytes + n <= MaxAggregate

write_file_part(r) ==
    /\ requestAt[r] = "chunk"
    /\ \E n \in 1 .. MaxChunk :
         \/ /\ Fits(r, n)
            /\ field' = [field EXCEPT ![r].bytes = @ + n]
            /\ staged' = [staged EXCEPT ![r].bytes = @ + n]
            /\ UNCHANGED <<requestAt, queue, held, connected>> /\ UNCHANGED Registry
         \/ ~Fits(r, n) /\ DropUpload(r)

EndPart(r) ==
    /\ requestAt[r] = "chunk"
    /\ staged' = [staged EXCEPT ![r].fields = @ \union {field[r].file}]
    /\ field' = [field EXCEPT ![r] = [file |-> Nobody, bytes |-> 0]]
    /\ Move(r, "parts")
    /\ UNCHANGED <<queue, held, connected>> /\ UNCHANGED Registry

\* the fields that must all have been read
Complete(r) == Files \union Texts \subseteq staged[r].fields

\* all fields read: the staged request waits for the gates
from_multipart(r) ==
    /\ requestAt[r] = "parts" /\ Complete(r)
    /\ Move(r, "gate")
    /\ queue' = Enqueue(r, FirstGate(r), queue)
    /\ UNCHANGED <<held, connected, staged, field>> /\ UNCHANGED Registry

-----------------------------------------------------------------------------
(* Disconnects *)

\* mutant: a dropped handler returns the permits of its work
Taken_Permits(r) == [gates |-> {ProjectGate[r], "overall"}, directory |-> FALSE]

\* what a dropped handler takes from a closure that is running: nothing
Taken(r) == [gates |-> {}, directory |-> FALSE]

\* the client goes away: the handler is dropped where it waits
DropHandler(r) ==
    /\ connected' = connected \ {r}
    /\ Move(r, "end")
    /\ queue' = Dequeue(r, queue)
    /\ held' = [g \in Gates |-> held[g] \ {r}]
    /\ staged' = [staged EXCEPT ![r] = NoDirectory]
    /\ field' = [field EXCEPT ![r] = [file |-> Nobody, bytes |-> 0]]
    /\ UNCHANGED Registry

DetachHandler(r) ==
    /\ connected' = connected \ {r}
    /\ held' = [g \in Gates |-> IF g \in Taken(r).gates THEN held[g] \ {r} ELSE held[g]]
    /\ staged' = [staged EXCEPT ![r] = IF Taken(r).directory THEN NoDirectory ELSE @]
    /\ UNCHANGED <<requestAt, queue, field>> /\ UNCHANGED Registry

Disconnect(r) ==
    /\ r \in connected /\ KindOf[r] # "operation"
    /\ \/ requestAt[r] \in {"uploads", "create", "parts", "open", "chunk", "gate"} /\ DropHandler(r)
       \/ requestAt[r] = "run" /\ DetachHandler(r)

-----------------------------------------------------------------------------
(* Maintenance operations *)

operation_is_terminal(state) == state \in {"succeeded", "failed", "outcome_unknown"}

\* the later of the clock and the last time handed out; a clock that cannot be
\* used repeats the last time, if there is one
monotonic_operation_timestamp(observed) ==
    IF last = NoTime THEN observed
    ELSE IF observed = NoTime THEN last
    ELSE IF observed > last THEN observed ELSE last

Full == Len(order) >= MaxEntries
\* mutant: the oldest operation goes, ended or not
Evictable_Oldest == IF order = << >> THEN {} ELSE {1}

\* the position of the oldest operation that has ended
Evictable ==
    LET ended == {i \in 1 .. Len(order) : operation_is_terminal(entries[order[i]].state)}
    IN  {i \in ended : \A j \in ended : i <= j}

Active == {r \in DOMAIN entries : ~operation_is_terminal(entries[r].state)}

\* a maintenance request: validated, then reserved and given to a worker
reserve_at(r) ==
    /\ requestAt[r] = "new" /\ KindOf[r] = "operation"
    /\ \E observed \in {NoTime} \union (0 .. MaxClock), i \in IF Full THEN Evictable ELSE {0} :
         LET at == monotonic_operation_timestamp(observed)
             kept == IF i = 0 THEN DOMAIN entries ELSE DOMAIN entries \ {order[i]}
         IN  /\ Cardinality(Active) < MaxActive
             /\ at # NoTime
             /\ last' = at
             /\ order' = Append(IF i = 0 THEN order ELSE Cut(order, i), r)
             /\ entries' = [x \in kept \union {r} |->
                              IF x = r THEN [state |-> "queued", submitted |-> at, completed |-> NoTime]
                              ELSE entries[x]]
    /\ Move(r, "gate")
    /\ queue' = Enqueue(r, FirstGate(r), queue)
    /\ UNCHANGED <<held, connected, staged, field, outcome>>

\* the worker records how its closure ended
finish_at(r) ==
    /\ requestAt[r] = "record"
    /\ Move(r, "end")
    /\ \/ /\ r \in Active
          /\ \E observed \in {NoTime} \union (0 .. MaxClock) :
               LET at == monotonic_operation_timestamp(observed)
               IN  /\ last' = at
                   /\ entries' = [entries EXCEPT ![r].state = outcome[r], ![r].completed = at]
       \/ r \notin Active /\ UNCHANGED <<last, entries>>
    /\ UNCHANGED <<queue, held, connected, staged, field, order, outcome>>

Calls(r) == Refuse(r) \/ api_blocking(r) \/ PassGate(r) \/ run_blocking_after_acquire(r)
            \/ EndWork(r) \/ Disconnect(r)
Uploads(r) == api_begin_creator_session(r) \/ AcquireUpload(r) \/ create(r) \/ read_text_part(r)
              \/ OpenPart(r) \/ Opened(r) \/ write_file_part(r) \/ EndPart(r) \/ from_multipart(r)

HttpNext == \E r \in Requests : Calls(r) \/ Uploads(r) \/ reserve_at(r) \/ finish_at(r)

HttpSpec == HttpInit /\ [][HttpNext]_httpVars

-----------------------------------------------------------------------------
(* Properties *)

Running(g) == {r \in Requests : requestAt[r] = "run" /\ (g = "overall" \/ ProjectGate[r] = g)}

\* No more closures run than the gates allow, in all and per project, however
\* many clients have gone away while theirs was running (state.rs,
\* BlockingPermit; handlers.rs, run_blocking_after_acquire).
WorkIsBounded == \A g \in Gates \ {"uploads"} : Cardinality(Running(g)) <= Limit(g)

\* "callers queued for one busy project cannot consume all global capacity
\* while they wait": whoever holds an overall permit is running, so a call for
\* an idle project waits for work and never for another call's waiting
\* (state.rs, acquire).
WaitersHoldNothing == held["overall"] \subseteq Running("overall")

\* A closure that publishes an upload has its staging directory, with every
\* required field in it, until it ends, even when its client went away
\* (staging.rs; handlers.rs, api_begin_creator_session).
StagingOutlivesWork ==
    \A r \in Requests : requestAt[r] = "run" /\ KindOf[r] = "upload" =>
        staged[r].live /\ staged[r].fields = Files \union Texts

\* The bytes in all staging directories together never exceed what the
\* uploads admitted at a time may stage, disconnects included: no more
\* directories hold bytes than uploads are admitted, and none more than one
\* upload may stage (staging.rs, write_file_part; handlers.rs, the uploads
\* semaphore).
StagedBytesBounded ==
    /\ Cardinality({r \in Requests : staged[r].bytes > 0}) <= MaxUploads
    /\ \A r \in Requests : staged[r].bytes <= MaxAggregate

\* The limits of the HTTP server hold although clients go away while their
\* closures run: no more closures run than the gates allow, who waits for one
\* project holds no overall permit, a closure keeps its staging directory with
\* every required field until it ends, and the staged bytes stay within what the
\* uploads admitted at a time may stage (state.rs, acquire; handlers.rs,
\* run_blocking_after_acquire; staging.rs).
ServerLimitsHold ==
    WorkIsBounded /\ WaitersHoldNothing /\ StagingOutlivesWork /\ StagedBytesBounded

\* An operation that was accepted and has not ended is in the registry as
\* queued until it runs and as running until its outcome is recorded, whatever
\* was reserved after it (state.rs, reserve_at, mark_running).
AcceptedIsListed ==
    \A r \in Requests : KindOf[r] = "operation" =>
        /\ requestAt[r] = "gate" => r \in DOMAIN entries /\ entries[r].state = "queued"
        /\ requestAt[r] \in {"run", "record"} => r \in DOMAIN entries /\ entries[r].state = "running"

\* In the order of admission the submission times do not decrease, and no
\* operation is recorded as completed before it was submitted, though the
\* wall clock may be set back (app.rs, monotonic_operation_timestamp).
TimesNeverRetreat ==
    /\ \A i, j \in 1 .. Len(order) :
         i < j => entries[order[i]].submitted <= entries[order[j]].submitted
    /\ \A r \in DOMAIN entries :
         operation_is_terminal(entries[r].state) => entries[r].submitted <= entries[r].completed

\* An operation that was accepted and has not ended can be polled, as queued
\* until it runs and as running until its outcome is recorded, whatever was
\* reserved after it; submission times do not decrease in the order of admission
\* and nothing completes before it was submitted, though the wall clock may be
\* set back (state.rs, reserve_at; app.rs, monotonic_operation_timestamp).
AcceptedIsPollable == AcceptedIsListed /\ TimesNeverRetreat
=============================================================================
