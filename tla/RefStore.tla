------------------------------ MODULE RefStore ------------------------------
(***************************************************************************)
(* The SQLite Ref store of synapse-sqlite: a table of mutable Refs and the *)
(* reflog that records every transition of them.  Each client is one       *)
(* SqliteRefStore connection, in this process or another.  A call          *)
(* validates its target before it asks for the write lock, so the store    *)
(* may change under it; what the transaction writes is invisible until it  *)
(* commits and is lost when the call fails or the process dies.            *)
(***************************************************************************)
EXTENDS Integers, Sequences, FiniteSets, Functions

CONSTANTS
    Refs,          \* Ref names that pass validate_ref_name
    Commits,       \* commit OIDs that pass validate_commit_oid
    Clients,       \* open writable connections
    NoHead,        \* the absent head (Option::None)
    NoClient,      \* no connection holds the write lock
    MaxEventId,    \* the largest rowid AUTOINCREMENT can assign (i64::MAX)
    Preconditions, \* the precondition lists callers pass, as sets
    Archives       \* the Ref archives callers try to restore

Heads == Commits \cup {NoHead}

\* updated_event_id of a Ref that does not exist
NoRef == [head |-> NoHead, event |-> 0]

RefRecord == [head : Heads, event : Nat]

ReflogEntry == [id : Nat, ref : Refs, old : Heads, new : Commits]

RefPrecondition == [ref : Refs, head : Heads]

RefUpdate == [ref : Refs, expected : Heads, new : Commits,
              pre : SUBSET RefPrecondition]

RefArchive == [refs : [Refs -> RefRecord], reflog : Seq(ReflogEntry)]

ASSUME RefStoreAssumption ==
    /\ NoHead \notin Commits
    /\ NoClient \notin Clients
    /\ MaxEventId \in Nat
    /\ Preconditions \subseteq SUBSET RefPrecondition
    /\ \A a \in Archives : a \in RefArchive

VARIABLES
    refs,      \* the committed refs table
    reflog,    \* the committed ref_events table, by ascending id
    accepted,  \* heads the RefTargetValidator has accepted (history)
    writer,    \* the connection inside BEGIN IMMEDIATE
    pc,        \* where each connection's current call stands
    req,       \* its RefUpdate, or the tables a restore has prepared
    tx         \* the tables as the open write transaction sees them

vars == <<refs, reflog, accepted, writer, pc, req, tx>>

Tables == [refs : [Refs -> RefRecord], reflog : Seq(ReflogEntry)]

EmptyTables == [refs |-> [r \in Refs |-> NoRef], reflog |-> <<>>]

-----------------------------------------------------------------------------
(* The shape of a reflog *)

\* k is the newest of the first n events of Ref r
IsLatest(log, n, r, k) ==
    /\ k \in 1..n
    /\ log[k].ref = r
    /\ \A j \in (k + 1)..n : log[j].ref # r

\* r has no event among the first n
Untouched(log, n, r) == \A j \in 1..n : log[j].ref # r

IdsIncrease(log) ==
    /\ \A i \in 1..Len(log) : log[i].id > 0
    /\ \A i, j \in 1..Len(log) : i < j => log[i].id < log[j].id

\* every event starts from the head its predecessor left
ChainsLinked(log) ==
    \A i \in 1..Len(log) :
        \/ log[i].old = NoHead /\ Untouched(log, i - 1, log[i].ref)
        \/ \E k \in 1..(i - 1) : /\ IsLatest(log, i - 1, log[i].ref, k)
                                 /\ log[i].old = log[k].new

\* the refs table is where replaying the log ends
RefsReplay(rs, log) ==
    \A r \in Refs :
        \/ rs[r] = NoRef /\ Untouched(log, Len(log), r)
        \/ \E k \in 1..Len(log) :
              /\ IsLatest(log, Len(log), r, k)
              /\ rs[r] = [head |-> log[k].new, event |-> log[k].id]

WellFormed(t) ==
    /\ IdsIncrease(t.reflog)
    /\ ChainsLinked(t.reflog)
    /\ RefsReplay(t.refs, t.reflog)

\* the orders a sequence can be sorted into
Orders(s) ==
    {[i \in 1..Len(s) |-> s[p[i]]] : p \in Bijection(1..Len(s), 1..Len(s))}

\* mutant: the chains are checked, the snapshot is taken on trust
prepare_archive_NoReplay(a) ==
    {t \in {[refs |-> a.refs, reflog |-> log] : log \in Orders(a.reflog)} :
        IdsIncrease(t.reflog) /\ ChainsLinked(t.reflog)}

\* prepare_archive: sort by id, reject duplicate ids, broken chains and a
\* snapshot the chains do not end at; at most one order passes
prepare_archive(a) ==
    {t \in {[refs |-> a.refs, reflog |-> log] : log \in Orders(a.reflog)} :
        WellFormed(t)}

\* mutants: only the heads the Refs end at; the absent old heads as well
ArchiveHeads_Final(a) == {a.refs[r].head : r \in Refs} \ {NoHead}

\* the distinct heads prepare_archive collects for the validator
ArchiveHeads(a) == {a.reflog[i].new : i \in 1..Len(a.reflog)}

-----------------------------------------------------------------------------
(* Calls *)

Init ==
    /\ refs = EmptyTables.refs
    /\ reflog = EmptyTables.reflog
    /\ accepted = {}
    /\ writer = NoClient
    /\ pc = [c \in Clients |-> "idle"]
    /\ req = [c \in Clients |-> EmptyTables]
    /\ tx = EmptyTables

\* A caller asks for an update; lexical checks have passed.
StartUpdate(c, u) ==
    /\ pc[c] = "idle"
    /\ pc' = [pc EXCEPT ![c] = "validate"]
    /\ req' = [req EXCEPT ![c] = u]
    /\ UNCHANGED <<refs, reflog, accepted, writer, tx>>

\* A caller asks for a restore and prepare_archive accepts the archive.
StartRestore(c, a) ==
    /\ pc[c] = "idle"
    /\ \E t \in prepare_archive(a) : req' = [req EXCEPT ![c] = t]
    /\ pc' = [pc EXCEPT ![c] = "validate_archive"]
    /\ UNCHANGED <<refs, reflog, accepted, writer, tx>>

\* validate_new_head, outside any transaction, over the one new head or
\* over every archived head
Validate(c) ==
    /\ \/ /\ pc[c] = "validate"
          /\ accepted' = accepted \cup {req[c].new}
          /\ pc' = [pc EXCEPT ![c] = "begin"]
       \/ /\ pc[c] = "validate_archive"
          /\ accepted' = accepted \cup ArchiveHeads(req[c])
          /\ pc' = [pc EXCEPT ![c] = "begin_restore"]
    /\ UNCHANGED <<refs, reflog, writer, req, tx>>

Rejected(c) ==
    /\ pc[c] \in {"validate", "validate_archive"}
    /\ pc' = [pc EXCEPT ![c] = "idle"]
    /\ req' = [req EXCEPT ![c] = EmptyTables]
    /\ UNCHANGED <<refs, reflog, accepted, writer, tx>>

\* BEGIN IMMEDIATE: one writer at a time, and the transaction sees the
\* tables as they are now
BeginImmediate(c) ==
    /\ writer = NoClient
    /\ writer' = c
    /\ tx' = [refs |-> refs, reflog |-> reflog]
    /\ \/ pc[c] = "begin" /\ pc' = [pc EXCEPT ![c] = "guard"]
       \/ pc[c] = "begin_restore" /\ pc' = [pc EXCEPT ![c] = "load"]
    /\ UNCHANGED <<refs, reflog, accepted, req>>

\* mutant: only a restore gives up waiting
BusyTimeout_RestoreOnly(c) ==
    /\ pc[c] = "begin_restore"
    /\ writer # NoClient
    /\ pc' = [pc EXCEPT ![c] = "idle"]
    /\ req' = [req EXCEPT ![c] = EmptyTables]
    /\ UNCHANGED <<refs, reflog, accepted, writer, tx>>

\* the 10 s busy timeout runs out while another connection writes
BusyTimeout(c) ==
    /\ pc[c] \in {"begin", "begin_restore"}
    /\ writer # NoClient
    /\ pc' = [pc EXCEPT ![c] = "idle"]
    /\ req' = [req EXCEPT ![c] = EmptyTables]
    /\ UNCHANGED <<refs, reflog, accepted, writer, tx>>

\* dropping the transaction: the call fails or its process dies
Rollback(c) ==
    /\ pc' = [pc EXCEPT ![c] = "idle"]
    /\ writer' = IF writer = c THEN NoClient ELSE writer
    /\ tx' = IF writer = c THEN EmptyTables ELSE tx
    /\ req' = [req EXCEPT ![c] = EmptyTables]
    /\ UNCHANGED <<refs, reflog, accepted>>

GuardPasses(c) ==
    /\ pc[c] = "guard"
    /\ pc' = [pc EXCEPT ![c] = "compare"]
    /\ UNCHANGED <<refs, reflog, accepted, writer, req, tx>>

GuardFails(c) == pc[c] = "guard" /\ Rollback(c)

\* mutant: ids count the rows, as without AUTOINCREMENT's high-water mark
NextEventId_Count(log) == Len(log) + 1

NextEventId(log) == IF log = <<>> THEN 1 ELSE log[Len(log)].id + 1

PreconditionsHold(u) == \A p \in u.pre : tx.refs[p.ref].head = p.head

\* mutant: an absent expected head means "do not care"
TargetMatches_Upsert(u) == u.expected \in {NoHead, tx.refs[u.ref].head}

TargetMatches(u) == tx.refs[u.ref].head = u.expected

\* PreconditionFailed, RefConflict, or SQLITE_FULL when no rowid is left
CompareFails(c) ==
    /\ pc[c] = "compare"
    /\ \/ ~PreconditionsHold(req[c])
       \/ ~TargetMatches(req[c])
       \/ NextEventId(tx.reflog) > MaxEventId
    /\ Rollback(c)

\* INSERT INTO ref_events and UPDATE or INSERT refs, inside the transaction
CompareAndWrite(c) ==
    /\ pc[c] = "compare"
    /\ PreconditionsHold(req[c])
    /\ TargetMatches(req[c])
    /\ NextEventId(tx.reflog) <= MaxEventId
    /\ LET u  == req[c]
           id == NextEventId(tx.reflog)
       IN tx' = [refs |-> [tx.refs EXCEPT ![u.ref] =
                              [head |-> u.new, event |-> id]],
                 reflog |-> Append(tx.reflog,
                              [id |-> id, ref |-> u.ref,
                               old |-> tx.refs[u.ref].head, new |-> u.new])]
    /\ pc' = [pc EXCEPT ![c] = "commit"]
    /\ UNCHANGED <<refs, reflog, accepted, writer, req>>

\* ArchiveNotEmpty
LoadFails(c) ==
    /\ pc[c] = "load"
    /\ tx # EmptyTables
    /\ Rollback(c)

\* every archived event with its id, then every Ref
LoadArchive(c) ==
    /\ pc[c] = "load"
    /\ tx = EmptyTables
    /\ tx' = [refs |-> req[c].refs, reflog |-> req[c].reflog]
    /\ pc' = [pc EXCEPT ![c] = "commit"]
    /\ UNCHANGED <<refs, reflog, accepted, writer, req>>

Commit(c) ==
    /\ pc[c] = "commit"
    /\ refs' = tx.refs
    /\ reflog' = tx.reflog
    /\ writer' = NoClient
    /\ tx' = EmptyTables
    /\ pc' = [pc EXCEPT ![c] = "idle"]
    /\ req' = [req EXCEPT ![c] = EmptyTables]
    /\ UNCHANGED accepted

\* The process dies; SQLite's lock dies with it and recovery drops the
\* uncommitted frames.
Crash(c) == pc[c] # "idle" /\ Rollback(c)

Call(c) ==
    \/ Validate(c) \/ Rejected(c) \/ BeginImmediate(c) \/ BusyTimeout(c)
    \/ GuardPasses(c) \/ GuardFails(c)
    \/ CompareFails(c) \/ CompareAndWrite(c)
    \/ LoadFails(c) \/ LoadArchive(c) \/ Commit(c)

Next ==
    \E c \in Clients :
        \/ \E r \in Refs, e \in Heads, n \in Commits, p \in Preconditions :
              StartUpdate(c, [ref |-> r, expected |-> e, new |-> n, pre |-> p])
        \/ \E a \in Archives : StartRestore(c, a)
        \/ Call(c)
        \/ Crash(c)

Spec == Init /\ [][Next]_vars

\* Every started call is a plain function call: it keeps running.
FairSpec == Spec /\ \A c \in Clients : WF_vars(Call(c))

-----------------------------------------------------------------------------
(* Properties *)

Calls == {"idle", "validate", "validate_archive", "begin", "begin_restore",
          "guard", "compare", "load", "commit"}

\* Every variable has the type the Rust structures give it.
TypeOK ==
    /\ refs \in [Refs -> RefRecord]
    /\ reflog \in Seq(ReflogEntry)
    /\ accepted \subseteq Commits
    /\ writer \in Clients \cup {NoClient}
    /\ pc \in [Clients -> Calls]
    /\ req \in [Clients -> RefUpdate \cup Tables]
    /\ tx \in Tables

\* The committed tables always agree: ids grow, each Ref's events form one
\* unbroken chain from its creation, and replaying the log gives exactly the
\* head and updated_event_id the refs table holds.  This is what
\* compare_and_swap and restore_archive must preserve between them whatever
\* connections interleave or die.
ReflogExplainsRefs == WellFormed([refs |-> refs, reflog |-> reflog])

\* No head reaches the refs table or the reflog, as a new or as an old head,
\* unless validate_new_head accepted it: neither a CAS nor a restore has a
\* path around the RefTargetValidator.
OnlyValidatedHeads ==
    /\ \A r \in Refs : refs[r].head \in accepted \cup {NoHead}
    /\ \A i \in 1..Len(reflog) : {reflog[i].old, reflog[i].new}
                                    \subseteq accepted \cup {NoHead}

\* An update becomes visible only in a state where its expected head and all
\* its preconditions hold: what the transaction compared is still true when
\* COMMIT publishes it, though the caller read the heads long before.
UpdateIsCompareAndSwap ==
    [][\A c \in Clients :
          (pc[c] = "commit" /\ reflog' # reflog /\ req[c] \in RefUpdate
              /\ writer = c)
          => /\ refs[req[c].ref].head = req[c].expected
             /\ \A p \in req[c].pre : refs[p.ref].head = p.head
             /\ refs' = [refs EXCEPT ![req[c].ref] =
                            [head |-> req[c].new,
                             event |-> reflog'[Len(reflog')].id]]]_vars

\* The reflog is append only: no step, failure or crash removes, rewrites or
\* reorders a committed event.
ReflogOnlyGrows ==
    [][\A i \in 1..Len(reflog) :
          i <= Len(reflog') /\ reflog'[i] = reflog[i]]_vars

H == INSTANCE RefHistory

\* Every behaviour of the connections is a behaviour of the abstract store:
\* the comparison, the event and the head a caller sees happen at one point,
\* COMMIT, and a call that fails or dies leaves no trace.
ImplementsRefHistory == H!Spec

\* A call always ends: the lock dies with its holder and a waiter either
\* gets the lock or times out.
CallsReturn == \A c \in Clients : pc[c] # "idle" ~> pc[c] = "idle"
=============================================================================
