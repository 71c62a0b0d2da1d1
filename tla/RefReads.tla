------------------------------ MODULE RefReads ------------------------------
(***************************************************************************)
(* Reading the Ref database of synapse-sqlite while others write it:       *)
(*  - open_existing_read_only copies the database file and must never keep *)
(*    a copy that mixes two committed states.  The database is in WAL      *)
(*    mode: commits go to a sidecar file, and a checkpoint moves pages to  *)
(*    the main file one by one before the last writer removes the sidecars *)
(*  - read_reflog_page reads the reflog in bounded pages, each in a read   *)
(*    transaction of its own, while events are appended.                   *)
(***************************************************************************)
EXTENDS Integers, Sequences, FiniteSets, FiniteSetsExt

CONSTANTS
    Pages,       \* database pages that every commit changes
    Names,       \* Refs
    PageLimit,   \* read_reflog_page's limit
    MaxVersions, \* commits (bound)
    MaxEvents    \* reflog events (bound)

ASSUME RefReadsAssumption == Pages \subseteq Int /\ PageLimit \in Nat \ {0}

VARIABLES
    main,      \* the main file: the version each page is from
    sidecars,  \* the -wal and -shm files exist
    version,   \* the last committed version
    open,      \* where open_existing_read_only stands
    copy, digest,  \* pages copied, and pages hashed afterwards
    floor,     \* the version committed when the open began (history)
    events,    \* the reflog: the Ref of each event; its index is its id
    page,      \* the read: its filter, cursor, and the transaction's snapshot
    collected, repeated  \* ids returned so far, and those returned twice (history)

readVars == <<main, sidecars, version, open, copy, digest, floor, events, page, collected,
              repeated>>

fileVars == <<main, sidecars, version, open, copy, digest, floor>>

pageVars == <<events, page, collected, repeated>>

NoPages == [p \in {} |-> 0]

ReadInit ==
    /\ main = [p \in Pages |-> 0] /\ sidecars = FALSE /\ version = 0
    /\ open = "idle" /\ copy = NoPages /\ digest = NoPages /\ floor = 0
    /\ events = <<>>
    /\ page \in [filter : {{n} : n \in Names} \cup {Names}, after : {0}, view : {0},
                 state : {"idle"}]
    /\ collected = {} /\ repeated = {}

-----------------------------------------------------------------------------
(* Writers of the database file *)

OpenWriter ==
    /\ ~sidecars
    /\ sidecars' = TRUE
    /\ UNCHANGED <<main, version, open, copy, digest, floor, pageVars>>

CommitVersion ==
    /\ sidecars /\ version < MaxVersions
    /\ version' = version + 1
    /\ UNCHANGED <<main, sidecars, open, copy, digest, floor, pageVars>>

CheckpointPage(p) ==
    /\ sidecars /\ main[p] # version
    /\ main' = [main EXCEPT ![p] = version]
    /\ UNCHANGED <<sidecars, version, open, copy, digest, floor, pageVars>>

\* the last connection checkpoints and removes the sidecars
CloseWriter ==
    /\ sidecars /\ \A p \in Pages : main[p] = version
    /\ sidecars' = FALSE
    /\ UNCHANGED <<main, version, open, copy, digest, floor, pageVars>>

-----------------------------------------------------------------------------
(* open_existing_read_only, capture_read_snapshot *)

\* reject_read_only_sidecars
Check(from, to) ==
    /\ open = from
    /\ open' = IF sidecars THEN "busy" ELSE to
    /\ UNCHANGED <<main, sidecars, version, copy, digest, pageVars>>

open_existing_read_only == Check("idle", "copy") /\ floor' = version

copy_database_with_digest(p) ==
    /\ open = "copy" /\ p \notin DOMAIN copy
    /\ \A q \in Pages : q < p => q \in DOMAIN copy
    /\ copy' = [q \in DOMAIN copy \cup {p} |-> IF q = p THEN main[p] ELSE copy[q]]
    /\ UNCHANGED <<main, sidecars, version, open, digest, floor, pageVars>>

\* mutant: no look at the sidecars between the copy and the second digest
CheckAfterCopy_Skipped ==
    /\ open = "copy" /\ DOMAIN copy = Pages
    /\ open' = "digest"
    /\ UNCHANGED <<main, sidecars, version, copy, digest, floor, pageVars>>

CheckAfterCopy == DOMAIN copy = Pages /\ Check("copy", "digest") /\ UNCHANGED floor

digest_database(p) ==
    /\ open = "digest" /\ p \notin DOMAIN digest
    /\ \A q \in Pages : q < p => q \in DOMAIN digest
    /\ digest' = [q \in DOMAIN digest \cup {p} |-> IF q = p THEN main[p] ELSE digest[q]]
    /\ UNCHANGED <<main, sidecars, version, open, copy, floor, pageVars>>

CheckAfterDigest == DOMAIN digest = Pages /\ Check("digest", "compare") /\ UNCHANGED floor

CompareDigests ==
    /\ open = "compare"
    /\ open' = IF copy = digest THEN "last_check" ELSE "changed"
    /\ UNCHANGED <<main, sidecars, version, copy, digest, floor, pageVars>>

LastCheck == Check("last_check", "open") /\ UNCHANGED floor

\* ReadSnapshotFile::drop, and the next attempt
Retry ==
    /\ open \in {"busy", "changed"}
    /\ open' = "idle" /\ copy' = NoPages /\ digest' = NoPages
    /\ UNCHANGED <<main, sidecars, version, floor, pageVars>>

-----------------------------------------------------------------------------
(* read_reflog_page_with_hook *)

AppendEvent(n) ==
    /\ Len(events) < MaxEvents
    /\ events' = Append(events, n)
    /\ UNCHANGED <<page, collected, repeated, fileVars>>

\* the transaction's view is fixed when it loads the snapshot of the Refs
load_snapshot ==
    /\ page.state = "idle"
    /\ page' = [page EXCEPT !.state = "reading", !.view = Len(events)]
    /\ UNCHANGED <<events, collected, repeated, fileVars>>

\* load_reflog_page over the first view events: the limit + 1 smallest ids
Matching(view) == {i \in 1..view : i > page.after /\ events[i] \in page.filter}

Rank(S, i) == Cardinality({j \in S : j <= i})

Limited(S) == {i \in S : Rank(S, i) <= PageLimit + 1}

Rows(view) == Limited(Matching(view))

\* next_after_event_id: the last row kept; the extra row only tells that
\* there is one
Cursor(rows) == Max(rows \ {Max(rows)})

load_reflog_page ==
    LET rows == Rows(page.view)
        more == Cardinality(rows) > PageLimit
        entries == IF more THEN rows \ {Max(rows)} ELSE rows
    IN /\ page.state = "reading"
       /\ collected' = collected \cup entries
       /\ repeated' = repeated \cup (collected \cap entries)
       /\ page' = IF more THEN [page EXCEPT !.after = Cursor(rows), !.state = "idle"]
                  ELSE [page EXCEPT !.state = "end"]
       /\ UNCHANGED <<events, fileVars>>

-----------------------------------------------------------------------------

FileNext ==
    \/ OpenWriter \/ CommitVersion \/ CloseWriter
    \/ \E p \in Pages : CheckpointPage(p) \/ copy_database_with_digest(p) \/ digest_database(p)
    \/ open_existing_read_only \/ CheckAfterCopy \/ CheckAfterDigest \/ CompareDigests
    \/ LastCheck \/ Retry

PageNext == load_snapshot \/ load_reflog_page \/ \E n \in Names : AppendEvent(n)

ReadSpec == ReadInit /\ [][FileNext \/ PageNext]_readVars

-----------------------------------------------------------------------------
(* Properties *)

\* A private copy that is opened is one committed state of the database, not a
\* mixture, and not one from before the open began, although checkpoints write
\* the source page by page while it is copied and hashed.
SnapshotIsOneCommit ==
    open = "open" =>
        /\ \A p, q \in Pages : copy[p] = copy[q]
        /\ \A p \in Pages : copy[p] >= floor

\* The pages of a reflog, read one after the other while events are appended,
\* join without gap and without overlap, and the last page ends exactly where
\* the snapshot of the Refs that came with it does.
PagesJoin ==
    LET upto(n) == {i \in 1..Len(events) : i <= n /\ events[i] \in page.filter}
    IN /\ page.state # "end" => collected = upto(page.after)
       /\ page.state = "end" => collected = upto(page.view)
       /\ repeated = {}

\* Readers of Refs see one history: what open_existing_read_only opens is one
\* commit, and the pages of read_reflog_page are one reflog.
ReadsAreConsistent == SnapshotIsOneCommit /\ PagesJoin
=============================================================================
