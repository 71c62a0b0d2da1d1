---------------------------- MODULE ClosureWalk -----------------------------
(***************************************************************************)
(* verify_closure_with_tombstones of synapse-cas: the walk that decides    *)
(* whether everything a Commit needs is stored.  Iterative, depth first,   *)
(* with limits on depth, objects, edges and reference bytes, and with      *)
(* Tombstones standing in for objects whose absence is recorded.  It reads *)
(* the store one object at a time while the store changes; an integrity    *)
(* check reads through VerifiedObjectMemo.                                 *)
(***************************************************************************)
EXTENDS Closure

CONSTANTS
    MaxDepth, MaxObjects, MaxEdges, MaxReferenceBytes,
    MemoBudget   \* structured objects one memo keeps

VARIABLES
    file,       \* what each OID path holds
    tombstones, \* the Tombstone catalog: [target -> Tombstone OID]
    memo,       \* objects VerifiedObjectMemo has verified
    remembers,  \* reads go through the memo
    limits,     \* the objects and edges this walk may use
    stack, path, finished,              \* the walk
    nodes, edges, bytes, issues, truncated  \* its ClosureReport

walkVars == <<stack, path, finished, nodes, edges, bytes, issues, truncated>>

-----------------------------------------------------------------------------
\* ReferenceCollector: the references that fit, and what stopped it
ReferenceCollector(o, left) ==
    LET refs == References(o)
        Fits(n) == n <= left /\ CostOf(SubSeq(refs, 1, n)) + bytes <= MaxReferenceBytes
        n == CHOOSE m \in 0..Len(refs) :
                Fits(m) /\ (m = Len(refs) \/ ~Fits(m + 1))
    IN [kept |-> SubSeq(refs, 1, n),
        exceeded |-> CASE n = Len(refs) -> "no"
                       [] n = left      -> "edges"
                       [] OTHER         -> "reference_bytes"]

-----------------------------------------------------------------------------
(* Reading *)

\* still_stored compares lengths
Remembered(o) == remembers /\ o \in memo /\ file[o] \in {"intact", "flipped"}

\* get_verified, through the memo or from the store
Answer(o) ==
    CASE Remembered(o) \/ file[o] = "intact" -> "present"
      [] ~Remembered(o) /\ file[o] = "absent" -> "missing"
      [] OTHER -> "corrupt"

\* VerifiedObjectMemo::remember: a Blob always, other objects up to a budget
Remember(o) ==
    LET kept == IF Remembered(o) THEN memo ELSE memo \ {o}
        structured == {p \in kept : Kind[p] # "blob"}
    IN memo' = IF /\ remembers /\ ~Remembered(o) /\ file[o] = "intact"
                  /\ Kind[o] = "blob" \/ Cardinality(structured) < MemoBudget
               THEN kept \cup {o} ELSE kept

-----------------------------------------------------------------------------
(* The walk *)

Visit(o, d, r, w) == [enter |-> TRUE, oid |-> o, depth |-> d, role |-> r, wants |-> w]

Leave(o) == [enter |-> FALSE, oid |-> o, depth |-> 0, role |-> "none", wants |-> None]

\* a fresh ClosureReport; a root that is no Commit ends at once
BeginWalk(root, lim) ==
    /\ limits' = lim
    /\ stack' = IF Kind[root] = "commit" THEN <<Visit(root, 0, "root", None)>> ELSE <<>>
    /\ issues' = IF Kind[root] = "commit" THEN {} ELSE {[oid |-> root, kind |-> "type"]}
    /\ path' = <<>> /\ finished' = {}
    /\ nodes' = [o \in {} |-> ""] /\ edges' = 0 /\ bytes' = 0
    /\ truncated' = FALSE

top == Last(stack)

Report(k) == issues' = issues \cup {Issue(top.oid, k)}

\* record_constraint_issue: what is known of the Record against what this
\* reference wants of it
Mismatch(v) ==
    LET wants == v.wants
        Differs(f) == wants[f] # "any" /\ wants[f] # graph[v.oid][f]
    IN /\ v.oid \in DOMAIN nodes => nodes[v.oid] = "present"
       /\ Kind[v.oid] = "record"
       /\ \E f \in {"type", "entity", "activity"} : Differs(f)

CheckConstraint ==
    IF Mismatch(top) THEN Report("semantic") ELSE UNCHANGED issues

Exit ==
    /\ stack # <<>> /\ ~top.enter
    /\ stack' = Front(stack)
    /\ path' = Front(path)
    /\ finished' = finished \cup {top.oid}
    /\ UNCHANGED <<nodes, edges, bytes, issues, truncated, memo>>

Skip == /\ stack' = Front(stack)
        /\ UNCHANGED <<path, finished, nodes, edges, bytes, memo>>

Entering == stack # <<>> /\ top.enter

TooDeep ==
    /\ Entering /\ top.depth > MaxDepth
    /\ Report("depth") /\ truncated' = TRUE
    /\ Skip

\* Records may refer to each other in cycles, by any role but supersedes
OnPath ==
    /\ Entering /\ top.depth <= MaxDepth /\ top.oid \in Range(path)
    /\ IF top.role = "record" THEN CheckConstraint ELSE Report("cycle")
    /\ Skip /\ UNCHANGED truncated

\* every incoming reference has a constraint of its own
Seen ==
    /\ Entering /\ top.depth <= MaxDepth /\ top.oid \in finished
    /\ CheckConstraint
    /\ Skip /\ UNCHANGED truncated

Fresh == /\ Entering /\ top.depth <= MaxDepth
         /\ top.oid \notin Range(path) \cup finished

\* break 'walk
Stop == stack' = <<>>

TooMany ==
    /\ Fresh /\ Cardinality(DOMAIN nodes) >= limits.objects
    /\ Report("objects") /\ truncated' = TRUE
    /\ Stop
    /\ UNCHANGED <<path, finished, nodes, edges, bytes, memo>>

Node(state) == nodes' = [o \in DOMAIN nodes \cup {top.oid} |->
                            IF o = top.oid THEN state ELSE nodes[o]]

Enter == /\ Fresh /\ Cardinality(DOMAIN nodes) < limits.objects
         /\ path' = Append(path, top.oid)
         /\ UNCHANGED finished

\* a Tombstone stands in for the object, except for the root Commit
ReadMissing ==
    /\ Enter /\ Answer(top.oid) = "missing"
    /\ IF top.oid \in DOMAIN tombstones
       THEN /\ Node("tombstoned")
            /\ IF top.depth = 0 THEN Report("missing") ELSE UNCHANGED issues
       ELSE Node("missing") /\ Report("missing")
    /\ stack' = Append(Front(stack), Leave(top.oid))
    /\ Remember(top.oid)
    /\ UNCHANGED <<edges, bytes, truncated>>

ReadCorrupt ==
    /\ Enter /\ Answer(top.oid) = "corrupt"
    /\ Node("corrupt") /\ Report("corrupt")
    /\ stack' = Append(Front(stack), Leave(top.oid))
    /\ Remember(top.oid)
    /\ UNCHANGED <<edges, bytes, truncated>>

\* verified: charge and type its references, then visit them in order
ReadPresent ==
    LET found == ReferenceCollector(top.oid, limits.edges - edges)
        kept == found.kept
        IsWell(r) == r.target # BadText /\ Kind[r.target] = r.expected
        well == SelectSeq(kept, IsWell)
        visits == [i \in DOMAIN well |->
                      Visit(well[i].target, top.depth + 1, well[i].role, well[i].wants)]
        ill == {kept[i] : i \in {j \in DOMAIN kept : ~IsWell(kept[j])}}
    IN /\ Enter /\ Answer(top.oid) = "present"
       /\ Node("present")
       /\ edges' = edges + Len(kept)
       /\ bytes' = bytes + CostOf(kept)
       /\ issues' = issues
             \cup (IF Mismatch(top) THEN {Issue(top.oid, "semantic")} ELSE {})
             \cup (IF InvalidBody(top.oid) THEN {Issue(top.oid, "invalid_object")} ELSE {})
             \cup {IF r.target = BadText THEN Issue(top.oid, "invalid_reference")
                                         ELSE Issue(r.target, "type") : r \in ill}
             \cup (IF found.exceeded # "no" THEN {Issue(top.oid, found.exceeded)} ELSE {})
       /\ IF found.exceeded # "no"
          THEN Stop /\ truncated' = TRUE
          ELSE /\ stack' = Append(Front(stack), Leave(top.oid)) \o Reverse(visits)
               /\ UNCHANGED truncated
       /\ Remember(top.oid)

WalkStep ==
    /\ \/ Exit \/ TooDeep \/ OnPath \/ Seen \/ TooMany
       \/ ReadMissing \/ ReadCorrupt \/ ReadPresent
    /\ UNCHANGED <<graph, file, remembers, tombstones, limits>>

\* ClosureReport::is_complete
is_complete == ~truncated /\ issues = {}
=============================================================================
