-------------------------------- MODULE Fsck --------------------------------
(***************************************************************************)
(* The integrity checks of synapse-cas and synapse-core, over ClosureWalk: *)
(* PreparedClosureVerifier (one root, straight from the store), fsck and   *)
(* the bounded fsck_snapshot_through (every stored object, then every      *)
(* root, through one memo and one Tombstone catalog).  Other processes may *)
(* add objects meanwhile, and stored bytes may decay or disappear.         *)
(***************************************************************************)
EXTENDS ClosureWalk

CONSTANTS
    Checks,     \* checks to run: [mode, roots, graph, file, stray, changes, max]
    Fragile     \* objects that may change during a check

VARIABLES
    check,      \* the check that runs: its roots, its limits max (FsckLimits and
                \* TombstoneScanLimits), the changes it may see (bound)
    phase,
    scan,       \* OIDs of the inventory still to verify
    left,       \* roots still to walk
    found,      \* issues of the report so far
    incomplete, \* roots whose closure is not complete
    spent,      \* closure nodes and edges so far
    changes,    \* objects that changed during the check
    seen        \* objects read intact from the store in this check (history)

checkVars == <<check, phase, scan, left, found, incomplete, spent>>

vars == <<graph, file, memo, remembers, tombstones, limits, stack, path, finished,
          nodes, edges, bytes, issues, truncated, check, phase, scan, left, found,
          incomplete, spent, changes, seen>>

CheckInit(c) ==
    /\ check = [mode |-> c.mode, roots |-> c.roots, stray |-> c.stray,
                changes |-> c.changes, max |-> c.max]
    /\ graph = c.graph /\ file = c.file
    /\ memo = {} /\ remembers = (c.mode # "closure")
    /\ tombstones = [t \in {} |-> BadText]
    /\ limits = [objects |-> 0, edges |-> 0]
    /\ stack = <<>> /\ path = <<>> /\ finished = {}
    /\ nodes = [o \in {} |-> ""] /\ edges = 0 /\ bytes = 0
    /\ issues = {} /\ truncated = FALSE
    /\ phase = "begin" /\ scan = <<>> /\ left = <<>>
    /\ found = {} /\ incomplete = {}
    /\ spent = [nodes |-> 0, edges |-> 0]
    /\ changes = {} /\ seen = {}

Init == \E c \in Checks : CheckInit(c)

Stored == SelectSeq(Order, LAMBDA o : file[o] # "absent")

\* Several Refs often share a head: verify_closure once for each
Distinct(seq) ==
    FoldLeft(LAMBDA kept, o : IF o \in Range(kept) THEN kept ELSE Append(kept, o), <<>>, seq)

Fail == /\ phase' = "error"
        /\ UNCHANGED <<check, scan, left, found, incomplete, spent>>

\* PreparedClosureVerifier::new reads every Record: a corrupt one could be a
\* Tombstone, so nothing is verified
Prepare ==
    /\ phase = "begin" /\ check.mode = "closure"
    /\ IF \/ Records(Damaged(file)) # {}
          \/ Cardinality(Records(Intact(file))) > check.max.records
       THEN Fail /\ UNCHANGED tombstones
       ELSE /\ tombstones' = TombstonesAmong(Intact(file))
            /\ phase' = "roots" /\ left' = check.roots
            /\ UNCHANGED <<check, scan, found, incomplete, spent>>
    /\ UNCHANGED <<graph, file, memo, remembers, limits, walkVars, changes, seen>>

\* the inventory; a bounded scan refuses a stray path and one object too many,
\* an unbounded one reports the path
TakeInventory ==
    /\ phase = "begin" /\ check.mode # "closure"
    /\ IF check.mode = "limited" /\ (check.stray \/ Len(Stored) > check.max.inventory)
       THEN Fail
       ELSE /\ phase' = "scan" /\ scan' = Stored
            /\ found' = IF check.stray THEN {Issue(BadText, "invalid_path")} ELSE {}
            /\ UNCHANGED <<check, left, incomplete, spent>>
    /\ UNCHANGED <<graph, file, memo, remembers, tombstones, limits, walkVars,
                   changes, seen>>

\* verify one stored object, and note what it entombs
ScanObject ==
    LET o == Head(scan)
        records == Records(seen \cup {o})
    IN /\ phase = "scan" /\ scan # <<>>
       /\ Remember(o)
       /\ seen' = IF file[o] = "intact" THEN seen \cup {o} ELSE seen
       /\ IF check.mode = "limited" /\ file[o] = "intact" /\ Kind[o] = "record"
             /\ Cardinality(records) > check.max.records
          THEN Fail
          ELSE /\ scan' = Tail(scan)
               /\ found' = found \cup
                     CASE Answer(o) = "present" -> {}
                       [] Answer(o) = "missing" -> {Issue(o, "missing_scanned")}
                       [] OTHER -> {Issue(o, "corrupt_object")}
               /\ UNCHANGED <<check, phase, left, incomplete, spent>>
       /\ UNCHANGED <<graph, file, remembers, tombstones, limits, walkVars, changes>>

\* without roots, every stored Commit is one
ScanDone ==
    /\ phase = "scan" /\ scan = <<>>
    /\ tombstones' = TombstonesAmong(seen)
    /\ left' = IF check.roots # <<>> THEN Distinct(check.roots)
               ELSE SelectSeq(Order, LAMBDA o : Kind[o] = "commit" /\ o \in
                       seen \cup {i.oid : i \in found})
    /\ phase' = "roots"
    /\ UNCHANGED <<graph, file, memo, remembers, limits, walkVars, check, scan, found,
                   incomplete, spent, changes, seen>>

\* verify_uncached_with_work_limits: what is left of the cumulative budget
WorkLimits ==
    LET Least(a, b) == IF a < b THEN a ELSE b
    IN IF check.mode = "limited"
       THEN [objects |-> Least(MaxObjects, check.max.nodes - spent.nodes),
             edges |-> Least(MaxEdges, check.max.edges - spent.edges)]
       ELSE [objects |-> MaxObjects, edges |-> MaxEdges]

NextRoot ==
    /\ phase = "roots" /\ left # <<>>
    /\ BeginWalk(Head(left), WorkLimits)
    /\ phase' = "walk"
    /\ UNCHANGED <<graph, file, memo, remembers, tombstones, check, scan, left, found,
                   incomplete, spent, changes, seen>>

Walk ==
    /\ phase = "walk"
    /\ WalkStep
    /\ seen' = seen \cup {o \in DOMAIN nodes' \ DOMAIN nodes : file[o] = "intact"}
    /\ UNCHANGED <<checkVars, changes>>

\* mutant: the report is that of the last root
RootDone_Last ==
    /\ phase = "walk" /\ stack = <<>>
    /\ IF check.mode = "limited" /\ truncated
       THEN Fail
       ELSE /\ phase' = "roots"
            /\ left' = Tail(left)
            /\ found' = issues
            /\ incomplete' = IF is_complete THEN {} ELSE {Head(left)}
            /\ spent' = [nodes |-> spent.nodes + Cardinality(DOMAIN nodes),
                         edges |-> spent.edges + edges]
            /\ UNCHANGED <<check, scan>>
    /\ UNCHANGED <<graph, file, memo, remembers, tombstones, limits, walkVars,
                   changes, seen>>

\* one closure is reported; a bounded check refuses a truncated one
RootDone ==
    /\ phase = "walk" /\ stack = <<>>
    /\ IF check.mode = "limited" /\ truncated
       THEN Fail
       ELSE /\ phase' = "roots"
            /\ left' = Tail(left)
            /\ found' = found \cup issues
            /\ incomplete' = IF is_complete THEN incomplete
                             ELSE incomplete \cup {Head(left)}
            /\ spent' = [nodes |-> spent.nodes + Cardinality(DOMAIN nodes),
                         edges |-> spent.edges + edges]
            /\ UNCHANGED <<check, scan>>
    /\ UNCHANGED <<graph, file, memo, remembers, tombstones, limits, walkVars,
                   changes, seen>>

CheckDone ==
    /\ phase = "roots" /\ left = <<>>
    /\ phase' = "done"
    /\ UNCHANGED <<graph, file, memo, remembers, tombstones, limits, walkVars, check,
                   scan, left, found, incomplete, spent, changes, seen>>

CheckStep == Prepare \/ TakeInventory \/ ScanObject \/ ScanDone
             \/ NextRoot \/ Walk \/ RootDone \/ CheckDone

\* FsckReport::is_clean
is_clean == found = {} /\ incomplete = {}

\* The store during the check: an object is added, or decays or disappears
\* although nothing in the program removes objects
StoreChanges ==
    /\ phase \notin {"done", "error"} /\ Cardinality(changes) < check.changes
    /\ \E o \in Fragile \ changes, s \in FileStates :
          /\ \/ file[o] = "absent" /\ s = "intact"
             \/ file[o] = "intact" /\ s # "intact"
          /\ file' = [file EXCEPT ![o] = s]
          /\ changes' = changes \cup {o}
    /\ UNCHANGED <<graph, memo, remembers, tombstones, limits, walkVars, checkVars,
                   seen>>

Next == CheckStep \/ StoreChanges

Spec == Init /\ [][Next]_vars

-----------------------------------------------------------------------------
(* Properties *)

\* the closure really exceeds a limit of GraphLimits
Beyond(root) ==
    LET whole == Reach(root, Intact(file)) \cap Intact(file)
        all == SelectSeq(Order, LAMBDA o : o \in whole)
        Total(Size(_)) == FoldLeft(LAMBDA sum, o : sum + Size(o), 0, all)
    IN \/ Cardinality(Reach(root, Intact(file))) > limits.objects
       \/ Total(LAMBDA o : Len(References(o))) > limits.edges
       \/ Total(LAMBDA o : CostOf(References(o))) > MaxReferenceBytes
       \/ Layer(root, Intact(file), MaxDepth + 1) # {}

Walked == phase = "walk" /\ stack = <<>> /\ Kind[Head(left)] = "commit"

\* With a store at rest the iterative walk reports exactly the defects of the
\* closure, whatever order it meets shared objects in, and it gives up only
\* when the closure really exceeds a limit of GraphLimits.
WalkMatchesReference ==
    Walked /\ changes = {} =>
        IF truncated THEN Beyond(Head(left))
        ELSE {i \in issues : i.kind # "cycle"} = Defects(Head(left), file, DOMAIN tombstones)

\* A cycle of Commit parents, Trees or supersedes is always reported, however
\* the walk enters it and although cycles through other Record references
\* are accepted; and only what lies on a cycle is reported as one.
CyclesAreReported ==
    LET present == {o \in DOMAIN nodes : nodes[o] = "present"}
        structural ==
            [o \in Objects |-> IF o \notin present THEN {}
                ELSE {r.target : r \in {q \in WellTyped(o) : q.role # "record"}}]
        any == [o \in Objects |-> Targets(o, present)]
        Cyclic(o, next) == o \in Spread(next[o], next[o], next)
    IN Walked /\ ~truncated =>
          /\ (\E o \in present : Cyclic(o, structural)) => \E i \in issues : i.kind = "cycle"
          /\ \A i \in issues : i.kind = "cycle" => Cyclic(i.oid, any)

\* A clean report means that every object any root needs was read intact from
\* the store at some moment of this very check, or is recorded as erased,
\* although memory answered for most of them; a root is never only recorded.
CleanMeansVerified ==
    phase = "done" /\ is_clean =>
        \A r \in Range(check.roots) :
            /\ r \in seen
            /\ Reach(r, seen) \subseteq seen \cup DOMAIN tombstones

\* An object is called present only while its file exists at the length that
\* was verified, so that one that disappears or is cut short during the check
\* is noticed although it was verified earlier.
MemoAnswersAreFreshStep ==
    \A o \in DOMAIN nodes' \ DOMAIN nodes :
       nodes'[o] = "present" => file[o] \in {"intact", "flipped"}

MemoAnswersAreFresh == [][MemoAnswersAreFreshStep]_vars

\* The closures of one bounded check together stay within its work limits.
WorkStaysBounded ==
    check.mode = "limited" =>
        /\ spent.nodes + (IF phase = "walk" THEN Cardinality(DOMAIN nodes) ELSE 0)
              <= check.max.nodes
        /\ spent.edges + (IF phase = "walk" THEN edges ELSE 0) <= check.max.edges
=============================================================================
