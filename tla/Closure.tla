------------------------------- MODULE Closure -------------------------------
(***************************************************************************)
(* Objects and what they refer to, as synapse-cas extracts it: the typed   *)
(* references of Commits, Trees and Records, the Tombstone catalog, and    *)
(* the closure of a Commit as a set, the reference the walk is checked     *)
(* against.                                                                *)
(*                                                                         *)
(* An OID is a model value with the kind its prefix names.  The text of a  *)
(* reference has length 1: it costs what try_push charges per byte.        *)
(***************************************************************************)
EXTENDS Naturals, Sequences, FiniteSets, SequencesExt

CONSTANTS
    Order,       \* the OIDs, in the order of their text
    Kind,        \* [OIDs -> {"blob", "record", "tree", "commit"}]
    BadText      \* a reference that is not an OID

Objects == Range(Order)

ASSUME ClosureAssumption == BadText \notin Objects /\ DOMAIN Kind = Objects

VARIABLE graph   \* what the objects say

\* "cut": damaged, of another length; "flipped": damaged, same length
FileStates == {"absent", "intact", "cut", "flipped"}

\* objects of a store f, what each OID path holds
Intact(f) == {o \in Objects : f[o] = "intact"}

Damaged(f) == {o \in Objects : f[o] \in {"cut", "flipped"}}

-----------------------------------------------------------------------------
(* References *)

None == [type |-> "any", entity |-> "any", activity |-> "any"]

Reference(t, k, r, w) == [target |-> t, expected |-> k, role |-> r, wants |-> w]

append_array_references(targets, kind, role) ==
    [i \in DOMAIN targets |-> Reference(targets[i], kind, role, None)]

\* extract_commit_references: parents, snapshot, transitions, declarations
CommitReferences(b) ==
    append_array_references(b.parents, "commit", "parent")
    \o <<Reference(b.snapshot, "tree", "snapshot", None)>>
    \o append_array_references(b.transitions, "record", "transition")
    \o append_array_references(b.declarations, "record", "declaration")

\* extract_tree_references; an entry without a supported entry_kind or a safe
\* segment is an invalid_object and no reference
ValidEntry(e) == e.kind \in {"blob", "record", "tree", "commit"}

TreeReferences(b) ==
    LET valid == SelectSeq(b.entries, ValidEntry)
    IN [i \in DOMAIN valid |-> Reference(valid[i].oid, valid[i].kind, "entry", None)]

\* record_constraint_for
record_constraint_for(type, pointer) ==
    CASE type = "observation" /\ pointer = "capture_profile_ref" ->
            [None EXCEPT !.type = "capture_profile"]
      [] type = "activity" /\ pointer = "context_pack_ref" ->
            [None EXCEPT !.type = "context_pack"]
      [] type \in {"activity", "context_pack"} /\ pointer = "delegation_grant_ref" ->
            [None EXCEPT !.type = "delegation_grant"]
      [] type = "context_pack" /\ pointer = "policy_snapshot_ref" ->
            [None EXCEPT !.type = "policy"]
      [] type = "claim_reaction" /\ pointer = "claim_ref" ->
            [None EXCEPT !.type = "claim"]
      [] type = "claim" /\ pointer = "ai_run_ref" ->
            [None EXCEPT !.type = "activity", !.activity = "ai_run"]
      [] OTHER -> None

\* collect_record_oid_strings: every OID in a Record is a reference, other
\* text is not
RecordReferences(b) ==
    LET IsOid(f) == f.oid \in Objects
        oids == SelectSeq(b.fields, IsOid)
        Wants(f) == IF f.pointer = "supersedes"
                    THEN [None EXCEPT !.type = b.type, !.entity = b.entity]
                    ELSE record_constraint_for(b.type, f.pointer)
        Role(f) == IF f.pointer = "supersedes" THEN "supersedes" ELSE "record"
        Expected(f) == IF Wants(f) = None THEN Kind[f.oid] ELSE "record"
    IN [i \in DOMAIN oids |->
           Reference(oids[i].oid, Expected(oids[i]), Role(oids[i]), Wants(oids[i]))]

References(o) ==
    CASE Kind[o] = "blob"   -> <<>>
      [] Kind[o] = "record" -> RecordReferences(graph[o])
      [] Kind[o] = "commit" -> CommitReferences(graph[o])
      [] Kind[o] = "tree"   -> TreeReferences(graph[o])

\* invalid_object: a Tombstone of itself, an unusable Tree entry
InvalidBody(o) ==
    \/ /\ Kind[o] = "record" /\ graph[o].type = "tombstone"
       /\ \E i \in DOMAIN graph[o].fields :
             graph[o].fields[i] = [pointer |-> "target_ref", oid |-> o]
    \/ /\ Kind[o] = "tree"
       /\ \E i \in DOMAIN graph[o].entries : ~ValidEntry(graph[o].entries[i])

\* try_push: bytes charged for one reference before it is kept
Cost(r) ==
    CASE r.target = BadText      -> 8 + (IF r.role = "entry" THEN 3 ELSE 0)
      [] r.role = "supersedes"   -> 2
      [] r.role \in {"record", "entry"} -> 3
      [] OTHER                   -> 0

CostOf(refs) == FoldLeft(LAMBDA sum, r : sum + Cost(r), 0, refs)

-----------------------------------------------------------------------------
(* Tombstones *)

\* TombstoneCatalog::observe over intact Records; the lowest OID resolves
TombstonesAmong(records) ==
    LET Targets(r) == {graph[r].fields[i].oid :
                          i \in {j \in DOMAIN graph[r].fields :
                                   graph[r].fields[j].pointer = "target_ref"}}
        Resolve(r, t) == /\ Kind[r] = "record" /\ graph[r].type = "tombstone"
                         /\ t \in Targets(r) \ {r}
        targets == {t \in Objects : \E r \in records : Resolve(r, t)}
        First(t) == CHOOSE i \in DOMAIN Order :
                       /\ Order[i] \in records /\ Resolve(Order[i], t)
                       /\ \A j \in 1..(i - 1) :
                             ~(Order[j] \in records /\ Resolve(Order[j], t))
    IN [t \in targets |-> Order[First(t)]]

Records(some) == {o \in some : Kind[o] = "record"}

-----------------------------------------------------------------------------
(* What a closure is, without a walk *)

Issue(o, k) == [oid |-> o, kind |-> k]

WellTyped(o) ==
    {r \in Range(References(o)) : r.target # BadText /\ Kind[r.target] = r.expected}

Targets(o, follow) == IF o \in follow THEN {r.target : r \in WellTyped(o)} ELSE {}

\* what lies at the end of some chain of next from the frontier
RECURSIVE Spread(_, _, _)
Spread(seen, frontier, next) ==
    IF frontier = {} THEN seen
    ELSE LET new == UNION {next[o] : o \in frontier} \ seen
         IN Spread(seen \cup new, new, next)

\* everything a root needs, by way of the objects in follow
Reach(root, follow) ==
    Spread({root}, {root}, [o \in Objects |-> Targets(o, follow)])

\* the objects n references away
Layer(root, follow, n) ==
    FoldLeft(LAMBDA some, i : UNION {Targets(o, follow) : o \in some}, {root},
             [i \in 1..n |-> i])

Ill(o) == Range(References(o)) \ WellTyped(o)

WrongRecord(r) ==
    /\ Kind[r.target] = "record"
    /\ \E f \in {"type", "entity", "activity"} :
          r.wants[f] # "any" /\ r.wants[f] # graph[r.target][f]

\* what a walk of the store f finds wrong below root, when a Tombstone stands
\* in for the objects in erased
Defects(root, f, erased) ==
    LET intact == Intact(f)
        reach == Reach(root, intact)
        whole == reach \cap intact
        wrong == {r \in UNION {WellTyped(o) : o \in whole} :
                     r.target \in intact /\ WrongRecord(r)}
    IN {Issue(o, "missing") :
            o \in {p \in reach : f[p] = "absent" /\ (p = root \/ p \notin erased)}}
       \cup {Issue(o, "corrupt") : o \in reach \cap Damaged(f)}
       \cup {Issue(o, "invalid_object") : o \in {p \in whole : InvalidBody(p)}}
       \cup UNION {{IF r.target = BadText THEN Issue(o, "invalid_reference")
                                           ELSE Issue(r.target, "type") : r \in Ill(o)} :
                      o \in whole}
       \cup {Issue(r.target, "semantic") : r \in wrong}
=============================================================================
