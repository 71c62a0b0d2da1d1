----------------------------- MODULE Projection -----------------------------
(***************************************************************************)
(* synapse-projection: SqliteProjectionStore::rebuild plans every row from *)
(* one Ref snapshot and the object store, one closure and one object at a  *)
(* time, and replaces the old rows in one transaction.  Queries answer     *)
(* from the rows alone.                                                    *)
(*                                                                         *)
(* A closure is taken at one moment (ClosureWalk is its walk).  A Record   *)
(* body also has what the mapping reads: subjects, series, time and the    *)
(* moment it was recorded.                                                 *)
(***************************************************************************)
EXTENDS Closure

CONSTANTS
    Snapshots,   \* Ref snapshots: sequences of [name, head, event]
    Graphs, Files,  \* what the objects may say, and the stores to start from
    Fragile,     \* objects that come or go during a rebuild
    MaxObjects, MaxEdges, \* ProjectionLimits::graph
    Rebuilds, MaxChanges  \* rebuilds, and changes of the store (bounds)

VARIABLES
    file,        \* the object store
    db,          \* the rows of the last successful rebuild
    plan,        \* BuildPlan
    phase, refsLeft, objectsLeft,
    erased,      \* the catalog of the PreparedClosureVerifier
    reports,     \* its report_cache
    rebuilds, changes,
    seen,        \* objects this rebuild has read intact (history)
    lost         \* those gone again before the second reads (history)

projectionVars == <<graph, file, db, plan, phase, refsLeft, objectsLeft, erased, reports,
                    rebuilds, changes, seen, lost>>

NoRows == [refs |-> {}, objects |-> [o \in {} |-> ""], reach |-> {}, edges |-> {},
           issues |-> {}, derived |-> {}]

ProjectionInit ==
    /\ graph \in Graphs /\ file \in Files
    /\ db = NoRows /\ plan = NoRows
    /\ phase = "idle" /\ refsLeft = <<>> /\ objectsLeft = <<>>
    /\ erased = [t \in {} |-> BadText] /\ reports = [h \in {} |-> 0]
    /\ rebuilds = 0 /\ changes = 0 /\ seen = {} /\ lost = {}

-----------------------------------------------------------------------------
(* BuildPlan::from_sources *)

normalize_snapshot(s) ==
    \A i, j \in DOMAIN s :
        /\ s[i].head \in Objects /\ Kind[s[i].head] = "commit" /\ s[i].event > 0
        /\ s[i].name = s[j].name \/ s[i].event = s[j].event => i = j

Fail == /\ phase' = "failed"
        /\ UNCHANGED <<graph, file, db, plan, refsLeft, objectsLeft, erased, reports,
                       rebuilds, changes, seen, lost>>

\* PreparedClosureVerifier::new, only for a snapshot that is not empty
BeginRebuild(s) ==
    /\ phase \in {"idle", "failed", "done"} /\ rebuilds < Rebuilds
    /\ rebuilds' = rebuilds + 1
    /\ phase' = IF \/ Len(s) > MaxObjects \/ ~normalize_snapshot(s)
                   \/ s # <<>> /\ Records(Damaged(file)) # {}
                THEN "failed" ELSE "refs"
    /\ plan' = [NoRows EXCEPT !.refs = Range(s)]
    /\ refsLeft' = s
    /\ erased' = IF s = <<>> THEN [t \in {} |-> BadText] ELSE TombstonesAmong(Intact(file))
    /\ reports' = [h \in {} |-> 0] /\ objectsLeft' = <<>>
    /\ changes' = 0 /\ seen' = {} /\ lost' = {}
    /\ UNCHANGED <<graph, file, db>>

\* ObjectAvailability of what a walk meets now
availability_for_state(o) ==
    CASE file[o] = "intact" -> "present"
      [] file[o] = "absent" /\ o \in DOMAIN erased -> "tombstoned"
      [] file[o] = "absent" -> "missing"
      [] OTHER -> "corrupt"

Report(h) ==
    LET reach == Reach(h, Intact(file))
    IN [nodes |-> [o \in reach |-> availability_for_state(o)],
        issues |-> Defects(h, file, DOMAIN erased)]

\* verify: the report of a head is computed once
Verified(h) == IF h \in DOMAIN reports THEN reports[h] ELSE Report(h)

\* validate_resolving_tombstone reads the Tombstone once more
validate_resolving_tombstone(t) == file[t] = "intact"

\* mutant: the later closure wins
merge_object_Replace(objects, nodes) == TRUE

\* merge_object: two closures must agree on every object
merge_object(objects, nodes) ==
    \A o \in DOMAIN objects \cap DOMAIN nodes : objects[o] = nodes[o]

EdgesOf(o) == {<<o, r.target, r.role>> : r \in WellTyped(o)}

PlanRef ==
    LET r == Head(refsLeft)
        report == Verified(r.head)
        nodes == report.nodes
        present == {o \in DOMAIN nodes : nodes[o] = "present"}
        next == [plan EXCEPT
            !.objects = [o \in DOMAIN @ \cup DOMAIN nodes |->
                            IF o \in DOMAIN nodes THEN nodes[o] ELSE @[o]],
            !.reach = @ \cup {<<r.name, o, nodes[o]>> : o \in DOMAIN nodes},
            !.edges = @ \cup UNION {EdgesOf(o) : o \in present},
            !.issues = @ \cup {<<r.name, i.oid>> : i \in report.issues}]
    IN /\ phase = "refs" /\ refsLeft # <<>>
       /\ IF \/ \E i \in report.issues : i.kind # "missing"
             \/ \E o \in DOMAIN nodes : /\ nodes[o] = "tombstoned"
                                        /\ ~validate_resolving_tombstone(erased[o])
             \/ ~merge_object(plan.objects, nodes)
             \/ Cardinality(DOMAIN next.objects) > MaxObjects
             \/ \E rows \in {next.reach, next.edges, next.issues} :
                   Cardinality(rows) > MaxEdges
          THEN Fail
          ELSE /\ plan' = next
               /\ refsLeft' = Tail(refsLeft)
               /\ reports' = [h \in DOMAIN reports \cup {r.head} |-> Verified(h)]
               /\ seen' = seen \cup present
               /\ UNCHANGED <<graph, file, db, phase, objectsLeft, erased, rebuilds, changes, lost>>

PlanObjects ==
    /\ phase = "refs" /\ refsLeft = <<>>
    /\ phase' = "map"
    /\ objectsLeft' = SelectSeq(Order, LAMBDA o : o \in DOMAIN plan.objects
                                                  /\ plan.objects[o] = "present")
    /\ UNCHANGED <<graph, file, db, plan, refsLeft, erased, reports, rebuilds, changes, seen, lost>>

-----------------------------------------------------------------------------
(* map_record: derived rows *)

\* project_valid_time: the time a Record is placed at; 0 stands for a bound
\* the interval does not have
project_valid_time(t, recorded) ==
    CASE t.kind = "instant"  -> t.from
      [] t.kind = "interval" -> IF t.from # 0 THEN t.from ELSE t.to
      [] t.kind = "unknown"  -> recorded

\* map_observation and map_activity: one timeline row, with its subjects
Timeline(o) ==
    [table |-> "timeline", oid |-> o, kind |-> graph[o].type,
     at |-> project_valid_time(graph[o].time, graph[o].recorded),
     subjects |-> graph[o].subjects, series |-> graph[o].series]

\* map_optional_dependency, map_oid_array: what an Observation depends on (its
\* station_ref is an entity id, no object's)
Dependencies(o) ==
    {[table |-> "dependency", oid |-> o, kind |-> f.pointer, target |-> f.oid] :
        f \in {g \in Range(graph[o].fields) :
                  g.pointer \in {"capture_profile_ref", "station_deployment_ref",
                                 "calibration_refs", "environment_refs", "media_refs"}}}

Adapter == {"implementation_digest", "configuration_digest"}

\* map_analysis: the adapter, inputs, transforms, derived Blobs and masks
Links(o) ==
    {[table |-> "link", oid |-> o, category |-> f.pointer, target |-> f.oid] :
        f \in {g \in Range(graph[o].fields) :
                  g.pointer \in Adapter \cup {"input", "transform", "derived_blob", "mask"}}}

\* validate_analysis_target
validate_analysis_target(o, l) ==
    /\ l.category = "transform" => Kind[l.target] = "record"
    /\ l.category \in {"derived_blob", "mask"} => Kind[l.target] = "blob"
    /\ l.target \in DOMAIN plan.objects
    /\ \E e \in plan.edges : e[1] = o /\ e[2] = l.target

map_observation(o) == {Timeline(o)} \cup Dependencies(o)
map_activity(o) == {Timeline(o)}

map_record(o) ==
    LET common == {[table |-> "record", oid |-> o]}
    IN common \cup
       CASE graph[o].type = "observation" -> map_observation(o)
         [] graph[o].type = "activity" -> map_activity(o)
         [] graph[o].type = "analysis_result" -> Links(o)
         [] OTHER -> {}

Mappable(o) ==
    /\ graph[o].type = "analysis_result" =>
          \A l \in Links(o) : l.target # BadText /\ validate_analysis_target(o, l)
    /\ graph[o].type = "observation" => \A d \in Dependencies(o) : d.target # BadText
    /\ graph[o].type \in {"observation", "activity"} =>
          project_valid_time(graph[o].time, graph[o].recorded) # 0

\* map_present_objects: each object is read and verified once more
MapObject ==
    LET o == Head(objectsLeft)
        derived == plan.derived \cup (IF Kind[o] = "record" THEN map_record(o) ELSE {})
    IN /\ phase = "map" /\ objectsLeft # <<>>
       /\ IF \/ file[o] # "intact"
             \/ Kind[o] = "record" /\ ~Mappable(o)
             \/ Cardinality(derived) > MaxEdges
          THEN Fail
          ELSE /\ plan' = [plan EXCEPT !.derived = derived]
               /\ objectsLeft' = Tail(objectsLeft)
               /\ UNCHANGED <<graph, file, db, phase, refsLeft, erased, reports, rebuilds,
                              changes, seen, lost>>

-----------------------------------------------------------------------------
(* replace *)

\* the keys and references of the schema
create_schema(rows) ==
    /\ \A r, q \in rows.refs : r.name = q.name \/ r.event = q.event => r = q
    /\ \A x \in rows.reach : /\ \E r \in rows.refs : r.name = x[1]
                             /\ x[2] \in DOMAIN rows.objects
                             /\ \A y \in rows.reach : x[1] = y[1] /\ x[2] = y[2] => x = y
    /\ \A e \in rows.edges : e[1] \in DOMAIN rows.objects /\ e[2] \in DOMAIN rows.objects
    /\ \A d \in rows.derived :
          /\ [table |-> "record", oid |-> d.oid] \in rows.derived
          /\ d.oid \in DOMAIN rows.objects
          /\ d.table = "link" => d.target \in DOMAIN rows.objects
          /\ d.table = "timeline" =>
                \A c \in rows.derived : c.table = "timeline" /\ c.oid = d.oid => c = d

\* every table emptied and filled anew, or, on an error, none
replace_rows(rows) == IF create_schema(rows) THEN rows ELSE db

\* one immediate transaction
replace ==
    /\ phase = "map" /\ objectsLeft = <<>>
    /\ phase' = IF create_schema(plan) THEN "done" ELSE "rejected"
    /\ db' = replace_rows(plan)
    /\ UNCHANGED <<graph, file, plan, refsLeft, objectsLeft, erased, reports, rebuilds,
                   changes, seen, lost>>

-----------------------------------------------------------------------------
(* Other processes: an object is published, or goes although it must not *)

StoreChanges ==
    /\ phase \in {"refs", "map"} /\ changes < MaxChanges
    /\ \E o \in Fragile :
          /\ file' = [file EXCEPT ![o] = IF file[o] = "absent" THEN "intact" ELSE "absent"]
          /\ lost' = IF phase = "refs" /\ o \in seen /\ file[o] = "intact"
                     THEN lost \cup {o} ELSE lost \ {o}
    /\ changes' = changes + 1
    /\ UNCHANGED <<graph, db, plan, phase, refsLeft, objectsLeft, erased, reports, rebuilds,
                   seen>>

ProjectionNext ==
    \/ \E s \in Snapshots : BeginRebuild(s)
    \/ PlanRef \/ PlanObjects \/ MapObject \/ replace \/ StoreChanges

ProjectionSpec == ProjectionInit /\ [][ProjectionNext]_projectionVars

-----------------------------------------------------------------------------
(* Queries *)

\* resolve_scope: a query that names a Ref the projection lacks is refused
resolve_scope(names) == names \subseteq {r.name : r \in db.refs}

ReachableFrom(o, names) == {n \in names : \E x \in db.reach : x[1] = n /\ x[2] = o}

\* subject_timeline: rows of every Ref in scope, merged by OID, in order of
\* time and OID
subject_timeline(s, series, names) ==
    LET rows == {[oid |-> d.oid, at |-> d.at, from |-> ReachableFrom(d.oid, names)] :
                    d \in {e \in db.derived : /\ e.table = "timeline" /\ s \in e.subjects
                                              /\ series \in {"any", e.series}}}
        Before(x, y) == \/ x.at < y.at
                        \/ x.at = y.at /\ \E i, j \in DOMAIN Order :
                              i < j /\ Order[i] = x.oid /\ Order[j] = y.oid
    IN SetToSortSeq({r \in rows : r.from # {}}, Before)

\* analysis_replay_readiness: results do not hinder a replay, the rest does
Prerequisites(o) ==
    {d \in db.derived : d.table = "link" /\ d.oid = o
                        /\ d.category \in Adapter \cup {"input", "transform"}}

analysis_replay_readiness(o) ==
    LET states == {db.objects[d.target] : d \in Prerequisites(o)}
    IN [missing |-> "missing" \in states, tombstoned |-> "tombstoned" \in states]

\* closure_summaries: counts per Ref
closure_summary(n) ==
    LET Count(state) == Cardinality({x \in db.reach : x[1] = n /\ x[3] = state})
    IN [complete |-> ~\E i \in db.issues : i[1] = n,
        present |-> Count("present"), tombstoned |-> Count("tombstoned"),
        missing |-> Count("missing")]

-----------------------------------------------------------------------------
(* Properties *)

AtRest == phase = "done" /\ changes = 0

HeadsOf(names) == {r.head : r \in {q \in db.refs : q.name \in names}}

\* A rebuild over a store at rest describes it exactly: every object that some
\* Ref reaches with its true availability, every reference of a present object,
\* a Ref as complete exactly if nothing it needs is missing, and nothing else.
ProjectionIsExact ==
    LET Below(h) == Reach(h, Intact(file))
        all == UNION {Below(r.head) : r \in db.refs}
        State(o) == CASE file[o] = "intact" -> "present"
                      [] o \in DOMAIN TombstonesAmong(Intact(file)) -> "tombstoned"
                      [] OTHER -> "missing"
    IN AtRest =>
        /\ db.objects = [o \in all |-> State(o)]
        /\ db.edges = UNION {{<<o, t, r>> : <<t, r>> \in
                                 {<<q.target, q.role>> : q \in WellTyped(o)}} :
                                o \in all \cap Intact(file)}
        /\ \A r \in db.refs :
              LET summary == closure_summary(r.name)
                  gone == {o \in Below(r.head) : State(o) = "missing" \/
                              (o = r.head /\ State(o) # "present")}
              IN /\ summary.complete = (gone = {})
                 /\ summary.present + summary.tombstoned + summary.missing
                       = Cardinality(Below(r.head))

\* An object that a closure of this rebuild has found stored is never recorded
\* as missing or erased, and every closure's rows agree with the object's own.
SeenIsNeverDowngraded ==
    phase = "done" =>
        /\ \A o \in DOMAIN db.objects : o \in seen => db.objects[o] = "present"
        /\ \A x \in db.reach : db.objects[x[2]] = x[3]

\* An object that leaves the store after a closure has found it, and is not back
\* when the objects are read again, fails the rebuild: no rows are replaced.
LostObjectsFailTheRebuild == phase = "done" => lost = {}

\* The checks made while planning cover every key and every reference of the
\* schema: the transaction never meets a constraint, so a rebuild fails only
\* for what the plan has named.
PlansFitTheSchema == phase # "rejected"

\* A timeline has every reachable Observation and Activity of the subject once,
\* with exactly the Refs in scope that reach it, in the order of the time that
\* is known of it.
TimelineIsComplete ==
    AtRest => \A names \in SUBSET UNION {{r.name : r \in Range(q)} : q \in Snapshots},
                 s \in {"s1", "s2"} :
      resolve_scope(names) =>
        LET line == subject_timeline(s, "any", names)
            Reaching(o) == {n \in names : \E h \in HeadsOf({n}) : o \in Reach(h, Intact(file))}
            due == {o \in Records(Intact(file)) :
                       /\ graph[o].type \in {"observation", "activity"}
                       /\ s \in graph[o].subjects /\ Reaching(o) # {}}
            Known(o) == LET t == graph[o].time
                        IN CASE t.kind = "unknown" -> graph[o].recorded
                             [] t.from # 0 -> t.from
                             [] OTHER -> t.to
        IN /\ {e.oid : e \in Range(line)} = due /\ Len(line) = Cardinality(due)
           /\ \A i \in DOMAIN line : line[i].from = Reaching(line[i].oid)
           /\ \A i, j \in DOMAIN line : i < j => Known(line[i].oid) <= Known(line[j].oid)

\* An Analysis is called ready for replay exactly if its adapter, its inputs and
\* its transforms are all stored, whatever became of its results.
ReadinessIsHonest ==
    AtRest => \A o \in DOMAIN db.objects :
        db.objects[o] = "present" /\ Kind[o] = "record" /\ graph[o].type = "analysis_result" =>
            LET needed == {f.oid : f \in {g \in Range(graph[o].fields) :
                                            g.pointer \notin {"derived_blob", "mask"}}}
                ready == analysis_replay_readiness(o)
            IN (~ready.missing /\ ~ready.tombstoned) = (needed \subseteq Intact(file))
=============================================================================
