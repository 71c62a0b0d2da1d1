----------------------------- MODULE Comparison -----------------------------
(***************************************************************************)
(* The byte-identity comparison of two Observations.  synapse-observation  *)
(* loads the two Observations, decides whether their primary media may be  *)
(* compared at all and writes one AnalysisResult Record; synapse-creator   *)
(* reads such a Record back for a session's report and accepts it only if  *)
(* it is what the adapter would have written for that session, whatever    *)
(* its time of recording and the description of the tool.                  *)
(*                                                                         *)
(* A JSON object is a function from its keys; texts are named by what they *)
(* say.  A `case` is a pair of Observations compared, or a session's       *)
(* comparison with something about it changed after the fact.              *)
(***************************************************************************)
EXTENDS Naturals, Sequences, FiniteSets, TLC

CONSTANTS
  Observations,   \* the Observations offered as base or target
  StoredBlobs,    \* Blobs that can be read and verified
  Imported,       \* the Blobs sessions import
  Recognized,     \* implementation OIDs the report's reader knows
  Implementation, \* the OID of the implementation compiled in
  Configuration,  \* the OID of the fixed configuration
  NoMedia,        \* no medium, no profile
  Junk,           \* a value no writer produces
  Refused

VARIABLE case

-----------------------------------------------------------------------------
(* synapse-observation: the adapter.                                       *)

verify_blob(blob) == blob \in StoredBlobs

\* What the adapter reads of an Observation.
load_observation(o) ==
  [subject |-> o.subject, series |-> o.series, unknown |-> o.capture_time = "unknown",
   level |-> o.profile, media |-> {o.media[i].blob : i \in DOMAIN o.media},
   primary |-> SelectSeq(o.media, LAMBDA m : m.role = "primary")]

only_primary(facts) == IF Len(facts.primary) = 1 THEN facts.primary[1].blob ELSE NoMedia

media_oids_are_identical(base, target) == base = target

\* The reasons that do not depend on whether the media are compared.
Caveats(base, target) ==
  {"byte_identity_only"}
    \cup (IF base.unknown \/ target.unknown THEN {"capture_time_unknown"} ELSE {})
    \cup (IF "imported" \in {base.level, target.level} THEN {"capture_profile_imported"} ELSE {})
    \cup (IF NoMedia \in {base.level, target.level} THEN {"capture_profile_missing"} ELSE {})

\* Mutant: two series of one subject are compared.
Obstacle_AnySeries(base, target) ==
  IF base.subject # target.subject THEN {"subject_mismatch"}
  ELSE IF Len(base.primary) = 0 \/ Len(target.primary) = 0 THEN {"primary_media_missing"}
  ELSE IF Len(base.primary) # 1 \/ Len(target.primary) # 1
    THEN {"primary_media_ambiguous"} ELSE {}

\* The first obstacle to comparing; the rest are not looked at.
Obstacle(base, target) ==
  CASE base.subject # target.subject -> {"subject_mismatch"}
    [] base.subject = target.subject /\ base.series # target.series -> {"series_mismatch"}
    [] OTHER ->
         IF Len(base.primary) = 0 \/ Len(target.primary) = 0 THEN {"primary_media_missing"}
         ELSE IF Len(base.primary) # 1 \/ Len(target.primary) # 1
           THEN {"primary_media_ambiguous"} ELSE {}

ComparisonDecision(base, target) ==
  LET obstacle == Obstacle(base, target)
  IN  [outcome |-> IF obstacle # {} THEN "not_compared"
                   ELSE IF media_oids_are_identical(only_primary(base), only_primary(target))
                     THEN "identical" ELSE "different",
       status |-> IF obstacle = {} THEN "succeeded" ELSE "not_run",
       comparability |-> IF obstacle = {} THEN "partial" ELSE "incomparable",
       reasons |-> Caveats(base, target) \cup obstacle,
       base |-> only_primary(base), target |-> only_primary(target)]

\* The Record of a decision; r names the two Observations and the tool.  The
\* warning is the caution that goes with the outcome.
analysis_record(r, d) ==
  [object_type |-> "record", schema_version |-> "current", record_type |-> "analysis_result",
   entity_id |-> r.entity, recorded_at |-> r.recorded_at, asserted_by |-> r.tool,
   origin |-> "tool_recorded",
   source_refs |-> {<<"base_observation", r.base>>, <<"target_observation", r.target>>},
   payload |->
     [analysis_kind |-> "byte_identity", comparison_kind |-> "temporal_observation",
      inputs |-> <<<<"base_observation", r.base>>, <<"target_observation", r.target>>>>,
      adapter |-> [id |-> "byte_identity", version |-> "1",
                   implementation_digest |-> Implementation,
                   configuration_digest |-> Configuration, determinism |-> "deterministic"],
      status |-> d.status, comparability |-> d.comparability, reason_codes |-> d.reasons,
      derived_blob_refs |-> <<>>,
      metrics |-> IF d.outcome = "not_compared" THEN <<>>
                  ELSE "byte_identical" :>
                         [mantissa |-> IF d.outcome = "identical" THEN "1" ELSE "0",
                          scale |-> "0", unit |-> "unitless"],
      warnings |-> <<d.outcome>>,
      limitations |-> <<"blob_oids_only", "digest_scope">>],
   extensions |->
     "byte_identity" :>
       ([format |-> "v1", outcome |-> d.outcome]
         @@ (IF d.base = NoMedia THEN <<>> ELSE "base_media_ref" :> d.base)
         @@ (IF d.target = NoMedia THEN <<>> ELSE "target_media_ref" :> d.target))]

\* Every medium of both Observations is read before anything is written.
record_byte_identity_comparison(r, base, target) ==
  LET b == load_observation(base)
      t == load_observation(target)
  IN  IF \A blob \in b.media \cup t.media : verify_blob(blob)
        THEN analysis_record(r, ComparisonDecision(b, t))
        ELSE Refused

-----------------------------------------------------------------------------
(* synapse-creator: the report's reader.                                   *)

\* What a session expects of its comparison.
Session(base, target) ==
  [entity |-> "analysis", tool |-> "tool", agent |-> "agent", creator |-> "creator",
   base |-> "original", target |-> "current", recorded_at |-> "then",
   base_media |-> base, target_media |-> target]

\* The Actor Record that a session stores for the tool.
observation_tool_actor_record(s) ==
  [object_type |-> "record", schema_version |-> "current", record_type |-> "actor",
   entity_id |-> s.tool, recorded_at |-> s.recorded_at, asserted_by |-> s.creator,
   origin |-> "tool_recorded", source_refs |-> {},
   payload |-> [actor_kind |-> "software_tool", display_name |-> "adapter",
                description |-> "compares"],
   extensions |-> <<>>]

\* The Actor of the tool, the pointers in the base Tree, and what the
\* projection knows: absent objects, Refs that reach the Record, readiness.
Genuine(s, a) ==
  [analysis |-> a,
   tool |-> observation_tool_actor_record(s),
   pointers |-> [implementation |-> Implementation, configuration |-> Configuration],
   absent |-> {}, reachable |-> {"proposal", "decision"}, ready |-> TRUE,
   recognized |-> Recognized]

require_object_keys(object, keys) == DOMAIN object = keys

\* Six fields of the Actor are compared and its keys are not counted.
ToolIsDeclared(s, e) ==
  /\ s.tool # s.agent
  /\ e.tool.object_type = "record" /\ e.tool.record_type = "actor"
  /\ e.tool.entity_id = s.tool /\ e.tool.asserted_by = s.creator
  /\ e.tool.origin = "tool_recorded" /\ e.tool.payload.actor_kind = "software_tool"

\* The lineage the projection recorded for the AnalysisResult.
LineageFits(s, e) ==
  LET a == e.analysis
      adapter == a.payload.adapter
      inputs == <<<<"base_observation", s.base>>, <<"target_observation", s.target>>>>
  IN  /\ a.entity_id = s.entity /\ a.asserted_by = s.tool
      /\ a.payload.analysis_kind = "byte_identity"
      /\ a.payload.comparison_kind = "temporal_observation"
      /\ a.payload.status = "succeeded" /\ a.payload.comparability = "partial"
      /\ adapter.id = "byte_identity" /\ adapter.version = "1"
      /\ adapter.determinism = "deterministic" /\ "seed" \notin DOMAIN adapter
      /\ e.pointers.implementation = adapter.implementation_digest
      /\ e.pointers.configuration = Configuration
      /\ adapter.configuration_digest = Configuration
      /\ a.payload.inputs = inputs
      /\ e.absent \cap {adapter.implementation_digest, Configuration, s.base, s.target} = {}
      /\ a.payload.derived_blob_refs = <<>> /\ e.ready
      /\ e.reachable = {"proposal", "decision"}

require_role_ref(refs, role, oid) == {ref \in refs : ref[1] = role} = {<<role, oid>>}

validate_byte_identity_metric(metrics, identical) ==
  /\ require_object_keys(metrics, {"byte_identical"})
  /\ LET metric == metrics.byte_identical
     IN  /\ require_object_keys(metric, {"mantissa", "scale", "unit"})
         /\ metric.mantissa = (IF identical THEN "1" ELSE "0")
         /\ metric.unit = "unitless" /\ metric.scale = "0"

EvidenceFits(s, a) ==
  /\ require_object_keys(a.extensions, {"byte_identity"})
  /\ LET evidence == a.extensions.byte_identity
         outcome == IF s.base_media = s.target_media THEN "identical" ELSE "different"
     IN  /\ require_object_keys(evidence,
              {"format", "outcome", "base_media_ref", "target_media_ref"})
         /\ evidence.format = "v1"
         /\ evidence.base_media_ref = s.base_media /\ evidence.target_media_ref = s.target_media
         /\ evidence.outcome = outcome
         /\ a.payload.warnings = <<outcome>>
         /\ a.payload.limitations = <<"blob_oids_only", "digest_scope">>
         /\ validate_byte_identity_metric(a.payload.metrics, outcome = "identical")

\* The stored Record, field by field.
AnalysisFits(s, a) ==
  /\ require_object_keys(a, {"object_type", "schema_version", "record_type", "entity_id",
       "recorded_at", "asserted_by", "origin", "source_refs", "payload", "extensions"})
  /\ a.object_type = "record" /\ a.schema_version = "current"
  /\ a.record_type = "analysis_result" /\ a.origin = "tool_recorded"
  /\ require_role_ref(a.source_refs, "base_observation", s.base)
  /\ require_role_ref(a.source_refs, "target_observation", s.target)
  /\ Cardinality(a.source_refs) = 2
  /\ require_object_keys(a.payload, {"analysis_kind", "comparison_kind", "inputs", "adapter",
       "status", "comparability", "reason_codes", "derived_blob_refs", "metrics", "warnings",
       "limitations"})
  /\ require_object_keys(a.payload.adapter, {"id", "version", "implementation_digest",
       "configuration_digest", "determinism"})
  /\ a.payload.reason_codes =
       {"byte_identity_only", "capture_profile_imported", "capture_time_unknown"}
  /\ EvidenceFits(s, a)

byte_identity_implementation_is_recognized(e) ==
  e.pointers.implementation = Implementation \/ e.pointers.implementation \in e.recognized

\* A Record that does not even satisfy the schema is never stored, so the
\* keys read before the key check are there.
validate_comparison_report(s, e) ==
  /\ ToolIsDeclared(s, e) /\ LineageFits(s, e)
  /\ AnalysisFits(s, e.analysis)
  /\ byte_identity_implementation_is_recognized(e)

\* What a report says of a comparison it accepts, beside the OIDs of the two Records.
CreatorComparisonReport(s, e) ==
  LET p == e.analysis.payload
  IN  [tool_id |-> s.tool, adapter_id |-> p.adapter.id, adapter_version |-> p.adapter.version,
       implementation |-> e.pointers.implementation, configuration |-> e.pointers.configuration,
       status |-> p.status, comparability |-> p.comparability,
       outcome |-> e.analysis.extensions.byte_identity.outcome,
       reason_codes |-> p.reason_codes, warnings |-> p.warnings,
       observations |-> <<s.base, s.target>>, media |-> <<s.base_media, s.target_media>>,
       replay_ready |-> TRUE, reachable_from |-> e.reachable]

-----------------------------------------------------------------------------
(* The cases.                                                              *)

\* An object with one value replaced, or one key more.
Edited(object, keys) ==
  {[object EXCEPT ![k] = Junk] : k \in keys} \cup {object @@ ("more" :> Junk)}

Without(object, key) == [k \in DOMAIN object \ {key} |-> object[k]]

\* The ways the stored evidence of a session may differ from what the
\* adapter wrote and still satisfy the schemas of AnalysisResults and Actors.
Edits(e) ==
  LET a == e.analysis
      p == a.payload
      evidence == a.extensions.byte_identity
      metric == p.metrics.byte_identical
      envelopes == Edited(a, DOMAIN a \ {"payload", "extensions", "source_refs"})
      payloads ==
        Edited(p, DOMAIN p \ {"adapter", "metrics"})
          \cup {Without(p, "metrics")}
          \cup {[p EXCEPT !.adapter = x] : x \in Edited(p.adapter, DOMAIN p.adapter)}
          \cup {[p EXCEPT !.metrics = x] : x \in {<<>>, p.metrics @@ ("more" :> metric)}}
          \cup {[p EXCEPT !.metrics.byte_identical = x] : x \in Edited(metric, DOMAIN metric)}
      extensions ==
        {a.extensions @@ ("more" :> Junk)}
          \cup {[a.extensions EXCEPT !.byte_identity = x] :
                  x \in Edited(evidence, DOMAIN evidence)
                          \cup {Without(evidence, k) : k \in DOMAIN evidence}}
      sources == {a.source_refs \cup {<<"base_observation", "elsewhere">>},
                  {<<"base_observation", "current">>, <<"target_observation", "original">>}}
      described == e.tool.payload
      tools ==
        {[e.tool EXCEPT ![k] = Junk] : k \in DOMAIN e.tool \ {"schema_version", "payload"}}
          \cup {e.tool @@ (k :> Junk) : k \in {"valid_time", "supersedes"}}
          \cup {[e.tool EXCEPT !.payload = x] :
                  x \in {[described EXCEPT ![k] = Junk] : k \in DOMAIN described}
                          \cup {Without(described, "description")}}
  IN  {[e EXCEPT !.analysis = x] : x \in envelopes}
        \cup {[e EXCEPT !.analysis.payload = x] : x \in payloads}
        \cup {[e EXCEPT !.analysis.extensions = x] : x \in extensions}
        \cup {[e EXCEPT !.analysis.source_refs = x] : x \in sources}
        \cup {[e EXCEPT !.tool = x] : x \in tools}
        \cup {[e EXCEPT !.pointers[k] = Junk] : k \in DOMAIN e.pointers}
        \cup {[e EXCEPT !.absent = {x}] : x \in {Implementation, Configuration, "original", "current"}}
        \cup {[e EXCEPT !.reachable = {"proposal"}], [e EXCEPT !.ready = FALSE]}

\* An Observation as a session imports it.
observation_record(blob) ==
  [subject |-> "subject", series |-> "series", capture_time |-> "unknown", profile |-> "imported",
   media |-> <<[role |-> "primary", blob |-> blob]>>]

\* The evidence a session stores for two imported Blobs.
Evidence(x, y) ==
  LET s == Session(x, y)
  IN  Genuine(s, record_byte_identity_comparison(s, observation_record(x), observation_record(y)))

ComparisonInit ==
  \/ \E base, target \in Observations : case = [kind |-> "pair", base |-> base, target |-> target]
  \/ \E x, y \in Imported : case = [kind |-> "session", base |-> x, target |-> y]

ComparisonNext == UNCHANGED case

ComparisonSpec == ComparisonInit /\ [][ComparisonNext]_case

-----------------------------------------------------------------------------
(* Properties.                                                             *)

\* The adapter claims no more than it may: bytes are called identical or
\* different only for two Observations of one subject and one series with
\* one primary medium each; otherwise there is no metric and the reason is
\* given.  The media it names are media of the Observations, an ambiguous
\* primary is never named, and nothing is recorded about unreadable media.
NothingIsOverclaimed ==
  case.kind = "pair" =>
    LET s == Session(NoMedia, NoMedia)
        a == record_byte_identity_comparison(s, case.base, case.target)
        Primaries(o) == {i \in DOMAIN o.media : o.media[i].role = "primary"}
        Blobs(o) == {o.media[i].blob : i \in DOMAIN o.media}
        One(o) == Cardinality(Primaries(o)) = 1
        Named(key, o) ==
          LET evidence == a.extensions.byte_identity
          IN  IF One(o) THEN \A i \in Primaries(o) : evidence[key] = o.media[i].blob
              ELSE key \notin DOMAIN evidence
        fit == /\ case.base.subject = case.target.subject
               /\ case.base.series = case.target.series
               /\ One(case.base) /\ One(case.target)
    IN  /\ a = Refused <=> ~(Blobs(case.base) \cup Blobs(case.target) \subseteq StoredBlobs)
        /\ a # Refused =>
             /\ Named("base_media_ref", case.base) /\ Named("target_media_ref", case.target)
             /\ fit <=> a.payload.status = "succeeded"
             /\ fit <=> a.payload.metrics # <<>>
             /\ fit <=> a.payload.reason_codes \subseteq
                   {"byte_identity_only", "capture_time_unknown", "capture_profile_imported",
                    "capture_profile_missing"}
             /\ fit => (a.payload.metrics.byte_identical.mantissa = "1"
                          <=> \A i \in Primaries(case.base), j \in Primaries(case.target) :
                                case.base.media[i].blob = case.target.media[j].blob)

\* Writer and reader agree: what the adapter records for the two images of a
\* session is accepted by the session's report, whichever images they are.
SessionComparisonsAreAccepted ==
  case.kind = "session" =>
    validate_comparison_report(Session(case.base, case.target), Evidence(case.base, case.target))

\* x is e but for what the reader does not look at: when the comparison was
\* recorded, and what the Actor of the tool says beside who it is, who asserts
\* it and of which kind it is.
Overlooked(e, x) ==
  LET Identity(t) == <<t.object_type, t.record_type, t.entity_id, t.asserted_by, t.origin,
                       t.payload.actor_kind>>
  IN  /\ [x EXCEPT !.tool = e.tool, !.analysis.recorded_at = e.analysis.recorded_at] = e
      /\ Identity(x.tool) = Identity(e.tool)

\* The reader notices every change that a report could show: a field of the
\* comparison with another value, a missing or an additional field, a
\* comparison of other images, a tool of another identity, a pointer or input
\* that is not the session's, an absent object.  The time of recording and
\* the description of the tool may be anything, and the report is the same.
ChangesAreRefused ==
  case.kind = "session" =>
    LET s == Session(case.base, case.target)
        e == Evidence(case.base, case.target)
    IN  /\ \A x \in Edits(e) :
              /\ validate_comparison_report(s, x) = Overlooked(e, x)
              /\ Overlooked(e, x) =>
                    CreatorComparisonReport(s, x) = CreatorComparisonReport(s, e)
        /\ \A x, y \in Imported : <<x, y>> # <<case.base, case.target>> =>
             ~validate_comparison_report(s, Evidence(x, y))
=============================================================================
