---------------------------- MODULE PublicBundle ----------------------------
(***************************************************************************)
(* synapse-publication: what a public projection says, what a bundle is    *)
(* made of, and what verify_bundle accepts.  Creator histories (lib.rs)    *)
(* and generic artifacts (generic_artifact.rs) have a profile each.        *)
(*                                                                         *)
(* A file is the value it was made from: a digest is that value, a view is *)
(* the projection with the renderer it went through.  Text is "ok", "bad"  *)
(* (empty, too long or with forbidden characters) or "default" (the        *)
(* derived wording).  A file is as long as the timelines it writes out.    *)
(***************************************************************************)
EXTENDS Naturals, Sequences, FiniteSets, SequencesExt

CONSTANTS MaxSessions,    \* MAX_PUBLICATION_SESSIONS
          MaxObjects,     \* CREATOR_FSCK_MAX_OBJECTS
          MaxFile,        \* MAX_BUNDLE_FILE_BYTES
          Refused, Junk   \* no projection; content that is none of a bundle's

VARIABLE case

-----------------------------------------------------------------------------
(* Creator histories *)

\* PresentedText: author_supplied text or the derived default
Presented(text) ==
    IF text = "none" THEN [value |-> "default", origin |-> "derived_summary"]
    ELSE [value |-> text, origin |-> "author_supplied"]

validate_optional_text(text) == text \in {"none", "ok"}

valid_session_name(s) == s # "Bad Name"

\* validate_presentation
validate_presentation(input) ==
    /\ validate_optional_text(input.title)
    /\ \A s \in DOMAIN input.sessions :
          valid_session_name(s) /\ validate_optional_text(input.sessions[s])

\* map_session: a complete session as CreatorReport gives it; its text is the
\* title, the captions or the public note
map_session(r, input) ==
    [session |-> r.session,
     text |-> Presented(IF r.session \in DOMAIN input.sessions
                        THEN input.sessions[r.session] ELSE "none"),
     roles |-> <<"original", "current", "ai_proposal">>,
     disposition |-> r.disposition,
     selected_by_human |-> r.selected_ai_output,
     selected_artifact |-> IF r.selected_ai_output THEN "ai_proposal" ELSE "current",
     rationale |-> "redacted",
     comparison |-> r.comparison,
     timeline |-> r.timeline,
     provenance |-> [session |-> r.session, fingerprint |-> r.fingerprint,
                     fsck_objects |-> r.fsck_objects],
     value |-> "retained"]

\* what a projection may claim about its source
projection_limitations(verified) ==
    [scope |-> IF verified THEN "complete" ELSE "incomplete", unavailable |-> ~verified]

validate_presented_text(t) ==
    \/ t.origin = "author_supplied" /\ t.value = "ok"
    \/ t.origin = "derived_summary" /\ t.value = "default"

\* validate_comparison: the warning is the one of the outcome
validate_comparison(c) ==
    /\ c.outcome \in {"identical", "different"}
    /\ c.profile = "byte_identity" /\ c.warning = c.outcome

Stages == {"original_observation", "current_observation", "image_import", "ai_proposal", "other"}

validate_public_session(s, fingerprint) ==
    /\ valid_session_name(s.session) /\ validate_presented_text(s.text)
    /\ s.roles = <<"original", "current", "ai_proposal">>
    /\ s.rationale = "redacted"
    /\ s.disposition \in {"adopt", "reject", "defer"}
    /\ <<s.selected_by_human, s.selected_artifact>> =
          IF s.disposition = "adopt" THEN <<TRUE, "ai_proposal">> ELSE <<FALSE, "current">>
    /\ \A c \in Range(s.comparison) : validate_comparison(c)
    /\ Range(s.timeline) \subseteq Stages /\ Len(s.timeline) <= MaxObjects
    /\ s.provenance.session = s.session /\ s.provenance.fingerprint = fingerprint
    /\ s.provenance.fsck_objects \in 1 .. MaxObjects
    /\ s.value = "retained"

validate_public_projection(p) ==
    LET selected == Len(p.sessions) + Len(p.incomplete)
        names == {s.session : s \in Range(p.sessions) \cup Range(p.incomplete)}
    IN /\ p.policy = "safe" /\ validate_presented_text(p.title)
       /\ selected <= MaxSessions /\ p.discovered <= MaxSessions
       /\ IF p.requested = "none" THEN p.discovered = selected
          ELSE /\ valid_session_name(p.requested) /\ selected = 1 /\ p.discovered > 0
               /\ p.requested \in names
       /\ p.claims = projection_limitations(p.sessions # <<>>)
       /\ (p.sessions = <<>>) = (p.fingerprint = "none")
       /\ Cardinality(names) = selected
       /\ \A s \in Range(p.sessions) : validate_public_session(s, p.fingerprint)
       /\ \A s \in Range(p.incomplete) :
             valid_session_name(s.session) /\ (s.proposal \/ s.decision)

\* The projection of one Ref snapshot, before it is checked: discovered sessions, in
\* order, each complete with a report, or incomplete
Projected(discovered, options) ==
    LET Named(s) == s.session = options.session
        selected == IF options.session = "none" THEN discovered
                    ELSE SelectSeq(discovered, Named)
        whole == SelectSeq(selected, LAMBDA s : s.state = "complete")
        part == SelectSeq(selected, LAMBDA s : s.state = "incomplete")
        names == {s.session : s \in Range(discovered)}
        fingerprints == {s.fingerprint : s \in Range(whole)}
    IN IF \/ ~validate_presentation(options.presentation)
          \/ Len(discovered) > MaxSessions
          \/ ~(DOMAIN options.presentation.sessions \subseteq names)
          \/ options.session # "none" /\ selected = <<>>
          \/ Cardinality(fingerprints) > 1
          \/ \E s \in Range(whole) : s.derived
       THEN Refused
       ELSE [visibility |-> options.visibility,
             policy |-> "safe",
             snapshot |-> discovered,
             fingerprint |-> IF whole = <<>> THEN "none" ELSE whole[1].fingerprint,
             claims |-> projection_limitations(whole # <<>>),
             title |-> Presented(options.presentation.title),
             requested |-> options.session,
             discovered |-> Len(discovered),
             sessions |-> [i \in DOMAIN whole |-> map_session(whole[i], options.presentation)],
             incomplete |-> [i \in DOMAIN part |->
                [session |-> part[i].session, proposal |-> part[i].proposal,
                 decision |-> part[i].decision]]]

\* The builder runs the reader's check on its own result.
build_public_projection(discovered, options) ==
    LET p == Projected(discovered, options)
    IN IF p = Refused THEN Refused
       ELSE IF validate_public_projection(p) THEN p ELSE Refused

-----------------------------------------------------------------------------
(* Generic artifacts *)

\* build_generic_artifact_complete_projection and _status_projection
build_generic(o) ==
    IF o.state = "complete"
    THEN [state |-> "complete", origin |-> "verified", policy |-> "safe",
          disposition |-> o.disposition,
          snapshot |-> IF o.disposition = "adopted" THEN "proposal" ELSE "base",
          site |-> "digest", reason |-> "none", visibility |-> o.visibility]
    ELSE [state |-> o.state, origin |-> "status", policy |-> "safe",
          disposition |-> "none", snapshot |-> "none", site |-> "none",
          reason |-> o.reason, visibility |-> o.visibility]

validate_generic_artifact_projection(p) ==
    /\ p.policy = "safe"
    /\ CASE p.state = "complete" ->
              /\ p.origin = "verified" /\ p.site = "digest" /\ p.reason = "none"
              /\ p.disposition \in {"adopted", "rejected", "deferred"}
              /\ p.snapshot = IF p.disposition = "adopted" THEN "proposal" ELSE "base"
         [] p.state = "pending" ->
              /\ p.origin = "status" /\ p.reason = "pending_review"
              /\ {p.disposition, p.snapshot, p.site} = {"none"}
         [] p.state = "incomplete" ->
              /\ p.origin = "status" /\ p.reason \in {"retryable", "unknown", "denied"}
              /\ {p.disposition, p.snapshot, p.site} = {"none"}

-----------------------------------------------------------------------------
(* Bundles: files by path *)

target_files(target) ==
    IF target = "github" THEN {"target/README.md", "target/index.html", "target/projection.json"}
    ELSE {"target/public-projection.json"}

target_content(path, files) ==
    CASE path \in {"target/projection.json", "target/public-projection.json"} ->
            files["projection.json"]
      [] path = "target/README.md" -> files["story.md"]
      [] path = "target/index.html" -> files["index.html"]

\* renderer_profile: the profile of a new bundle, v2 with a locale and v1 without
renderer_profile(locale) ==
    [version |-> IF locale = "none" THEN "v1" ELSE "v2", locale |-> locale]

render_views(p, renderer) ==
    [story |-> <<"story", p, renderer>>, html |-> <<"html", p, renderer>>]

target_checksummed_paths(target) ==
    {"index.html", "manifest.json", "projection.json", "story.md"} \cup target_files(target)

\* The files of export_bundle_inner and export_generic_artifact_bundle.  The manifest's
\* layout is its fixed paths and local_preview; its facts are the ones it repeats of the
\* projection (source snapshot, generator, outcome state, accepted site).
Bundle(profile, p, target, locale) ==
    LET renderer == renderer_profile(locale)
        views == render_views(p, renderer)
        core == [f \in {"projection.json", "story.md", "index.html", "manifest.json"} |->
                    CASE f = "projection.json" -> p
                      [] f = "story.md" -> views.story
                      [] f = "index.html" -> views.html
                      [] f = "manifest.json" ->
                           [profile |-> profile, schema |-> renderer.version,
                            renderer |-> renderer.version, locale |-> locale,
                            target |-> target, layout |-> "fixed", facts |-> p,
                            projection |-> p, visibility |-> p.visibility,
                            review_required |-> p.visibility # "public"]]
        listed == [f \in target_checksummed_paths(target) |->
                      IF f \in target_files(target) THEN target_content(f, core) ELSE core[f]]
    IN [f \in DOMAIN listed \cup {"checksums.json"} |->
           IF f = "checksums.json" THEN listed ELSE listed[f]]

\* the length of a file, in timeline entries
Length(f, content) ==
    LET Entries(p) == IF "sessions" \in DOMAIN p
                      THEN FoldSeq(LAMBDA s, n : n + Len(s.timeline), 0, p.sessions) ELSE 0
    IN CASE content = Junk \/ f \in {"manifest.json", "checksums.json"} -> 0
         [] f \in {"story.md", "index.html", "target/README.md", "target/index.html"} ->
               Entries(content[2])
         [] OTHER -> Entries(content)

Fits(files) == \A f \in DOMAIN files : Length(f, files[f]) <= MaxFile

\* An export writes no file that is over the limit.
export_bundle(profile, p, target, locale) ==
    LET files == Bundle(profile, p, target, locale)
    IN IF Fits(files) THEN files ELSE Refused

\* resolve_renderer_profile and resolve_generic_renderer: schema, profile and locale must
\* belong together; a bundle of schema v1 without a profile is from before profiles were
\* recorded and renders as v1
resolve_renderer_profile(m) ==
    IF \/ m.schema = "v1" /\ m.locale = "none" /\ m.renderer = "v1"
       \/ m.schema = "v1" /\ m.locale = "none" /\ m.renderer = "none" /\ m.profile = "creator"
       \/ m.schema = "v2" /\ m.locale # "none" /\ m.renderer = "v2" /\ m.profile = "creator"
    THEN renderer_profile(m.locale) ELSE Refused

\* the manifest, the checksums and the projection agree
Consistent(files) ==
    LET m == files["manifest.json"]
        sums == files["checksums.json"]
        p == files["projection.json"]
    IN /\ {"manifest.json", "checksums.json"} \subseteq DOMAIN files /\ Fits(files)
       /\ resolve_renderer_profile(m) # Refused /\ m.layout = "fixed"
       /\ DOMAIN sums = target_checksummed_paths(m.target)
       /\ DOMAIN files = DOMAIN sums \cup {"checksums.json"}
       /\ \A f \in DOMAIN sums : files[f] = sums[f]
       /\ m.projection = p
       /\ IF m.profile = "generic" THEN validate_generic_artifact_projection(p)
          ELSE validate_public_projection(p)
       /\ m.facts = p /\ m.visibility = p.visibility
       /\ m.review_required = (m.visibility # "public")

\* mutant: the views are taken as they are
verify_bundle_Unrendered(files) ==
    /\ Consistent(files)
    /\ \A f \in target_files(files["manifest.json"].target) : files[f] = target_content(f, files)

\* verify_bundle and verify_generic_artifact_bundle
verify_bundle(files) ==
    LET m == files["manifest.json"]
        views == render_views(files["projection.json"], resolve_renderer_profile(m))
    IN /\ Consistent(files)
       /\ files["story.md"] = views.story /\ files["index.html"] = views.html
       /\ \A f \in target_files(m.target) : files[f] = target_content(f, files)

-----------------------------------------------------------------------------
(* A reader is given bundles: exported ones, and others *)

\* files with one of them replaced, with its checksum or without
Altered(files, f, content) == [files EXCEPT ![f] = content]

Relisted(files, f, content) ==
    [files EXCEPT ![f] = content, !["checksums.json"][f] = content]

\* manifests that state other things in the same layout: any schema with any profile
\* and locale, and any other single field
Rewritten(m) ==
    {[m EXCEPT !.schema = s, !.renderer = r, !.locale = l] :
        s \in {"v1", "v2"}, r \in {"none", "v1", "v2", "other"}, l \in {"none", "ja", "en"}}
    \cup {[m EXCEPT !.target = t] : t \in {"github", "synapse"}}
    \cup {[m EXCEPT !.visibility = v, !.review_required = r] :
            v \in {"public", "private"}, r \in BOOLEAN}
    \cup {[m EXCEPT !.layout = "other"], [m EXCEPT !.facts = Junk],
          [m EXCEPT !.projection = Junk]}

\* m without the profile that resolve_renderer_profile takes for granted, or with it
Legacy(m, n) ==
    /\ m.profile = "creator" /\ m.locale = "none"
    /\ {m.renderer, n.renderer} = {"none", "v1"} /\ n = [m EXCEPT !.renderer = n.renderer]

BundleInit(cases) == case \in cases

BundleNext == UNCHANGED case

\* Whatever the sessions, the options and the author's text are, a projection
\* that passes the builder's own conditions passes the verifier that reads it
\* back: its export fails only on a file over the size limit, and exactly then
\* the reader would refuse the files too.  It never claims verified facts
\* without a verified session, and leaves no selected session out.
BuiltMeansAccepted ==
    /\ case.kind = "export" =>
          LET p == Projected(case.discovered, case.options)
          IN p # Refused =>
                /\ build_public_projection(case.discovered, case.options) = p
                /\ verify_bundle(Bundle("creator", p, case.target, case.locale)) =
                      (export_bundle("creator", p, case.target, case.locale) # Refused)
                /\ p.claims.scope = "complete" => \E s \in Range(case.discovered) :
                      s.state = "complete"
                /\ Len(p.sessions) + Len(p.incomplete) =
                      IF case.options.session = "none" THEN Len(case.discovered) ELSE 1
    /\ case.kind = "generic" =>
          verify_bundle(export_bundle("generic", build_generic(case.outcome), case.target,
                                      "none"))

\* A bundle in which a single file was replaced, by that of another bundle or by
\* anything else, is refused even if its checksum was made to match: every view
\* and every copy must render from the projection, and the manifest may state
\* nothing else.  The one exception is the manifest of an unlocalized Creator
\* bundle without its renderer profile: with its checksum it is the bundle of
\* an earlier version, and means the same.
ChangesAreNoticed ==
    case.kind = "changed" =>
        \A f \in DOMAIN case.files :
        \A content \in {case.other[f]}
                        \cup (IF f \in {"manifest.json", "checksums.json"} THEN {} ELSE {Junk})
                        \cup (IF f = "manifest.json" THEN Rewritten(case.files[f]) ELSE {}) :
            content # case.files[f] =>
                /\ ~verify_bundle(Altered(case.files, f, content))
                /\ f # "checksums.json" =>
                      verify_bundle(Relisted(case.files, f, content)) =
                         (f = "manifest.json" /\ Legacy(case.files[f], content))

\* A bundle made by other means, consistent in itself, is accepted only if its
\* facts agree: the artifact that the reviewer's disposition selects, a claim of
\* verification with exactly the sessions that support it, each verified within
\* the limits and under its own Refs, a comparison that warns of what it does not
\* show, a pending or failed outcome without any decided fact, and nothing private.
AcceptedFactsAgree ==
    case.kind = "made" =>
        LET p == case.projection
        IN verify_bundle(Bundle(case.profile, p, case.target, case.locale)) =>
           /\ p.policy = "safe"
           /\ case.profile = "creator" =>
                 /\ \A s \in Range(p.sessions) :
                       /\ (s.disposition = "adopt") = (s.selected_artifact = "ai_proposal")
                       /\ s.provenance.session = s.session /\ s.rationale = "redacted"
                       /\ s.provenance.fsck_objects > 0
                       /\ \A c \in Range(s.comparison) : c.warning = c.outcome
                 /\ (p.claims.scope = "complete") = (p.sessions # <<>>)
           /\ case.profile = "generic" =>
                 /\ (p.disposition # "none") = (p.state = "complete")
                 /\ p.snapshot = "proposal" => p.disposition = "adopted"
=============================================================================
