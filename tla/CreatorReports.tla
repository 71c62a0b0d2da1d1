--------------------------- MODULE CreatorReports ---------------------------
(***************************************************************************)
(* Creator sessions and the reports rebuilt from them (synapse-creator:    *)
(* session.rs, source.rs, report.rs, overview.rs, notes.rs,                *)
(* annotations.rs).                                                        *)
(*                                                                         *)
(* A session is a pair of Refs.  `begin` writes a base Commit (images,     *)
(* Observations, comparison, import Activity) and a proposal Commit and    *)
(* publishes them one Ref after the other; `decide` moves the decision Ref *)
(* from the base to a decision Commit.  A session may be derived from      *)
(* another one: its import Activity carries an immutable binding to both   *)
(* heads of the source.  Nothing but the object graph and the Refs is      *)
(* kept, so a report is rebuilt by re-validating that graph.               *)
(*                                                                         *)
(* An OID is the object's role with the number of the `begin` that wrote   *)
(* it (Commits of other origin have names of their own, in Stored), and    *)
(* `objects` is what has been written since the start.  An entity id is    *)
(* <<number, role>> (SessionIds::fresh).                                   *)
(***************************************************************************)
EXTENDS Naturals, FiniteSets, TLC

CONSTANTS
  Sessions,      \* session names
  Startable,     \* the names callers begin sessions under
  Sources,       \* the sessions callers ask to derive from
  Inputs,        \* the triples of image Blobs callers bring, by role
  PinSets,       \* the sets of decision pins callers attach
  MaxDepth,      \* CREATOR_MAX_SOURCE_DEPTH (16 in the code)
  MaxBegins,     \* bound: number of `begin` calls that write
  Clients,       \* callers with a pending session of their own
  Stored,        \* objects of other origin already in the repository
  Starts,        \* where the repository may start: its Refs, and how many of
                 \* the MaxBegins calls are behind it
  Recognized,    \* implementation Blobs the report reader accepts
  Implementation,\* the implementation Blob of the running adapter
  NoHead,        \* an absent Ref; also an absent optional field
  Refused        \* an error instead of a value

VARIABLES
  refs,          \* session -> [decision, proposal]
  objects,       \* OID -> object, written by `begin` and `decide`
  begun,         \* number of `begin` calls that wrote objects
  pc,            \* client -> "idle", "prepared", "based", "pending"
  session,       \* client -> the session it is writing
  number,        \* client -> the number of its `begin`
  held,          \* client -> the source binding it was offered
  finished       \* history: session -> what was decided (or NoHead)

creatorVars == <<refs, objects, begun, pc, session, number, held, finished>>

Dispositions == {"adopt", "reject", "defer"}

Object(oid) == IF oid \in DOMAIN objects THEN objects[oid] ELSE Stored[oid]

CreatorInit ==
  /\ \E start \in Starts : refs = start.refs /\ begun = start.begun
  /\ objects = <<>>
  /\ pc = [c \in Clients |-> "idle"]
  /\ session = [c \in Clients |-> NoHead]
  /\ number = [c \in Clients |-> 0]
  /\ held = [c \in Clients |-> NoHead]
  /\ finished = [s \in Sessions |-> NoHead]

-----------------------------------------------------------------------------
(* Reading a session back: report.rs.                                      *)

\* The session manifest of the base Tree names the session; its identities
\* carry the number of the `begin` that made them.
load_session_ids_from_base(s, tree) ==
  LET t == Object(tree)
  IN  IF t.type = "tree" /\ t.manifest.session = s /\ t.subject = <<t.manifest.number, "subject">>
        THEN t.manifest.number
        ELSE Refused

load_session_ids(s, decision_head) ==
  LET d == Object(decision_head)
  IN  IF Cardinality(d.parents) = 1
        THEN load_session_ids_from_base(s, Object(CHOOSE p \in d.parents : TRUE).snapshot)
        ELSE Refused

\* The four comparison entries are all there or all absent (Refused stands
\* for a Tree with only some of them).
load_base_snapshot_pointers(tree) ==
  LET t == Object(tree)
  IN  t.type = "tree" /\ t.import # NoHead /\ t.comparison # Refused

BaseTransitions(t) ==
  {t.import} \cup (IF t.comparison = NoHead THEN {} ELSE {t.comparison})

Is(o, type, kind, author) == o.type = type /\ o.kind = kind /\ o.author = author

One(S) == CHOOSE x \in S : TRUE

\* The decision, its base, the proposal, the feedback and the AI Activity
\* belong together; the decided snapshot is the one the disposition selects.
validate_report_lineage(n, decision_head, proposal_head) ==
  LET d == Object(decision_head)
      p == Object(proposal_head)
      base == Object(One(d.parents))
      feedback == Object(One(d.transitions))
      ai == Object(One(p.transitions))
  IN  /\ Is(d, "commit", "decision", <<n, "creator">>)
      /\ Cardinality(d.parents) = 1 /\ Cardinality(d.transitions) = 1
      /\ Is(base, "commit", "checkpoint", <<n, "creator">>)
      /\ load_base_snapshot_pointers(base.snapshot)
      /\ base.transitions = BaseTransitions(Object(base.snapshot))
      /\ Is(p, "commit", "checkpoint", <<n, "agent">>)
      /\ p.parents = d.parents
      /\ Cardinality(p.transitions) = 1
      /\ Is(feedback, "record", "decision_feedback", <<n, "creator">>)
      /\ feedback.entity = <<n, "feedback">>
      /\ feedback.proposal = proposal_head
      /\ feedback.disposition \in Dispositions
      /\ d.snapshot = IF feedback.disposition = "adopt" THEN p.snapshot ELSE base.snapshot
      /\ Is(ai, "record", "activity", <<n, "agent">>)
      /\ ai.entity = <<n, "ai_activity">>
      /\ ai.status = "proposal_ready"

\* A decision of an interrupted session was never published: its decision
\* Ref holds the base itself.
InterruptedLineage(n, base_head, proposal_head) ==
  LET base == Object(base_head)
      p == Object(proposal_head)
  IN  /\ Is(base, "commit", "checkpoint", <<n, "creator">>)
      /\ Is(p, "commit", "checkpoint", <<n, "agent">>)
      /\ p.parents = {base_head}
      /\ Cardinality(p.transitions) = 1
      /\ Object(One(p.transitions)).entity = <<n, "ai_activity">>
      /\ load_base_snapshot_pointers(base.snapshot)

\* The comparison evidence: its tool is not the AI agent, it compares the
\* session's own Observations, says what the two Blobs say, and was made by
\* an implementation of a known release (checked last).
validate_comparison_report(n, tree) ==
  LET a == Object(tree.comparison)
  IN  /\ Is(a, "record", "analysis_result", <<n, "observation_tool">>)
      /\ a.entity = <<n, "byte_identity_analysis">>
      /\ a.inputs = <<tree.original_observation, tree.current_observation>>
      /\ a.base_media = Object(tree.original_observation).media
      /\ a.target_media = Object(tree.current_observation).media
      /\ a.outcome = IF a.base_media = a.target_media THEN "identical" ELSE "different"
      /\ a.implementation \in Recognized

read_annotations(feedback, blobs) ==
  IF feedback.pins = NoHead
    THEN [pins |-> {}, unavailable |-> FALSE]
    ELSE IF \A pin \in feedback.pins : pin.blob = blobs[pin.role]
      THEN [pins |-> feedback.pins, unavailable |-> FALSE]
      ELSE [pins |-> {}, unavailable |-> TRUE]

read_generation_note(ai) ==
  IF ai.note = NoHead THEN TRUE ELSE ai.note.activity = ai.entity /\ ai.note.output = ai.output

\* Both forms of a binding name the heads of their source, which are also
\* the only typed input edges of the import Activity.
read_source(import) ==
  IF import.source = NoHead
    THEN NoHead
    ELSE IF /\ import.kind = "import"
            /\ import.inputs = {import.source.decision_head, import.source.proposal_head}
      THEN import.source
      ELSE Refused

-----------------------------------------------------------------------------
(* Source chains.  A chain is followed from pinned heads, never from the   *)
(* current Refs of the source.                                             *)

SourceImport(b) ==
  LET d == Object(b.decision_head)
      base == IF b.kind = "interrupted_pending" THEN d ELSE Object(One(d.parents))
  IN  Object(Object(base.snapshot).import)

SourceNumber(b) ==
  IF b.kind = "interrupted_pending"
    THEN load_session_ids_from_base(b.session, Object(b.decision_head).snapshot)
    ELSE load_session_ids(b.session, b.decision_head)

BindingFits(b) ==
  LET n == SourceNumber(b)
      d == Object(b.decision_head)
      import == SourceImport(b)
      disposition == Object(One(d.transitions)).disposition
  IN  /\ n # Refused
      /\ IF b.kind = "interrupted_pending"
           THEN InterruptedLineage(n, b.decision_head, b.proposal_head)
           ELSE /\ validate_report_lineage(n, b.decision_head, b.proposal_head)
                /\ disposition = IF b.form = "reuse" THEN "defer" ELSE b.disposition
      /\ import.entity = <<n, "import_activity">>
      /\ import.original = b.original /\ import.current = b.current
      /\ b.form = "reuse" =>
           Object(One(Object(b.proposal_head).transitions)).output = b.ai_output

\* Mutant: the chain limit is one link too tight.
validate_binding_Tight(b, depth) ==
  IF depth + 1 >= MaxDepth \/ ~BindingFits(b) THEN Refused ELSE 1

\* validate_reuse_source_binding and validate_source_binding: the length of
\* the chain that starts at binding b, or Refused.
RECURSIVE validate_binding(_, _)

validate_binding(b, depth) ==
  IF depth >= MaxDepth \/ ~BindingFits(b)
    THEN Refused
    ELSE LET next == read_source(SourceImport(b))
         IN  IF next = Refused THEN Refused
             ELSE IF next = NoHead THEN 1
             ELSE LET rest == validate_binding(next, depth + 1)
                  IN  IF rest = Refused THEN Refused ELSE rest + 1

\* The report of the session whose heads are given; `depth` is how many
\* sources have been followed to get here.
RECURSIVE render_report_in_scope(_, _, _, _)

Facts(s, d, p) ==
  LET decision == Object(d)
      tree == Object(Object(One(decision.parents)).snapshot)
      ai == Object(One(Object(p).transitions))
      feedback == Object(One(decision.transitions))
      blobs == [original |-> Object(tree.original_observation).media,
                current |-> Object(tree.current_observation).media,
                ai_output |-> ai.output]
  IN  [session |-> s, decision_head |-> d, proposal_head |-> p,
       disposition |-> feedback.disposition,
       selected |-> feedback.disposition = "adopt",
       blobs |-> blobs,
       annotations |-> read_annotations(feedback, blobs)]

from_report(r) ==
  [form |-> "source", kind |-> "complete", session |-> r.session,
   decision_head |-> r.decision_head, proposal_head |-> r.proposal_head,
   disposition |-> r.disposition,
   original |-> r.blobs.original, current |-> r.blobs.current, ai_output |-> NoHead]

ReuseBinding(s, kind, d, p, blobs) ==
  [form |-> "reuse", kind |-> kind, session |-> s, decision_head |-> d, proposal_head |-> p,
   disposition |-> NoHead,
   original |-> blobs.original, current |-> blobs.current, ai_output |-> blobs.ai_output]

render_report_in_scope(s, d, p, depth) ==
  LET n == load_session_ids(s, d)
  IN  IF depth > MaxDepth \/ n = Refused THEN Refused
      ELSE IF ~validate_report_lineage(n, d, p) THEN Refused
      ELSE LET tree == Object(Object(One(Object(d).parents)).snapshot)
               facts == Facts(s, d, p)
               source == read_source(Object(tree.import))
               Done(k) == facts @@ [depth |-> k]
           IN  IF \/ ~read_generation_note(Object(One(Object(p).transitions)))
                  \/ tree.comparison # NoHead /\ ~validate_comparison_report(n, tree)
                  \/ source = Refused
                 THEN Refused
               ELSE IF source = NoHead THEN Done(0)
               ELSE IF \/ facts.blobs.original # source.original
                       \/ facts.blobs.current # source.current
                 THEN Refused
               ELSE IF source.form = "source"
                 THEN LET r == render_report_in_scope(source.session, source.decision_head,
                                                     source.proposal_head, depth + 1)
                      IN  IF r = Refused THEN Refused
                          ELSE IF from_report(r) # source THEN Refused
                          ELSE Done(r.depth + 1)
                 ELSE LET k == validate_binding(source, depth)
                      IN  IF k = Refused \/ facts.blobs.ai_output # source.ai_output
                            THEN Refused ELSE Done(k)

\* prepare_creator_report_session: both Refs, and a decision Commit.
SessionState(s) ==
  IF refs[s].decision = NoHead /\ refs[s].proposal = NoHead THEN "not_found"
  ELSE IF refs[s].decision = NoHead \/ refs[s].proposal = NoHead THEN "incomplete"
  ELSE IF Object(refs[s].decision).kind # "decision" THEN "incomplete"
  ELSE "complete"

creator_report(s) ==
  IF SessionState(s) # "complete"
    THEN Refused
    ELSE render_report_in_scope(s, refs[s].decision, refs[s].proposal, 0)

\* A deferred session, or one whose decision was never published, can be
\* reviewed again with the same three Blobs.
creator_reuse_source(s) ==
  LET d == refs[s].decision
      p == refs[s].proposal
      r == creator_report(s)
      n == load_session_ids_from_base(s, Object(d).snapshot)
  IN  IF d = NoHead \/ p = NoHead THEN Refused
      ELSE IF SessionState(s) = "complete"
        THEN IF r = Refused THEN Refused
             ELSE IF r.disposition # "defer" THEN Refused
             ELSE ReuseBinding(s, "deferred_rereview", d, p, r.blobs)
        ELSE IF n = Refused THEN Refused
             ELSE IF ~InterruptedLineage(n, d, p) THEN Refused
             ELSE LET import == Object(Object(Object(d).snapshot).import)
                  IN  ReuseBinding(s, "interrupted_pending", d, p,
                        [original |-> import.original, current |-> import.current,
                         ai_output |-> Object(One(Object(p).transitions)).output])

\* The listing does not validate: a state from the Refs alone, and hints.
discover_creator_sessions ==
  [s \in {x \in Sessions : refs[x].decision # NoHead \/ refs[x].proposal # NoHead} |->
    IF /\ refs[s].proposal # NoHead /\ refs[s].decision # NoHead
       /\ Object(refs[s].decision).kind = "decision"
      THEN "complete" ELSE "incomplete"]

read_creator_session_overview(head, expect_complete) ==
  LET c == Object(head)
      feedback == Object(One(c.transitions))
      tree == Object(c.snapshot)
      complete == expect_complete /\ c.kind = "decision"
      source == Object(tree.import).source
  IN  [incomplete |-> expect_complete /\ ~complete,
       disposition |->
         IF complete /\ c.transitions # {} /\ feedback.kind = "decision_feedback"
           THEN feedback.disposition ELSE NoHead,
       source_session |-> IF source = NoHead THEN NoHead ELSE source.session]

-----------------------------------------------------------------------------
(* Writing a session: session.rs.                                          *)

\* The caller asks for a source (report or reuse) before it begins.
Prepare(c, s) ==
  /\ pc[c] = "idle" /\ held[c] = NoHead
  /\ \E b \in {creator_reuse_source(s)} \cup
              {IF r = Refused THEN Refused ELSE from_report(r) : r \in {creator_report(s)}} :
       /\ b # Refused
       /\ held' = [held EXCEPT ![c] = b]
  /\ UNCHANGED <<refs, objects, begun, pc, session, number, finished>>

\* `begin` accepts the source: its chain is valid and short enough, and the
\* binding is what the source's report says now.
begin_accepts(b) ==
  IF b = NoHead THEN TRUE
  ELSE IF b.form = "source"
    THEN LET r == creator_report(b.session)
         IN  IF r = Refused THEN FALSE ELSE from_report(r) = b /\ r.depth < MaxDepth
    ELSE LET k == validate_binding(b, 0)
             r == creator_report(b.session)
         IN  IF k = Refused THEN FALSE
             ELSE b.kind = "interrupted_pending" \/
                  (IF r = Refused THEN FALSE
                   ELSE /\ b.decision_head = r.decision_head /\ b.proposal_head = r.proposal_head
                        /\ [original |-> b.original, current |-> b.current,
                            ai_output |-> b.ai_output] = r.blobs
                        /\ r.depth < MaxDepth)

\* The Records and Commits a session is made of, by their facts the report
\* reads back.  The numbers stand for the identifiers of one `begin`.
envelope(kind, entity, author) ==
  [type |-> "record", kind |-> kind, author |-> author, entity |-> entity]

observation_record(n, role, blob) ==
  envelope("observation", <<n, role>>, <<n, "creator">>) @@ [media |-> blob]

\* With the source of a derived session attached: its two heads are inputs.
import_activity_record(n, blobs, b) ==
  envelope("import", <<n, "import_activity">>, <<n, "creator">>) @@
  [original |-> blobs.original, current |-> blobs.current, source |-> b,
   inputs |-> IF b = NoHead THEN {} ELSE {b.decision_head, b.proposal_head}]

\* With the generation note, which names the Activity and its output.
ai_activity_record(n, output) ==
  envelope("activity", <<n, "ai_activity">>, <<n, "agent">>) @@
  [status |-> "proposal_ready", output |-> output,
   note |-> [activity |-> <<n, "ai_activity">>, output |-> output]]

feedback_record(n, disposition, pins) ==
  envelope("decision_feedback", <<n, "feedback">>, <<n, "creator">>) @@
  [proposal |-> <<"proposal", n>>, disposition |-> disposition,
   pins |-> IF pins = {} THEN NoHead ELSE pins]

\* The recorded byte comparison of the two Observations.
record_byte_identity_comparison(n, blobs) ==
  envelope("analysis_result", <<n, "byte_identity_analysis">>, <<n, "observation_tool">>) @@
  [inputs |-> <<<<"original", n>>, <<"current", n>>>>,
   base_media |-> blobs.original, target_media |-> blobs.current,
   outcome |-> IF blobs.original = blobs.current THEN "identical" ELSE "different",
   implementation |-> Implementation]

manifest_tree(n, s, ai) ==
  [type |-> "tree", manifest |-> [session |-> s, number |-> n],
   subject |-> <<n, "subject">>, import |-> <<"import", n>>, comparison |-> <<"comparison", n>>,
   original_observation |-> <<"original", n>>, current_observation |-> <<"current", n>>,
   ai |-> ai]

commit(kind, author, parents, snapshot, transitions) ==
  [type |-> "commit", kind |-> kind, author |-> author, parents |-> parents,
   snapshot |-> snapshot, transitions |-> transitions]

\* The objects one `begin` writes, before either Ref is published.
BeginObjects(n, s, blobs, b) ==
  (<<"original", n>> :> observation_record(n, "original_observation", blobs.original)) @@
  (<<"current", n>> :> observation_record(n, "current_observation", blobs.current)) @@
  (<<"comparison", n>> :> record_byte_identity_comparison(n, blobs)) @@
  (<<"import", n>> :> import_activity_record(n, blobs, b)) @@
  (<<"base_tree", n>> :> manifest_tree(n, s, NoHead)) @@
  (<<"base", n>> :> commit("checkpoint", <<n, "creator">>, {}, <<"base_tree", n>>,
                           {<<"import", n>>, <<"comparison", n>>})) @@
  (<<"ai", n>> :> ai_activity_record(n, blobs.ai_output)) @@
  (<<"proposal_tree", n>> :> manifest_tree(n, s, <<"ai", n>>)) @@
  (<<"proposal", n>> :> commit("checkpoint", <<n, "agent">>, {<<"base", n>>},
                               <<"proposal_tree", n>>, {<<"ai", n>>}))

\* Everything before the first Ref is published.  A derived session must
\* have brought the source's own bytes.
begin_creator_session(c, s, blobs) ==
  /\ pc[c] = "idle" /\ begun < MaxBegins
  /\ SessionState(s) = "not_found"
  /\ begin_accepts(held[c])
  /\ held[c] # NoHead =>
       /\ blobs.original = held[c].original /\ blobs.current = held[c].current
       /\ held[c].form = "reuse" => blobs.ai_output = held[c].ai_output
  /\ begun' = begun + 1
  /\ objects' = BeginObjects(begun + 1, s, blobs, held[c]) @@ objects
  /\ pc' = [pc EXCEPT ![c] = "prepared"]
  /\ session' = [session EXCEPT ![c] = s]
  /\ number' = [number EXCEPT ![c] = begun + 1]
  /\ UNCHANGED <<refs, held, finished>>

\* Mutant: only the session's own Ref is a precondition.
BasePreconditions_Own(c) == refs[session[c]].decision = NoHead

\* The first publication carries the source's heads as preconditions, and
\* for a derived session that its own proposal Ref is absent.
BasePreconditions(c) ==
  LET b == held[c]
  IN  /\ refs[session[c]].decision = NoHead
      /\ b # NoHead => /\ refs[b.session].decision = b.decision_head
                       /\ refs[b.session].proposal = b.proposal_head
                       /\ refs[session[c]].proposal = NoHead

PublishBase(c) ==
  /\ pc[c] = "prepared"
  /\ IF BasePreconditions(c)
       THEN /\ refs' = [refs EXCEPT ![session[c]].decision = <<"base", number[c]>>]
            /\ pc' = [pc EXCEPT ![c] = "based"]
            /\ UNCHANGED held
       ELSE /\ pc' = [pc EXCEPT ![c] = "idle"]
            /\ held' = [held EXCEPT ![c] = NoHead]
            /\ UNCHANGED refs
  /\ UNCHANGED <<objects, begun, session, number, finished>>

PublishProposal(c) ==
  /\ pc[c] = "based" /\ refs[session[c]].proposal = NoHead
  /\ refs' = [refs EXCEPT ![session[c]].proposal = <<"proposal", number[c]>>]
  /\ pc' = [pc EXCEPT ![c] = "pending"]
  /\ UNCHANGED <<objects, begun, session, number, held, finished>>

\* The Human decision: a feedback Record and a decision Commit on the base.
decide_creator_session(c, disposition, pins) ==
  LET n == number[c]
      s == session[c]
      base == <<"base", n>>
      ai == objects[<<"ai", n>>]
      tree == objects[<<"base_tree", n>>]
      blobs == [original |-> objects[tree.original_observation].media,
                current |-> objects[tree.current_observation].media, ai_output |-> ai.output]
  IN  /\ pc[c] = "pending" /\ refs[s].decision = base
      /\ \A pin \in pins : pin.blob = blobs[pin.role]
      /\ objects' =
           (<<"feedback", n>> :> feedback_record(n, disposition, pins)) @@
           (<<"decision", n>> :>
              commit("decision", <<n, "creator">>, {base},
                     IF disposition = "adopt" THEN <<"proposal_tree", n>> ELSE <<"base_tree", n>>,
                     {<<"feedback", n>>})) @@ objects
      /\ refs' = [refs EXCEPT ![s].decision = <<"decision", n>>]
      /\ finished' = [finished EXCEPT ![s] =
           [disposition |-> disposition, blobs |-> blobs, pins |-> pins]]
      /\ pc' = [pc EXCEPT ![c] = "idle"]
      /\ held' = [held EXCEPT ![c] = NoHead]
      /\ UNCHANGED <<begun, session, number>>

\* The process that held the pending session goes away.
DropPending(c) ==
  /\ pc[c] # "idle" \/ held[c] # NoHead
  /\ pc' = [pc EXCEPT ![c] = "idle"]
  /\ held' = [held EXCEPT ![c] = NoHead]
  /\ UNCHANGED <<refs, objects, begun, session, number, finished>>

CreatorNext ==
  \E c \in Clients :
    \/ \E s \in Sources : Prepare(c, s)
    \/ \E s \in Startable, blobs \in Inputs : begin_creator_session(c, s, blobs)
    \/ PublishBase(c)
    \/ PublishProposal(c)
    \/ \E d \in Dispositions, pins \in PinSets : decide_creator_session(c, d, pins)
    \/ DropPending(c)

CreatorSpec == CreatorInit /\ [][CreatorNext]_creatorVars

-----------------------------------------------------------------------------
(* Properties.                                                             *)

\* The number of sources behind an import Activity, counted without checks.
RECURSIVE Links(_)
Links(import) == IF import.source = NoHead THEN 0 ELSE 1 + Links(SourceImport(import.source))

\* A session that was decided keeps its report for ever: whatever happens to
\* the sessions it was derived from (a pending source may still be decided,
\* a Ref of it may move), the report can be rebuilt and says the decision,
\* the images, the pins and the derivation depth that were recorded.  The
\* limits of the writer and of the two chain validators agree.
FinishedSessionsStayReadable ==
  \A s \in Sessions : finished[s] # NoHead =>
    LET r == creator_report(s)
    IN  /\ r # Refused
        /\ r.disposition = finished[s].disposition /\ r.blobs = finished[s].blobs
        /\ r.annotations = [pins |-> finished[s].pins, unavailable |-> FALSE]
        /\ r.depth = Links(Object(<<"import", refs[s].decision[2]>>)) /\ r.depth <= MaxDepth

\* A report never misstates its graph, whoever wrote it: the decision is
\* about the proposal shown and made by the session's creator, the proposal
\* is the agent's, AI output counts as selected only if the decided Tree is
\* the proposal's, pins sit on the images shown, and the recorded comparison
\* says what the two images say.
ReportsAreTrue ==
  \A s \in Sessions :
    LET r == creator_report(s)
        d == Object(r.decision_head)
        p == Object(r.proposal_head)
        base == Object(One(d.parents))
        tree == Object(base.snapshot)
    IN  r # Refused =>
          /\ Object(One(d.transitions)).proposal = refs[s].proposal
          /\ d.author = base.author /\ p.author[1] = d.author[1] /\ p.author # d.author
          /\ d.snapshot = IF r.selected THEN p.snapshot ELSE base.snapshot
          /\ \A pin \in r.annotations.pins : pin.blob = r.blobs[pin.role]
          /\ tree.comparison # NoHead =>
               (Object(tree.comparison).outcome = "identical"
                  <=> r.blobs.original = r.blobs.current)

\* A derived session appears only while its source still has the heads the
\* binding names: a source that was decided or replaced after the caller
\* looked at it is refused by the same Ref transaction.
SourcesAreCurrentStep ==
  \A c \in Clients :
    pc[c] = "prepared" /\ pc'[c] = "based" /\ held[c] # NoHead =>
      /\ refs[held[c].session].decision = held[c].decision_head
      /\ refs[held[c].session].proposal = held[c].proposal_head

SourcesAreCurrent == [][SourcesAreCurrentStep]_creatorVars

\* The cheap listing and the verified report agree: the same sessions are
\* complete, and the hints shown for a session with a report are the
\* report's disposition and source.
ListingAgrees ==
  \A s \in DOMAIN discover_creator_sessions :
    LET r == creator_report(s)
        hints == read_creator_session_overview(refs[s].decision, TRUE)
    IN  /\ discover_creator_sessions[s] = SessionState(s)
        /\ r # Refused => /\ ~hints.incomplete
                          /\ hints.disposition = r.disposition
                          /\ (hints.source_session = NoHead <=> r.depth = 0)

\* Whatever source is offered (a finished session to derive from, a deferred
\* or interrupted one to review again) is accepted by `begin` in the same
\* state, unless the derivation limit is reached.
OffersAreAccepted ==
  \A s \in Sessions :
    LET r == creator_report(s)
        b == creator_reuse_source(s)
    IN  /\ r # Refused => (r.depth < MaxDepth => begin_accepts(from_report(r)))
        /\ b # Refused => (Links(SourceImport(b)) < MaxDepth => begin_accepts(b))
=============================================================================
