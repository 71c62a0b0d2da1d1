---------------------------- MODULE MCApplication -----------------------------
(***************************************************************************)
(* The authority of calls and the desk of the local service: permits and   *)
(* publications of the application layer, the authority checks of its two  *)
(* routes, approvals of the artifact workflow, confirmations and staged    *)
(* imports, and the requests of the HTTP server.  The parts do not run     *)
(* together: each behaviour is a behaviour of the part that it starts      *)
(* with.                                                                   *)
(***************************************************************************)
EXTENDS Application, ApprovalRegistry, Confirmations, HttpServer, TLC

CONSTANTS t1, t2, Off

VARIABLES part, case

-----------------------------------------------------------------------------
(* A proposal of an AI run and a human decision about it, which both routes *)
(* accept, and changes to the stored objects and to the requests, alone and *)
(* in pairs.                                                                *)

ObjectKinds ==
    [o \in {"b0", "p1", "d1"} |-> "commit"] @@ [o \in {"t0", "t1", "t2"} |-> "tree"]
    @@ [o \in {"img", "out", "extra"} |-> "blob"]
    @@ [o \in {"human", "agent", "policy", "policy2", "grant", "import", "ctx", "run",
               "claim", "fb"} |-> "record"]

Stored(fields) == [present |-> TRUE, bytes |-> 1] @@ fields

CommitOf(kind, snapshot, parents, author, transitions) ==
    Stored([commit_kind |-> kind, snapshot |-> snapshot, parents |-> parents,
            author |-> author, transitions |-> transitions, declarations |-> {}])

RecordOf(type, by, fields) == Stored([type |-> type, by |-> by] @@ fields)

AllCapabilities ==
    {"read_context", "analyze", "propose_branch", "submit_claim", "request_review",
     "render_preview"}

ActorOf(id, kind) ==
    RecordOf("actor", "hum", [refs |-> {}, entity |-> id, kind |-> kind,
                              capabilities |-> AllCapabilities])

Selector(at, sub) == [base |-> at, sub |-> sub, supported |-> TRUE]

InProject == Selector(<<"project", "prj">>, TRUE)

InProposals == Selector(<<"proposal">>, TRUE)

Rule(action, selector, effect) ==
    [action |-> action, selector |-> selector, effect |-> effect, condition |-> FALSE,
     gate |-> "none"]

GateRule ==
    [Rule("publish", Selector(<<"decision", "main">>, FALSE), "require_human_gate")
        EXCEPT !.gate = "before_decision_ref"]

Rules ==
    <<Rule("read", InProject, "allow"), Rule("derive", InProject, "allow"),
      Rule("propose", InProposals, "allow"), GateRule>>

PolicyRecord ==
    RecordOf("policy", "hum", [refs |-> {}, scope |-> {"prj"}, rules |-> Rules,
                               default |-> "deny"])

GrantedCapabilities == {"read_context", "propose_branch", "submit_claim"}

GrantRecord ==
    RecordOf("delegation_grant", "hum",
             [refs |-> {}, delegate |-> "bot", principal |-> "hum", project |-> "prj",
              classes |-> {"internal"}, resources |-> {InProject},
              prefixes |-> {<<"proposal", "a">>}, capabilities |-> GrantedCapabilities, from |-> 1,
              until |-> 4, max_output_bytes |-> 3, gates |-> {"before_decision_ref"}])

ContextRecord ==
    RecordOf("context_pack", "hum",
             [grant |-> "grant", policy |-> "policy", base_commit |-> "b0",
              expected_ref_head |-> "b0", selected |-> {"b0"},
              base_ref |-> <<"decision", "main">>, classification |-> "internal"])

InRole(role, o) == [role |-> role, oid |-> o]

RunRecord ==
    RecordOf("activity", "bot",
             [activity_kind |-> "ai_run", status |-> "proposal_ready",
              side_effect |-> "none", agent |-> "bot", principal |-> "hum",
              actors |-> <<[role |-> "agent", actor |-> "bot"],
                           [role |-> "responsible_principal", actor |-> "hum"]>>,
              context |-> "ctx", grant |-> "grant", inputs |-> <<InRole("context", "ctx")>>,
              outputs |-> <<InRole("proposal", "out"), InRole("claim", "claim")>>,
              prompts |-> {}, gates |-> {"before_decision_ref"}, capabilities |-> GrantedCapabilities])

Claimed == <<"propose_branch", "read_context", "submit_claim">>

BaseEntries == {"human", "agent", "policy", "grant", "import", "img"}

ProposalEntries == BaseEntries \cup {"ctx", "run", "claim", "out"}

GenuineCase ==
    [o \in {"img", "out", "extra"} |-> Stored(<<>>)]
    @@ ("b0" :> CommitOf("decision", "t0", <<>>, "hum", <<>>))
    @@ ("p1" :> CommitOf("checkpoint", "t1", <<"b0">>, "bot", <<"run">>))
    @@ ("d1" :> CommitOf("decision", "t1", <<"b0">>, "hum", <<"fb">>))
    @@ ("t0" :> Stored([entries |-> BaseEntries]))
    @@ ("t1" :> Stored([entries |-> ProposalEntries]))
    @@ ("t2" :> Stored([entries |-> {"out"}]))
    @@ ("human" :> ActorOf("hum", "human")) @@ ("agent" :> ActorOf("bot", "ai_agent"))
    @@ ("policy" :> PolicyRecord) @@ ("policy2" :> PolicyRecord)
    @@ ("import" :> RecordOf("import", "hum", [refs |-> {"img"}]))
    @@ ("grant" :> GrantRecord) @@ ("ctx" :> ContextRecord) @@ ("run" :> RunRecord)
    @@ ("claim" :> RecordOf("claim", "bot", [refs |-> {"out"}, ai_run |-> FALSE]))
    @@ ("fb" :> RecordOf("decision_feedback", "hum",
                         [origin |-> "self_declared", proposal |-> "p1",
                          disposition |-> "adopted_unchanged"]))
    @@ ("authority" :>
          [actor |-> "bot", principal |-> "hum", project |-> "prj",
           base_ref |-> <<"decision", "main">>, actor_record |-> "agent",
           principal_record |-> "human", context_pack |-> "ctx", capabilities |-> Claimed,
           preflight_capabilities |-> Claimed, runtime |-> Claimed \o <<"analyze">>])
    @@ ("request" :>
          [ref |-> <<"proposal", "a", "x">>, expected |-> "none", new_head |-> "p1",
           activity |-> "run", side_effect |-> "none"])
    @@ ("review" :>
          [human |-> "hum", human_record |-> "human", project |-> "prj",
           policy_record |-> "policy", decision_ref |-> <<"decision", "main">>,
           decision_head |-> "b0", proposal_ref |-> <<"proposal", "a", "x">>,
           proposal_head |-> "p1", new_head |-> "d1", feedback |-> "fb"])
    @@ ("world" :>
          [base_head |-> "b0", target_head |-> "none", proposal_head |-> "p1",
           decision_head |-> "b0", preflighted |-> 1, evaluated |-> 2, guarded |-> 3])

-----------------------------------------------------------------------------
(* Changes *)

To(o, f, values) == {[of |-> o, field |-> f, value |-> v] : v \in values}

\* what a proposal holds and is accounted for
Contents ==
    To("t1", "entries",
       {ProposalEntries \cup {"policy2"}, ProposalEntries \cup {"extra"},
        ProposalEntries \ {"grant"}, (ProposalEntries \ {"out"}) \cup {"t2"},
        ProposalEntries \ {"claim"}})
    \cup To("claim", "refs", {{"policy2"}, {"extra"}, {"policy"}})
    \cup To("ctx", "selected", {{"b0", "policy2"}, {"b0", "extra"}, {"b0", "claim"}})
    \cup To("run", "outputs",
            {<<InRole("proposal", "out")>>, <<InRole("preview", "claim")>>,
             <<InRole("proposal", "out"), InRole("claim", "claim"),
               InRole("proposal", "policy2")>>})
    \cup To("grant", "max_output_bytes", {2, 4, 9})

Policies ==
    To("policy", "rules",
       {<<Rule("propose", InProposals, "deny")>> \o Rules,
        Rules \o <<Rule("propose", InProposals, "deny")>>,
        <<Rule("read", InProject, "require_human_gate")>> \o Rules,
        <<[Rule("derive", InProject, "allow") EXCEPT !.condition = TRUE]>> \o Rules,
        Rules \o <<[Rule("derive", InProject, "deny") EXCEPT !.selector.supported = FALSE]>>,
        <<Rule("publish", Selector(<<"decision">>, TRUE), "deny")>> \o Rules,
        <<GateRule>>})
    \cup To("policy", "default", {"allow"}) \cup To("policy", "scope", {{}})
    \cup To("policy", "by", {"bot"})

Others ==
    To("p1", "commit_kind", {"decision"}) \cup To("p1", "parents", {<<>>})
    \cup To("p1", "author", {"hum"}) \cup To("p1", "transitions", {<<"run", "import">>})
    \cup To("p1", "declarations", {{"extra"}}) \cup To("p1", "snapshot", {"t0"})
    \cup To("b0", "transitions", {<<"fb">>})
    \cup To("agent", "kind", {"human"}) \cup To("agent", "capabilities", {{"propose_branch"}})
    \cup To("human", "kind", {"organization"}) \cup To("human", "by", {"bot"})
    \cup To("run", "by", {"hum"}) \cup To("run", "status", {"running"})
    \cup To("run", "side_effect", {"external"}) \cup To("run", "agent", {"hum"})
    \cup To("run", "inputs", {<<>>}) \cup To("run", "capabilities", {AllCapabilities})
    \cup To("run", "gates", {{}}) \cup To("run", "prompts", {{"extra"}})
    \cup To("run", "grant", {"policy2"})
    \cup To("grant", "gates", {{}}) \cup To("grant", "until", {3})
    \cup To("grant", "delegate", {"hum"}) \cup To("grant", "resources", {{}})
    \cup To("grant", "prefixes", {{<<"proposal", "b">>}, {<<"proposal", "a">>, <<"decision">>}})
    \cup To("ctx", "policy", {"policy2"}) \cup To("ctx", "expected_ref_head", {"p1"})
    \cup To("ctx", "classification", {"secret"})
    \cup To("ctx", "base_ref", {<<"release", "main">>})
    \cup To("claim", "by", {"hum"}) \cup To("claim", "type", {"policy", "analysis_result"})
    \cup To("claim", "ai_run", {TRUE})
    \cup To("out", "present", {FALSE}) \cup To("extra", "present", {FALSE})
    \cup To("authority", "preflight_capabilities",
            {<<"submit_claim", "propose_branch", "read_context", "read_context">>})
    \cup To("authority", "runtime", {<<"propose_branch">>})
    \cup To("authority", "base_ref", {<<"release", "main">>})
    \cup To("request", "ref", {<<"decision", "main">>, <<"proposal", "ab">>})
    \cup To("request", "expected", {"p0"}) \cup To("request", "side_effect", {"project_internal"})
    \cup To("world", "base_head", {"d1"}) \cup To("world", "guarded", {4})
    \cup To("world", "preflighted", {0})
    \cup To("d1", "snapshot", {"t0"}) \cup To("d1", "declarations", {{"policy2"}})
    \cup To("d1", "transitions", {<<"run">>})
    \cup To("fb", "disposition", {"rejected", "adopted_modified"}) \cup To("fb", "by", {"bot"})
    \cup To("review", "policy_record", {"policy2"})

AnyChange == Contents \cup Policies \cup Others

CaseChanges ==
    {<<>>} \cup {<<c>> : c \in AnyChange} \cup (Contents \X AnyChange)
    \cup ({c \in Contents : c.of = "t1"} \X {c \in Contents : c.of = "claim"} \X Contents)

-----------------------------------------------------------------------------
(* The parts *)

\* Recovered human decisions against other processes and a clock set back are
\* Application itself.  The AI route against revocation, new profiles, time,
\* changing sessions and executors that hang differs in what happens to it.
A == INSTANCE Application WITH
        Operations <- {"revoke", "replace", "register", "prepare", "publish"},
        MaxTime <- 1, MaxProposals <- 0, Relogins <- {"ai"}, ClockCanRetreat <- FALSE

K == INSTANCE Authority WITH
        KindOf <- ObjectKinds, Genuine <- GenuineCase, Changes <- CaseChanges

ApprovalSessions == {[actor |-> "a", id |-> "x"]}

ReviewProject == [r \in {"r"} |-> "p"]

ASSUME PartsAssumption ==
    ApplicationAssumption /\ A!ApplicationAssumption /\ RegistryAssumption

\* a session in some state, and the calls that clients make
DeskStart(state, of, menus) ==
    [session |-> [s \in {"s1", "s2", "s3"} |-> IF s = "s1" THEN state ELSE "absent"],
     handle |-> [s \in {"s1", "s2", "s3"} |-> IF s = "s1" THEN of ELSE "none"],
     menus |-> menus]

DeskStarts ==
    {DeskStart("absent", "none", {{"stage", "begin_staged", "cancel"}, {"fsck", "restore"}}),
     DeskStart("accepted", "none", {{"prepare_source", "derived"}}),
     DeskStart("deferred", "none", {{"prepare_source", "derived"}}),
     DeskStart("proposed", "ready", {{"prepare_reuse", "reuse", "decide"}}),
     DeskStart("proposed", "elsewhere", {{"prepare_reuse", "reuse"}})}

\* uploads, operations that are polled, and plain calls, of two projects
RequestCrowds ==
    {{"u1", "u2", "u3"}, {"o1", "o2", "o3"}, {"c1", "c2", "o1", "u1"}, {"c1", "c2", "o1", "o2"}}

KindOfRequest ==
    [r \in {"u1", "u2", "u3"} |-> "upload"] @@ [r \in {"o1", "o2", "o3"} |-> "operation"]
    @@ [r \in {"c1", "c2"} |-> "call"]

ProjectOfRequest ==
    [r \in {"u1", "u2", "o1", "o3", "c1"} |-> "p"] @@ [r \in {"u3", "o2"} |-> "q"]
    @@ [r \in {"c2"} |-> "overall"]

AllRequests == UNION RequestCrowds

-----------------------------------------------------------------------------
(* One part runs; the others stay as they start *)

allVars == <<part, case, vars, registryVars, deskVars, httpVars>>

DeskRests == sessionOf["s1"] = "absent" /\ menu = {"fsck", "restore"}

ServerRests == requestAt = [r \in Requests |-> IF r \in {"u1", "u2", "u3"} THEN "new" ELSE "away"]

SuiteInit ==
    /\ Init /\ RegistryInit /\ DeskInit /\ HttpInit
    /\ part \in {"ai", "human", "approvals", "desk", "server", "authority"}
    /\ part # "desk" => DeskRests
    /\ part # "server" => ServerRests
    /\ IF part = "authority" THEN K!AuthorityInit ELSE case = Off

\* the work of the later parts ends when their bounds are used up
SuiteNext ==
    \/ /\ \/ part = "ai" /\ A!Next
          \/ part = "human" /\ Next
       /\ UNCHANGED <<part, case, registryVars, deskVars, httpVars>>
    \/ /\ part = "approvals" /\ RegistryNext
       /\ UNCHANGED <<part, case, vars, deskVars, httpVars>>
    \/ /\ part = "desk" /\ DeskNext
       /\ UNCHANGED <<part, case, vars, registryVars, httpVars>>
    \/ /\ part = "server" /\ HttpNext
       /\ UNCHANGED <<part, case, vars, registryVars, deskVars>>
    \/ /\ part = "authority" /\ K!AuthorityNext
       /\ UNCHANGED <<part, vars, registryVars, deskVars, httpVars>>
    \/ part \in {"approvals", "desk", "server"} /\ UNCHANGED allVars

SuiteSpec == SuiteInit /\ [][SuiteNext]_allVars

Symmetry == Permutations({t1, t2})

-----------------------------------------------------------------------------
(* Properties; the others are stated in the modules of their parts          *)

\* The routes agree on what is authorised.  A proposal that the AI route accepted
\* can be decided by its principal: the reviewer's chain of checks demands
\* nothing more than the listed points.  A preflight neither adds nor takes away
\* authority.  And the verdict of a Policy does not depend on the order of its
\* rules (publish_proposal_internal, require_ai_proposal_chain,
\* require_resolved_preflight_binding, authorize_policy_capability).
RoutesAgree ==
    part = "authority" => /\ K!AcceptedCanBeDecided
                          /\ K!PreflightIsFaithful
                          /\ K!PolicyIsOrderFree

\* An accepted AI proposal stays within its grant: the actors, policies, grants
\* and Tombstones of its base are exactly as they were, whatever its outputs
\* refer to, and what it adds, or what its adoption adds to the canonical
\* snapshot, fits max_output_bytes (require_candidate_output_binding).
GrantsAreKept ==
    part = "authority" => K!ControlsAreKept /\ K!OutputsAreAccounted
=============================================================================
