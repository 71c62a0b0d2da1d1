-------------------------- MODULE MCDerivedInputs ---------------------------
(***************************************************************************)
(* What the parts of MCDerived start from.                                 *)
(***************************************************************************)
EXTENDS Closure, TLC

CONSTANTS c0, c1, tr, img, o1, a1, x1, ts, x, y, Nothing, Refused

-----------------------------------------------------------------------------
(* A repository to project: two commits over one tree, an observation with *)
(* its image, an activity, an analysis, and a Tombstone for the image.     *)

MCOrder == <<img, c0, c1, a1, o1, ts, x1, tr>>

MCKind ==
    (img :> "blob") @@ (c0 :> "commit") @@ (c1 :> "commit") @@ (tr :> "tree")
        @@ [o \in {o1, a1, x1, ts} |-> "record"]

Commit(parents, transitions) ==
    [parents |-> parents, snapshot |-> tr, transitions |-> transitions,
     declarations |-> <<>>]

Field(p, o) == [pointer |-> p, oid |-> o]

Record(type, fields, subjects, time) ==
    [type |-> type, entity |-> "e", activity |-> "none", fields |-> fields,
     subjects |-> subjects, series |-> "z", time |-> time, recorded |-> 3]

Time(kind, from, to) == [kind |-> kind, from |-> from, to |-> to]

Untimed == Time("unknown", 0, 0)

ProjectGraph(activityTime, observationTime, analysis) ==
    (img :> [none |-> TRUE]) @@ (c0 :> Commit(<<>>, <<>>)) @@ (c1 :> Commit(<<c0>>, <<a1, x1>>))
        @@ (tr :> [entries |-> <<[kind |-> "record", oid |-> o1]>>])
        @@ (o1 :> Record("observation", <<Field("media_refs", img)>>, {"s1"}, observationTime))
        @@ (a1 :> Record("activity", <<>>, {"s1", "s2"}, activityTime))
        @@ (x1 :> Record("analysis_result", analysis, {}, Untimed))
        @@ (ts :> Record("tombstone", <<Field("target_ref", img)>>, {}, Untimed))

Analysis(implementation, further) ==
    <<Field("implementation_digest", implementation),
      Field("configuration_digest", implementation), Field("input", o1)>> \o further

ProjectGraphs ==
    {ProjectGraph(Time("interval", 2, 4), Untimed, Analysis(img, <<Field("derived_blob", img)>>)),
     ProjectGraph(Time("interval", 0, 0), Time("instant", 2, 0), <<>>),
     ProjectGraph(Time("interval", 0, 1), Time("instant", 2, 0),
                  Analysis(a1, <<Field("mask", img), Field("transform", o1)>>)),
     ProjectGraph(Untimed, Time("instant", 3, 0), <<Field("transform", img)>>)}

Whole == [o \in Objects |-> "intact"]

ProjectFiles ==
    {Whole, [Whole EXCEPT ![img] = "absent"], [Whole EXCEPT ![img] = "absent", ![ts] = "absent"],
     [Whole EXCEPT ![c0] = "absent", ![o1] = "absent"], [Whole EXCEPT ![a1] = "cut"]}

Ref(name, head, event) == [name |-> name, head |-> head, event |-> event]

RefSnapshots ==
    {<<>>, <<Ref("r", c1, 2)>>, <<Ref("q", c0, 1), Ref("r", c1, 2)>>,
     <<Ref("q", c1, 1), Ref("r", c1, 1)>>, <<Ref("q", c1, 1), Ref("r", c1, 2)>>,
     <<Ref("q", tr, 1)>>}

-----------------------------------------------------------------------------
(* The Creator sessions of a small repository: two that clients begin, and *)
(* stored ones of other origin, each of which departs in one or two points *)
(* from a session that fits.                                               *)

Fits ==
    [head |-> "decision", decider |-> "creator", disposition |-> "reject",
     snapshot |-> "base_tree", about |-> "proposal", proposal |-> "proposal",
     comparison |-> "comparison", outcome |-> "different", implementation |-> "release",
     pins |-> Nothing, output |-> y, source |-> Nothing]

Named(form, kind, session, disposition, output) ==
    [form |-> form, kind |-> kind, session |-> session,
     decision_head |-> <<"decision", session>>, proposal_head |-> <<"proposal", session>>,
     disposition |-> disposition, original |-> x, current |-> y, ai_output |-> output]

Pinned(blob) == {[role |-> "current", blob |-> blob]}

Stray ==
    <<Fits,
      [Fits EXCEPT !.disposition = "adopt", !.snapshot = "proposal_tree", !.pins = Pinned(x)],
      [Fits EXCEPT !.snapshot = "proposal_tree"],
      [Fits EXCEPT !.decider = "agent"],
      [Fits EXCEPT !.about = "other"],
      [Fits EXCEPT !.outcome = "identical"],
      [Fits EXCEPT !.comparison = Nothing, !.disposition = "defer", !.pins = Pinned(y)],
      [Fits EXCEPT !.comparison = Refused],
      [Fits EXCEPT !.implementation = "unknown"],
      [Fits EXCEPT !.output = x],
      [Fits EXCEPT !.head = "base"],
      [Fits EXCEPT !.head = "base", !.proposal = "other"],
      [Fits EXCEPT !.head = Nothing],
      [Fits EXCEPT !.proposal = Nothing],
      [Fits EXCEPT !.disposition = "defer",
                   !.source = Named("source", "complete", 11, "reject", Nothing)],
      [Fits EXCEPT !.source = Named("reuse", "deferred_rereview", 25, Nothing, y)]>>

NewSessions == 1 .. 2

StraySessions == {10 + k : k \in DOMAIN Stray}

AllSessions == NewSessions \cup StraySessions

ReportSources == NewSessions \cup {21, 25, 26}

StrayParts ==
    {"original", "current", "comparison", "import", "base_tree", "proposal_tree", "base",
     "ai", "proposal", "other", "feedback", "decision"}

CommitOf(kind, author, parents, tree, transitions) ==
    [type |-> "commit", kind |-> kind, author |-> author, parents |-> parents,
     snapshot |-> tree, transitions |-> transitions]

RecordOf(kind, author, entity) ==
    [type |-> "record", kind |-> kind, author |-> author, entity |-> entity]

StrayObject(p, n) ==
    LET v == Stray[n - 10]
        comparison ==
            IF v.comparison \in {Nothing, Refused} THEN v.comparison ELSE <<v.comparison, n>>
        With(record, fields) ==
            [f \in DOMAIN record \cup DOMAIN fields |->
                IF f \in DOMAIN fields THEN fields[f] ELSE record[f]]
    IN  CASE p \in {"original", "current"} ->
               With(RecordOf("observation", <<n, "creator">>, <<n, p>>),
                    [media |-> IF p = "original" THEN x ELSE y])
          [] p = "comparison" ->
               With(RecordOf("analysis_result", <<n, "observation_tool">>,
                             <<n, "byte_identity_analysis">>),
                    [inputs |-> <<<<"original", n>>, <<"current", n>>>>, base_media |-> x,
                     target_media |-> y, outcome |-> v.outcome,
                     implementation |-> v.implementation])
          [] p = "import" ->
               With(RecordOf("import", <<n, "creator">>, <<n, "import_activity">>),
                    [original |-> x, current |-> y, source |-> v.source,
                     inputs |-> IF v.source = Nothing THEN {}
                                ELSE {v.source.decision_head, v.source.proposal_head}])
          [] p \in {"base_tree", "proposal_tree"} ->
               [type |-> "tree", manifest |-> [session |-> n, number |-> n],
                subject |-> <<n, "subject">>, import |-> <<"import", n>>,
                comparison |-> comparison, original_observation |-> <<"original", n>>,
                current_observation |-> <<"current", n>>, ai |-> Nothing]
          [] p = "base" ->
               CommitOf("checkpoint", <<n, "creator">>, {}, <<"base_tree", n>>,
                        {<<"import", n>>} \cup ({comparison} \ {Nothing, Refused}))
          [] p = "ai" ->
               With(RecordOf("activity", <<n, "agent">>, <<n, "ai_activity">>),
                    [status |-> "proposal_ready", output |-> y,
                     note |-> [activity |-> <<n, "ai_activity">>, output |-> v.output]])
          [] p \in {"proposal", "other"} ->
               CommitOf("checkpoint", <<n, "agent">>,
                        IF p = "proposal" THEN {<<"base", n>>} ELSE {},
                        <<"proposal_tree", n>>, {<<"ai", n>>})
          [] p = "feedback" ->
               With(RecordOf("decision_feedback", <<n, "creator">>, <<n, "feedback">>),
                    [proposal |-> <<v.about, n>>, disposition |-> v.disposition,
                     pins |-> v.pins])
          [] p = "decision" ->
               CommitOf("decision", <<n, v.decider>>, {<<"base", n>>}, <<v.snapshot, n>>,
                        {<<"feedback", n>>})

StrayStored == [oid \in StrayParts \X StraySessions |-> StrayObject(oid[1], oid[2])]

StrayHeads(s) ==
    LET At(h) == IF h = Nothing THEN Nothing ELSE <<h, s>>
    IN  [decision |-> At(Stray[s - 10].head), proposal |-> At(Stray[s - 10].proposal)]

ReportStart(begun, stray) ==
    [begun |-> begun,
     refs |-> [s \in AllSessions |->
                 IF s \in stray THEN StrayHeads(s) ELSE [decision |-> Nothing, proposal |-> Nothing]]]

ReportStarts ==
    {ReportStart(0, {}), ReportStart(1, {11, 25, 26}), ReportStart(2, StraySessions)}

-----------------------------------------------------------------------------
(* JPEG and PNG files, Exif directories and language tags, of a few parts *)

UpTo(S, n) == UNION {[1 .. k -> S] : k \in 0 .. n}

Markers ==
    [kind : {"xmp", "media", "other", "scan", "end", "cut"}, gps : {"no"}]
    \cup [kind : {"exif"}, gps : {"yes", "no", "unclear"}]
    \cup [kind : {"xmp"}, gps : {"yes"}]

Chunk(kind, gps) ==
    [kind |-> kind, gps |-> gps, sound |-> TRUE, indexed |-> FALSE,
     size |-> IF kind \in {"eXIf", "zTXt", "iTXt"} THEN 1 ELSE 0]

Chunks ==
    {Chunk(k, "no") : k \in {"IDAT", "PLTE", "eXIf", "iTXt", "zTXt", "IEND", "anci"}}
    \cup {Chunk("eXIf", "yes"), Chunk("iTXt", "unclear"), Chunk("iTXt", "yes"),
          [Chunk("iTXt", "yes") EXCEPT !.sound = FALSE]}

\* entries that name further directories, and the GPS directory; 9 is outside
Sub(v) == [tag |-> "subs", values |-> v]

Gps(v) == [tag |-> "gps", values |-> <<v>>]

IfdEntries ==
    {<<>>, <<Gps(1)>>, <<Gps(9)>>, <<Sub(<<2>>)>>, <<Sub(<<3>>)>>, <<Sub(<<2, 3>>)>>,
     <<Sub(<<3>>), Gps(1)>>, <<Sub(<<2, 3, 4, 5>>)>>, <<Sub(<<2>>), Sub(<<4>>)>>}

Ifds == [entries : IfdEntries, next : {0, 2, 3, 9}]

SecondIfds ==
    [entries : {<<>>, <<Gps(1)>>, <<Sub(<<3>>)>>, <<Sub(<<3, 4>>)>>, <<Sub(<<3>>), Gps(1)>>},
     next : {0, 1, 3}]

InnerIfds == [entries : {<<>>, <<Gps(1)>>, <<Sub(<<2>>)>>}, next : {0, 1, 2}]

LastIfds == [entries : {<<>>, <<Gps(1)>>}, next : {0}]

Subtag(text, len, kind) ==
    [text |-> text, len |-> len, alpha |-> kind = "letter", digit |-> kind = "digit",
     first |-> kind]

Subtags ==
    {Subtag("en", 2, "letter"), Subtag("abc", 3, "letter"), Subtag("latn", 4, "letter"),
     Subtag("scouse", 6, "letter"), Subtag("a", 1, "letter"), Subtag("b", 1, "letter"),
     Subtag("x", 1, "letter"), Subtag("419", 3, "digit"), Subtag("1996", 4, "digit")}

ImageFiles ==
    [format : {"jpeg"}, data : UpTo(Markers, 4)]
    \cup [format : {"png"}, data : {<<Chunk("IHDR", "no")>> \o s : s \in UpTo(Chunks, 3)}]
    \cup [format : {"png"}, data : {<<[Chunk("IHDR", "no") EXCEPT !.indexed = TRUE]>> \o s :
                                      s \in UpTo(Chunks, 3)}]
    \cup [format : {"exif"}, data : Ifds \X SecondIfds \X InnerIfds \X LastIfds]
    \cup [format : {"tag"}, data : UpTo(Subtags, 4)]
    \cup {[format |-> "other", data |-> <<>>]}

-----------------------------------------------------------------------------
(* Offered files whose names collide or are not portable, and stored Trees *)

Letter ==
    [len |-> 1, key |-> "a", dot |-> FALSE, nul |-> FALSE, backslash |-> FALSE,
     control |-> FALSE, nfc |-> TRUE, reserved |-> FALSE, drive |-> FALSE]

Unusual(s) ==
    CASE s = "con" -> [Letter EXCEPT !.reserved = TRUE, !.len = 3]
      [] s = ".." -> [Letter EXCEPT !.dot = TRUE, !.len = 2]
      [] s = "c:" -> [Letter EXCEPT !.drive = TRUE, !.len = 2]
      [] s = "tab" -> [Letter EXCEPT !.control = TRUE]
      [] s = "nfd" -> [Letter EXCEPT !.nfc = FALSE, !.len = 3]
      [] s = "nul" -> [Letter EXCEPT !.nul = TRUE]
      [] s = "bs" -> [Letter EXCEPT !.backslash = TRUE]
      [] s = "long" -> [Letter EXCEPT !.len = 4]

\* "a" and "A" are equal when case is folded
Ordinary == {"a", "A", "b"}

Segments == Ordinary \cup {"con", "..", "c:", "tab", "nfd", "nul", "bs", "long"}

SegmentSyntax ==
    [s \in Segments |->
        IF s \in {"a", "A"} THEN Letter
        ELSE [(IF s = "b" THEN Letter ELSE Unusual(s)) EXCEPT !.key = s]]

OfferedPaths ==
    {<<s>> : s \in Segments} \cup (Ordinary \X Ordinary)
        \cup ({"a"} \X Ordinary \X {"b", "long"})
        \cup {<<>>, <<"a", "c:">>, <<"b", "..">>, <<"a", "a", "a", "a">>}

OfferedFile(p, k, n) == [path |-> p, kind |-> k, bytes |-> n]

OfferedFiles ==
    {<<OfferedFile(p, "regular_file", n), OfferedFile(q, "regular_file", 1)>> :
        p, q \in OfferedPaths, n \in 0 .. 3}
    \cup {<<OfferedFile(p, "regular_file", 0), OfferedFile(q, "regular_file", 1),
            OfferedFile(<<"b">>, "regular_file", 1)>> : p, q \in OfferedPaths}
    \cup {<<OfferedFile(p, k, 1)>> : p \in OfferedPaths, k \in {"regular_file", "symlink"}}
    \cup {<<>>}

BlobEntry(s, n) == [segment |-> s, kind |-> "blob", bytes |-> n, tree |-> {}]

TreeEntry(s, t) == [segment |-> s, kind |-> "tree", bytes |-> 0, tree |-> t]

LeafTrees ==
    {{BlobEntry(s, 1)} : s \in Segments}
    \cup {{}, {BlobEntry("a", 1), BlobEntry("b", 0)},
          {[BlobEntry("a", 1) EXCEPT !.kind = "record"]}}

StoredTrees ==
    LeafTrees
    \cup {{TreeEntry(s, t)} : s \in Segments, t \in LeafTrees}
    \cup {{TreeEntry("a", t), TreeEntry(s, u)} : s \in {"A", "b"}, t, u \in LeafTrees}
    \cup {{TreeEntry("b", {TreeEntry("a", t)}), BlobEntry(s, 2)} :
            s \in {"a", "long"}, t \in LeafTrees}
=============================================================================
