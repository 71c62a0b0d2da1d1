----------------------------- MODULE ArtifactTree -----------------------------
(***************************************************************************)
(* Regular files of an artifact and the Trees that store them              *)
(* (synapse-artifact): the manifest that a caller offers, its mapping to   *)
(* nested Trees, and the two readers that turn a stored Tree into a        *)
(* manifest again (checkout and the recovery of a published proposal).     *)
(*                                                                         *)
(* A path is a sequence of segments.  Syntax says what the character tests *)
(* find in a segment: its length, its lower-case key, and whether it is    *)
(* empty, a dot segment, has a NUL, backslash or control byte, is not NFC, *)
(* or is a name or uses a character that is not portable.                  *)
(* A Tree is the set of its entries.  Errors are all Refused.              *)
(***************************************************************************)
EXTENDS Naturals, Sequences, FiniteSets, SequencesExt

CONSTANTS Syntax, Offered, Trees, MaxFiles, MaxFileBytes, MaxTotalBytes, MaxPathBytes,
          MaxDepth, MaxTreeNodes, MaxTreeEdges, Refused

VARIABLE case

-----------------------------------------------------------------------------
(* Paths *)

Bytes(path) == FoldSeq(LAMBDA s, n : n + Syntax[s].len, Len(path) - 1, path)

\* synapse-canonical: of a whole path, and of one segment
is_portable_relative_path(path) ==
    /\ path # <<>>
    /\ ~ Syntax[path[1]].drive
    /\ \A i \in DOMAIN path :
          ~ (Syntax[path[i]].dot \/ Syntax[path[i]].nul \/ Syntax[path[i]].backslash)

is_portable_segment(s) == ~ (Syntax[s].dot \/ Syntax[s].nul)

\* not a reserved name, no reserved or bidirectional character (so no ':')
portable_component(s) == ~ (Syntax[s].reserved \/ Syntax[s].drive)

validate_path(path) ==
    /\ is_portable_relative_path(path)
    /\ \A i \in DOMAIN path : /\ ~ Syntax[path[i]].control
                              /\ Syntax[path[i]].nfc
                              /\ portable_component(path[i])
    /\ Bytes(path) <= MaxPathBytes
    /\ Len(path) <= MaxDepth

validate_segment(s) ==
    /\ is_portable_segment(s) /\ ~ Syntax[s].backslash /\ ~ Syntax[s].control
    /\ Syntax[s].nfc /\ portable_component(s)

lowercase_key(s) == Syntax[s].key

-----------------------------------------------------------------------------
(* Manifests *)

Total(entries) == FoldSeq(LAMBDA e, n : n + e.bytes, 0, entries)

\* one spelling per directory: some component of a pair differs in case only
Collide(p, q) ==
    \E i \in DOMAIN p \intersect DOMAIN q :
        /\ SubSeq(p, 1, i - 1) = SubSeq(q, 1, i - 1)
        /\ p[i] # q[i] /\ lowercase_key(p[i]) = lowercase_key(q[i])

\* the files, or Refused
from_entries(entries) ==
    LET paths == {e.path : e \in ToSet(entries)}
    IN  IF /\ \A i \in DOMAIN entries : /\ entries[i].kind = "regular_file"
                                        /\ validate_path(entries[i].path)
                                        /\ entries[i].bytes <= MaxFileBytes
           /\ Cardinality(paths) = Len(entries)
           /\ Total(entries) <= MaxTotalBytes
           /\ Len(entries) <= MaxFiles
           /\ \A p, q \in paths : ~ Collide(p, q)
           /\ \A p \in paths : paths \intersect (Prefixes(p) \ {p}) = {}
        THEN {[path |-> e.path, bytes |-> e.bytes] : e \in ToSet(entries)}
        ELSE Refused

-----------------------------------------------------------------------------
(* Trees *)

\* the Tree of the files below a directory
RECURSIVE Directory(_, _)
Directory(files, prefix) ==
    LET below == {f \in files : IsStrictPrefix(prefix, f.path)}
        n == Len(prefix) + 1
    IN  {[segment |-> f.path[n], kind |-> "blob", bytes |-> f.bytes, tree |-> {}] :
            f \in {g \in below : Len(g.path) = n}}
        \union
        {[segment |-> s, kind |-> "tree", bytes |-> 0,
          tree |-> Directory(files, Append(prefix, s))] :
            s \in {f.path[n] : f \in {g \in below : Len(g.path) > n}}}

map_regular_files(files) == Directory(files, <<>>)

\* the entries below a Tree with their paths, directories included
RECURSIVE Walk(_, _)
Walk(tree, prefix) ==
    UNION {{[path |-> Append(prefix, e.segment), kind |-> e.kind, bytes |-> e.bytes,
             tree |-> e.tree]}
              \union Walk(e.tree, Append(prefix, e.segment)) : e \in tree}

TreesIn(entries) == {e \in entries : e.kind = "tree"}

FilesIn(entries) ==
    SetToSeq({[path |-> e.path, kind |-> "regular_file", bytes |-> e.bytes] :
                 e \in {x \in entries : x.kind = "blob"}})

\* mutant: one level too few
WithinLimits_Deep(entries) ==
    /\ Cardinality(TreesIn(entries)) + 1 <= MaxTreeNodes
    /\ Cardinality(entries) <= MaxTreeEdges
    /\ \A e \in entries : Len(e.path) < MaxDepth /\ Bytes(e.path) <= MaxPathBytes
    /\ \A e \in entries : e.bytes <= MaxFileBytes
    /\ Len(FilesIn(entries)) <= MaxFiles
    /\ Total(FilesIn(entries)) <= MaxTotalBytes

\* every bound of the traversal; a Tree met under two paths is charged twice
WithinLimits(entries) ==
    /\ Cardinality(TreesIn(entries)) + 1 <= MaxTreeNodes
    /\ Cardinality(entries) <= MaxTreeEdges
    /\ \A e \in entries : Len(e.path) <= MaxDepth /\ Bytes(e.path) <= MaxPathBytes
    /\ \A e \in entries : e.bytes <= MaxFileBytes
    /\ Len(FilesIn(entries)) <= MaxFiles
    /\ Total(FilesIn(entries)) <= MaxTotalBytes

\* checkout
read_site(tree) ==
    LET entries == Walk(tree, <<>>)
    IN  IF /\ WithinLimits(entries)
           /\ \A e \in entries : e.kind \in {"blob", "tree"} /\ validate_segment(Last(e.path))
           /\ \A e, f \in entries :
                 /\ Front(e.path) = Front(f.path)
                 /\ lowercase_key(Last(e.path)) = lowercase_key(Last(f.path))
                 => e.path = f.path
        THEN from_entries(FilesIn(entries))
        ELSE Refused

\* recovery
read_site_manifest(tree) ==
    LET entries == Walk(tree, <<>>)
    IN  IF WithinLimits(entries) /\ \A e \in entries : e.kind \in {"blob", "tree"}
        THEN from_entries(FilesIn(entries))
        ELSE Refused

-----------------------------------------------------------------------------

TreeInit ==
    case \in {[kind |-> "offered", entries |-> e] : e \in Offered}
             \union {[kind |-> "tree", tree |-> t] : t \in Trees}

TreeNext == UNCHANGED case

-----------------------------------------------------------------------------
(* Properties *)

\* A manifest that the mapper accepted reads back, by checkout and by
\* recovery, as exactly the same files -- unless it has more directories than
\* a reader visits, which no limit of the writer excludes
\* (lib.rs:213-287, 349-420; checkout.rs:1070-1185; workflow.rs:1593-1701).
MappedReadsBack ==
    case.kind = "offered" =>
        LET files == from_entries(case.entries)
            tree == map_regular_files(files)
        IN  /\ files # Refused
            /\ Cardinality(TreesIn(Walk(tree, <<>>))) < MaxTreeNodes
            => read_site(tree) = files /\ read_site_manifest(tree) = files

Folded(path) == [i \in DOMAIN path |-> lowercase_key(path[i])]

\* Whatever manifest is accepted, from a caller or from a stored Tree, can be
\* written out on a file system that ignores case: distinct files have
\* distinct paths there and no file is in the way of a directory
\* (lib.rs:252-284).
AcceptedIsPortable ==
    LET files == IF case.kind = "offered" THEN from_entries(case.entries)
                 ELSE read_site(case.tree)
    IN  files # Refused =>
           \A f, g \in files :
              /\ f # g => ~ IsPrefix(Folded(f.path), Folded(g.path))
              /\ \A i \in DOMAIN f.path \intersect DOMAIN g.path :
                    SubSeq(Folded(f.path), 1, i) = SubSeq(Folded(g.path), 1, i)
                        => f.path[i] = g.path[i]
=============================================================================
