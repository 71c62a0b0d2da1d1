---------------------------- MODULE ImageMetadata ----------------------------
(***************************************************************************)
(* The bounded location-metadata check of creator inputs (synapse-creator  *)
(* metadata.rs).  It must never call a file free of GPS data that it could *)
(* not read completely.                                                    *)
(*                                                                         *)
(* The scanners are pure, so a state is one file (`case`).  A JPEG file is *)
(* the sequence of its markers, a PNG file the sequence of its chunks,     *)
(* EXIF data a map from offsets to image file directories (IFDs), and a    *)
(* PNG language tag the sequence of its subtags.  The three limits are     *)
(* parameters, in units of markers, chunks and IFDs.                       *)
(***************************************************************************)
EXTENDS Naturals, Sequences, FiniteSets

CONSTANTS
  Files,        \* the cases: [format, data]
  ScanWindow,   \* METADATA_SCAN_BYTES: markers allowed before the first scan
  MaxChunks,    \* MAX_PNG_CHUNKS
  MaxMetadata,  \* MAX_PNG_METADATA_BYTES
  MaxIfds,      \* MAX_IFDS
  MaxIfdDepth   \* MAX_IFD_DEPTH

VARIABLE case

MetadataInit == case \in Files
MetadataNext == UNCHANGED case

-----------------------------------------------------------------------------
(* EXIF: IFDs reached from the first one through sub-IFD entries and next  *)
(* pointers.  data = [offset -> [entries, next]]; offset 0 ends a chain,   *)
(* an offset outside the domain does not fit the data.                     *)

Descend(data, pending, seen) ==
  IF \/ pending[1].depth > MaxIfdDepth
     \/ pending[1].off \in seen
     \/ Cardinality(seen) >= MaxIfds
     \/ pending[1].off \notin DOMAIN data
    THEN "could_not_check"
    ELSE "walk"

\* The entries of one IFD: the first GPS entry ends the walk (its own offset
\* must fit); sub-IFD entries, single or several, are pushed.
EntryResult(data, e) ==
  CASE e.tag = "gps" -> IF e.values[1] \in DOMAIN data THEN "gps_found" ELSE "could_not_check"
    [] e.tag = "subs" /\ Len(e.values) > MaxIfds -> "could_not_check"
    [] OTHER -> "go_on"

Children(entries, depth) ==
  LET pushed[i \in 0 .. Len(entries)] ==
        IF i = 0 THEN <<>>
        ELSE [k \in (IF entries[i].tag = "subs" THEN DOMAIN entries[i].values ELSE {}) |->
                [off |-> entries[i].values[Len(entries[i].values) + 1 - k], depth |-> depth + 1]]
             \o pushed[i - 1]
  IN  pushed[Len(entries)]

RECURSIVE WalkIfds(_, _, _)

WalkIfds(data, pending, seen) ==
  IF pending = <<>> THEN "no_gps_found"
  ELSE LET here == pending[1]
           step == Descend(data, pending, seen)
           ifd == data[here.off]
           stops == {i \in DOMAIN ifd.entries : EntryResult(data, ifd.entries[i]) # "go_on"}
           first == CHOOSE i \in stops : \A j \in stops : i <= j
       IN  IF step = "could_not_check" THEN step
           ELSE IF stops # {} THEN EntryResult(data, ifd.entries[first])
           ELSE WalkIfds(data,
                  (IF ifd.next = 0 THEN <<>> ELSE <<[off |-> ifd.next, depth |-> here.depth]>>)
                    \o Children(ifd.entries, here.depth) \o Tail(pending),
                  seen \cup {here.off})

\* Offset 1 stands for the first IFD the TIFF header names.
exif(data) == WalkIfds(data, <<[off |-> 1, depth |-> 0]>>, {})

-----------------------------------------------------------------------------
(* JPEG.  A marker is [kind, gps]: an EXIF or XMP segment, an announcement *)
(* of appended media, another segment, a scan (its entropy-coded bytes     *)
(* included), the end of the image, bytes that are no marker, or a segment *)
(* that runs past the end of the file.                                     *)

\* Mutant: metadata behind the first scan is passed over.
jpeg_marker_Late(m, at, state) ==
  IF m.kind \in {"exif", "xmp", "media", "other"} /\ state.seen_scan THEN state
  ELSE IF m.kind = "scan" THEN [state EXCEPT !.seen_scan = TRUE]
  ELSE IF m.kind \in {"garbage", "cut"} THEN [state EXCEPT !.failed = TRUE]
  ELSE IF m.kind \in {"exif", "xmp"} THEN [state EXCEPT !.gps = @ \/ m.gps = "yes", !.failed = @ \/ m.gps = "unclear"]
  ELSE IF m.kind = "media" THEN [state EXCEPT !.appended = TRUE]
  ELSE state

\* One marker: the budget applies before the first scan, metadata after it
\* is refused, an EXIF segment that cannot be read refuses the file.
jpeg_marker(m, at, state) ==
  CASE m.kind \in {"garbage", "cut"} -> [state EXCEPT !.failed = TRUE]
    [] ~state.seen_scan /\ at > ScanWindow -> [state EXCEPT !.failed = TRUE]
    [] m.kind = "scan" -> [state EXCEPT !.seen_scan = TRUE]
    [] m.kind \in {"exif", "xmp", "media"} /\ state.seen_scan -> [state EXCEPT !.failed = TRUE]
    [] m.kind \in {"exif", "xmp"} /\ m.gps = "yes" -> [state EXCEPT !.gps = TRUE]
    [] m.kind = "exif" /\ m.gps = "unclear" -> [state EXCEPT !.failed = TRUE]
    [] m.kind = "media" -> [state EXCEPT !.appended = TRUE]
    [] OTHER -> state

jpeg_reader(markers) ==
  LET ends == {i \in DOMAIN markers : markers[i].kind = "end"}
      end == CHOOSE i \in ends : \A j \in ends : i <= j
      run[i \in 0 .. Len(markers)] ==
        IF i = 0 THEN [failed |-> FALSE, gps |-> FALSE, appended |-> FALSE, seen_scan |-> FALSE]
        ELSE LET before == run[i - 1]
             IN  IF before.failed THEN before ELSE jpeg_marker(markers[i], i, before)
  IN  IF ends = {} THEN "could_not_check"
      ELSE LET state == run[end - 1]
           IN  IF state.failed \/ end # Len(markers) \/ state.appended THEN "could_not_check"
               ELSE IF state.gps THEN "gps_found" ELSE "no_gps_found"

-----------------------------------------------------------------------------
(* PNG.  A chunk is [kind, size, sound, gps]: `sound` is FALSE when the    *)
(* CRC of a metadata chunk does not match or the fields of a header or     *)
(* palette chunk are out of range; gps as above.  "XXXX" is an     *)
(* unknown critical chunk, "anci" an ancillary one.                        *)

IsMetadata(k) == k \in {"eXIf", "tEXt", "zTXt", "iTXt"}

\* png_metadata_check: compressed text is never classified.
png_metadata_check(c) ==
  CASE c.kind = "zTXt" -> "could_not_check"
    [] c.gps = "yes" -> "gps_found"
    [] c.gps = "unclear" -> "could_not_check"
    [] OTHER -> "no_gps_found"

PngStart == [failed |-> FALSE, gps |-> FALSE, idat |-> FALSE, after |-> FALSE,
             plte |-> FALSE, exif |-> FALSE, indexed |-> FALSE, metadata |-> 0]

\* Where a chunk may stand.
png_order(c, at, s) ==
  CASE at = 1 -> c.kind = "IHDR" /\ c.sound
    [] c.kind \in {"IHDR", "XXXX"} -> FALSE
    [] c.kind = "IDAT" -> ~s.after /\ (s.indexed => s.plte)
    [] c.kind = "PLTE" -> ~s.idat /\ ~s.plte /\ c.sound
    [] c.kind = "eXIf" -> ~s.idat /\ ~s.exif
    [] OTHER -> TRUE

png_chunk(c, at, s) ==
  IF \/ at > MaxChunks \/ ~png_order(c, at, s)
     \/ /\ IsMetadata(c.kind)
        /\ \/ s.metadata + c.size > MaxMetadata \/ ~c.sound
           \/ png_metadata_check(c) = "could_not_check"
    THEN [s EXCEPT !.failed = TRUE]
    ELSE [s EXCEPT !.indexed = IF at = 1 THEN c.indexed ELSE @,
                   !.plte = @ \/ c.kind = "PLTE",
                   !.exif = @ \/ c.kind = "eXIf",
                   !.after = @ \/ (s.idat /\ c.kind \notin {"IDAT", "PLTE", "eXIf"}),
                   !.idat = @ \/ c.kind = "IDAT",
                   !.metadata = IF IsMetadata(c.kind) THEN @ + c.size ELSE @,
                   !.gps = @ \/ (IsMetadata(c.kind) /\ png_metadata_check(c) = "gps_found")]

\* The verdict at IEND: an image was there, and nothing follows.
PngVerdict(chunks, end, s) ==
  IF /\ ~s.failed /\ chunks[end].size = 0 /\ s.idat
     /\ (s.indexed => s.plte) /\ end = Len(chunks)
    THEN IF s.gps THEN "gps_found" ELSE "no_gps_found"
    ELSE "could_not_check"

\* png and png_file: the chunks are judged alike whether the file is in
\* memory or read by offset.
png(chunks) ==
  LET ends == {i \in DOMAIN chunks : chunks[i].kind = "IEND"}
      end == CHOOSE i \in ends : \A j \in ends : i <= j
      run[i \in 0 .. Len(chunks)] ==
        IF i = 0 THEN PngStart
        ELSE LET before == run[i - 1]
             IN  IF before.failed THEN before ELSE png_chunk(chunks[i], i, before)
  IN  IF ends = {} THEN "could_not_check" ELSE PngVerdict(chunks, end, run[end])

\* image_metadata_warning and metadata_warning_from_bytes choose by signature.
Check(f) ==
  CASE f.format = "jpeg" -> jpeg_reader(f.data)
    [] f.format = "png" -> png(f.data)
    [] f.format = "exif" -> exif(f.data)
    [] OTHER -> "could_not_check"

-----------------------------------------------------------------------------
(* The language tag of an iTXt chunk.  A subtag is [text, len, alpha,      *)
(* digit, first] (first: "digit" when it starts with one); the 26 tags     *)
(* accepted as grandfathered are left out.                                 *)

Variant(t) == t.len \in 5 .. 8 \/ (t.len = 4 /\ t.first = "digit")

\* Up to three extended language subtags follow a primary of 2 or 3 letters.
ExtendedLanguages(tags) ==
  LET run == {n \in 0 .. 3 : Len(tags) > n /\ \A i \in 2 .. n + 1 : tags[i].len = 3 /\ tags[i].alpha}
  IN  CHOOSE n \in run : \A m \in run : m <= n

\* How many of the subtags from position p on fit, without a gap.
RunOf(tags, p, fitting) ==
  CHOOSE n \in 0 .. Len(tags) : p .. p + n - 1 \subseteq fitting /\ p + n \notin fitting

Private(tags, p) == \A i \in p .. Len(tags) : tags[i].len \in 1 .. 8

RECURSIVE Extensions(_, _, _)

\* Extensions and private use from position p on: TRUE if they end the tag.
Extensions(tags, p, singletons) ==
  IF p > Len(tags) THEN TRUE
  ELSE IF tags[p].text = "x" THEN p < Len(tags) /\ Private(tags, p + 1)
  ELSE IF tags[p].len # 1 \/ tags[p].text \in singletons THEN FALSE
  ELSE LET n == RunOf(tags, p + 1, {i \in DOMAIN tags : tags[i].len \in 2 .. 8})
       IN  n > 0 /\ Extensions(tags, p + 1 + n, singletons \cup {tags[p].text})

valid_png_language_tag(tags) ==
  LET At(p) == p <= Len(tags)
      language == 1 + (IF tags[1].len \in 2 .. 3 THEN ExtendedLanguages(tags) ELSE 0)
      script == language + (IF At(language + 1) /\ tags[language + 1].len = 4 /\ tags[language + 1].alpha
                              THEN 1 ELSE 0)
      region == script + (IF At(script + 1) /\ (IF tags[script + 1].len = 2 THEN tags[script + 1].alpha
                                                 ELSE tags[script + 1].len = 3 /\ tags[script + 1].digit)
                            THEN 1 ELSE 0)
      variants == RunOf(tags, region + 1, {i \in DOMAIN tags : Variant(tags[i])})
  IN  IF tags = <<>> THEN TRUE
      ELSE IF tags[1].text = "x" THEN Len(tags) > 1 /\ Private(tags, 2)
      ELSE /\ tags[1].alpha /\ tags[1].len \in 2 .. 8
           /\ \A i, j \in region + 1 .. region + variants : i # j => tags[i].text # tags[j].text
           /\ Extensions(tags, region + variants + 1, {})

-----------------------------------------------------------------------------
(* Properties.                                                             *)

RECURSIVE Spanned(_, _)
\* The IFDs reachable from a set of offsets, without limits.
Spanned(data, offs) ==
  LET more == offs \cup UNION {
        ({data[o].next} \ {0}) \cup
        UNION {LET e == data[o].entries[i]
               IN  IF e.tag = "subs" THEN {e.values[k] : k \in DOMAIN e.values} ELSE {} :
               i \in DOMAIN data[o].entries} : o \in offs \cap DOMAIN data}
  IN  IF more = offs THEN offs ELSE Spanned(data, more)

RECURSIVE Deepest(_, _)
\* The most sub-IFD steps on a path from an IFD of a tree.
Deepest(data, o) ==
  LET subs == {Children(data[o].entries, 0)[k].off : k \in DOMAIN Children(data[o].entries, 0)}
      below == {Deepest(data, s) + 1 : s \in subs} \cup
               (IF data[o].next = 0 THEN {0} ELSE {Deepest(data, data[o].next)})
  IN  CHOOSE d \in below : \A other \in below : other <= d

CarriesGps(f) ==
  CASE f.format = "exif" ->
         \E o \in Spanned(f.data, {1}) \cap DOMAIN f.data :
           \E i \in DOMAIN f.data[o].entries : f.data[o].entries[i].tag = "gps"
    [] f.format \in {"jpeg", "png"} -> \E i \in DOMAIN f.data : f.data[i].gps # "no"
    [] OTHER -> TRUE

\* "Unsupported, malformed, and budget-limited inputs are deliberately
\* reported as could_not_check, never as GPS-free": if the verdict is that
\* no GPS data was found, no IFD, segment or chunk anywhere in the file
\* carries or may carry it, behind the image data included.
GpsFreeMeansGpsFree ==
  case.format # "tag" => (Check(case) = "no_gps_found" => ~CarriesGps(case))

\* EXIF data that is a tree within the limits is always decided, whatever
\* the order in which the walk visits it.
WellFormedIsDecided ==
  case.format = "exif" =>
    LET reach == Spanned(case.data, {1})
        edges == [o \in reach \cap DOMAIN case.data |->
                    (IF case.data[o].next = 0 THEN <<>> ELSE <<case.data[o].next>>)
                      \o [k \in DOMAIN Children(case.data[o].entries, 0) |->
                            Children(case.data[o].entries, 0)[k].off]]
        into(o) == {<<q, k>> \in (DOMAIN edges) \X (1 .. 8) : k \in DOMAIN edges[q] /\ edges[q][k] = o}
        flat == \A o \in DOMAIN edges : \A i \in DOMAIN case.data[o].entries :
                  case.data[o].entries[i].tag # "gps"
    IN  /\ reach \subseteq DOMAIN case.data /\ Cardinality(reach) <= MaxIfds
        /\ \A o \in reach : Cardinality(into(o)) = IF o = 1 THEN 0 ELSE 1
        /\ \A o \in reach : \A i \in DOMAIN case.data[o].entries :
             EntryResult(case.data, case.data[o].entries[i]) # "could_not_check"
        /\ Deepest(case.data, 1) <= MaxIfdDepth
        => exif(case.data) = IF flat THEN "no_gps_found" ELSE "gps_found"

\* The RFC 5646 grammar, by splitting the tag at every possible place.
IsLanguageTag(tags) ==
  LET n == Len(tags)
      All(a, b, Fits(_)) == \A i \in a .. b : Fits(tags[i])
  IN  \/ n = 0
      \/ tags[1].text = "x" /\ n > 1 /\ Private(tags, 2)
      \/ \E l, s, r, v, e \in 0 .. n :
           /\ l <= s /\ s <= r /\ r <= v /\ v <= e /\ l >= 1
           /\ tags[1].alpha /\ tags[1].len \in (IF l > 1 THEN 2 .. 3 ELSE 2 .. 8)
           /\ l <= 4 /\ All(2, l, LAMBDA t : t.len = 3 /\ t.alpha)
           /\ s <= l + 1 /\ All(l + 1, s, LAMBDA t : t.len = 4 /\ t.alpha)
           /\ r <= s + 1 /\ All(s + 1, r, LAMBDA t : (t.len = 2 /\ t.alpha) \/ (t.len = 3 /\ t.digit))
           /\ All(r + 1, v, Variant)
           /\ \A i, j \in r + 1 .. v : i # j => tags[i].text # tags[j].text
           /\ e > v => tags[v + 1].len = 1 /\ tags[e].len # 1
           /\ \A i \in v + 1 .. e : tags[i].text # "x" /\ (tags[i].len = 1 => tags[i + 1].len > 1)
           /\ \A i, j \in v + 1 .. e : i # j /\ tags[i].len = 1 => tags[i].text # tags[j].text
           /\ e < n => tags[e + 1].text = "x" /\ e + 1 < n /\ Private(tags, e + 2)

\* The single left-to-right pass that validates a language tag accepts
\* exactly the tags of the grammar: no choice it makes early (extended
\* language, script, region, variant) hides a valid reading.
LanguageTagsAreParsed ==
  case.format = "tag" => (valid_png_language_tag(case.data) <=> IsLanguageTag(case.data))
=============================================================================
