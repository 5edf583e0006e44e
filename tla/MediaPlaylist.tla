--------------------------- MODULE MediaPlaylist ---------------------------
(***************************************************************************)
(* The media playlist parser (media_playlist_get_links and parse_tag).  It *)
(* reads one line at a time and carries what the lines say about later     *)
(* segments: the key and the initialization section in force, the counters *)
(* of segments and discontinuities, the byte range and duration announced  *)
(* for the next segment.  Any tag it cannot use rejects the playlist.      *)
(*                                                                         *)
(* A line is a record of its tag and of its attributes as next_media_      *)
(* attribute, parse_decimal and parse_iv deliver them; NULL is an absent   *)
(* one.  An IV is the number its 16 bytes spell.                           *)
(***************************************************************************)
EXTENDS Integers, SequencesExt

CONSTANTS NULL,
          Dialects,   \* kinds of source: [fps, lines, max_lines]
          MaxInt,     \* INT_MAX
          MaxOffset   \* INT64_MAX

SampleAes == {"SAMPLE-AES", "SAMPLE-AES-CTR"}
Methods   == {"NONE", "AES-128"} \cup SampleAes

\* The ranges and numbers that parse_decimal delivers are not negative, -1 is no
\* offset; what does not parse comes as a value that is out of range.
Ranges == [size : Nat, offset : Nat \cup {-1}]
LineOk(l) == /\ l.tag \in {"MEDIA-SEQUENCE", "DISCONTINUITY-SEQUENCE"} => l.value \in Nat
             /\ l.tag = "BYTERANGE" => l.range \in Ranges
             /\ l.tag = "MAP" => l.range \in Ranges \cup {NULL}

\* Every section that some lines can describe.
Tagged(tag) == {l \in UNION {d.lines : d \in Dialects} : l.tag = tag}
Keys        == [uri : {l.uri : l \in Tagged("KEY")} \cup {NULL},
                iv : {l.iv : l \in Tagged("KEY")} \cup {0}, iv_is_static : BOOLEAN]
Sections    == [uri : {l.uri : l \in Tagged("MAP")}, range : {l.range : l \in Tagged("MAP")},
                encryptiontype : Methods, enc_aes : Keys]

ASSUME LimitsAssumption   == MaxInt \in Nat /\ MaxOffset \in Nat
ASSUME DialectsAssumption == \A d \in Dialects : d.fps \in BOOLEAN /\ \A l \in d.lines : LineOk(l)
ASSUME NullAssumption     == NULL \notin Int /\ NULL \notin Sections

VARIABLES
  dialect, \* what the source is made of: the lines it may have and a bound on
           \* their number; whether it announces FairPlay (is_playlist_FPS)
  lines,   \* the lines read so far
  status,  \* "parsing", "done" or "error"
  me,      \* hls_media_playlist_t: its segments and what holds for all of them
  ahead    \* locals of media_playlist_get_links: what holds for the next segment

vars == <<dialect, lines, status, me, ahead>>

NoKey   == [uri |-> NULL, iv |-> 0, iv_is_static |-> FALSE]
NoRange == [size |-> -1, offset |-> -1]

Init ==
  /\ dialect \in Dialects /\ lines = <<>> /\ status = "parsing"
  /\ me = [segments |-> <<>>, first_media_sequence |-> 0, last_media_sequence |-> 0,
           is_endlist |-> FALSE, encryptiontype |-> "NONE", enc_aes |-> NoKey]
  /\ ahead = [section |-> NULL, range |-> NoRange, discontinuity |-> 0, duration |-> 0]

-----------------------------------------------------------------------------
(* parse_key *)

KeyOk(l) == /\ l.method \in Methods
            /\ IF l.method = "NONE" THEN l.uri = NULL /\ l.iv = NULL ELSE l.uri # NULL

KeyOf(l) == [uri |-> l.uri,
             iv |-> IF l.iv = NULL THEN 0 ELSE l.iv,
             iv_is_static |-> l.iv # NULL \/ (l.method # "AES-128" /\ dialect.fps)]

(* parse_byte_range, without and with the offset that a section's range needs. *)

RangeOk(r) == /\ r.size \in 1..MaxOffset
              /\ r.offset \in -1..MaxOffset
              /\ r.offset >= 0 => r.offset + r.size <= MaxOffset

SectionRangeOk(r) == r # NULL => RangeOk(r) /\ r.offset >= 0

(* parse_map *)

\* Fault: a section may depend on an IV derived from a sequence number.
MapUsable_AnyIv == me.encryptiontype \notin SampleAes

\* A section has no sequence number to derive an IV from, and no samples.
MapUsable == /\ me.encryptiontype = "AES-128" => me.enc_aes.iv_is_static
             /\ me.encryptiontype \notin SampleAes

Section(l) == [uri |-> l.uri, range |-> l.range,
               encryptiontype |-> me.encryptiontype, enc_aes |-> me.enc_aes]

\* Fault: a counter is taken in the middle of the playlist as well.
CounterOk_Anywhere(value) == value \in 0..MaxInt

\* Both counters can only be set ahead of the first segment.
CounterOk(value) == me.segments = <<>> /\ value \in 0..MaxInt

(* resolve_byte_range: where the range starts, or NULL when that is unknown. *)
Resolved(uri) ==
  LET previous == Last(me.segments)
  IN IF ahead.range.size < 0 THEN 0
     ELSE IF ahead.range.offset >= 0 THEN ahead.range.offset
     ELSE IF me.segments # <<>> /\ previous.size >= 0 /\ previous.uri = uri
     THEN previous.offset + previous.size
     ELSE NULL

SegmentNumber == me.first_media_sequence + Len(me.segments)

UriOk(uri) ==
  /\ SegmentNumber <= MaxInt
  /\ ahead.section # NULL => me.encryptiontype \notin SampleAes
  /\ Resolved(uri) # NULL /\ Resolved(uri) + ahead.range.size <= MaxOffset

Segment(uri) ==
  [uri |-> uri, size |-> ahead.range.size, offset |-> Resolved(uri),
   sequence_number |-> SegmentNumber,
   discontinuity_sequence |-> ahead.discontinuity,
   duration |-> ahead.duration,
   encryptiontype |-> me.encryptiontype, key_uri |-> me.enc_aes.uri,
   iv |-> IF me.encryptiontype # "NONE" /\ ~me.enc_aes.iv_is_static
          THEN SegmentNumber ELSE me.enc_aes.iv,
   init_section |-> ahead.section]

-----------------------------------------------------------------------------
(* media_playlist_get_links, one line at a time *)

Line(tag, l) == /\ status = "parsing" /\ Len(lines) < dialect.max_lines
                /\ l.tag = tag
                /\ lines' = Append(lines, l)
                /\ UNCHANGED <<dialect, status>>

\* Fault: the section in force shares the key instead of a copy of it.
ReadKey_SharesKey(l) ==
  /\ Line("KEY", l) /\ KeyOk(l)
  /\ me' = [me EXCEPT !.encryptiontype = l.method, !.enc_aes = KeyOf(l)]
  /\ ahead' = [ahead EXCEPT !.section = IF @ = NULL THEN NULL
                                        ELSE [@ EXCEPT !.enc_aes = KeyOf(l)]]

ReadKey(l) ==
  /\ Line("KEY", l) /\ KeyOk(l)
  /\ me' = [me EXCEPT !.encryptiontype = l.method, !.enc_aes = KeyOf(l)]
  /\ UNCHANGED ahead

ReadMap(l) ==
  /\ Line("MAP", l) /\ l.uri # NULL /\ MapUsable /\ SectionRangeOk(l.range)
  /\ ahead' = [ahead EXCEPT !.section = Section(l)]
  /\ UNCHANGED me

ReadInf(l) ==
  /\ Line("EXTINF", l)
  /\ ahead' = [ahead EXCEPT !.duration = l.value]
  /\ UNCHANGED me

ReadEndlist(l) ==
  /\ Line("ENDLIST", l)
  /\ me' = [me EXCEPT !.is_endlist = TRUE]
  /\ UNCHANGED ahead

ReadMediaSequence(l) ==
  /\ Line("MEDIA-SEQUENCE", l) /\ CounterOk(l.value)
  /\ me' = [me EXCEPT !.first_media_sequence = l.value]
  /\ UNCHANGED ahead

ReadByteRange(l) ==
  /\ Line("BYTERANGE", l) /\ RangeOk(l.range)
  /\ ahead' = [ahead EXCEPT !.range = l.range]
  /\ UNCHANGED me

ReadDiscontinuitySequence(l) ==
  /\ Line("DISCONTINUITY-SEQUENCE", l) /\ CounterOk(l.value)
  /\ ahead' = [ahead EXCEPT !.discontinuity = l.value]
  /\ UNCHANGED me

ReadDiscontinuity(l) ==
  /\ Line("DISCONTINUITY", l) /\ ahead.discontinuity < MaxInt
  /\ ahead' = [ahead EXCEPT !.discontinuity = @ + 1]
  /\ UNCHANGED me

\* Fault: a byte range stays in force for the segments after its own.
ReadUri_KeepsRange(l) ==
  /\ Line("URI", l) /\ UriOk(l.uri)
  /\ me' = [me EXCEPT !.segments = Append(@, Segment(l.uri)),
                      !.last_media_sequence = SegmentNumber]
  /\ ahead' = [ahead EXCEPT !.duration = 0]

\* A line that is no tag names a segment and completes it.
ReadUri(l) ==
  /\ Line("URI", l) /\ UriOk(l.uri)
  /\ me' = [me EXCEPT !.segments = Append(@, Segment(l.uri)),
                      !.last_media_sequence = SegmentNumber]
  /\ ahead' = [ahead EXCEPT !.range = NoRange, !.duration = 0]

\* A line that cannot be used: every segment is freed.
Reject(l) ==
  /\ status = "parsing" /\ Len(lines) < dialect.max_lines
  /\ \/ l.tag = "KEY" /\ ~KeyOk(l)
     \/ l.tag = "MAP" /\ ~(l.uri # NULL /\ MapUsable /\ SectionRangeOk(l.range))
     \/ l.tag \in {"MEDIA-SEQUENCE", "DISCONTINUITY-SEQUENCE"} /\ ~CounterOk(l.value)
     \/ l.tag = "BYTERANGE" /\ ~RangeOk(l.range)
     \/ l.tag = "DISCONTINUITY" /\ ahead.discontinuity = MaxInt
     \/ l.tag = "URI" /\ ~UriOk(l.uri)
  /\ lines' = Append(lines, l)
  /\ status' = "error"
  /\ me' = [me EXCEPT !.segments = <<>>]
  /\ UNCHANGED <<dialect, ahead>>

\* The source ends; a segment without a URI line is dropped.
EndOfSource ==
  /\ status = "parsing"
  /\ status' = "done"
  /\ UNCHANGED <<dialect, lines, me, ahead>>

Next ==
  \/ \E l \in dialect.lines :
       \/ ReadKey(l) \/ ReadMap(l) \/ ReadInf(l) \/ ReadEndlist(l)
       \/ ReadMediaSequence(l) \/ ReadDiscontinuitySequence(l) \/ ReadDiscontinuity(l)
       \/ ReadByteRange(l) \/ ReadUri(l) \/ Reject(l)
  \/ EndOfSource

Spec == Init /\ [][Next]_vars

-----------------------------------------------------------------------------
(* What a playlist means, read off its lines without running the parser.     *)

\* The positions of the lines with a tag, those ahead of k, and the last of these.
At(tag)        == {k \in DOMAIN lines : lines[k].tag = tag}
Before(tag, k) == {j \in At(tag) : j < k}
Latest(tag, k) == IF Before(tag, k) = {} THEN 0 ELSE Max(Before(tag, k))

\* The line that names the i-th segment, and its value of a counter tag.
UriLine(i) == CHOOSE k \in At("URI") : Cardinality(Before("URI", k)) = i - 1
Number(tag, k) == IF Latest(tag, k) = 0 THEN 0 ELSE lines[Latest(tag, k)].value

\* The key line in force at line k.
KeyAt(k) == IF Latest("KEY", k) = 0
            THEN [tag |-> "KEY", method |-> "NONE", uri |-> NULL, iv |-> NULL]
            ELSE lines[Latest("KEY", k)]

\* The IV of a key line for a segment with this number (RFC 8216, 5.2), where
\* FairPlay keys carry their own.
IvOf(key, number) == IF key.iv # NULL THEN key.iv
                     ELSE IF key.method = "NONE" \/ (dialect.fps /\ key.method \in SampleAes) THEN 0
                     ELSE number

\* The byte range that belongs to the segment named at line k.
Ranged(k)  == Latest("BYTERANGE", k) > Latest("URI", k)
RangeAt(k) == lines[Latest("BYTERANGE", k)].range

\* The last segment up to line k whose range says where it starts; where the
\* range of line k starts when all those since then run on.
Anchor(k) == LET anchors == {j \in At("URI") : j <= k /\ Ranged(j) /\ RangeAt(j).offset >= 0}
             IN IF anchors = {} THEN 0 ELSE Max(anchors)
RunOn(k)    == {j \in At("URI") : Anchor(k) <= j /\ j <= k}
OffsetAt(k) == RangeAt(Anchor(k)).offset
                 + SumFunctionOnSet([j \in RunOn(k) |-> RangeAt(j).size], RunOn(k) \ {k})

Accepted == status # "error"

\* The last key named ahead of a segment, with the IV given there or else the one
\* derived from the segment's own number.
KeysInForce ==
  \A i \in DOMAIN me.segments :
    LET key == KeyAt(UriLine(i))
        s   == me.segments[i]
    IN /\ s.encryptiontype = key.method /\ s.key_uri = key.uri
       /\ s.iv = IvOf(key, s.sequence_number)

\* The last section named ahead of a segment, with the key that was in force
\* where the section was named.
SectionsInForce ==
  \A i \in DOMAIN me.segments :
    LET k == Latest("MAP", UriLine(i))
        s == me.segments[i].init_section
    IN IF k = 0 THEN s = NULL
       ELSE /\ s.uri = lines[k].uri /\ s.range = lines[k].range
            /\ s.encryptiontype = KeyAt(k).method
            /\ s.enc_aes.uri = KeyAt(k).uri
            /\ KeyAt(k).method = "AES-128" => s.enc_aes.iv = KeyAt(k).iv

\* Each segment carries the key and the section that the lines ahead of it name
\* last, and a section keeps its own key when a later line replaces the key.
InForce == KeysInForce /\ SectionsInForce

\* Segment numbers are consecutive, fit an int, and start at the announced one;
\* the first and the last are what the live refresh compares.
NumbersConsecutive ==
  Accepted =>
    /\ me.first_media_sequence = Number("MEDIA-SEQUENCE", Len(lines) + 1)
    /\ \A i \in DOMAIN me.segments :
         /\ me.segments[i].sequence_number = me.first_media_sequence + i - 1
         /\ me.segments[i].sequence_number <= MaxInt
    /\ me.last_media_sequence =
         (IF me.segments = <<>> THEN 0 ELSE Last(me.segments).sequence_number)

\* A segment's discontinuity number counts the tags ahead of it since the last
\* announced base, and numbers never decrease along the playlist.
DiscontinuitiesCounted ==
  \A i \in DOMAIN me.segments :
    LET k    == UriLine(i)
        base == Latest("DISCONTINUITY-SEQUENCE", k)
    IN /\ me.segments[i].discontinuity_sequence =
            Number("DISCONTINUITY-SEQUENCE", k)
              + Cardinality({j \in Before("DISCONTINUITY", k) : j > base})
       /\ i > 1 => me.segments[i - 1].discontinuity_sequence
                     <= me.segments[i].discontinuity_sequence

\* Segments and discontinuities are numbered as the tags ahead of them say.
Counted == NumbersConsecutive /\ DiscontinuitiesCounted

\* A segment has the byte range and the duration announced since the segment
\* before it, the whole resource without a range; a range without an offset
\* continues the ranges before it; no range reaches past the greatest offset.
OwnRangeAndDuration ==
  \A i \in DOMAIN me.segments :
    LET k == UriLine(i)
        s == me.segments[i]
    IN /\ IF Ranged(k)
          THEN /\ s.size = RangeAt(k).size /\ s.offset = OffsetAt(k)
               /\ s.offset + s.size <= MaxOffset
          ELSE s.size = -1 /\ s.offset = 0
       /\ s.duration = IF Latest("EXTINF", k) > Latest("URI", k)
                       THEN Number("EXTINF", k) ELSE 0

\* Why a line may be refused, from the lines ahead of it alone.
Legal(k) ==
  LET l == lines[k]
  IN CASE l.tag = "KEY" ->
            IF l.method = "NONE" THEN l.uri = NULL /\ l.iv = NULL
            ELSE l.method \in Methods /\ l.uri # NULL
       [] l.tag = "MAP" ->
            /\ l.uri # NULL
            /\ KeyAt(k).method \in {"NONE", "AES-128"}
            /\ KeyAt(k).method = "AES-128" => KeyAt(k).iv # NULL
            /\ l.range # NULL => /\ l.range.size > 0 /\ l.range.offset >= 0
                                 /\ l.range.offset + l.range.size <= MaxOffset
       [] l.tag \in {"MEDIA-SEQUENCE", "DISCONTINUITY-SEQUENCE"} ->
            Before("URI", k) = {} /\ l.value <= MaxInt
       [] l.tag = "DISCONTINUITY" ->
            LET base == Latest("DISCONTINUITY-SEQUENCE", k)
            IN Number("DISCONTINUITY-SEQUENCE", k)
                 + Cardinality({j \in Before("DISCONTINUITY", k) : j > base}) < MaxInt
       [] l.tag = "BYTERANGE" ->
            /\ l.range.size > 0 /\ l.range.size <= MaxOffset
            /\ l.range.offset + l.range.size <= MaxOffset
       [] l.tag = "URI" ->
            /\ Number("MEDIA-SEQUENCE", k) + Cardinality(Before("URI", k)) <= MaxInt
            /\ Before("MAP", k) # {} => KeyAt(k).method \notin SampleAes
            /\ Ranged(k) =>
                 /\ Anchor(k) # 0
                 /\ \A j \in RunOn(k) : Ranged(j) /\ lines[j].uri = lines[k].uri
                 /\ OffsetAt(k) + RangeAt(k).size <= MaxOffset
       [] OTHER -> TRUE

\* A playlist is rejected if and only if one of its lines is illegal where it
\* stands, and then leaves no segments.
RejectedIffIllegal ==
  /\ Accepted <=> \A k \in DOMAIN lines : Legal(k)
  /\ Accepted \/ me.segments = <<>>

=============================================================================
