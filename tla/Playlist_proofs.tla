-------------------------- MODULE Playlist_proofs --------------------------
(***************************************************************************)
(* Proofs about Playlist, for every set of lines, playlists of any length  *)
(* and every INT_MAX and INT64_MAX: what a media playlist's segments carry *)
(* is what the lines ahead of them say; a range and a duration belong to   *)
(* one segment; a playlist is rejected for a line that is illegal; the     *)
(* lists of a master playlist are those of its lines.                      *)
(***************************************************************************)
EXTENDS Playlist, FoldTheorems

-----------------------------------------------------------------------------
(* The positions of tags in a list of lines.  The operators of MediaPlaylist   *)
(* speak of the variable lines; these have the list as a parameter.            *)

AtIn(ls, tag)        == {k \in DOMAIN ls : ls[k].tag = tag}
BeforeIn(ls, tag, k) == {j \in AtIn(ls, tag) : j < k}
LatestIn(ls, tag, k) == IF BeforeIn(ls, tag, k) = {} THEN 0 ELSE Max(BeforeIn(ls, tag, k))
NumberIn(ls, tag, k) == IF LatestIn(ls, tag, k) = 0 THEN 0 ELSE ls[LatestIn(ls, tag, k)].value
NoKeyLine            == [tag |-> "KEY", method |-> "NONE", uri |-> NULL, iv |-> NULL]
KeyIn(ls, k)         == IF LatestIn(ls, "KEY", k) = 0 THEN NoKeyLine ELSE ls[LatestIn(ls, "KEY", k)]

\* The discontinuities ahead of line k since the last base.
SinceBase(ls, k) == {j \in BeforeIn(ls, "DISCONTINUITY", k) :
                       j > LatestIn(ls, "DISCONTINUITY-SEQUENCE", k)}
CountIn(ls, k)   == NumberIn(ls, "DISCONTINUITY-SEQUENCE", k) + Cardinality(SinceBase(ls, k))

\* Line k names the i-th segment.
NamesSegment(ls, i, k) == k \in AtIn(ls, "URI") /\ Cardinality(BeforeIn(ls, "URI", k)) = i - 1

IsList(s) == \E S : s \in Seq(S)

LEMMA ListGrows ==
  ASSUME NEW s, NEW e, IsList(s)
  PROVE  /\ IsList(Append(s, e))
         /\ Len(s) \in Nat /\ DOMAIN s = 1..Len(s)
         /\ Len(Append(s, e)) = Len(s) + 1
         /\ DOMAIN Append(s, e) = 1..(Len(s) + 1)
         /\ Append(s, e)[Len(s) + 1] = e
         /\ \A k \in 1..Len(s) : Append(s, e)[k] = s[k]
<1>1. PICK S : s \in Seq(S)
  BY DEF IsList
<1>2. s \in Seq(S \cup {e})
  BY <1>1
<1>3. e \in S \cup {e}
  OBVIOUS
<1>4. Append(s, e) \in Seq(S \cup {e})
  BY <1>2, <1>3
<1>5. IsList(Append(s, e))
  BY <1>4 DEF IsList
<1> QED BY <1>2, <1>3, <1>4, <1>5

LEMMA Positions ==
  ASSUME NEW ls, IsList(ls), NEW tag, NEW k
  PROVE  /\ BeforeIn(ls, tag, k) \subseteq 1..Len(ls)
         /\ IsFiniteSet(BeforeIn(ls, tag, k))
         /\ Cardinality(BeforeIn(ls, tag, k)) \in Nat
<1>1. /\ Len(ls) \in Nat
      /\ BeforeIn(ls, tag, k) \subseteq 1..Len(ls)
  BY ListGrows DEF BeforeIn, AtIn
<1>2. IsFiniteSet(1..Len(ls))
  BY <1>1, FS_Interval
<1>3. IsFiniteSet(BeforeIn(ls, tag, k))
  BY <1>1, <1>2, FS_Subset
<1> QED BY <1>1, <1>3, FS_CardinalityType

\* The segment that a line names is unique.
LEMMA OneLine ==
  ASSUME NEW ls, IsList(ls), NEW k \in AtIn(ls, "URI"), NEW m \in AtIn(ls, "URI"),
         Cardinality(BeforeIn(ls, "URI", k)) = Cardinality(BeforeIn(ls, "URI", m))
  PROVE  k = m
<1> DEFINE B(n) == BeforeIn(ls, "URI", n)
<1>1. k \in Nat /\ m \in Nat
  BY ListGrows DEF AtIn
<1>2. ASSUME NEW x \in AtIn(ls, "URI"), NEW y \in AtIn(ls, "URI"), x \in Nat, y \in Nat, x < y
      PROVE  Cardinality(B(x)) < Cardinality(B(y))
  <2>a. \A z \in B(x) : z \in Nat /\ z \in AtIn(ls, "URI") /\ z < x
    <3>1. Len(ls) \in Nat
      BY ListGrows
    <3>2. BeforeIn(ls, "URI", x) \subseteq 1..Len(ls)
      BY Positions
    <3> QED BY <3>1, <3>2 DEF BeforeIn
  <2>b. \A z : z \in B(y) <=> z \in AtIn(ls, "URI") /\ z < y
    BY DEF BeforeIn
  <2>c. x \notin B(x)
    BY <1>2, <2>a
  <2>d. \A z \in B(x) : z \in B(y)
    BY <1>2, <2>a, <2>b
  <2>1. B(x) \cup {x} \in SUBSET B(y) /\ x \notin B(x)
    BY <1>2, <2>b, <2>c, <2>d
  <2>2. IsFiniteSet(B(x)) /\ IsFiniteSet(B(y)) /\ Cardinality(B(x)) \in Nat /\ Cardinality(B(y)) \in Nat
    BY Positions
  <2> HIDE DEF B
  <2>3. Cardinality(B(x) \cup {x}) = Cardinality(B(x)) + 1
    BY <2>1, <2>2, FS_AddElement
  <2>4. Cardinality(B(x) \cup {x}) <= Cardinality(B(y))
    BY <2>1, <2>2, FS_Subset
  <2> QED BY <2>2, <2>3, <2>4
<1>3. Cardinality(B(k)) \in Nat /\ Cardinality(B(k)) = Cardinality(B(m))
  BY Positions
<1> HIDE DEF B
<1>4. ~(k < m) /\ ~(m < k)
  BY <1>1, <1>2, <1>3
<1> QED BY <1>1, <1>4

-----------------------------------------------------------------------------
(* One more line.                                                              *)

\* What stands ahead of a line does not change when lines follow.
LEMMA Kept ==
  ASSUME NEW ls, IsList(ls), NEW l, NEW tag, NEW k \in 1..(Len(ls) + 1)
  PROVE  /\ BeforeIn(Append(ls, l), tag, k) = BeforeIn(ls, tag, k)
         /\ LatestIn(Append(ls, l), tag, k) = LatestIn(ls, tag, k)
<1>1. BeforeIn(Append(ls, l), tag, k) = BeforeIn(ls, tag, k)
  BY ListGrows DEF BeforeIn, AtIn
<1> QED BY <1>1 DEF LatestIn

\* A line with another tag leaves the last one with this tag.
LEMMA OtherTag ==
  ASSUME NEW ls, IsList(ls), NEW l, NEW tag, l.tag # tag
  PROVE  /\ BeforeIn(Append(ls, l), tag, Len(ls) + 2) = BeforeIn(ls, tag, Len(ls) + 1)
         /\ LatestIn(Append(ls, l), tag, Len(ls) + 2) = LatestIn(ls, tag, Len(ls) + 1)
<1>1. BeforeIn(Append(ls, l), tag, Len(ls) + 2) = BeforeIn(ls, tag, Len(ls) + 1)
  BY ListGrows DEF BeforeIn, AtIn
<1> QED BY <1>1 DEF LatestIn

\* A line with this tag is the last one.
LEMMA SameTag ==
  ASSUME NEW ls, IsList(ls), NEW l, NEW tag, l.tag = tag
  PROVE  /\ BeforeIn(Append(ls, l), tag, Len(ls) + 2)
              = BeforeIn(ls, tag, Len(ls) + 1) \cup {Len(ls) + 1}
         /\ LatestIn(Append(ls, l), tag, Len(ls) + 2) = Len(ls) + 1
<1> DEFINE n == Len(ls)
           S == BeforeIn(Append(ls, l), tag, n + 2)
<1>1. S = BeforeIn(ls, tag, n + 1) \cup {n + 1}
  BY ListGrows DEF BeforeIn, AtIn
<1>2. n \in Nat /\ BeforeIn(ls, tag, n + 1) \subseteq 1..n
  BY ListGrows, Positions
<1> HIDE DEF S, n
<1>3. /\ n + 1 \in S
      /\ \A y \in S : y \in Int /\ n + 1 >= y
  BY <1>1, <1>2
<1>4. Max(S) \in S /\ \A y \in S : Max(S) >= y
  BY <1>3 DEF Max
<1>5. Max(S) = n + 1
  <2>1. Max(S) \in Int /\ Max(S) >= n + 1 /\ n + 1 >= Max(S)
    BY <1>3, <1>4
  <2> QED BY <1>2, <2>1
<1>6. S # {}
  BY <1>3
<1> QED BY <1>1, <1>5, <1>6 DEF LatestIn, S, n

\* The line found lies ahead.  (That a finite set of positions has a greatest
\* one is not assumed: it is kept with each line.)
Bounded(ls) == \A tag : \A k \in 1..(Len(ls) + 1) : LatestIn(ls, tag, k) \in 0..(k - 1)

LEMMA BoundedKept ==
  ASSUME NEW ls, IsList(ls), Bounded(ls), NEW l
  PROVE  Bounded(Append(ls, l))
<1> DEFINE n == Len(ls)
<1>1. n \in Nat /\ Len(Append(ls, l)) = n + 1
  BY ListGrows
<1>2. ASSUME NEW tag, NEW k \in 1..(n + 2)
      PROVE  LatestIn(Append(ls, l), tag, k) \in 0..(k - 1)
  <2>1. CASE k \in 1..(n + 1)
    BY <2>1, Kept DEF Bounded
  <2>2. CASE k = n + 2 /\ l.tag = tag
    BY <1>1, <2>2, SameTag
  <2>3. CASE k = n + 2 /\ l.tag # tag
    <3>1. LatestIn(Append(ls, l), tag, n + 2) = LatestIn(ls, tag, n + 1)
      BY <2>3, OtherTag
    <3>2. LatestIn(ls, tag, n + 1) \in 0..n
      BY <1>1 DEF Bounded
    <3> QED BY <1>1, <2>3, <3>1, <3>2
  <2> QED BY <1>1, <1>2, <2>1, <2>2, <2>3
<1> HIDE DEF n
<1>3. n + 1 + 1 = n + 2
  BY <1>1
<1> QED BY <1>1, <1>2, <1>3 DEF Bounded

\* What the lines say at a place stays what it is.
LEMMA MeaningKept ==
  ASSUME NEW ls, IsList(ls), Bounded(ls), NEW l, NEW k \in 1..(Len(ls) + 1)
  PROVE  /\ \A tag : NumberIn(Append(ls, l), tag, k) = NumberIn(ls, tag, k)
         /\ KeyIn(Append(ls, l), k) = KeyIn(ls, k)
         /\ SinceBase(Append(ls, l), k) = SinceBase(ls, k)
         /\ CountIn(Append(ls, l), k) = CountIn(ls, k)
<1>1. Len(ls) \in Nat /\ \A j \in 1..Len(ls) : Append(ls, l)[j] = ls[j]
  BY ListGrows
<1>2. \A tag : LatestIn(Append(ls, l), tag, k) = LatestIn(ls, tag, k)
  BY Kept
<1>3. \A tag : LatestIn(ls, tag, k) # 0 => LatestIn(ls, tag, k) \in 1..Len(ls)
  BY <1>1 DEF Bounded
<1>4. \A tag : NumberIn(Append(ls, l), tag, k) = NumberIn(ls, tag, k)
  BY <1>1, <1>2, <1>3 DEF NumberIn
<1>5. KeyIn(Append(ls, l), k) = KeyIn(ls, k)
  BY <1>1, <1>2, <1>3 DEF KeyIn
<1>6. SinceBase(Append(ls, l), k) = SinceBase(ls, k)
  BY <1>2, Kept DEF SinceBase
<1> QED BY <1>4, <1>5, <1>6 DEF CountIn

\* What they say after a line with another tag, and after one with this tag.
LEMMA MeaningOther ==
  ASSUME NEW ls, IsList(ls), Bounded(ls), NEW l
  PROVE  LET n == Len(ls) + 1
             new == Append(ls, l)
         IN /\ \A tag : l.tag # tag => NumberIn(new, tag, n + 1) = NumberIn(ls, tag, n)
            /\ \A tag : l.tag = tag => NumberIn(new, tag, n + 1) = l.value
            /\ KeyIn(new, n + 1) = IF l.tag = "KEY" THEN l ELSE KeyIn(ls, n)
<1> DEFINE n == Len(ls) + 1
           new == Append(ls, l)
<1>1. /\ Len(ls) \in Nat /\ n + 1 = Len(ls) + 2
      /\ \A j \in 1..Len(ls) : new[j] = ls[j]
      /\ new[n] = l
  BY ListGrows
<1>2. \A tag : l.tag # tag => LatestIn(new, tag, n + 1) = LatestIn(ls, tag, n)
  BY <1>1, OtherTag
<1>3. \A tag : l.tag = tag => LatestIn(new, tag, n + 1) = n
  BY <1>1, SameTag
<1>4. \A tag : LatestIn(ls, tag, n) # 0 => LatestIn(ls, tag, n) \in 1..Len(ls)
  <2>1. n \in 1..(Len(ls) + 1) /\ n - 1 = Len(ls)
    BY <1>1
  <2> QED BY <1>1, <2>1 DEF Bounded
<1>5. n # 0
  BY <1>1
<1> HIDE DEF n, new
<1>6. \A tag : l.tag # tag => NumberIn(new, tag, n + 1) = NumberIn(ls, tag, n)
  BY <1>1, <1>2, <1>4 DEF NumberIn
<1>7. \A tag : l.tag = tag => NumberIn(new, tag, n + 1) = l.value
  BY <1>1, <1>3, <1>5 DEF NumberIn
<1>8. KeyIn(new, n + 1) = IF l.tag = "KEY" THEN l ELSE KeyIn(ls, n)
  BY <1>1, <1>2, <1>3, <1>4, <1>5 DEF KeyIn
<1> QED BY <1>6, <1>7, <1>8 DEF n, new

LEMMA CountOther ==
  ASSUME NEW ls, IsList(ls), Bounded(ls), NEW l
  PROVE  LET n == Len(ls) + 1
             new == Append(ls, l)
         IN /\ l.tag \notin {"DISCONTINUITY", "DISCONTINUITY-SEQUENCE"} =>
                 CountIn(new, n + 1) = CountIn(ls, n)
            /\ l.tag = "DISCONTINUITY" /\ CountIn(ls, n) \in Nat
                 /\ NumberIn(ls, "DISCONTINUITY-SEQUENCE", n) \in Nat =>
                 CountIn(new, n + 1) = CountIn(ls, n) + 1
            /\ l.tag = "DISCONTINUITY-SEQUENCE" /\ l.value \in Nat =>
                 CountIn(new, n + 1) = l.value
<1> DEFINE n == Len(ls) + 1
           new == Append(ls, l)
           D(list, k) == BeforeIn(list, "DISCONTINUITY", k)
           base == LatestIn(ls, "DISCONTINUITY-SEQUENCE", n)
<1>1. Len(ls) \in Nat /\ n \in Nat /\ n + 1 = Len(ls) + 2 /\ n - 1 = Len(ls) /\ n \in 1..(Len(ls) + 1)
  BY ListGrows
<1>2. base \in 0..Len(ls)
  BY <1>1 DEF Bounded
<1>3. D(ls, n) \subseteq 1..Len(ls) /\ IsFiniteSet(D(ls, n))
  BY Positions
<1>4. CASE l.tag \notin {"DISCONTINUITY", "DISCONTINUITY-SEQUENCE"}
  <2>1. D(new, n + 1) = D(ls, n) /\ LatestIn(new, "DISCONTINUITY-SEQUENCE", n + 1) = base
    BY <1>1, <1>4, OtherTag
  <2>2. NumberIn(new, "DISCONTINUITY-SEQUENCE", n + 1) = NumberIn(ls, "DISCONTINUITY-SEQUENCE", n)
    BY <1>4, MeaningOther
  <2> QED BY <1>4, <2>1, <2>2 DEF CountIn, SinceBase
<1>5. CASE l.tag = "DISCONTINUITY"
  <2>1. /\ D(new, n + 1) = D(ls, n) \cup {n}
        /\ LatestIn(new, "DISCONTINUITY-SEQUENCE", n + 1) = base
    BY <1>1, <1>5, OtherTag, SameTag
  <2>2. NumberIn(new, "DISCONTINUITY-SEQUENCE", n + 1) = NumberIn(ls, "DISCONTINUITY-SEQUENCE", n)
    BY <1>5, MeaningOther
  <2>3. n > base
    BY <1>1, <1>2
  <2>4. SinceBase(new, n + 1) = SinceBase(ls, n) \cup {n} /\ n \notin SinceBase(ls, n)
    BY <1>1, <1>3, <2>1, <2>3 DEF SinceBase
  <2>5. SinceBase(ls, n) \in SUBSET D(ls, n)
    BY DEF SinceBase
  <2>6. IsFiniteSet(SinceBase(ls, n)) /\ Cardinality(SinceBase(ls, n)) \in Nat
    BY <1>3, <2>5, FS_Subset, FS_CardinalityType
  <2>7. Cardinality(SinceBase(new, n + 1)) = Cardinality(SinceBase(ls, n)) + 1
    BY <2>4, <2>6, FS_AddElement
  <2> HIDE DEF n, new
  <2>8. NumberIn(ls, "DISCONTINUITY-SEQUENCE", n) \in Nat =>
          CountIn(new, n + 1) = CountIn(ls, n) + 1
    BY <2>2, <2>6, <2>7 DEF CountIn
  <2> QED BY <1>5, <2>8 DEF n, new
<1>6. CASE l.tag = "DISCONTINUITY-SEQUENCE"
  <2>1. /\ D(new, n + 1) = D(ls, n)
        /\ LatestIn(new, "DISCONTINUITY-SEQUENCE", n + 1) = n
    BY <1>1, <1>6, OtherTag, SameTag
  <2>2. SinceBase(new, n + 1) = {}
    BY <1>1, <1>3, <2>1 DEF SinceBase
  <2>3. NumberIn(new, "DISCONTINUITY-SEQUENCE", n + 1) = l.value
    BY <1>6, MeaningOther
  <2>4. Cardinality(SinceBase(new, n + 1)) = 0
    BY <2>2, FS_EmptySet
  <2> HIDE DEF n, new
  <2>5. l.value \in Nat => CountIn(new, n + 1) = l.value
    BY <2>3, <2>4 DEF CountIn
  <2> QED BY <1>6, <2>5 DEF n, new
<1> QED BY <1>4, <1>5, <1>6

-----------------------------------------------------------------------------
(* The invariant                                                               *)

\* The parser's key is the key line's; whether its IV is given matters for a
\* key that is used.
KeyMeans(key, method, enc, fps) ==
  /\ method = key.method /\ key.method \in Methods
  /\ enc.uri = key.uri
  /\ enc.iv = IF key.iv = NULL THEN 0 ELSE key.iv
  /\ key.method # "NONE" =>
       (enc.iv_is_static <=> key.iv # NULL \/ (key.method # "AES-128" /\ fps))

\* A section is the one of line k with the key in force there; none for k = 0.
SectionMeans(ls, k, s) ==
  IF k = 0 THEN s = NULL
  ELSE /\ s.uri = ls[k].uri /\ s.range = ls[k].range
       /\ s.encryptiontype = KeyIn(ls, k).method
       /\ s.enc_aes.uri = KeyIn(ls, k).uri
       /\ KeyIn(ls, k).method = "AES-128" => s.enc_aes.iv = KeyIn(ls, k).iv

IvIn(fps, key, number) == IF key.iv # NULL THEN key.iv
                          ELSE IF key.method = "NONE" \/ (fps /\ key.method \in SampleAes) THEN 0
                          ELSE number

\* What the i-th segment carries is what the lines ahead of line k say.
SegmentMeans(ls, i, k, s, first, fps) ==
  /\ NamesSegment(ls, i, k)
  /\ s.encryptiontype = KeyIn(ls, k).method
  /\ s.key_uri = KeyIn(ls, k).uri
  /\ s.iv = IvIn(fps, KeyIn(ls, k), s.sequence_number)
  /\ SectionMeans(ls, LatestIn(ls, "MAP", k), s.init_section)
  /\ s.sequence_number = first + i - 1 /\ s.sequence_number <= MaxInt
  /\ s.discontinuity_sequence = CountIn(ls, k) /\ s.discontinuity_sequence \in Nat

Recorded(ls, segments, first, base, fps) ==
  /\ IsList(segments)
  /\ Len(segments) = Cardinality(BeforeIn(ls, "URI", Len(ls) + 1))
  /\ \A i \in DOMAIN segments :
       /\ \E k \in 1..Len(ls) : SegmentMeans(ls, i, k, segments[i], first, fps)
       /\ segments[i].discontinuity_sequence <= base
       /\ i > 1 => segments[i - 1].discontinuity_sequence <= segments[i].discontinuity_sequence

\* What the parser carries to the next line is what all lines so far say.
Carried(ls, m, a, fps) ==
  LET n == Len(ls) + 1
  IN /\ KeyMeans(KeyIn(ls, n), m.encryptiontype, m.enc_aes, fps)
     /\ SectionMeans(ls, LatestIn(ls, "MAP", n), a.section)
     /\ m.first_media_sequence = NumberIn(ls, "MEDIA-SEQUENCE", n)
     /\ m.first_media_sequence \in Nat
     /\ a.discontinuity = CountIn(ls, n) /\ a.discontinuity \in Nat
     /\ NumberIn(ls, "DISCONTINUITY-SEQUENCE", n) \in Nat
     /\ m.last_media_sequence = IF m.segments = <<>> THEN 0
                                ELSE m.segments[Len(m.segments)].sequence_number

\* The parser's records have their fields.
Shape(m, a) ==
  /\ m = [segments |-> m.segments, first_media_sequence |-> m.first_media_sequence,
          last_media_sequence |-> m.last_media_sequence, is_endlist |-> m.is_endlist,
          encryptiontype |-> m.encryptiontype, enc_aes |-> m.enc_aes]
  /\ a = [section |-> a.section, range |-> a.range, discontinuity |-> a.discontinuity,
          duration |-> a.duration]

Parsed(ls, m, a, fps) ==
  /\ Shape(m, a)
  /\ Carried(ls, m, a, fps)
  /\ Recorded(ls, m.segments, m.first_media_sequence, a.discontinuity, fps)

\* A master playlist leaves the media parser's state alone; its lines have
\* their own tags.
Untouched ==
  /\ me.segments = <<>> /\ me.first_media_sequence = 0 /\ me.last_media_sequence = 0
  /\ AtIn(lines, "MEDIA-SEQUENCE") = {}

PlaylistInv ==
  /\ IsList(lines) /\ Bounded(lines)
  /\ IF playlist_type = "media"
     THEN IF Accepted THEN Parsed(lines, me, ahead, dialect.fps) ELSE me.segments = <<>>
     ELSE Untouched

-----------------------------------------------------------------------------
(* One more line keeps what the segments carry.                                *)

LEMMA SectionKept ==
  ASSUME NEW ls, IsList(ls), Bounded(ls), NEW l, NEW k \in 0..Len(ls), NEW s,
         SectionMeans(ls, k, s)
  PROVE  SectionMeans(Append(ls, l), k, s)
<1>1. CASE k = 0
  BY <1>1 DEF SectionMeans
<1>2. CASE k # 0
  <2>1. Len(ls) \in Nat /\ k \in 1..Len(ls) /\ k \in 1..(Len(ls) + 1)
    BY <1>2, ListGrows
  <2>2. Append(ls, l)[k] = ls[k] /\ KeyIn(Append(ls, l), k) = KeyIn(ls, k)
    BY <2>1, ListGrows, MeaningKept
  <2> QED BY <1>2, <2>2 DEF SectionMeans
<1> QED BY <1>1, <1>2

LEMMA SegmentKept ==
  ASSUME NEW ls, IsList(ls), Bounded(ls), NEW l, NEW i, NEW k \in 1..Len(ls), NEW s,
         NEW first, NEW fps, SegmentMeans(ls, i, k, s, first, fps)
  PROVE  SegmentMeans(Append(ls, l), i, k, s, first, fps)
<1> DEFINE new == Append(ls, l)
<1>1. Len(ls) \in Nat /\ k \in 1..(Len(ls) + 1)
  BY ListGrows
<1>2. NamesSegment(new, i, k)
  <2>1. k \in AtIn(new, "URI")
    BY ListGrows DEF SegmentMeans, NamesSegment, AtIn
  <2>2. BeforeIn(new, "URI", k) = BeforeIn(ls, "URI", k)
    BY <1>1, Kept
  <2> QED BY <2>1, <2>2 DEF SegmentMeans, NamesSegment
<1>3. KeyIn(new, k) = KeyIn(ls, k) /\ CountIn(new, k) = CountIn(ls, k)
  BY <1>1, MeaningKept
<1>4. SectionMeans(new, LatestIn(new, "MAP", k), s.init_section)
  <2>1. LatestIn(new, "MAP", k) = LatestIn(ls, "MAP", k)
    BY <1>1, Kept
  <2>2. LatestIn(ls, "MAP", k) \in 0..(k - 1)
    BY <1>1 DEF Bounded
  <2>3. LatestIn(ls, "MAP", k) \in 0..Len(ls)
    BY <1>1, <2>2
  <2> QED BY <2>1, <2>3, SectionKept DEF SegmentMeans
<1> QED BY <1>2, <1>3, <1>4 DEF SegmentMeans

\* A line that names no segment.
LEMMA RecordedKept ==
  ASSUME NEW ls, IsList(ls), Bounded(ls), NEW l, l.tag # "URI",
         NEW segments, NEW first, NEW base \in Nat, NEW fps,
         Recorded(ls, segments, first, base, fps), NEW later \in Nat, base <= later
  PROVE  Recorded(Append(ls, l), segments, first, later, fps)
<1> DEFINE new == Append(ls, l)
<1>1. Len(ls) \in Nat /\ Len(new) = Len(ls) + 1
  BY ListGrows
<1>2. Len(segments) = Cardinality(BeforeIn(new, "URI", Len(new) + 1))
  <2>1. Len(new) + 1 = Len(ls) + 2
    BY <1>1
  <2> QED BY <2>1, OtherTag DEF Recorded
<1>3. ASSUME NEW i \in DOMAIN segments
      PROVE  /\ \E k \in 1..Len(new) : SegmentMeans(new, i, k, segments[i], first, fps)
             /\ segments[i].discontinuity_sequence <= later
  <2>1. PICK k \in 1..Len(ls) : SegmentMeans(ls, i, k, segments[i], first, fps)
    BY <1>3 DEF Recorded
  <2>2. SegmentMeans(new, i, k, segments[i], first, fps)
    BY <2>1, SegmentKept
  <2>3. k \in 1..Len(new)
    BY <1>1, <2>1
  <2>4. segments[i].discontinuity_sequence \in Nat /\ segments[i].discontinuity_sequence <= base
    BY <1>3, <2>1 DEF SegmentMeans, Recorded
  <2>5. segments[i].discontinuity_sequence <= later
    BY <2>4
  <2> QED BY <2>2, <2>3, <2>5
<1> HIDE DEF new
<1>4. IsList(segments)
      /\ \A i \in DOMAIN segments : i > 1 =>
           segments[i - 1].discontinuity_sequence <= segments[i].discontinuity_sequence
  BY DEF Recorded
<1>5. Recorded(new, segments, first, later, fps)
  BY <1>2, <1>3, <1>4 DEF Recorded
<1> QED BY <1>5 DEF new

\* A line that names one.
LEMMA RecordedGrows ==
  ASSUME NEW ls, IsList(ls), Bounded(ls), NEW l, l.tag = "URI",
         NEW segments, NEW first, NEW base \in Nat, NEW fps,
         Recorded(ls, segments, first, base, fps),
         NEW s, s.discontinuity_sequence = base,
         SegmentMeans(Append(ls, l), Len(segments) + 1, Len(ls) + 1, s, first, fps)
  PROVE  Recorded(Append(ls, l), Append(segments, s), first, base, fps)
<1> DEFINE new  == Append(ls, l)
           more == Append(segments, s)
           n    == Len(segments)
<1>0. IsList(segments)
  BY DEF Recorded
<1>1. Len(ls) \in Nat /\ Len(new) = Len(ls) + 1
  BY ListGrows
<1>2. /\ n \in Nat /\ IsList(more) /\ Len(more) = n + 1 /\ DOMAIN more = 1..(n + 1)
      /\ DOMAIN segments = 1..n
      /\ more[n + 1] = s /\ \A i \in 1..n : more[i] = segments[i]
  BY <1>0, ListGrows
<1>3. Len(more) = Cardinality(BeforeIn(new, "URI", Len(new) + 1))
  <2>1. Len(new) + 1 = Len(ls) + 2
    BY <1>1
  <2>2. BeforeIn(new, "URI", Len(new) + 1) = BeforeIn(ls, "URI", Len(ls) + 1) \cup {Len(ls) + 1}
    BY <2>1, SameTag
  <2>3. Len(ls) + 1 \notin BeforeIn(ls, "URI", Len(ls) + 1)
    BY <1>1 DEF BeforeIn
  <2>4. IsFiniteSet(BeforeIn(ls, "URI", Len(ls) + 1))
    BY Positions
  <2>5. n = Cardinality(BeforeIn(ls, "URI", Len(ls) + 1))
    BY DEF Recorded
  <2> QED BY <1>2, <2>2, <2>3, <2>4, <2>5, FS_AddElement
<1>4. ASSUME NEW i \in 1..n
      PROVE  /\ \E k \in 1..Len(new) : SegmentMeans(new, i, k, segments[i], first, fps)
             /\ segments[i].discontinuity_sequence <= base
             /\ segments[i].discontinuity_sequence \in Nat
  <2>1. PICK k \in 1..Len(ls) : SegmentMeans(ls, i, k, segments[i], first, fps)
    BY <1>2, <1>4 DEF Recorded
  <2>2. SegmentMeans(new, i, k, segments[i], first, fps)
    BY <2>1, SegmentKept
  <2>3. k \in 1..Len(new)
    BY <1>1, <2>1
  <2>4. segments[i].discontinuity_sequence \in Nat /\ segments[i].discontinuity_sequence <= base
    BY <1>2, <1>4, <2>1 DEF SegmentMeans, Recorded
  <2> QED BY <2>2, <2>3, <2>4
<1>5. \E k \in 1..Len(new) : SegmentMeans(new, n + 1, k, s, first, fps)
  BY <1>1
<1>6. \A i \in 1..n : i > 1 =>
        segments[i - 1].discontinuity_sequence <= segments[i].discontinuity_sequence
  BY <1>2 DEF Recorded
<1> HIDE DEF new, more, n
<1>7. ASSUME NEW i \in 1..(n + 1)
      PROVE  /\ \E k \in 1..Len(new) : SegmentMeans(new, i, k, more[i], first, fps)
             /\ more[i].discontinuity_sequence <= base
             /\ i > 1 => more[i - 1].discontinuity_sequence <= more[i].discontinuity_sequence
  <2>1. CASE i = n + 1
    <3>1. more[i].discontinuity_sequence = base
      BY <1>2, <2>1
    <3>2. i > 1 => n \in 1..n /\ i - 1 = n /\ more[n] = segments[n]
      BY <1>2, <2>1
    <3>3. i > 1 => more[i - 1].discontinuity_sequence <= base
      BY <1>4, <3>2
    <3> QED BY <1>2, <1>5, <2>1, <3>1, <3>3
  <2>2. CASE i \in 1..n
    <3>1. more[i] = segments[i]
      BY <1>2, <2>2
    <3>2. i > 1 => more[i - 1] = segments[i - 1]
      BY <1>2, <2>2
    <3> QED BY <1>4, <1>6, <2>2, <3>1, <3>2
  <2> QED BY <1>2, <2>1, <2>2
<1>8. Recorded(new, more, first, base, fps)
  BY <1>2, <1>3, <1>7 DEF Recorded
<1> QED BY <1>8 DEF new, more

LEMMA EmptyIsList == IsList(<<>>) /\ Len(<<>>) = 0 /\ DOMAIN <<>> = {}
<1>1. <<>> \in Seq({})
  OBVIOUS
<1> QED BY <1>1 DEF IsList

\* What the lines say at the end of the playlist after one more.
LEMMA MeaningNext ==
  ASSUME NEW ls, IsList(ls), Bounded(ls), NEW l
  PROVE  LET n   == Len(ls) + 1
             new == Append(ls, l)
             N   == Len(new) + 1
         IN /\ KeyIn(new, N) = IF l.tag = "KEY" THEN l ELSE KeyIn(ls, n)
            /\ \A tag : NumberIn(new, tag, N) = IF l.tag = tag THEN l.value ELSE NumberIn(ls, tag, n)
            /\ LatestIn(new, "MAP", N) = IF l.tag = "MAP" THEN n ELSE LatestIn(ls, "MAP", n)
            /\ \A s : l.tag # "MAP" /\ SectionMeans(ls, LatestIn(ls, "MAP", n), s)
                      => SectionMeans(new, LatestIn(new, "MAP", N), s)
<1> DEFINE n   == Len(ls) + 1
           new == Append(ls, l)
           N   == Len(new) + 1
<1>1. Len(ls) \in Nat /\ Len(new) = n /\ N = n + 1 /\ N = Len(ls) + 2 /\ n - 1 = Len(ls)
      /\ n \in 1..(Len(ls) + 1)
  BY ListGrows
<1>2. KeyIn(new, N) = IF l.tag = "KEY" THEN l ELSE KeyIn(ls, n)
  BY <1>1, MeaningOther
<1>3. \A tag : NumberIn(new, tag, N) = IF l.tag = tag THEN l.value ELSE NumberIn(ls, tag, n)
  BY <1>1, MeaningOther
<1>4. LatestIn(new, "MAP", N) = IF l.tag = "MAP" THEN n ELSE LatestIn(ls, "MAP", n)
  BY <1>1, OtherTag, SameTag
<1>5. LatestIn(ls, "MAP", n) \in 0..Len(ls)
  BY <1>1 DEF Bounded
<1>6. \A s : l.tag # "MAP" /\ SectionMeans(ls, LatestIn(ls, "MAP", n), s)
             => SectionMeans(new, LatestIn(new, "MAP", N), s)
  BY <1>4, <1>5, SectionKept
<1> QED BY <1>2, <1>3, <1>4, <1>6

\* A tag: it changes what it is about, unless segments depend on that.
LEMMA TagKeeps ==
  ASSUME NEW ls, IsList(ls), Bounded(ls), NEW l, l.tag # "URI",
         NEW m, NEW a, NEW m2, NEW a2, NEW fps, Parsed(ls, m, a, fps), Shape(m2, a2),
         m2.segments = m.segments, m2.last_media_sequence = m.last_media_sequence,
         IF l.tag = "KEY" THEN KeyMeans(l, m2.encryptiontype, m2.enc_aes, fps)
         ELSE m2.encryptiontype = m.encryptiontype /\ m2.enc_aes = m.enc_aes,
         IF l.tag = "MAP" THEN SectionMeans(Append(ls, l), Len(ls) + 1, a2.section)
         ELSE a2.section = a.section,
         IF l.tag = "MEDIA-SEQUENCE"
         THEN m.segments = <<>> /\ m2.first_media_sequence = l.value /\ l.value \in Nat
         ELSE m2.first_media_sequence = m.first_media_sequence,
         IF l.tag = "DISCONTINUITY-SEQUENCE"
         THEN m.segments = <<>> /\ a2.discontinuity = l.value /\ l.value \in Nat
         ELSE a2.discontinuity = IF l.tag = "DISCONTINUITY" THEN a.discontinuity + 1
                                 ELSE a.discontinuity
  PROVE  Parsed(Append(ls, l), m2, a2, fps)
<1> DEFINE n   == Len(ls) + 1
           new == Append(ls, l)
           N   == Len(new) + 1
<1>1. Carried(ls, m, a, fps) /\ Recorded(ls, m.segments, m.first_media_sequence, a.discontinuity, fps)
  BY DEF Parsed
<1>2. KeyMeans(KeyIn(new, N), m2.encryptiontype, m2.enc_aes, fps)
  <2>1. KeyIn(new, N) = IF l.tag = "KEY" THEN l ELSE KeyIn(ls, n)
    BY MeaningNext
  <2>2. KeyMeans(KeyIn(ls, n), m.encryptiontype, m.enc_aes, fps)
    BY <1>1 DEF Carried
  <2> QED BY <2>1, <2>2
<1>3. SectionMeans(new, LatestIn(new, "MAP", N), a2.section)
  <2>1. CASE l.tag = "MAP"
    <3>1. LatestIn(new, "MAP", N) = n
      BY <2>1, MeaningNext
    <3> QED BY <2>1, <3>1
  <2>2. CASE l.tag # "MAP"
    <3>1. SectionMeans(ls, LatestIn(ls, "MAP", n), a.section) /\ a2.section = a.section
      BY <1>1, <2>2 DEF Carried
    <3> QED BY <2>2, <3>1, MeaningNext
  <2> QED BY <2>1, <2>2
<1>4. /\ m2.first_media_sequence = NumberIn(new, "MEDIA-SEQUENCE", N)
      /\ m2.first_media_sequence \in Nat
  <2>1. NumberIn(new, "MEDIA-SEQUENCE", N)
          = IF l.tag = "MEDIA-SEQUENCE" THEN l.value ELSE NumberIn(ls, "MEDIA-SEQUENCE", n)
    BY MeaningNext
  <2>2. /\ m.first_media_sequence = NumberIn(ls, "MEDIA-SEQUENCE", n)
        /\ m.first_media_sequence \in Nat
    BY <1>1 DEF Carried
  <2> QED BY <2>1, <2>2
<1>5. NumberIn(new, "DISCONTINUITY-SEQUENCE", N) \in Nat
  <2>1. NumberIn(new, "DISCONTINUITY-SEQUENCE", N)
          = IF l.tag = "DISCONTINUITY-SEQUENCE" THEN l.value
            ELSE NumberIn(ls, "DISCONTINUITY-SEQUENCE", n)
    BY MeaningNext
  <2>2. NumberIn(ls, "DISCONTINUITY-SEQUENCE", n) \in Nat
    BY <1>1 DEF Carried
  <2> QED BY <2>1, <2>2
<1>6. a2.discontinuity = CountIn(new, N) /\ a2.discontinuity \in Nat
  <2>1. /\ a.discontinuity = CountIn(ls, n) /\ a.discontinuity \in Nat
        /\ NumberIn(ls, "DISCONTINUITY-SEQUENCE", n) \in Nat
    BY <1>1 DEF Carried
  <2>2. N = n + 1
    BY ListGrows
  <2>3. CASE l.tag = "DISCONTINUITY"
    <3>1. CountIn(new, n + 1) = CountIn(ls, n) + 1
      BY <2>1, <2>3, CountOther
    <3>2. a2.discontinuity = a.discontinuity + 1
      BY <2>3
    <3> HIDE DEF n, new, N
    <3> QED BY <2>1, <2>2, <3>1, <3>2
  <2>4. CASE l.tag = "DISCONTINUITY-SEQUENCE"
    <3>1. CountIn(new, n + 1) = l.value
      BY <2>4, CountOther
    <3>2. a2.discontinuity = l.value /\ l.value \in Nat
      BY <2>4
    <3> HIDE DEF n, new, N
    <3> QED BY <2>2, <3>1, <3>2
  <2>5. CASE l.tag \notin {"DISCONTINUITY", "DISCONTINUITY-SEQUENCE"}
    <3>1. CountIn(new, n + 1) = CountIn(ls, n)
      BY <2>5, CountOther
    <3>2. a2.discontinuity = a.discontinuity
      BY <2>5
    <3> HIDE DEF n, new, N
    <3> QED BY <2>1, <2>2, <3>1, <3>2
  <2> QED BY <2>3, <2>4, <2>5
<1>7. m2.last_media_sequence = IF m2.segments = <<>> THEN 0
                               ELSE m2.segments[Len(m2.segments)].sequence_number
  BY <1>1 DEF Carried
<1>8. Recorded(new, m2.segments, m2.first_media_sequence, a2.discontinuity, fps)
  <2>0. a.discontinuity \in Nat /\ a2.discontinuity \in Nat
    BY <1>1, <1>6 DEF Carried
  <2>1. CASE m.segments = <<>>
    <3>1. Recorded(new, m.segments, m.first_media_sequence, a.discontinuity, fps)
      BY <1>1, <2>0, RecordedKept
    <3> QED BY <2>1, <3>1, EmptyIsList DEF Recorded
  <2>2. CASE m.segments # <<>>
    <3>1. /\ m2.first_media_sequence = m.first_media_sequence
          /\ a2.discontinuity = IF l.tag = "DISCONTINUITY" THEN a.discontinuity + 1
                                ELSE a.discontinuity
      BY <2>2
    <3>2. a.discontinuity <= a2.discontinuity
      BY <2>0, <3>1
    <3> QED BY <1>1, <2>0, <3>1, <3>2, RecordedKept
  <2> QED BY <2>1, <2>2
<1>9. Carried(new, m2, a2, fps)
  BY <1>2, <1>3, <1>4, <1>5, <1>6, <1>7 DEF Carried
<1> QED BY <1>8, <1>9 DEF Parsed

\* The IV that a segment gets is the one its key line gives or implies.
LEMMA IvOfKey ==
  ASSUME NEW key, NEW method, NEW enc, NEW fps, KeyMeans(key, method, enc, fps), NEW number
  PROVE  (IF method # "NONE" /\ ~enc.iv_is_static THEN number ELSE enc.iv)
           = IvIn(fps, key, number)
<1>1. CASE key.iv # NULL
  BY <1>1 DEF KeyMeans, IvIn
<1>2. CASE key.iv = NULL /\ key.method = "NONE"
  BY <1>2 DEF KeyMeans, IvIn
<1>3. CASE key.iv = NULL /\ key.method \in SampleAes /\ fps
  BY <1>3 DEF KeyMeans, IvIn, SampleAes
<1>4. CASE key.iv = NULL /\ key.method # "NONE" /\ ~(key.method \in SampleAes /\ fps)
  BY <1>4 DEF KeyMeans, IvIn, SampleAes, Methods
<1> QED BY <1>1, <1>2, <1>3, <1>4

\* A line that names a segment.
LEMMA UriRecorded ==
  ASSUME NEW l, playlist_type = "media", Accepted, PlaylistInv, ReadUri(l)
  PROVE  Parsed(lines', me', ahead', dialect'.fps)
<1> DEFINE n   == Len(lines) + 1
           new == Append(lines, l)
           N   == Len(new) + 1
           s   == Segment(l.uri)
           fps == dialect.fps
<1>1. /\ IsList(lines) /\ Bounded(lines) /\ Shape(me, ahead)
      /\ Carried(lines, me, ahead, fps)
      /\ Recorded(lines, me.segments, me.first_media_sequence, ahead.discontinuity, fps)
  BY DEF PlaylistInv, Parsed
<1>2. l.tag = "URI" /\ lines' = new /\ dialect' = dialect /\ UriOk(l.uri)
  BY DEF ReadUri, Line
<1>3. /\ Shape(me', ahead')
      /\ me'.segments = Append(me.segments, s) /\ me'.last_media_sequence = SegmentNumber
      /\ me'.first_media_sequence = me.first_media_sequence
      /\ me'.encryptiontype = me.encryptiontype /\ me'.enc_aes = me.enc_aes
      /\ ahead'.section = ahead.section /\ ahead'.discontinuity = ahead.discontinuity
  BY <1>1 DEF Shape, ReadUri
<1>4. Len(lines) \in Nat /\ Len(new) = n /\ N = n + 1 /\ n \in 1..(Len(lines) + 1) /\ n - 1 = Len(lines)
  BY <1>1, ListGrows
<1>5. IsList(me.segments)
  BY <1>1 DEF Recorded
<1>6. Len(me.segments) \in Nat /\ me.first_media_sequence \in Nat /\ ahead.discontinuity \in Nat
  BY <1>1, <1>5, ListGrows DEF Carried
<1>7. SegmentMeans(new, Len(me.segments) + 1, n, s, me.first_media_sequence, fps)
  <2>1. NamesSegment(new, Len(me.segments) + 1, n)
    <3>1. n \in AtIn(new, "URI")
      BY <1>1, <1>2, ListGrows DEF AtIn
    <3>2. BeforeIn(new, "URI", n) = BeforeIn(lines, "URI", n)
      BY <1>1, <1>4, Kept
    <3>3. Len(me.segments) = Cardinality(BeforeIn(lines, "URI", n))
      BY <1>1 DEF Recorded
    <3> HIDE DEF n, new
    <3> QED BY <1>6, <3>1, <3>2, <3>3 DEF NamesSegment
  <2>2. KeyIn(new, n) = KeyIn(lines, n) /\ CountIn(new, n) = CountIn(lines, n)
    BY <1>1, <1>4, MeaningKept
  <2>3. KeyMeans(KeyIn(lines, n), me.encryptiontype, me.enc_aes, fps)
    BY <1>1 DEF Carried
  <2>4. SectionMeans(new, LatestIn(new, "MAP", n), s.init_section)
    <3>1. LatestIn(new, "MAP", n) = LatestIn(lines, "MAP", n)
      BY <1>1, <1>4, Kept
    <3>2. LatestIn(lines, "MAP", n) \in 0..Len(lines)
      BY <1>1, <1>4 DEF Bounded
    <3>3. SectionMeans(lines, LatestIn(lines, "MAP", n), ahead.section)
      BY <1>1 DEF Carried
    <3>4. s.init_section = ahead.section
      BY DEF Segment
    <3> QED BY <1>1, <3>1, <3>2, <3>3, <3>4, SectionKept
  <2>5. s.discontinuity_sequence = CountIn(new, n) /\ s.discontinuity_sequence \in Nat
    BY <1>1, <1>6, <2>2 DEF Segment, Carried
  <2>6. /\ s.sequence_number = me.first_media_sequence + (Len(me.segments) + 1) - 1
        /\ s.sequence_number <= MaxInt
    BY <1>2, <1>6 DEF Segment, SegmentNumber, UriOk
  <2>7. s.encryptiontype = KeyIn(new, n).method /\ s.key_uri = KeyIn(new, n).uri
    BY <2>2, <2>3 DEF Segment, KeyMeans
  <2>8. s.iv = IvIn(fps, KeyIn(new, n), s.sequence_number)
    <3>1. s.iv = IF me.encryptiontype # "NONE" /\ ~me.enc_aes.iv_is_static
                 THEN s.sequence_number ELSE me.enc_aes.iv
      BY DEF Segment
    <3> HIDE DEF s, fps, n, new
    <3> QED BY <2>2, <2>3, <3>1, IvOfKey
  <2> HIDE DEF n, new, s, fps
  <2> QED BY <2>1, <2>4, <2>5, <2>6, <2>7, <2>8 DEF SegmentMeans
<1>8. Recorded(new, Append(me.segments, s), me.first_media_sequence, ahead.discontinuity, fps)
  <2>1. s.discontinuity_sequence = ahead.discontinuity
    BY DEF Segment
  <2> HIDE DEF s, fps
  <2> QED BY <1>1, <1>2, <1>6, <1>7, <2>1, RecordedGrows
<1>9. Carried(new, me', ahead', fps)
  <2>1. KeyMeans(KeyIn(new, N), me.encryptiontype, me.enc_aes, fps)
    <3>1. KeyIn(new, N) = KeyIn(lines, n)
      BY <1>1, <1>2, MeaningNext
    <3> QED BY <1>1, <3>1 DEF Carried
  <2>2. SectionMeans(new, LatestIn(new, "MAP", N), ahead.section)
    <3>1. SectionMeans(lines, LatestIn(lines, "MAP", n), ahead.section)
      BY <1>1 DEF Carried
    <3> QED BY <1>1, <1>2, <3>1, MeaningNext
  <2>3. /\ NumberIn(new, "MEDIA-SEQUENCE", N) = NumberIn(lines, "MEDIA-SEQUENCE", n)
        /\ NumberIn(new, "DISCONTINUITY-SEQUENCE", N) = NumberIn(lines, "DISCONTINUITY-SEQUENCE", n)
    BY <1>1, <1>2, MeaningNext
  <2>4. CountIn(new, N) = CountIn(lines, n)
    BY <1>1, <1>2, <1>4, CountOther
  <2>5. me'.last_media_sequence = IF me'.segments = <<>> THEN 0
                                  ELSE me'.segments[Len(me'.segments)].sequence_number
    <3>1. /\ Len(me'.segments) = Len(me.segments) + 1
          /\ me'.segments[Len(me.segments) + 1] = s
      BY <1>3, <1>5, ListGrows
    <3>2. s.sequence_number = SegmentNumber
      BY DEF Segment
    <3>3. me'.segments # <<>>
      BY <1>6, <3>1, EmptyIsList
    <3> HIDE DEF s
    <3> QED BY <1>3, <3>1, <3>2, <3>3
  <2>6. /\ me.first_media_sequence = NumberIn(lines, "MEDIA-SEQUENCE", n)
        /\ ahead.discontinuity = CountIn(lines, n)
        /\ NumberIn(lines, "DISCONTINUITY-SEQUENCE", n) \in Nat
    BY <1>1 DEF Carried
  <2> HIDE DEF n, s, fps, new
  <2> QED BY <1>3, <1>6, <2>1, <2>2, <2>3, <2>4, <2>5, <2>6 DEF Carried, N
<1> HIDE DEF n, s, new
<1> QED BY <1>2, <1>3, <1>8, <1>9 DEF Parsed, fps

LEMMA KeyRead ==
  ASSUME NEW l, playlist_type = "media", Accepted, PlaylistInv, ReadKey(l)
  PROVE  Parsed(lines', me', ahead', dialect'.fps)
<1>1. IsList(lines) /\ Bounded(lines) /\ Parsed(lines, me, ahead, dialect.fps) /\ Shape(me, ahead)
  BY DEF PlaylistInv, Parsed
<1>2. l.tag = "KEY" /\ lines' = Append(lines, l) /\ dialect' = dialect
  BY DEF ReadKey, Line
<1>3. Shape(me', ahead') /\ me'.encryptiontype = l.method /\ me'.enc_aes = KeyOf(l)
      /\ me'.segments = me.segments /\ me'.last_media_sequence = me.last_media_sequence
      /\ me'.first_media_sequence = me.first_media_sequence /\ ahead' = ahead
  BY <1>1 DEF Shape, ReadKey
<1>4. KeyMeans(l, me'.encryptiontype, me'.enc_aes, dialect.fps)
  <2>1. l.method \in Methods
    BY DEF ReadKey, KeyOk
  <2>2. me'.enc_aes.uri = l.uri /\ me'.enc_aes.iv = IF l.iv = NULL THEN 0 ELSE l.iv
    BY <1>3 DEF KeyOf
  <2>3. me'.enc_aes.iv_is_static = (l.iv # NULL \/ (l.method # "AES-128" /\ dialect.fps))
    <3> DEFINE given  == l.iv # NULL \/ (l.method # "AES-128" /\ dialect.fps)
               number == IF l.iv = NULL THEN 0 ELSE l.iv
    <3>1. KeyOf(l) = [uri |-> l.uri, iv |-> number, iv_is_static |-> given]
      BY Zenon DEF KeyOf
    <3> HIDE DEF given, number
    <3>2. me'.enc_aes.iv_is_static = given
      BY <1>3, <3>1
    <3> QED BY <3>2 DEF given
  <2>4. me'.enc_aes.iv_is_static <=> l.iv # NULL \/ (l.method # "AES-128" /\ dialect.fps)
    BY <2>3, Zenon
  <2> QED BY <1>3, <2>1, <2>2, <2>4, Zenon DEF KeyMeans
<1> QED BY <1>1, <1>2, <1>3, <1>4, TagKeeps

LEMMA MapRead ==
  ASSUME NEW l, playlist_type = "media", Accepted, PlaylistInv, ReadMap(l)
  PROVE  Parsed(lines', me', ahead', dialect'.fps)
<1> DEFINE n   == Len(lines) + 1
           new == Append(lines, l)
<1>1. IsList(lines) /\ Bounded(lines) /\ Parsed(lines, me, ahead, dialect.fps) /\ Shape(me, ahead)
  BY DEF PlaylistInv, Parsed
<1>2. l.tag = "MAP" /\ lines' = new /\ dialect' = dialect
  BY DEF ReadMap, Line
<1>3. Shape(me', ahead') /\ me' = me /\ ahead'.section = Section(l)
      /\ ahead'.discontinuity = ahead.discontinuity
  BY <1>1 DEF Shape, ReadMap
<1>4. SectionMeans(new, n, Section(l))
  <2>1. Len(lines) \in Nat /\ new[n] = l /\ n # 0
    BY <1>1, ListGrows
  <2>2. KeyIn(new, n) = KeyIn(lines, n)
    BY <1>1, <2>1, MeaningKept
  <2>3. KeyMeans(KeyIn(lines, n), me.encryptiontype, me.enc_aes, dialect.fps)
    BY <1>1 DEF Parsed, Carried
  <2>4. me.encryptiontype = "AES-128" => me.enc_aes.iv_is_static
    BY DEF ReadMap, MapUsable
  <2> HIDE DEF n, new
  <2>5. KeyIn(lines, n).method = "AES-128" => me.enc_aes.iv = KeyIn(lines, n).iv
    BY <2>3, <2>4 DEF KeyMeans
  <2> QED BY <2>1, <2>2, <2>3, <2>5 DEF SectionMeans, Section, KeyMeans
<1> QED BY <1>1, <1>2, <1>3, <1>4, TagKeeps

LEMMA CounterRead ==
  ASSUME NEW l, playlist_type = "media", Accepted, PlaylistInv,
         ReadMediaSequence(l) \/ ReadDiscontinuitySequence(l)
  PROVE  Parsed(lines', me', ahead', dialect'.fps)
<1>1. IsList(lines) /\ Bounded(lines) /\ Parsed(lines, me, ahead, dialect.fps) /\ Shape(me, ahead)
  BY DEF PlaylistInv, Parsed
<1>2. /\ lines' = Append(lines, l) /\ dialect' = dialect
      /\ me.segments = <<>> /\ l.value \in Nat
  BY DEF ReadMediaSequence, ReadDiscontinuitySequence, CounterOk, Line
<1>3. CASE ReadMediaSequence(l)
  <2>1. l.tag = "MEDIA-SEQUENCE"
    BY <1>3 DEF ReadMediaSequence, Line
  <2>2. Shape(me', ahead') /\ me'.segments = me.segments
        /\ me'.encryptiontype = me.encryptiontype /\ me'.enc_aes = me.enc_aes
        /\ me'.last_media_sequence = me.last_media_sequence
        /\ me'.first_media_sequence = l.value /\ ahead' = ahead
    BY <1>1, <1>3 DEF Shape, ReadMediaSequence
  <2> QED BY <1>1, <1>2, <2>1, <2>2, TagKeeps
<1>4. CASE ReadDiscontinuitySequence(l)
  <2>1. l.tag = "DISCONTINUITY-SEQUENCE"
    BY <1>4 DEF ReadDiscontinuitySequence, Line
  <2>2. Shape(me', ahead') /\ me' = me /\ ahead'.section = ahead.section
        /\ ahead'.discontinuity = l.value
    BY <1>1, <1>4 DEF Shape, ReadDiscontinuitySequence
  <2> QED BY <1>1, <1>2, <2>1, <2>2, TagKeeps
<1> QED BY <1>3, <1>4

LEMMA OtherRead ==
  ASSUME NEW l, playlist_type = "media", Accepted, PlaylistInv,
         ReadInf(l) \/ ReadEndlist(l) \/ ReadByteRange(l) \/ ReadDiscontinuity(l)
  PROVE  Parsed(lines', me', ahead', dialect'.fps)
<1>1. IsList(lines) /\ Bounded(lines) /\ Parsed(lines, me, ahead, dialect.fps) /\ Shape(me, ahead)
  BY DEF PlaylistInv, Parsed
<1>2. /\ lines' = Append(lines, l) /\ dialect' = dialect
      /\ l.tag \in {"EXTINF", "ENDLIST", "BYTERANGE", "DISCONTINUITY"}
  BY DEF ReadInf, ReadEndlist, ReadByteRange, ReadDiscontinuity, Line
<1>3. /\ Shape(me', ahead') /\ me'.segments = me.segments
      /\ me'.encryptiontype = me.encryptiontype /\ me'.enc_aes = me.enc_aes
      /\ me'.last_media_sequence = me.last_media_sequence
      /\ me'.first_media_sequence = me.first_media_sequence
      /\ ahead'.section = ahead.section
      /\ ahead'.discontinuity = IF l.tag = "DISCONTINUITY" THEN ahead.discontinuity + 1
                                ELSE ahead.discontinuity
  <2>1. CASE ReadInf(l)
    BY <1>1, <2>1 DEF Shape, ReadInf, Line
  <2>2. CASE ReadEndlist(l)
    BY <1>1, <2>2 DEF Shape, ReadEndlist, Line
  <2>3. CASE ReadByteRange(l)
    BY <1>1, <2>3 DEF Shape, ReadByteRange, Line
  <2>4. CASE ReadDiscontinuity(l)
    BY <1>1, <2>4 DEF Shape, ReadDiscontinuity, Line
  <2> QED BY <2>1, <2>2, <2>3, <2>4
<1>4. /\ l.tag # "URI" /\ l.tag # "KEY" /\ l.tag # "MAP" /\ l.tag # "MEDIA-SEQUENCE"
      /\ l.tag # "DISCONTINUITY-SEQUENCE"
  BY <1>2
<1> QED BY <1>1, <1>2, <1>3, <1>4, TagKeeps

-----------------------------------------------------------------------------
(* Every step keeps the invariant.                                             *)

LEMMA MediaLine ==
  ASSUME NEW l, playlist_type = "media", playlist_type' = playlist_type, PlaylistInv,
         \/ ReadKey(l) \/ ReadMap(l) \/ ReadInf(l) \/ ReadEndlist(l)
         \/ ReadMediaSequence(l) \/ ReadDiscontinuitySequence(l) \/ ReadDiscontinuity(l)
         \/ ReadByteRange(l) \/ ReadUri(l)
  PROVE  PlaylistInv'
<1>1. status = "parsing" /\ status' = status /\ lines' = Append(lines, l)
  BY DEF ReadKey, ReadMap, ReadInf, ReadEndlist, ReadMediaSequence,
         ReadDiscontinuitySequence, ReadDiscontinuity, ReadByteRange, ReadUri, Line
<1>2. Accepted /\ Accepted'
  BY <1>1 DEF Accepted
<1>3. Parsed(lines', me', ahead', dialect'.fps)
  BY <1>2, KeyRead, MapRead, CounterRead, OtherRead, UriRecorded
<1>4. IsList(lines') /\ Bounded(lines')
  BY <1>1, ListGrows, BoundedKept DEF PlaylistInv
<1> QED BY <1>2, <1>3, <1>4 DEF PlaylistInv

LEMMA MediaStep == PlaylistInv /\ ParseMedia => PlaylistInv'
<1> SUFFICES ASSUME PlaylistInv, ParseMedia PROVE PlaylistInv'
  OBVIOUS
<1>1. playlist_type = "media" /\ playlist_type' = playlist_type /\ Next
  BY DEF ParseMedia
<1>2. CASE \E l \in dialect.lines : Reject(l)
  <2>1. PICK l \in dialect.lines : Reject(l)
    BY <1>2
  <2>2. status = "parsing" /\ lines' = Append(lines, l) /\ status' = "error"
        /\ me' = [me EXCEPT !.segments = <<>>]
    BY <2>1 DEF Reject
  <2>3. Shape(me, ahead)
    BY <1>1, <2>2 DEF PlaylistInv, Accepted, Parsed
  <2>4. me'.segments = <<>>
    BY <2>2, <2>3 DEF Shape
  <2>5. IsList(lines') /\ Bounded(lines')
    BY <2>2, ListGrows, BoundedKept DEF PlaylistInv
  <2> QED BY <1>1, <2>2, <2>4, <2>5 DEF PlaylistInv, Accepted
<1>3. CASE EndOfSource
  <2>1. /\ status = "parsing" /\ status' = "done"
        /\ UNCHANGED <<dialect, lines, me, ahead>>
    BY <1>3 DEF EndOfSource
  <2> QED BY <1>1, <2>1 DEF PlaylistInv, Accepted
<1> QED BY <1>1, <1>2, <1>3, MediaLine DEF Next

LEMMA MasterStep == PlaylistInv /\ ParseMaster => PlaylistInv'
<1> SUFFICES ASSUME PlaylistInv, ParseMaster PROVE PlaylistInv'
  OBVIOUS
<1>1. playlist_type = "master" /\ playlist_type' = playlist_type /\ me' = me /\ Master!Next
  BY DEF ParseMaster, media_vars
<1>2. Untouched /\ IsList(lines) /\ Bounded(lines)
  BY <1>1 DEF PlaylistInv
<1>3. CASE lines' = lines
  BY <1>1, <1>2, <1>3 DEF PlaylistInv, Untouched
<1>4. ASSUME NEW l, lines' = Append(lines, l), l.tag # "MEDIA-SEQUENCE"
      PROVE  PlaylistInv'
  <2>1. AtIn(lines', "MEDIA-SEQUENCE") = {}
    <3>1. AtIn(lines, "MEDIA-SEQUENCE") = {}
      BY <1>2 DEF Untouched
    <3>2. /\ Len(lines) \in Nat /\ DOMAIN lines' = 1..(Len(lines) + 1) /\ DOMAIN lines = 1..Len(lines)
          /\ lines'[Len(lines) + 1] = l
          /\ \A k \in 1..Len(lines) : lines'[k] = lines[k]
      BY <1>2, <1>4, ListGrows
    <3> QED BY <1>4, <3>1, <3>2 DEF AtIn
  <2>2. IsList(lines') /\ Bounded(lines')
    BY <1>2, <1>4, ListGrows, BoundedKept
  <2> QED BY <1>1, <1>2, <2>1, <2>2 DEF PlaylistInv, Untouched
<1>5. CASE \E l \in MasterLines :
             \/ Master!ReadStreamInf(l) \/ Master!ReadMedia(l) \/ Master!ReadOther(l)
             \/ Master!ReadUrl(l) \/ Master!IgnoreText(l)
  <2>1. PICK l \in MasterLines :
             \/ Master!ReadStreamInf(l) \/ Master!ReadMedia(l) \/ Master!ReadOther(l)
             \/ Master!ReadUrl(l) \/ Master!IgnoreText(l)
    BY <1>5
  <2>2. lines' = Append(lines, l) /\ l.tag \in {"STREAM-INF", "MEDIA", "OTHER", "TEXT"}
    BY <2>1 DEF Master!ReadStreamInf, Master!ReadMedia, Master!ReadOther, Master!ReadUrl,
                Master!IgnoreText, Master!Line
  <2> QED BY <1>4, <2>2
<1>6. CASE Master!EndOfSource
  BY <1>3, <1>6 DEF Master!EndOfSource
<1> QED BY <1>1, <1>5, <1>6 DEF Master!Next

LEMMA EmptyPlaylist == PlaylistInit => PlaylistInv
<1> SUFFICES ASSUME PlaylistInit PROVE PlaylistInv
  OBVIOUS
<1>1. /\ lines = <<>> /\ status = "parsing"
      /\ me = [segments |-> <<>>, first_media_sequence |-> 0, last_media_sequence |-> 0,
               is_endlist |-> FALSE, encryptiontype |-> "NONE", enc_aes |-> NoKey]
      /\ ahead = [section |-> NULL, range |-> NoRange, discontinuity |-> 0, duration |-> 0]
  BY DEF PlaylistInit, Init
<1>2. \A tag, k : AtIn(lines, tag) = {} /\ BeforeIn(lines, tag, k) = {} /\ LatestIn(lines, tag, k) = 0
  BY <1>1, EmptyIsList DEF AtIn, BeforeIn, LatestIn
<1>3. IsList(lines) /\ Len(lines) = 0 /\ Bounded(lines)
  BY <1>1, <1>2, EmptyIsList DEF Bounded
<1>4. KeyIn(lines, 1) = NoKeyLine /\ \A tag : NumberIn(lines, tag, 1) = 0
  BY <1>2 DEF KeyIn, NumberIn
<1>5. CountIn(lines, 1) = 0
  <2>1. SinceBase(lines, 1) = {}
    BY <1>2 DEF SinceBase
  <2> QED BY <1>4, <2>1, FS_EmptySet DEF CountIn
<1>6. KeyMeans(KeyIn(lines, 1), me.encryptiontype, me.enc_aes, dialect.fps)
  BY <1>1, <1>4 DEF KeyMeans, NoKeyLine, NoKey, Methods
<1>7. SectionMeans(lines, LatestIn(lines, "MAP", 1), ahead.section)
  BY <1>1, <1>2 DEF SectionMeans
<1>8. Carried(lines, me, ahead, dialect.fps)
  BY <1>1, <1>3, <1>4, <1>5, <1>6, <1>7 DEF Carried
<1>9. Recorded(lines, me.segments, me.first_media_sequence, ahead.discontinuity, dialect.fps)
  <2>1. Cardinality(BeforeIn(lines, "URI", Len(lines) + 1)) = 0
    BY <1>2, FS_EmptySet
  <2>2. me.segments = <<>>
    BY <1>1
  <2> QED BY <2>1, <2>2, EmptyIsList DEF Recorded
<1>10. Shape(me, ahead)
  BY <1>1 DEF Shape
<1>11. Untouched /\ Accepted
  BY <1>1, <1>2 DEF Untouched, Accepted
<1> QED BY <1>3, <1>8, <1>9, <1>10, <1>11 DEF PlaylistInv, Parsed

\* What the parser has stored and what it carries to the next line is what the
\* lines read so far say, and a playlist that was rejected has no segments.
THEOREM PlaylistInvariant == PlaylistSpec => []PlaylistInv
<1>1. PlaylistInv /\ UNCHANGED <<lines, status, playlist_type, media_vars, master_vars>>
        => PlaylistInv'
  BY DEF PlaylistInv, Untouched, Accepted, media_vars
<1>2. PlaylistInv /\ [PlaylistNext]_all_vars => PlaylistInv'
  BY <1>1, MediaStep, MasterStep DEF PlaylistNext, all_vars
<1> QED BY <1>2, EmptyPlaylist, PTL DEF PlaylistSpec

-----------------------------------------------------------------------------
(* The properties                                                              *)

LEMMA AboutLines ==
  /\ \A tag : At(tag) = AtIn(lines, tag)
  /\ \A tag, k : Before(tag, k) = BeforeIn(lines, tag, k) /\ Latest(tag, k) = LatestIn(lines, tag, k)
  /\ \A tag, k : Number(tag, k) = NumberIn(lines, tag, k)
  /\ \A k : KeyAt(k) = KeyIn(lines, k)
<1>1. \A tag : At(tag) = AtIn(lines, tag)
  BY DEF At, AtIn
<1>2. \A tag, k : Before(tag, k) = BeforeIn(lines, tag, k)
  BY <1>1 DEF Before, BeforeIn
<1>3. \A tag, k : Latest(tag, k) = LatestIn(lines, tag, k)
  BY <1>2 DEF Latest, LatestIn
<1>4. \A tag, k : Number(tag, k) = NumberIn(lines, tag, k)
  BY <1>3 DEF Number, NumberIn
<1>5. \A k : KeyAt(k) = KeyIn(lines, k)
  BY <1>3 DEF KeyAt, KeyIn, NoKeyLine
<1> QED BY <1>1, <1>2, <1>3, <1>4, <1>5

\* The line that names a segment is the one the parser had when it stored it.
LEMMA NamedThere ==
  ASSUME PlaylistInv, NEW i \in DOMAIN me.segments
  PROVE  /\ Accepted /\ playlist_type = "media" /\ Parsed(lines, me, ahead, dialect.fps)
         /\ SegmentMeans(lines, i, UriLine(i), me.segments[i], me.first_media_sequence, dialect.fps)
<1>1. me.segments # <<>>
  BY EmptyIsList
<1>2. Accepted /\ playlist_type = "media" /\ Parsed(lines, me, ahead, dialect.fps)
  BY <1>1 DEF PlaylistInv, Untouched
<1>3. PICK k \in 1..Len(lines) :
        SegmentMeans(lines, i, k, me.segments[i], me.first_media_sequence, dialect.fps)
  BY <1>2 DEF Parsed, Recorded
<1>4. k \in At("URI") /\ Cardinality(Before("URI", k)) = i - 1
  BY <1>3, AboutLines DEF SegmentMeans, NamesSegment
<1>5. UriLine(i) \in At("URI") /\ Cardinality(Before("URI", UriLine(i))) = i - 1
  BY <1>4 DEF UriLine
<1>6. UriLine(i) = k
  BY <1>4, <1>5, AboutLines, OneLine DEF PlaylistInv
<1> QED BY <1>2, <1>3, <1>6

LEMMA InForceHolds == PlaylistInv => InForce
<1> SUFFICES ASSUME PlaylistInv, NEW i \in DOMAIN me.segments
             PROVE  LET k == UriLine(i)
                        s == me.segments[i]
                        j == Latest("MAP", k)
                    IN /\ s.encryptiontype = KeyAt(k).method /\ s.key_uri = KeyAt(k).uri
                       /\ s.iv = IvOf(KeyAt(k), s.sequence_number)
                       /\ IF j = 0 THEN s.init_section = NULL
                          ELSE /\ s.init_section.uri = lines[j].uri
                               /\ s.init_section.range = lines[j].range
                               /\ s.init_section.encryptiontype = KeyAt(j).method
                               /\ s.init_section.enc_aes.uri = KeyAt(j).uri
                               /\ KeyAt(j).method = "AES-128" =>
                                    s.init_section.enc_aes.iv = KeyAt(j).iv
  BY DEF InForce, KeysInForce, SectionsInForce
<1> DEFINE k == UriLine(i)
           s == me.segments[i]
           j == Latest("MAP", k)
<1>1. SegmentMeans(lines, i, k, s, me.first_media_sequence, dialect.fps)
  BY NamedThere
<1>2. KeyAt(k) = KeyIn(lines, k) /\ KeyAt(j) = KeyIn(lines, j) /\ j = LatestIn(lines, "MAP", k)
  BY AboutLines
<1> HIDE DEF k, s, j
<1>3. /\ s.encryptiontype = KeyAt(k).method /\ s.key_uri = KeyAt(k).uri
      /\ s.iv = IvOf(KeyAt(k), s.sequence_number)
  BY <1>1, <1>2 DEF SegmentMeans, IvIn, IvOf
<1>4. IF j = 0 THEN s.init_section = NULL
      ELSE /\ s.init_section.uri = lines[j].uri
           /\ s.init_section.range = lines[j].range
           /\ s.init_section.encryptiontype = KeyAt(j).method
           /\ s.init_section.enc_aes.uri = KeyAt(j).uri
           /\ KeyAt(j).method = "AES-128" => s.init_section.enc_aes.iv = KeyAt(j).iv
  BY <1>1, <1>2 DEF SegmentMeans, SectionMeans
<1> QED BY <1>3, <1>4 DEF k, s, j

\* Every segment of every playlist has the key and the section that the lines
\* ahead of it name last, a section the key of its own line, however the tags
\* are mixed and repeated.
THEOREM KeysAndSectionsInForce == PlaylistSpec => []InForce
<1> QED BY PlaylistInvariant, InForceHolds, PTL

LEMMA CountedHolds == PlaylistInv => Counted
<1> SUFFICES ASSUME PlaylistInv PROVE NumbersConsecutive /\ DiscontinuitiesCounted
  BY DEF Counted
<1>1. ASSUME NEW i \in DOMAIN me.segments
      PROVE  LET k    == UriLine(i)
                 base == Latest("DISCONTINUITY-SEQUENCE", k)
             IN /\ me.segments[i].discontinuity_sequence =
                     Number("DISCONTINUITY-SEQUENCE", k)
                       + Cardinality({j \in Before("DISCONTINUITY", k) : j > base})
                /\ i > 1 => me.segments[i - 1].discontinuity_sequence
                              <= me.segments[i].discontinuity_sequence
  <2>1. SegmentMeans(lines, i, UriLine(i), me.segments[i], me.first_media_sequence, dialect.fps)
        /\ Parsed(lines, me, ahead, dialect.fps)
    BY <1>1, NamedThere
  <2>2. me.segments[i].discontinuity_sequence = CountIn(lines, UriLine(i))
    BY <2>1 DEF SegmentMeans
  <2>3. i > 1 => me.segments[i - 1].discontinuity_sequence <= me.segments[i].discontinuity_sequence
    BY <1>1, <2>1 DEF Parsed, Recorded
  <2> QED BY <2>2, <2>3, AboutLines DEF CountIn, SinceBase
<1>2. ASSUME Accepted
      PROVE  /\ me.first_media_sequence = Number("MEDIA-SEQUENCE", Len(lines) + 1)
             /\ \A i \in DOMAIN me.segments :
                  /\ me.segments[i].sequence_number = me.first_media_sequence + i - 1
                  /\ me.segments[i].sequence_number <= MaxInt
             /\ me.last_media_sequence =
                  (IF me.segments = <<>> THEN 0 ELSE Last(me.segments).sequence_number)
  <2>1. CASE playlist_type = "media"
    <3>1. Parsed(lines, me, ahead, dialect.fps)
      BY <1>2, <2>1 DEF PlaylistInv
    <3>2. /\ me.first_media_sequence = Number("MEDIA-SEQUENCE", Len(lines) + 1)
          /\ me.last_media_sequence =
               (IF me.segments = <<>> THEN 0 ELSE Last(me.segments).sequence_number)
      BY <3>1, AboutLines DEF Parsed, Carried, Last
    <3>3. \A i \in DOMAIN me.segments :
            /\ me.segments[i].sequence_number = me.first_media_sequence + i - 1
            /\ me.segments[i].sequence_number <= MaxInt
      BY NamedThere DEF SegmentMeans
    <3> QED BY <3>2, <3>3
  <2>2. CASE playlist_type # "media"
    <3>1. Untouched
      BY <2>2 DEF PlaylistInv
    <3>2. Number("MEDIA-SEQUENCE", Len(lines) + 1) = 0
      BY <3>1 DEF Untouched, Number, Latest, Before, At, AtIn
    <3> QED BY <3>1, <3>2, EmptyIsList DEF Untouched
  <2> QED BY <2>1, <2>2
<1>3. NumbersConsecutive
  BY <1>2 DEF NumbersConsecutive
<1>4. DiscontinuitiesCounted
  BY <1>1 DEF DiscontinuitiesCounted
<1> QED BY <1>3, <1>4

\* Segments and discontinuities are numbered as the tags ahead of them say, in
\* playlists of any length and up to any INT_MAX.
THEOREM NumberedAsAnnounced == PlaylistSpec => []Counted
<1> QED BY PlaylistInvariant, CountedHolds, PTL

-----------------------------------------------------------------------------
(***************************************************************************)
(* Byte ranges and durations, and why a playlist is rejected               *)
(***************************************************************************)
(* The operators of MediaPlaylist with the list of lines as a parameter.      *)

RangedIn(ls, k)  == LatestIn(ls, "BYTERANGE", k) > LatestIn(ls, "URI", k)
RangeIn(ls, k)   == ls[LatestIn(ls, "BYTERANGE", k)].range
AnchorsIn(ls, k) == {j \in AtIn(ls, "URI") :
                       j <= k /\ RangedIn(ls, j) /\ RangeIn(ls, j).offset >= 0}
AnchorIn(ls, k)  == IF AnchorsIn(ls, k) = {} THEN 0 ELSE Max(AnchorsIn(ls, k))
RunIn(ls, k)     == {j \in AtIn(ls, "URI") : AnchorIn(ls, k) <= j /\ j <= k}
SizesIn(ls, k)   == [j \in RunIn(ls, k) |-> RangeIn(ls, j).size]
OffsetIn(ls, k)  == RangeIn(ls, AnchorIn(ls, k)).offset
                      + SumFunctionOnSet(SizesIn(ls, k), RunIn(ls, k) \ {k})
DurationIn(ls, k) == IF LatestIn(ls, "EXTINF", k) > LatestIn(ls, "URI", k)
                     THEN NumberIn(ls, "EXTINF", k) ELSE 0

\* The ranges up to that of line k follow each other from one that says where
\* it starts, in one resource.
RunsOn(ls, k) == /\ AnchorIn(ls, k) # 0
                 /\ \A j \in RunIn(ls, k) : RangedIn(ls, j) /\ ls[j].uri = ls[k].uri

RangesOk(ls) == \A k \in AtIn(ls, "BYTERANGE") : ls[k].range \in Ranges /\ RangeOk(ls[k].range)

LEMMA LatestIsLast ==
  ASSUME NEW ls, IsList(ls), NEW tag, NEW k
  PROVE  /\ LatestIn(ls, tag, k) = 0 <=> BeforeIn(ls, tag, k) = {}
         /\ LatestIn(ls, tag, k) # 0 => LatestIn(ls, tag, k) \in BeforeIn(ls, tag, k)
         /\ \A j \in BeforeIn(ls, tag, k) : j <= LatestIn(ls, tag, k)
<1> DEFINE S == BeforeIn(ls, tag, k)
<1>1. Len(ls) \in Nat /\ S \subseteq 1..Len(ls) /\ IsFiniteSet(S)
  BY ListGrows, Positions
<1>2. LatestIn(ls, tag, k) = IF S = {} THEN 0 ELSE Max(S)
  BY DEF LatestIn
<1> HIDE DEF S
<1>3. S \in SUBSET Nat
  BY <1>1
<1>4. S # {} => Max(S) \in S /\ \A j \in S : j <= Max(S)
  BY <1>1, <1>3, MaxOfFinite
<1> QED BY <1>1, <1>2, <1>4 DEF S

\* A range that is in force was accepted.
LEMMA RangeInForce ==
  ASSUME NEW ls, IsList(ls), Bounded(ls), RangesOk(ls), NEW k \in 1..(Len(ls) + 1), RangedIn(ls, k)
  PROVE  /\ LatestIn(ls, "BYTERANGE", k) \in 1..Len(ls)
         /\ RangeIn(ls, k) \in Ranges /\ RangeOk(RangeIn(ls, k))
<1>1. Len(ls) \in Nat /\ DOMAIN ls = 1..Len(ls)
  BY ListGrows
<1>2. /\ LatestIn(ls, "BYTERANGE", k) \in 0..(k - 1) /\ LatestIn(ls, "URI", k) \in 0..(k - 1)
      /\ LatestIn(ls, "BYTERANGE", k) > LatestIn(ls, "URI", k)
  BY DEF Bounded, RangedIn
<1>3. LatestIn(ls, "BYTERANGE", k) # 0 /\ LatestIn(ls, "BYTERANGE", k) \in 1..Len(ls)
  BY <1>1, <1>2
<1>4. LatestIn(ls, "BYTERANGE", k) \in AtIn(ls, "BYTERANGE")
  BY <1>3, LatestIsLast DEF BeforeIn
<1> QED BY <1>3, <1>4 DEF RangesOk, RangeIn

LEMMA AnchorIsLast ==
  ASSUME NEW ls, IsList(ls), NEW k
  PROVE  /\ AnchorIn(ls, k) = 0 <=> AnchorsIn(ls, k) = {}
         /\ AnchorIn(ls, k) # 0 => AnchorIn(ls, k) \in AnchorsIn(ls, k)
         /\ \A j \in AnchorsIn(ls, k) : j <= AnchorIn(ls, k)
         /\ AnchorIn(ls, k) \in Nat /\ IsFiniteSet(RunIn(ls, k)) /\ RunIn(ls, k) \subseteq 1..Len(ls)
<1> DEFINE S == AnchorsIn(ls, k)
<1>1. Len(ls) \in Nat /\ AtIn(ls, "URI") \in SUBSET (1..Len(ls))
  BY ListGrows DEF AtIn
<1>2. IsFiniteSet(1..Len(ls))
  BY <1>1, FS_Interval
<1>3. S \in SUBSET (1..Len(ls)) /\ RunIn(ls, k) \in SUBSET (1..Len(ls))
  BY <1>1 DEF AnchorsIn, RunIn
<1>4. IsFiniteSet(S) /\ IsFiniteSet(RunIn(ls, k))
  BY <1>2, <1>3, FS_Subset
<1>5. AnchorIn(ls, k) = IF S = {} THEN 0 ELSE Max(S)
  BY DEF AnchorIn
<1> HIDE DEF S
<1>6. S \in SUBSET Nat /\ 0 \notin S
  BY <1>1, <1>3
<1>7. S # {} => Max(S) \in S /\ \A j \in S : j <= Max(S)
  BY <1>4, <1>6, MaxOfFinite
<1> QED BY <1>3, <1>4, <1>5, <1>6, <1>7 DEF S

-----------------------------------------------------------------------------
(* One more line.                                                              *)

LEMMA RangeKept ==
  ASSUME NEW ls, IsList(ls), Bounded(ls), NEW l, NEW k \in 1..(Len(ls) + 1)
  PROVE  /\ RangedIn(Append(ls, l), k) <=> RangedIn(ls, k)
         /\ RangedIn(ls, k) => RangeIn(Append(ls, l), k) = RangeIn(ls, k)
         /\ DurationIn(Append(ls, l), k) = DurationIn(ls, k)
<1> DEFINE new == Append(ls, l)
<1>1. \A tag : LatestIn(new, tag, k) = LatestIn(ls, tag, k)
  BY Kept
<1>2. NumberIn(new, "EXTINF", k) = NumberIn(ls, "EXTINF", k)
  BY MeaningKept
<1>3. Len(ls) \in Nat /\ \A j \in 1..Len(ls) : new[j] = ls[j]
  BY ListGrows
<1> HIDE DEF new
<1>4. RangedIn(new, k) <=> RangedIn(ls, k)
  BY <1>1 DEF RangedIn
<1>5. DurationIn(new, k) = DurationIn(ls, k)
  BY <1>1, <1>2 DEF DurationIn
<1>6. ASSUME RangedIn(ls, k) PROVE RangeIn(new, k) = RangeIn(ls, k)
  <2>1. /\ LatestIn(ls, "BYTERANGE", k) \in 0..(k - 1) /\ LatestIn(ls, "URI", k) \in 0..(k - 1)
        /\ LatestIn(ls, "BYTERANGE", k) > LatestIn(ls, "URI", k)
    BY <1>6 DEF Bounded, RangedIn
  <2>2. LatestIn(ls, "BYTERANGE", k) \in 1..Len(ls)
    BY <1>3, <2>1
  <2> QED BY <1>1, <1>3, <2>2 DEF RangeIn
<1> QED BY <1>4, <1>5, <1>6 DEF new

LEMMA RunKept ==
  ASSUME NEW ls, IsList(ls), Bounded(ls), NEW l, NEW k \in 1..Len(ls)
  PROVE  /\ AnchorIn(Append(ls, l), k) = AnchorIn(ls, k)
         /\ RunsOn(Append(ls, l), k) <=> RunsOn(ls, k)
         /\ RunsOn(ls, k) => OffsetIn(Append(ls, l), k) = OffsetIn(ls, k)
<1> DEFINE new == Append(ls, l)
<1>1. /\ Len(ls) \in Nat /\ IsList(new) /\ DOMAIN ls = 1..Len(ls) /\ DOMAIN new = 1..(Len(ls) + 1)
      /\ \A j \in 1..Len(ls) : new[j] = ls[j] /\ j \in 1..(Len(ls) + 1)
  BY ListGrows
<1>2. \A j \in 1..Len(ls) : /\ RangedIn(new, j) <=> RangedIn(ls, j)
                            /\ RangedIn(ls, j) => RangeIn(new, j) = RangeIn(ls, j)
  BY <1>1, RangeKept
<1> HIDE DEF new
<1>3. \A j : j <= k => (j \in AtIn(new, "URI") <=> j \in AtIn(ls, "URI"))
  BY <1>1 DEF AtIn
<1>4. \A j \in AtIn(ls, "URI") : j \in 1..Len(ls)
  BY <1>1 DEF AtIn
<1>5. AnchorsIn(new, k) = AnchorsIn(ls, k)
  BY <1>2, <1>3, <1>4 DEF AnchorsIn
<1>6. AnchorIn(new, k) = AnchorIn(ls, k)
  BY <1>5 DEF AnchorIn
<1>7. RunIn(new, k) = RunIn(ls, k)
  BY <1>3, <1>6 DEF RunIn
<1>8. \A j \in RunIn(ls, k) : j \in 1..Len(ls)
  BY <1>4 DEF RunIn
<1>9. RunsOn(new, k) <=> RunsOn(ls, k)
  BY <1>1, <1>2, <1>6, <1>7, <1>8 DEF RunsOn
<1>10. ASSUME RunsOn(ls, k) PROVE OffsetIn(new, k) = OffsetIn(ls, k)
  <2>1. \A j \in RunIn(ls, k) : RangeIn(new, j) = RangeIn(ls, j)
    BY <1>2, <1>8, <1>10 DEF RunsOn
  <2>2. SizesIn(new, k) = SizesIn(ls, k)
    BY <1>7, <2>1 DEF SizesIn
  <2>3. AnchorIn(ls, k) \in AnchorsIn(ls, k)
    BY <1>10, AnchorIsLast DEF RunsOn
  <2>4. RangeIn(new, AnchorIn(ls, k)) = RangeIn(ls, AnchorIn(ls, k))
    BY <1>2, <1>4, <2>3 DEF AnchorsIn
  <2> QED BY <1>6, <1>7, <2>2, <2>4 DEF OffsetIn
<1> QED BY <1>6, <1>9, <1>10 DEF new

\* What is announced for the next segment after one more line.
LEMMA AnnouncedNext ==
  ASSUME NEW ls, IsList(ls), Bounded(ls), RangesOk(ls), NEW l,
         l.tag = "BYTERANGE" => l.range \in Ranges /\ RangeOk(l.range)
  PROVE  LET n == Len(ls) + 1
             new == Append(ls, l)
             N   == Len(new) + 1
         IN /\ RangesOk(new)
            /\ RangedIn(new, N) <=> l.tag = "BYTERANGE" \/ (l.tag # "URI" /\ RangedIn(ls, n))
            /\ RangedIn(new, N) => RangeIn(new, N) = IF l.tag = "BYTERANGE" THEN l.range
                                                     ELSE RangeIn(ls, n)
            /\ DurationIn(new, N) = IF l.tag = "EXTINF" THEN l.value
                                    ELSE IF l.tag = "URI" THEN 0 ELSE DurationIn(ls, n)
            /\ LatestIn(new, "MAP", N) # 0 <=> l.tag = "MAP" \/ LatestIn(ls, "MAP", n) # 0
<1> DEFINE n == Len(ls) + 1
           new == Append(ls, l)
           N   == Len(new) + 1
<1>1. /\ Len(ls) \in Nat /\ n \in Nat /\ n # 0 /\ n - 1 = Len(ls) /\ N = Len(ls) + 2
      /\ n \in 1..(Len(ls) + 1)
      /\ DOMAIN ls = 1..Len(ls) /\ DOMAIN new = 1..n /\ new[n] = l
      /\ \A j \in 1..Len(ls) : new[j] = ls[j]
  BY ListGrows
<1>2. /\ \A tag : l.tag = tag => LatestIn(new, tag, N) = n
      /\ \A tag : l.tag # tag => LatestIn(new, tag, N) = LatestIn(ls, tag, n)
  BY <1>1, SameTag, OtherTag
<1>3. \A tag : LatestIn(ls, tag, n) \in 0..Len(ls) /\ LatestIn(ls, tag, n) < n
  <2>1. \A tag : LatestIn(ls, tag, n) \in 0..(n - 1)
    BY <1>1 DEF Bounded
  <2> QED BY <1>1, <2>1
<1>4. NumberIn(new, "EXTINF", N) = IF l.tag = "EXTINF" THEN l.value ELSE NumberIn(ls, "EXTINF", n)
  BY MeaningNext
<1> HIDE DEF n, new, N
<1>5. RangesOk(new)
  <2> SUFFICES ASSUME NEW k \in AtIn(new, "BYTERANGE")
               PROVE  new[k].range \in Ranges /\ RangeOk(new[k].range)
    BY DEF RangesOk
  <2>1. CASE k = n
    BY <1>1, <2>1 DEF AtIn
  <2>2. CASE k # n
    <3>1. k \in 1..Len(ls)
      BY <1>1, <2>2 DEF AtIn, n
    <3>2. k \in AtIn(ls, "BYTERANGE") /\ new[k] = ls[k]
      BY <1>1, <3>1 DEF AtIn
    <3> QED BY <3>2 DEF RangesOk
  <2> QED BY <2>1, <2>2
<1>6. RangedIn(new, N) <=> l.tag = "BYTERANGE" \/ (l.tag # "URI" /\ RangedIn(ls, n))
  <2>1. CASE l.tag = "BYTERANGE"
    <3>1. LatestIn(new, "BYTERANGE", N) = n /\ LatestIn(new, "URI", N) = LatestIn(ls, "URI", n)
      BY <1>2, <2>1
    <3> QED BY <1>1, <1>3, <2>1, <3>1 DEF RangedIn
  <2>2. CASE l.tag = "URI"
    <3>1. LatestIn(new, "URI", N) = n /\ LatestIn(new, "BYTERANGE", N) = LatestIn(ls, "BYTERANGE", n)
      BY <1>2, <2>2
    <3>2. LatestIn(ls, "BYTERANGE", n) \in 0..Len(ls) /\ LatestIn(ls, "BYTERANGE", n) < n
      BY <1>3
    <3> QED BY <1>1, <2>2, <3>1, <3>2 DEF RangedIn
  <2>3. CASE l.tag \notin {"BYTERANGE", "URI"}
    BY <1>2, <2>3 DEF RangedIn
  <2> QED BY <2>1, <2>2, <2>3
<1>7. ASSUME RangedIn(new, N)
      PROVE  RangeIn(new, N) = IF l.tag = "BYTERANGE" THEN l.range ELSE RangeIn(ls, n)
  <2>1. CASE l.tag = "BYTERANGE"
    BY <1>1, <1>2, <2>1 DEF RangeIn
  <2>2. CASE l.tag # "BYTERANGE"
    <3>1. LatestIn(new, "BYTERANGE", N) = LatestIn(ls, "BYTERANGE", n) /\ RangedIn(ls, n)
      BY <1>2, <1>6, <1>7, <2>2
    <3>2. LatestIn(ls, "BYTERANGE", n) \in 1..Len(ls)
      BY <1>1, <3>1, RangeInForce DEF n
    <3> QED BY <1>1, <2>2, <3>1, <3>2 DEF RangeIn
  <2> QED BY <2>1, <2>2
<1>8. DurationIn(new, N) = IF l.tag = "EXTINF" THEN l.value
                           ELSE IF l.tag = "URI" THEN 0 ELSE DurationIn(ls, n)
  <2>1. CASE l.tag = "EXTINF"
    <3>1. LatestIn(new, "EXTINF", N) = n /\ LatestIn(new, "URI", N) = LatestIn(ls, "URI", n)
      BY <1>2, <2>1
    <3> QED BY <1>1, <1>3, <1>4, <2>1, <3>1 DEF DurationIn
  <2>2. CASE l.tag = "URI"
    <3>1. LatestIn(new, "URI", N) = n /\ LatestIn(new, "EXTINF", N) = LatestIn(ls, "EXTINF", n)
      BY <1>2, <2>2
    <3>2. LatestIn(ls, "EXTINF", n) \in 0..Len(ls) /\ LatestIn(ls, "EXTINF", n) < n
      BY <1>3
    <3> QED BY <1>1, <2>2, <3>1, <3>2 DEF DurationIn
  <2>3. CASE l.tag \notin {"EXTINF", "URI"}
    BY <1>2, <1>4, <2>3 DEF DurationIn
  <2> QED BY <2>1, <2>2, <2>3
<1>9. LatestIn(new, "MAP", N) # 0 <=> l.tag = "MAP" \/ LatestIn(ls, "MAP", n) # 0
  BY <1>1, <1>2
<1> QED BY <1>5, <1>6, <1>7, <1>8, <1>9 DEF n, new, N

-----------------------------------------------------------------------------
(* What a segment owns                                                         *)

\* The segment of line k has the range and the duration announced for it.
Own(ls, k, s) ==
  /\ s.uri = ls[k].uri
  /\ IF RangedIn(ls, k)
     THEN /\ RunsOn(ls, k)
          /\ s.size = RangeIn(ls, k).size /\ s.offset = OffsetIn(ls, k)
          /\ s.size \in Nat /\ s.offset \in Nat /\ s.offset + s.size <= MaxOffset
     ELSE s.size = -1 /\ s.offset = 0
  /\ s.duration = DurationIn(ls, k)

LEMMA OwnKept ==
  ASSUME NEW ls, IsList(ls), Bounded(ls), NEW l, NEW k \in 1..Len(ls), NEW s, Own(ls, k, s)
  PROVE  Own(Append(ls, l), k, s)
<1> DEFINE new == Append(ls, l)
<1>1. Len(ls) \in Nat /\ k \in 1..(Len(ls) + 1) /\ new[k] = ls[k]
  BY ListGrows
<1>2. /\ RangedIn(new, k) <=> RangedIn(ls, k)
      /\ RangedIn(ls, k) => RangeIn(new, k) = RangeIn(ls, k)
      /\ DurationIn(new, k) = DurationIn(ls, k)
  BY <1>1, RangeKept
<1>3. /\ RunsOn(new, k) <=> RunsOn(ls, k)
      /\ RunsOn(ls, k) => OffsetIn(new, k) = OffsetIn(ls, k)
  BY RunKept
<1> HIDE DEF new
<1>4. Own(new, k, s)
  BY <1>1, <1>2, <1>3 DEF Own
<1> QED BY <1>4 DEF new

\* Ranges that go on: the run of line n is that of the line before it and n.
LEMMA RunGrows ==
  ASSUME NEW ls, IsList(ls), Bounded(ls), RangesOk(ls), NEW l, l.tag = "URI",
         RangedIn(ls, Len(ls) + 1), RangeIn(ls, Len(ls) + 1).offset < 0,
         LatestIn(ls, "URI", Len(ls) + 1) # 0
  PROVE  LET n   == Len(ls) + 1
             new == Append(ls, l)
             p   == LatestIn(ls, "URI", n)
         IN /\ AnchorIn(new, n) = AnchorIn(ls, p)
            /\ AnchorIn(ls, p) # 0 => RunIn(new, n) = RunIn(ls, p) \cup {n} /\ p \in RunIn(ls, p)
            /\ RunsOn(ls, p) => OffsetIn(new, n) = OffsetIn(ls, p) + RangeIn(ls, p).size
<1> DEFINE n   == Len(ls) + 1
           new == Append(ls, l)
           p   == LatestIn(ls, "URI", n)
<1>1. /\ Len(ls) \in Nat /\ n \in Nat /\ n \in 1..(Len(ls) + 1) /\ n \notin 1..Len(ls)
      /\ DOMAIN ls = 1..Len(ls) /\ DOMAIN new = (1..Len(ls)) \cup {n} /\ new[n] = l
      /\ \A j \in 1..Len(ls) : new[j] = ls[j] /\ j < n /\ j \in Nat
  BY ListGrows
<1>2. /\ p \in AtIn(ls, "URI") /\ p \in 1..Len(ls)
      /\ \A j \in AtIn(ls, "URI") : j <= p
  <2>1. p \in BeforeIn(ls, "URI", n) /\ \A j \in BeforeIn(ls, "URI", n) : j <= p
    BY LatestIsLast
  <2> QED BY <1>1, <2>1 DEF BeforeIn, AtIn
<1>3. AtIn(new, "URI") = AtIn(ls, "URI") \cup {n} /\ \A j \in AtIn(ls, "URI") : j \in 1..Len(ls)
  BY <1>1 DEF AtIn
<1>4. \A j \in 1..Len(ls) : /\ RangedIn(new, j) <=> RangedIn(ls, j)
                            /\ RangedIn(ls, j) => RangeIn(new, j) = RangeIn(ls, j)
  <2>1. \A j \in 1..Len(ls) : j \in 1..(Len(ls) + 1)
    BY <1>1
  <2> QED BY <2>1, RangeKept
<1>5. RangedIn(new, n) /\ RangeIn(new, n).offset < 0
  BY <1>1, RangeKept
<1>6. RangeIn(ls, n).offset \in Int
  <2>1. RangeIn(ls, n) \in Ranges
    BY <1>1, RangeInForce
  <2> QED BY <2>1 DEF Ranges
<1> HIDE DEF p, new
<1>7. ~(RangeIn(new, n).offset >= 0)
  <2>1. RangeIn(new, n).offset \in Int
    BY <1>1, <1>6, RangeKept DEF new
  <2> QED BY <1>5, <2>1
<1> HIDE DEF n
<1>8. AnchorsIn(new, n) = AnchorsIn(ls, p)
  <2>1. \A j \in AnchorsIn(new, n) : j \in AnchorsIn(ls, p)
    BY <1>1, <1>2, <1>3, <1>4, <1>7 DEF AnchorsIn
  <2>2. \A j \in AnchorsIn(ls, p) : j \in AnchorsIn(new, n)
    BY <1>1, <1>2, <1>3, <1>4 DEF AnchorsIn
  <2> QED BY <2>1, <2>2
<1>9. AnchorIn(new, n) = AnchorIn(ls, p)
  BY <1>8 DEF AnchorIn
<1>10. ASSUME AnchorIn(ls, p) # 0
       PROVE  RunIn(new, n) = RunIn(ls, p) \cup {n} /\ p \in RunIn(ls, p)
  <2>1. AnchorIn(ls, p) \in AnchorsIn(ls, p)
    BY <1>10, AnchorIsLast
  <2>2. AnchorIn(ls, p) \in 1..Len(ls) /\ AnchorIn(ls, p) <= p
    BY <1>3, <2>1 DEF AnchorsIn
  <2>3. AnchorIn(ls, p) <= n
    BY <1>1, <2>2
  <2>4. \A j \in AtIn(ls, "URI") : j <= p /\ j <= n
    BY <1>1, <1>2, <1>3
  <2>5. \A j : j \in RunIn(new, n) <=> j \in AtIn(new, "URI") /\ AnchorIn(ls, p) <= j /\ j <= n
    BY <1>9 DEF RunIn
  <2>6. \A j : j \in RunIn(ls, p) <=> j \in AtIn(ls, "URI") /\ AnchorIn(ls, p) <= j /\ j <= p
    BY DEF RunIn
  <2>7. p <= p /\ n <= n
    BY <1>1, <1>2
  <2>8. RunIn(new, n) = RunIn(ls, p) \cup {n}
    BY <1>3, <2>3, <2>4, <2>5, <2>6, <2>7
  <2> QED BY <1>2, <2>2, <2>6, <2>7, <2>8
<1>11. ASSUME RunsOn(ls, p)
       PROVE  OffsetIn(new, n) = OffsetIn(ls, p) + RangeIn(ls, p).size
  <2> DEFINE R == RunIn(ls, p)
             A == AnchorIn(ls, p)
             e == SizesIn(new, n)
             f == SizesIn(ls, p)
  <2>1. A # 0 /\ A \in AnchorsIn(ls, p) /\ \A j \in R : RangedIn(ls, j)
    BY <1>11, AnchorIsLast DEF RunsOn
  <2>2. RunIn(new, n) = R \cup {n} /\ p \in R /\ IsFiniteSet(R) /\ R \subseteq 1..Len(ls)
    BY <1>10, <2>1, AnchorIsLast
  <2>3. \A j \in R : RangeIn(new, j) = RangeIn(ls, j)
    BY <1>4, <2>1, <2>2
  <2>4. \A j \in R : RangeIn(ls, j).size \in Nat
    <3> SUFFICES ASSUME NEW j \in R PROVE RangeIn(ls, j).size \in Nat
      OBVIOUS
    <3>1. j \in 1..(Len(ls) + 1) /\ RangedIn(ls, j)
      BY <1>1, <2>1, <2>2
    <3>2. RangeIn(ls, j) \in Ranges
      BY <3>1, RangeInForce
    <3> QED BY <3>2 DEF Ranges
  <2>5. A \in 1..Len(ls) /\ RangedIn(ls, A) /\ RangeIn(ls, A).offset \in Int
    <3>1. A \in 1..Len(ls) /\ RangedIn(ls, A)
      BY <1>3, <2>1 DEF AnchorsIn
    <3>2. A \in 1..(Len(ls) + 1)
      BY <1>1, <3>1
    <3>3. RangeIn(ls, A) \in Ranges
      BY <3>1, <3>2, RangeInForce
    <3> QED BY <3>1, <3>3 DEF Ranges
  <2>6. RangeIn(new, A) = RangeIn(ls, A)
    BY <1>4, <2>5
  <2>7. /\ \A j \in R : e[j] = f[j] /\ f[j] = RangeIn(ls, j).size
    BY <2>2, <2>3 DEF SizesIn
  <2>8. (R \cup {n}) \ {n} = R
    BY <1>1, <2>2
  <2>9. OffsetIn(new, n) = RangeIn(ls, A).offset + SumFunctionOnSet(e, R)
    BY <1>9, <2>2, <2>6, <2>8 DEF OffsetIn
  <2>10. OffsetIn(ls, p) = RangeIn(ls, A).offset + SumFunctionOnSet(f, R \ {p})
    BY DEF OffsetIn
  <2> HIDE DEF R, A, e, f
  <2>11. Integral(f, R)
    BY <2>4, <2>7 DEF Integral
  <2>12. SumFunctionOnSet(e, R) = SumFunctionOnSet(f, R)
    BY <2>2, <2>7, <2>11, SumOfSame
  <2>13. /\ SumFunctionOnSet(f, R \ {p}) \in Int
         /\ SumFunctionOnSet(f, R) = f[p] + SumFunctionOnSet(f, R \ {p})
    BY <2>2, <2>11, SumWithout
  <2>14. f[p] = RangeIn(ls, p).size /\ RangeIn(ls, p).size \in Nat
    BY <2>2, <2>4, <2>7
  <2> QED BY <2>5, <2>9, <2>10, <2>12, <2>13, <2>14
<1> QED BY <1>9, <1>10, <1>11 DEF n, new, p

\* A range that says where it starts is a run of its own.
LEMMA RunStarts ==
  ASSUME NEW ls, IsList(ls), Bounded(ls), RangesOk(ls), NEW l, l.tag = "URI",
         RangedIn(ls, Len(ls) + 1), RangeIn(ls, Len(ls) + 1).offset >= 0
  PROVE  LET n   == Len(ls) + 1
             new == Append(ls, l)
         IN RunsOn(new, n) /\ OffsetIn(new, n) = RangeIn(ls, n).offset
<1> DEFINE n   == Len(ls) + 1
           new == Append(ls, l)
<1>1. /\ Len(ls) \in Nat /\ n \in Nat /\ n # 0 /\ n \in 1..(Len(ls) + 1) /\ IsList(new)
      /\ DOMAIN ls = 1..Len(ls) /\ DOMAIN new = 1..n /\ new[n] = l /\ n \in AtIn(new, "URI")
  BY ListGrows DEF AtIn
<1>2. RangedIn(new, n) /\ RangeIn(new, n) = RangeIn(ls, n)
  BY <1>1, RangeKept
<1>3. RangeIn(ls, n).offset \in Int
  <2>1. RangeIn(ls, n) \in Ranges
    BY <1>1, RangeInForce
  <2> QED BY <2>1 DEF Ranges
<1> HIDE DEF n, new
<1>4. n \in AnchorsIn(new, n)
  <2>1. n <= n /\ RangeIn(new, n).offset >= 0
    BY <1>1, <1>2 DEF n
  <2> QED BY <1>1, <1>2, <2>1 DEF AnchorsIn
<1>5. AnchorIn(new, n) = n
  <2>1. AnchorIn(new, n) \in AnchorsIn(new, n) /\ n <= AnchorIn(new, n) /\ AnchorIn(new, n) \in Nat
    BY <1>1, <1>4, AnchorIsLast
  <2>2. AnchorIn(new, n) <= n
    BY <2>1 DEF AnchorsIn
  <2> QED BY <1>1, <2>1, <2>2
<1>6. RunIn(new, n) = {n}
  <2>1. \A j \in AtIn(new, "URI") : j \in Nat
    BY <1>1 DEF AtIn
  <2>2. \A j : j \in RunIn(new, n) <=> j \in AtIn(new, "URI") /\ n <= j /\ j <= n
    BY <1>5 DEF RunIn
  <2>3. n <= n
    BY <1>1
  <2>4. \A j \in Nat : n <= j /\ j <= n => j = n
    BY <1>1
  <2> QED BY <1>1, <2>1, <2>2, <2>3, <2>4
<1>7. RunsOn(new, n)
  BY <1>1, <1>2, <1>5, <1>6 DEF RunsOn
<1>8. OffsetIn(new, n) = RangeIn(ls, n).offset
  <2>1. SumFunctionOnSet(SizesIn(new, n), {}) = 0
    BY SumOfNothing
  <2>2. RunIn(new, n) \ {n} = {}
    BY <1>6
  <2>3. OffsetIn(new, n) = RangeIn(ls, n).offset + 0
    BY <1>2, <1>5, <2>1, <2>2 DEF OffsetIn
  <2> QED BY <1>3, <2>3
<1> QED BY <1>7, <1>8 DEF n, new

-----------------------------------------------------------------------------
(* The invariant                                                               *)

\* The segment that line k names is the next after those named ahead of it.
SegmentOf(ls, segments, k) == segments[Cardinality(BeforeIn(ls, "URI", k)) + 1]

\* What the parser carries to the next line, and what the segments own.
Announced(ls, m, a) ==
  LET n == Len(ls) + 1
  IN /\ RangesOk(ls)
     /\ a.range = IF RangedIn(ls, n) THEN RangeIn(ls, n) ELSE NoRange
     /\ a.duration = DurationIn(ls, n)
     /\ a.discontinuity <= MaxInt
     /\ m.enc_aes \in Keys
     /\ LatestIn(ls, "MAP", n) # 0 => a.section # NULL
     /\ \A k \in AtIn(ls, "URI") : Own(ls, k, SegmentOf(ls, m.segments, k))

\* Where a ranged segment starts is where the ranges ahead of it end, and it is
\* known just when they run on to it.
LEMMA ResolvedIs ==
  ASSUME PlaylistInv, playlist_type = "media", Accepted, Announced(lines, me, ahead),
         NEW l, l.tag = "URI"
  PROVE  LET n   == Len(lines) + 1
             new == Append(lines, l)
         IN /\ RangedIn(lines, n) =>
                 /\ Resolved(l.uri) # NULL <=> RunsOn(new, n)
                 /\ RunsOn(new, n) => Resolved(l.uri) = OffsetIn(new, n) /\ Resolved(l.uri) \in Nat
            /\ ~RangedIn(lines, n) => Resolved(l.uri) = 0
<1> DEFINE n   == Len(lines) + 1
           new == Append(lines, l)
           p   == LatestIn(lines, "URI", n)
           previous == Last(me.segments)
<1>1. /\ IsList(lines) /\ Bounded(lines) /\ RangesOk(lines) /\ IsList(me.segments)
      /\ Len(me.segments) = Cardinality(BeforeIn(lines, "URI", n))
      /\ ahead.range = IF RangedIn(lines, n) THEN RangeIn(lines, n) ELSE NoRange
      /\ \A k \in AtIn(lines, "URI") : Own(lines, k, SegmentOf(lines, me.segments, k))
  BY DEF PlaylistInv, Parsed, Recorded, Announced
<1>2. /\ Len(lines) \in Nat /\ n \in Nat /\ n # 0 /\ n \in 1..(Len(lines) + 1) /\ n \notin 1..Len(lines)
      /\ DOMAIN lines = 1..Len(lines) /\ DOMAIN new = (1..Len(lines)) \cup {n}
      /\ new[n] = l /\ IsList(new) /\ \A j \in 1..Len(lines) : new[j] = lines[j] /\ j < n
  BY <1>1, ListGrows
<1>3. CASE ~RangedIn(lines, n)
  <2>1. ahead.range.size = -1
    BY <1>1, <1>3 DEF NoRange
  <2>2. Resolved(l.uri) = 0
    BY <2>1 DEF Resolved
  <2> QED BY <1>3, <2>2
<1>4. CASE RangedIn(lines, n)
  <2>1. ahead.range = RangeIn(lines, n) /\ ahead.range \in Ranges /\ RangeOk(ahead.range)
    BY <1>1, <1>2, <1>4, RangeInForce
  <2>2. /\ ahead.range.size \in Nat /\ ~(ahead.range.size < 0)
        /\ ahead.range.offset \in Nat \/ ahead.range.offset = -1
    BY <2>1 DEF Ranges
  <2>3. CASE ahead.range.offset >= 0
    <3>1. RunsOn(new, n) /\ OffsetIn(new, n) = ahead.range.offset
      BY <1>1, <1>4, <2>1, <2>3, RunStarts
    <3>2. Resolved(l.uri) = ahead.range.offset /\ ahead.range.offset \in Nat
      BY <2>2, <2>3 DEF Resolved
    <3>3. Resolved(l.uri) # NULL
      BY <3>2, NullAssumption
    <3> HIDE DEF n, new
    <3> QED BY <1>4, <3>1, <3>2, <3>3 DEF n, new
  <2>4. CASE ~(ahead.range.offset >= 0)
    <3>1. ahead.range.offset < 0
      BY <2>2, <2>4
    <3>2. Resolved(l.uri) = IF me.segments # <<>> /\ previous.size >= 0 /\ previous.uri = l.uri
                            THEN previous.offset + previous.size ELSE NULL
      BY <2>2, <2>4 DEF Resolved
    <3>3. RangedIn(new, n) /\ RangeIn(new, n) = ahead.range
      BY <1>1, <1>2, <1>4, <2>1, RangeKept
    <3>4. CASE p = 0
      <4>1. BeforeIn(lines, "URI", n) = {}
        BY <1>1, <3>4, LatestIsLast
      <4>2. me.segments = <<>>
        <5>1. Len(me.segments) = 0
          BY <1>1, <4>1, FS_EmptySet
        <5> QED BY <1>1, <5>1 DEF IsList
      <4>3. Resolved(l.uri) = NULL
        BY <3>2, <4>2
      <4>4. AnchorsIn(new, n) = {}
        <5>1. \A j \in AtIn(new, "URI") : j = n
          BY <1>2, <4>1 DEF AtIn, BeforeIn
        <5> QED BY <2>4, <3>3, <5>1 DEF AnchorsIn
      <4>5. ~RunsOn(new, n)
        BY <4>4 DEF RunsOn, AnchorIn
      <4> QED BY <1>4, <4>3, <4>5
    <3>5. CASE p # 0
      <4>1. /\ AnchorIn(new, n) = AnchorIn(lines, p)
            /\ AnchorIn(lines, p) # 0 => RunIn(new, n) = RunIn(lines, p) \cup {n} /\ p \in RunIn(lines, p)
            /\ RunsOn(lines, p) => OffsetIn(new, n) = OffsetIn(lines, p) + RangeIn(lines, p).size
        BY <1>1, <1>4, <2>1, <3>1, <3>5, RunGrows
      <4>2. /\ p \in AtIn(lines, "URI") /\ p < n /\ p \in 1..Len(lines)
            /\ \A j \in BeforeIn(lines, "URI", n) : j <= p
        <5>1. p \in BeforeIn(lines, "URI", n) /\ \A j \in BeforeIn(lines, "URI", n) : j <= p
          BY <1>1, <3>5, LatestIsLast
        <5> QED BY <1>2, <5>1 DEF BeforeIn, AtIn
      <4>3. BeforeIn(lines, "URI", n) = BeforeIn(lines, "URI", p) \cup {p} /\ p \notin BeforeIn(lines, "URI", p)
        <5>1. \A j \in AtIn(lines, "URI") : j \in 1..Len(lines)
          BY <1>2 DEF AtIn
        <5> QED BY <1>2, <4>2, <5>1 DEF BeforeIn
      <4>4. Len(me.segments) = Cardinality(BeforeIn(lines, "URI", p)) + 1
        <5>1. IsFiniteSet(BeforeIn(lines, "URI", p))
          BY <1>1, Positions
        <5> QED BY <1>1, <4>3, <5>1, FS_AddElement
      <4>5. previous = SegmentOf(lines, me.segments, p)
        BY <4>4 DEF Last, SegmentOf
      <4>6. Own(lines, p, previous)
        BY <1>1, <4>2, <4>5
      <4>7. me.segments # <<>>
        <5>1. Cardinality(BeforeIn(lines, "URI", p)) \in Nat
          BY <1>1, Positions
        <5>2. Len(me.segments) # 0
          BY <4>4, <5>1
        <5> QED BY <5>2, EmptyIsList
      <4> HIDE DEF previous, p, new, n
      <4>8. /\ RangedIn(lines, p) <=> previous.size >= 0
            /\ previous.uri = lines[p].uri
            /\ RangedIn(lines, p) => /\ RunsOn(lines, p)
                                     /\ previous.offset + previous.size
                                          = OffsetIn(lines, p) + RangeIn(lines, p).size
                                     /\ previous.offset + previous.size \in Nat
        BY <4>6 DEF Own
      <4>9. \A j \in RunIn(lines, p) : j \in 1..Len(lines) /\ (RangedIn(new, j) <=> RangedIn(lines, j))
                                         /\ new[j] = lines[j]
        <5>1. RunIn(lines, p) \subseteq 1..Len(lines)
          BY <1>1, AnchorIsLast
        <5>2. \A j \in 1..Len(lines) : j \in 1..(Len(lines) + 1)
          BY <1>2
        <5> QED BY <1>1, <1>2, <5>1, <5>2, RangeKept DEF new
      <4>10. RunsOn(new, n) <=> RangedIn(lines, p) /\ lines[p].uri = l.uri
        <5>1. ASSUME RunsOn(new, n) PROVE RangedIn(lines, p) /\ lines[p].uri = l.uri
          BY <1>2, <4>1, <4>9, <5>1 DEF RunsOn
        <5>2. ASSUME RangedIn(lines, p), lines[p].uri = l.uri PROVE RunsOn(new, n)
          <6>1. RunsOn(lines, p)
            BY <4>8, <5>2
          <6>2. AnchorIn(new, n) # 0 /\ RunIn(new, n) = RunIn(lines, p) \cup {n}
            BY <4>1, <6>1 DEF RunsOn
          <6>3. \A j \in RunIn(lines, p) : RangedIn(new, j) /\ new[j].uri = new[n].uri
            BY <1>2, <4>9, <5>2, <6>1 DEF RunsOn
          <6> QED BY <3>3, <6>2, <6>3 DEF RunsOn
        <5> QED BY <5>1, <5>2
      <4>11. RunsOn(new, n) => Resolved(l.uri) = OffsetIn(new, n) /\ Resolved(l.uri) \in Nat
        BY <3>2, <4>1, <4>7, <4>8, <4>10
      <4>12. Resolved(l.uri) # NULL => RunsOn(new, n)
        BY <3>2, <4>8, <4>10
      <4>13. RunsOn(new, n) => Resolved(l.uri) # NULL
        BY <4>11, NullAssumption
      <4> QED BY <1>4, <4>11, <4>12, <4>13 DEF new, n
    <3> QED BY <3>4, <3>5
  <2> QED BY <2>3, <2>4
<1> QED BY <1>3, <1>4

\* Legal with the list of lines as a parameter.
LegalIn(ls, k) ==
  LET l == ls[k]
  IN /\ l.tag = "KEY" => KeyOk(l)
     /\ l.tag = "MAP" => /\ l.uri # NULL
                         /\ KeyIn(ls, k).method \in {"NONE", "AES-128"}
                         /\ KeyIn(ls, k).method = "AES-128" => KeyIn(ls, k).iv # NULL
                         /\ SectionRangeOk(l.range)
     /\ l.tag \in {"MEDIA-SEQUENCE", "DISCONTINUITY-SEQUENCE"} =>
          BeforeIn(ls, "URI", k) = {} /\ l.value \in 0..MaxInt
     /\ l.tag = "DISCONTINUITY" => CountIn(ls, k) < MaxInt
     /\ l.tag = "BYTERANGE" => RangeOk(l.range)
     /\ l.tag = "URI" =>
          /\ NumberIn(ls, "MEDIA-SEQUENCE", k) + Cardinality(BeforeIn(ls, "URI", k)) <= MaxInt
          /\ LatestIn(ls, "MAP", k) # 0 => KeyIn(ls, k).method \notin SampleAes
          /\ RangedIn(ls, k) => /\ RunsOn(ls, k)
                                /\ OffsetIn(ls, k) + RangeIn(ls, k).size <= MaxOffset

LEMMA LegalKept ==
  ASSUME NEW ls, IsList(ls), Bounded(ls), NEW l, NEW k \in 1..Len(ls)
  PROVE  LegalIn(Append(ls, l), k) <=> LegalIn(ls, k)
<1> DEFINE new == Append(ls, l)
<1>1. Len(ls) \in Nat /\ k \in 1..(Len(ls) + 1) /\ new[k] = ls[k]
  BY ListGrows
<1>2. /\ KeyIn(new, k) = KeyIn(ls, k) /\ CountIn(new, k) = CountIn(ls, k)
      /\ \A tag : NumberIn(new, tag, k) = NumberIn(ls, tag, k)
      /\ \A tag : /\ BeforeIn(new, tag, k) = BeforeIn(ls, tag, k)
                  /\ LatestIn(new, tag, k) = LatestIn(ls, tag, k)
  BY <1>1, Kept, MeaningKept
<1>3. /\ RangedIn(new, k) <=> RangedIn(ls, k)
      /\ RangedIn(ls, k) => RangeIn(new, k) = RangeIn(ls, k)
      /\ RunsOn(new, k) <=> RunsOn(ls, k)
      /\ RunsOn(ls, k) => OffsetIn(new, k) = OffsetIn(ls, k)
  BY <1>1, RangeKept, RunKept
<1> HIDE DEF new
<1>4. LegalIn(new, k) <=> LegalIn(ls, k)
  BY <1>1, <1>2, <1>3 DEF LegalIn
<1> QED BY <1>4 DEF new

\* What the parser asks of a line.
Usable(l) ==
  /\ l.tag = "KEY" => KeyOk(l)
  /\ l.tag = "MAP" => l.uri # NULL /\ MapUsable /\ SectionRangeOk(l.range)
  /\ l.tag \in {"MEDIA-SEQUENCE", "DISCONTINUITY-SEQUENCE"} => CounterOk(l.value)
  /\ l.tag = "DISCONTINUITY" => ahead.discontinuity # MaxInt
  /\ l.tag = "BYTERANGE" => RangeOk(l.range)
  /\ l.tag = "URI" => UriOk(l.uri)

\* What the parser asks is what the lines ahead say is legal.
LEMMA UsableIffLegal ==
  ASSUME PlaylistInv, playlist_type = "media", Accepted, Announced(lines, me, ahead), NEW l
  PROVE  Usable(l) <=> LegalIn(Append(lines, l), Len(lines) + 1)
<1> DEFINE n   == Len(lines) + 1
           new == Append(lines, l)
<1>1. /\ IsList(lines) /\ Bounded(lines) /\ RangesOk(lines) /\ IsList(me.segments)
      /\ Len(me.segments) = Cardinality(BeforeIn(lines, "URI", n))
      /\ KeyMeans(KeyIn(lines, n), me.encryptiontype, me.enc_aes, dialect.fps)
      /\ SectionMeans(lines, LatestIn(lines, "MAP", n), ahead.section)
      /\ LatestIn(lines, "MAP", n) # 0 => ahead.section # NULL
      /\ me.first_media_sequence = NumberIn(lines, "MEDIA-SEQUENCE", n)
      /\ ahead.discontinuity = CountIn(lines, n) /\ ahead.discontinuity \in Nat
      /\ ahead.discontinuity <= MaxInt
      /\ ahead.range = IF RangedIn(lines, n) THEN RangeIn(lines, n) ELSE NoRange
  BY DEF PlaylistInv, Parsed, Recorded, Carried, Announced
<1>2. /\ Len(lines) \in Nat /\ n \in 1..(Len(lines) + 1) /\ new[n] = l
  BY <1>1, ListGrows
<1>3. /\ KeyIn(new, n) = KeyIn(lines, n) /\ CountIn(new, n) = CountIn(lines, n)
      /\ \A tag : NumberIn(new, tag, n) = NumberIn(lines, tag, n)
      /\ \A tag : /\ BeforeIn(new, tag, n) = BeforeIn(lines, tag, n)
                  /\ LatestIn(new, tag, n) = LatestIn(lines, tag, n)
  BY <1>1, <1>2, Kept, MeaningKept
<1>4. /\ RangedIn(new, n) <=> RangedIn(lines, n)
      /\ RangedIn(lines, n) => RangeIn(new, n) = RangeIn(lines, n)
  BY <1>1, <1>2, RangeKept
<1>5. me.segments = <<>> <=> BeforeIn(lines, "URI", n) = {}
  <2>1. IsFiniteSet(BeforeIn(lines, "URI", n))
    BY <1>1, Positions
  <2>2. BeforeIn(lines, "URI", n) = {} <=> Cardinality(BeforeIn(lines, "URI", n)) = 0
    BY <2>1, FS_EmptySet
  <2>3. me.segments = <<>> <=> Len(me.segments) = 0
    BY <1>1 DEF IsList
  <2> QED BY <1>1, <2>2, <2>3
<1>6. MapUsable <=> /\ KeyIn(lines, n).method \in {"NONE", "AES-128"}
                    /\ KeyIn(lines, n).method = "AES-128" => KeyIn(lines, n).iv # NULL
  BY <1>1 DEF MapUsable, KeyMeans, Methods, SampleAes
<1>7. ahead.discontinuity # MaxInt <=> CountIn(lines, n) < MaxInt
  BY <1>1, LimitsAssumption
<1>8. ASSUME l.tag = "URI"
      PROVE  Resolved(l.uri) # NULL /\ Resolved(l.uri) + ahead.range.size <= MaxOffset
               <=> (RangedIn(lines, n) => /\ RunsOn(new, n)
                                          /\ OffsetIn(new, n) + RangeIn(lines, n).size <= MaxOffset)
  <2>1. CASE RangedIn(lines, n)
    <3>1. ahead.range = RangeIn(lines, n)
      BY <1>1, <2>1
    <3>2. /\ Resolved(l.uri) # NULL <=> RunsOn(new, n)
          /\ RunsOn(new, n) => Resolved(l.uri) = OffsetIn(new, n)
      BY <1>8, <2>1, ResolvedIs
    <3> HIDE DEF n, new
    <3> QED BY <2>1, <3>1, <3>2
  <2>2. CASE ~RangedIn(lines, n)
    <3>1. Resolved(l.uri) = 0 /\ ahead.range.size = -1
      BY <1>1, <1>8, <2>2, ResolvedIs DEF NoRange
    <3>2. 0 # NULL /\ 0 + (-1) <= MaxOffset
      BY LimitsAssumption, NullAssumption
    <3> HIDE DEF n, new
    <3> QED BY <2>2, <3>1, <3>2
  <2> QED BY <2>1, <2>2
<1>9. ahead.section # NULL <=> LatestIn(lines, "MAP", n) # 0
  BY <1>1 DEF SectionMeans
<1>10. me.encryptiontype = KeyIn(lines, n).method
  BY <1>1 DEF KeyMeans
<1>11. SegmentNumber = NumberIn(new, "MEDIA-SEQUENCE", n) + Cardinality(BeforeIn(new, "URI", n))
  BY <1>1, <1>3 DEF SegmentNumber
<1> HIDE DEF n, new
<1>12. l.tag = "URI" =>
         (UriOk(l.uri) <=>
          /\ NumberIn(new, "MEDIA-SEQUENCE", n) + Cardinality(BeforeIn(new, "URI", n)) <= MaxInt
          /\ LatestIn(new, "MAP", n) # 0 => KeyIn(new, n).method \notin SampleAes
          /\ RangedIn(new, n) => /\ RunsOn(new, n)
                                 /\ OffsetIn(new, n) + RangeIn(new, n).size <= MaxOffset)
  BY <1>3, <1>4, <1>8, <1>9, <1>10, <1>11 DEF UriOk
<1>13. CounterOk(l.value) <=> BeforeIn(new, "URI", n) = {} /\ l.value \in 0..MaxInt
  BY <1>3, <1>5 DEF CounterOk
<1>14. Usable(l) <=> LegalIn(new, n)
  BY <1>2, <1>3, <1>6, <1>7, <1>12, <1>13 DEF Usable, LegalIn
<1> QED BY <1>14 DEF n, new

\* The parser reads the lines of its dialect; it has accepted only legal ones, and
\* rejected the playlist only for an illegal one.
RangesInv ==
  /\ dialect \in Dialects
  /\ status \in {"parsing", "done", "error"}
  /\ IF playlist_type = "media"
     THEN /\ \A k \in 1..Len(lines) : LineOk(lines[k])
          /\ IF Accepted
             THEN Announced(lines, me, ahead) /\ \A k \in 1..Len(lines) : LegalIn(lines, k)
             ELSE \E k \in 1..Len(lines) : ~LegalIn(lines, k)
     ELSE /\ Accepted
          /\ \A k \in 1..Len(lines) : lines[k].tag \in {"STREAM-INF", "MEDIA", "OTHER", "TEXT"}

\* A tag: it announces what it says and leaves the segments alone.
LEMMA TagAnnounces ==
  ASSUME NEW ls, IsList(ls), Bounded(ls), NEW l, l.tag # "URI",
         l.tag = "BYTERANGE" => l.range \in Ranges /\ RangeOk(l.range),
         NEW m, NEW a, NEW m2, NEW a2, Announced(ls, m, a),
         m2.segments = m.segments, m2.enc_aes \in Keys, a2.discontinuity <= MaxInt,
         IF l.tag = "MAP" THEN a2.section # NULL ELSE a2.section = a.section,
         a2.range = IF l.tag = "BYTERANGE" THEN l.range ELSE a.range,
         a2.duration = IF l.tag = "EXTINF" THEN l.value ELSE a.duration
  PROVE  Announced(Append(ls, l), m2, a2)
<1> DEFINE n   == Len(ls) + 1
           new == Append(ls, l)
           N   == Len(new) + 1
<1>1. /\ RangesOk(ls) /\ a.range = IF RangedIn(ls, n) THEN RangeIn(ls, n) ELSE NoRange
      /\ a.duration = DurationIn(ls, n) /\ LatestIn(ls, "MAP", n) # 0 => a.section # NULL
      /\ \A k \in AtIn(ls, "URI") : Own(ls, k, SegmentOf(ls, m.segments, k))
  BY DEF Announced
<1>2. /\ RangesOk(new)
      /\ RangedIn(new, N) <=> l.tag = "BYTERANGE" \/ RangedIn(ls, n)
      /\ RangedIn(new, N) => RangeIn(new, N) = IF l.tag = "BYTERANGE" THEN l.range ELSE RangeIn(ls, n)
      /\ DurationIn(new, N) = IF l.tag = "EXTINF" THEN l.value ELSE DurationIn(ls, n)
      /\ LatestIn(new, "MAP", N) # 0 <=> l.tag = "MAP" \/ LatestIn(ls, "MAP", n) # 0
  BY <1>1, AnnouncedNext
<1>3. ASSUME NEW k \in AtIn(new, "URI") PROVE Own(new, k, SegmentOf(new, m2.segments, k))
  <2>1. k \in AtIn(ls, "URI") /\ k \in 1..Len(ls) /\ k \in 1..(Len(ls) + 1)
    BY ListGrows DEF AtIn
  <2>2. SegmentOf(new, m2.segments, k) = SegmentOf(ls, m.segments, k)
    BY <2>1, Kept DEF SegmentOf
  <2> QED BY <1>1, <2>1, <2>2, OwnKept
<1> HIDE DEF n, new, N
<1>4. a2.range = IF RangedIn(new, N) THEN RangeIn(new, N) ELSE NoRange
  BY <1>1, <1>2
<1> QED BY <1>1, <1>2, <1>3, <1>4 DEF Announced, n, new, N

\* A line that names a segment gives it what was announced, once.
LEMMA UriAnnounces ==
  ASSUME NEW l, PlaylistInv, playlist_type = "media", Accepted, Announced(lines, me, ahead), ReadUri(l)
  PROVE  Announced(lines', me', ahead')
<1> DEFINE n   == Len(lines) + 1
           new == Append(lines, l)
           N   == Len(new) + 1
           s   == Segment(l.uri)
           q   == Len(me.segments)
<1>1. /\ IsList(lines) /\ Bounded(lines) /\ RangesOk(lines) /\ Shape(me, ahead) /\ IsList(me.segments)
      /\ q = Cardinality(BeforeIn(lines, "URI", n))
      /\ ahead.range = IF RangedIn(lines, n) THEN RangeIn(lines, n) ELSE NoRange
      /\ ahead.duration = DurationIn(lines, n) /\ ahead.discontinuity <= MaxInt
      /\ me.enc_aes \in Keys /\ LatestIn(lines, "MAP", n) # 0 => ahead.section # NULL
      /\ \A k \in AtIn(lines, "URI") : Own(lines, k, SegmentOf(lines, me.segments, k))
  BY DEF PlaylistInv, Parsed, Recorded, Announced
<1>2. l.tag = "URI" /\ lines' = new /\ UriOk(l.uri)
  BY DEF ReadUri, Line
<1>3. /\ me'.segments = Append(me.segments, s) /\ me'.enc_aes = me.enc_aes
      /\ ahead'.section = ahead.section /\ ahead'.discontinuity = ahead.discontinuity
      /\ ahead'.range = NoRange /\ ahead'.duration = 0
  BY <1>1 DEF Shape, ReadUri
<1>4. /\ Len(lines) \in Nat /\ n \in 1..(Len(lines) + 1) /\ new[n] = l /\ n \notin 1..Len(lines)
      /\ DOMAIN lines = 1..Len(lines) /\ DOMAIN new = (1..Len(lines)) \cup {n}
      /\ \A j \in 1..Len(lines) : new[j] = lines[j] /\ j < n /\ j \in 1..(Len(lines) + 1)
  BY <1>1, ListGrows
<1>5. /\ q \in Nat /\ me'.segments[q + 1] = s
      /\ \A i \in 1..q : me'.segments[i] = me.segments[i]
  BY <1>1, <1>3, ListGrows
<1>6. /\ RangesOk(new) /\ ~RangedIn(new, N) /\ DurationIn(new, N) = 0
      /\ LatestIn(new, "MAP", N) # 0 <=> LatestIn(lines, "MAP", n) # 0
  BY <1>1, <1>2, AnnouncedNext
<1>7. ASSUME NEW k \in AtIn(lines, "URI") PROVE Own(new, k, SegmentOf(new, me'.segments, k))
  <2>1. k \in 1..Len(lines) /\ k \in 1..(Len(lines) + 1) /\ k < n /\ k \in Nat
    BY <1>4 DEF AtIn
  <2>2. BeforeIn(lines, "URI", k) \cup {k} \in SUBSET BeforeIn(lines, "URI", n)
        /\ k \notin BeforeIn(lines, "URI", k)
    <3> HIDE DEF n
    <3>1. \A j \in AtIn(lines, "URI") : j < n
      BY <1>4 DEF AtIn
    <3>2. k \in BeforeIn(lines, "URI", n) /\ k \notin BeforeIn(lines, "URI", k)
      BY <1>7, <2>1 DEF BeforeIn
    <3>3. \A j \in BeforeIn(lines, "URI", k) : j \in BeforeIn(lines, "URI", n)
      BY <3>1 DEF BeforeIn
    <3> QED BY <3>2, <3>3
  <2>3. /\ IsFiniteSet(BeforeIn(lines, "URI", k)) /\ IsFiniteSet(BeforeIn(lines, "URI", n))
        /\ Cardinality(BeforeIn(lines, "URI", k)) \in Nat
    BY <1>1, Positions
  <2>4. Cardinality(BeforeIn(lines, "URI", k) \cup {k}) = Cardinality(BeforeIn(lines, "URI", k)) + 1
    BY <2>2, <2>3, FS_AddElement
  <2>5. Cardinality(BeforeIn(lines, "URI", k) \cup {k}) <= q
    BY <1>1, <2>2, <2>3, FS_Subset
  <2>6. Cardinality(BeforeIn(lines, "URI", k)) + 1 \in 1..q
    BY <1>5, <2>3, <2>4, <2>5
  <2>7. BeforeIn(new, "URI", k) = BeforeIn(lines, "URI", k)
    BY <1>1, <2>1, Kept
  <2>8. SegmentOf(new, me'.segments, k) = SegmentOf(lines, me.segments, k)
    BY <1>5, <2>6, <2>7 DEF SegmentOf
  <2> QED BY <1>1, <2>1, <2>8, OwnKept
<1>8. Own(new, n, s)
  <2>1. /\ RangedIn(new, n) <=> RangedIn(lines, n)
        /\ RangedIn(lines, n) => RangeIn(new, n) = RangeIn(lines, n)
        /\ DurationIn(new, n) = DurationIn(lines, n)
    BY <1>1, <1>4, RangeKept
  <2>2. s.uri = new[n].uri /\ s.duration = DurationIn(new, n)
    BY <1>1, <1>4, <2>1 DEF Segment
  <2>3. s.size = ahead.range.size /\ s.offset = Resolved(l.uri)
        /\ Resolved(l.uri) # NULL /\ Resolved(l.uri) + ahead.range.size <= MaxOffset
    BY <1>2 DEF Segment, UriOk
  <2>4. CASE RangedIn(lines, n)
    <3>1. ahead.range = RangeIn(lines, n) /\ RangeIn(lines, n) \in Ranges
      BY <1>1, <1>4, <2>4, RangeInForce
    <3>2. s.size = RangeIn(new, n).size /\ s.size \in Nat
      BY <2>1, <2>3, <2>4, <3>1 DEF Ranges
    <3>3. RunsOn(new, n) /\ Resolved(l.uri) = OffsetIn(new, n) /\ Resolved(l.uri) \in Nat
      BY <1>2, <2>3, <2>4, ResolvedIs
    <3> HIDE DEF n, new, s
    <3> QED BY <2>1, <2>2, <2>3, <2>4, <3>2, <3>3 DEF Own
  <2>5. CASE ~RangedIn(lines, n)
    <3>1. s.size = -1
      BY <1>1, <2>3, <2>5 DEF NoRange
    <3>2. s.offset = 0
      BY <1>2, <2>3, <2>5, ResolvedIs
    <3> HIDE DEF n, new, s
    <3> QED BY <2>1, <2>2, <2>5, <3>1, <3>2 DEF Own
  <2> QED BY <2>4, <2>5
<1>9. SegmentOf(new, me'.segments, n) = s
  <2>1. BeforeIn(new, "URI", n) = BeforeIn(lines, "URI", n)
    BY <1>1, <1>4, Kept
  <2> HIDE DEF s, n, new
  <2> QED BY <1>1, <1>5, <2>1 DEF SegmentOf
<1>10. AtIn(new, "URI") \subseteq AtIn(lines, "URI") \cup {n}
  BY <1>4 DEF AtIn
<1> HIDE DEF n, new, N, s, q
<1>11. \A k \in AtIn(new, "URI") : Own(new, k, SegmentOf(new, me'.segments, k))
  BY <1>7, <1>8, <1>9, <1>10
<1> QED BY <1>1, <1>2, <1>3, <1>6, <1>11 DEF Announced, N

\* A line of the dialect.
LEMMA LinesOk ==
  ASSUME dialect \in Dialects, NEW l \in dialect.lines
  PROVE  LineOk(l) /\ dialect.fps \in BOOLEAN /\ l \in Tagged(l.tag)
BY DialectsAssumption DEF Tagged

LEMMA TagsAnnounce ==
  ASSUME PlaylistInv, RangesInv, playlist_type = "media", Accepted, NEW l \in dialect.lines,
         \/ ReadKey(l) \/ ReadMap(l) \/ ReadInf(l) \/ ReadEndlist(l)
         \/ ReadMediaSequence(l) \/ ReadDiscontinuitySequence(l) \/ ReadDiscontinuity(l)
         \/ ReadByteRange(l)
  PROVE  Announced(lines', me', ahead')
<1>1. /\ IsList(lines) /\ Bounded(lines) /\ Shape(me, ahead) /\ Announced(lines, me, ahead)
      /\ me.enc_aes \in Keys /\ ahead.discontinuity <= MaxInt /\ ahead.discontinuity \in Nat
      /\ me.encryptiontype \in Methods
  BY DEF PlaylistInv, RangesInv, Parsed, Carried, KeyMeans, Announced
<1>2. LineOk(l) /\ dialect.fps \in BOOLEAN /\ l \in Tagged(l.tag) /\ MaxInt \in Nat
  BY LinesOk, LimitsAssumption DEF RangesInv
<1>3. lines' = Append(lines, l) /\ l.tag # "URI"
  BY DEF ReadKey, ReadMap, ReadInf, ReadEndlist, ReadMediaSequence, ReadDiscontinuitySequence,
         ReadDiscontinuity, ReadByteRange, Line
<1>4. CASE ReadKey(l)
  <2>1. l.tag = "KEY" /\ me'.segments = me.segments /\ me'.enc_aes = KeyOf(l) /\ ahead' = ahead
    BY <1>1, <1>4 DEF Shape, ReadKey, Line
  <2>2. KeyOf(l) \in Keys
    <3> DEFINE given  == l.iv # NULL \/ (l.method # "AES-128" /\ dialect.fps)
               number == IF l.iv = NULL THEN 0 ELSE l.iv
    <3>1. KeyOf(l) = [uri |-> l.uri, iv |-> number, iv_is_static |-> given]
      BY Zenon DEF KeyOf
    <3>2. given \in BOOLEAN
      BY <1>2
    <3>3. l \in Tagged("KEY")
      BY <1>2, <2>1
    <3>4. l.uri \in {x.uri : x \in Tagged("KEY")} /\ number \in {x.iv : x \in Tagged("KEY")} \cup {0}
      BY <3>3
    <3> HIDE DEF given, number
    <3> QED BY <3>1, <3>2, <3>4 DEF Keys
  <2> QED BY <1>1, <1>3, <2>1, <2>2, TagAnnounces
<1>5. CASE ReadMap(l)
  <2>1. /\ l.tag = "MAP" /\ me' = me /\ ahead'.section = Section(l) /\ ahead'.range = ahead.range
        /\ ahead'.duration = ahead.duration /\ ahead'.discontinuity = ahead.discontinuity
    BY <1>1, <1>5 DEF Shape, ReadMap, Line
  <2>2. l \in Tagged("MAP")
    BY <1>2, <2>1
  <2>3. Section(l) \in Sections
    BY <1>1, <2>2 DEF Section, Sections
  <2>4. Section(l) # NULL
    BY <2>3, NullAssumption
  <2> QED BY <1>1, <1>3, <2>1, <2>4, TagAnnounces
<1>6. CASE ReadInf(l)
  <2>1. /\ l.tag = "EXTINF" /\ me' = me /\ ahead'.section = ahead.section /\ ahead'.range = ahead.range
        /\ ahead'.duration = l.value /\ ahead'.discontinuity = ahead.discontinuity
    BY <1>1, <1>6 DEF Shape, ReadInf, Line
  <2> QED BY <1>1, <1>3, <2>1, TagAnnounces
<1>7. CASE ReadEndlist(l)
  <2>1. /\ l.tag = "ENDLIST" /\ me'.segments = me.segments /\ me'.enc_aes = me.enc_aes /\ ahead' = ahead
    BY <1>1, <1>7 DEF Shape, ReadEndlist, Line
  <2> QED BY <1>1, <1>3, <2>1, TagAnnounces
<1>8. CASE ReadMediaSequence(l)
  <2>1. /\ l.tag = "MEDIA-SEQUENCE" /\ me'.segments = me.segments /\ me'.enc_aes = me.enc_aes
        /\ ahead' = ahead
    BY <1>1, <1>8 DEF Shape, ReadMediaSequence, Line
  <2> QED BY <1>1, <1>3, <2>1, TagAnnounces
<1>9. CASE ReadDiscontinuitySequence(l)
  <2>1. /\ l.tag = "DISCONTINUITY-SEQUENCE" /\ me' = me /\ ahead'.section = ahead.section
        /\ ahead'.range = ahead.range /\ ahead'.duration = ahead.duration
        /\ ahead'.discontinuity = l.value /\ l.value \in 0..MaxInt
    BY <1>1, <1>9 DEF Shape, ReadDiscontinuitySequence, Line, CounterOk
  <2>2. l.value <= MaxInt
    BY <1>2, <2>1
  <2> QED BY <1>1, <1>3, <2>1, <2>2, TagAnnounces
<1>10. CASE ReadDiscontinuity(l)
  <2>1. /\ l.tag = "DISCONTINUITY" /\ me' = me /\ ahead'.section = ahead.section
        /\ ahead'.range = ahead.range /\ ahead'.duration = ahead.duration
        /\ ahead'.discontinuity = ahead.discontinuity + 1 /\ ahead.discontinuity < MaxInt
    BY <1>1, <1>10 DEF Shape, ReadDiscontinuity, Line
  <2>2. ahead'.discontinuity <= MaxInt
    BY <1>1, <1>2, <2>1
  <2> QED BY <1>1, <1>3, <2>1, <2>2, TagAnnounces
<1>11. CASE ReadByteRange(l)
  <2>1. /\ l.tag = "BYTERANGE" /\ me' = me /\ ahead'.section = ahead.section
        /\ ahead'.range = l.range /\ ahead'.duration = ahead.duration
        /\ ahead'.discontinuity = ahead.discontinuity /\ RangeOk(l.range)
    BY <1>1, <1>11 DEF Shape, ReadByteRange, Line
  <2>2. l.range \in Ranges
    BY <1>2, <2>1 DEF LineOk
  <2> QED BY <1>1, <1>3, <2>1, <2>2, TagAnnounces
<1> QED BY <1>4, <1>5, <1>6, <1>7, <1>8, <1>9, <1>10, <1>11

-----------------------------------------------------------------------------
(* Every step keeps it.                                                        *)

LEMMA RangesLine ==
  ASSUME NEW l \in dialect.lines, playlist_type = "media", playlist_type' = playlist_type,
         PlaylistInv, RangesInv,
         \/ ReadKey(l) \/ ReadMap(l) \/ ReadInf(l) \/ ReadEndlist(l)
         \/ ReadMediaSequence(l) \/ ReadDiscontinuitySequence(l) \/ ReadDiscontinuity(l)
         \/ ReadByteRange(l) \/ ReadUri(l) \/ Reject(l)
  PROVE  RangesInv'
<1> DEFINE n == Len(lines) + 1
<1>1. status = "parsing" /\ lines' = Append(lines, l) /\ dialect' = dialect
  BY DEF ReadKey, ReadMap, ReadInf, ReadEndlist, ReadMediaSequence, ReadDiscontinuitySequence,
         ReadDiscontinuity, ReadByteRange, ReadUri, Reject, Line
<1>2. /\ Accepted /\ IsList(lines) /\ Bounded(lines) /\ Announced(lines, me, ahead)
      /\ \A k \in 1..Len(lines) : LineOk(lines[k]) /\ LegalIn(lines, k)
  BY <1>1 DEF PlaylistInv, RangesInv, Accepted
<1>3. /\ Len(lines) \in Nat /\ Len(lines') = n /\ 1..n = (1..Len(lines)) \cup {n} /\ lines'[n] = l
      /\ \A k \in 1..Len(lines) : lines'[k] = lines[k]
  BY <1>1, <1>2, ListGrows
<1>4. \A k \in 1..Len(lines) : LegalIn(lines', k)
  BY <1>1, <1>2, LegalKept
<1>5. Usable(l) <=> LegalIn(lines', n)
  BY <1>1, <1>2, UsableIffLegal
<1>6. LineOk(l)
  BY LinesOk DEF RangesInv
<1> HIDE DEF n
<1>7. \A k \in 1..Len(lines') : LineOk(lines'[k])
  BY <1>2, <1>3, <1>6
<1>8. CASE Reject(l)
  <2>1. status' = "error" /\ ~Usable(l)
    BY <1>8 DEF Reject, Usable
  <2>2. \E k \in 1..Len(lines') : ~LegalIn(lines', k)
    BY <1>3, <1>5, <2>1
  <2> QED BY <1>1, <1>7, <2>1, <2>2 DEF RangesInv, Accepted
<1>9. CASE ~Reject(l)
  <2>1. status' = status
    BY <1>9 DEF ReadKey, ReadMap, ReadInf, ReadEndlist, ReadMediaSequence, ReadDiscontinuitySequence,
                ReadDiscontinuity, ReadByteRange, ReadUri, Line
  <2>2. Usable(l)
    <3>1. CASE ReadDiscontinuity(l)
      <4>1. ahead.discontinuity # MaxInt
        BY <1>2, <3>1, LimitsAssumption DEF ReadDiscontinuity, Announced
      <4> QED BY <3>1, <4>1 DEF ReadDiscontinuity, Line, Usable
    <3>2. CASE ReadInf(l) \/ ReadEndlist(l)
      BY <3>2 DEF ReadInf, ReadEndlist, Line, Usable
    <3>3. CASE ReadKey(l) \/ ReadMap(l) \/ ReadByteRange(l) \/ ReadUri(l)
      BY <3>3 DEF ReadKey, ReadMap, ReadByteRange, ReadUri, Line, Usable
    <3>4. CASE ReadMediaSequence(l) \/ ReadDiscontinuitySequence(l)
      BY <3>4 DEF ReadMediaSequence, ReadDiscontinuitySequence, Line, Usable
    <3> QED BY <1>9, <3>1, <3>2, <3>3, <3>4
  <2>3. \A k \in 1..Len(lines') : LegalIn(lines', k)
    BY <1>3, <1>4, <1>5, <2>2
  <2>4. Announced(lines', me', ahead')
    BY <1>2, <1>9, UriAnnounces, TagsAnnounce
  <2>5. Accepted'
    BY <1>1, <2>1 DEF Accepted
  <2> QED BY <1>1, <1>7, <2>1, <2>3, <2>4, <2>5 DEF RangesInv
<1> QED BY <1>8, <1>9

LEMMA RangesStep == PlaylistInv /\ RangesInv /\ [PlaylistNext]_all_vars => RangesInv'
<1> SUFFICES ASSUME PlaylistInv, RangesInv, [PlaylistNext]_all_vars PROVE RangesInv'
  OBVIOUS
<1>1. ASSUME UNCHANGED <<dialect, lines, playlist_type, me, ahead>>,
             status' = status \/ (status = "parsing" /\ status' = "done")
      PROVE  RangesInv'
  <2>1. Accepted' <=> Accepted
    BY <1>1 DEF Accepted
  <2>2. (\A k \in 1..Len(lines) : LegalIn(lines, k))' <=> \A k \in 1..Len(lines) : LegalIn(lines, k)
    BY <1>1 DEF LegalIn, KeyOk
  <2>3. (\E k \in 1..Len(lines) : ~LegalIn(lines, k))' <=> \E k \in 1..Len(lines) : ~LegalIn(lines, k)
    BY <1>1 DEF LegalIn, KeyOk
  <2> QED BY <1>1, <2>1, <2>2, <2>3 DEF RangesInv
<1>2. CASE ParseMedia
  <2>1. playlist_type = "media" /\ playlist_type' = playlist_type /\ Next
    BY <1>2 DEF ParseMedia
  <2>2. CASE EndOfSource
    BY <1>1, <2>1, <2>2 DEF EndOfSource
  <2>3. CASE ~EndOfSource
    BY <2>1, <2>3, RangesLine DEF Next
  <2> QED BY <2>2, <2>3
<1>3. CASE ParseMaster
  <2>1. /\ playlist_type = "master" /\ playlist_type' = playlist_type
        /\ UNCHANGED <<dialect, me, ahead>> /\ Master!Next
    BY <1>3 DEF ParseMaster, media_vars
  <2>2. CASE Master!EndOfSource
    BY <1>1, <2>1, <2>2 DEF Master!EndOfSource
  <2>3. CASE \E l \in MasterLines :
               \/ Master!ReadStreamInf(l) \/ Master!ReadMedia(l) \/ Master!ReadOther(l)
               \/ Master!ReadUrl(l) \/ Master!IgnoreText(l)
    <3>1. PICK l \in MasterLines :
               \/ Master!ReadStreamInf(l) \/ Master!ReadMedia(l) \/ Master!ReadOther(l)
               \/ Master!ReadUrl(l) \/ Master!IgnoreText(l)
      BY <2>3
    <3>2. /\ lines' = Append(lines, l) /\ status' = status
          /\ l.tag \in {"STREAM-INF", "MEDIA", "OTHER", "TEXT"}
      BY <3>1 DEF Master!ReadStreamInf, Master!ReadMedia, Master!ReadOther, Master!ReadUrl,
                  Master!IgnoreText, Master!Line
    <3>3. /\ Len(lines) \in Nat /\ Len(lines') = Len(lines) + 1 /\ lines'[Len(lines) + 1] = l
          /\ 1..Len(lines') = (1..Len(lines)) \cup {Len(lines) + 1}
          /\ \A k \in 1..Len(lines) : lines'[k] = lines[k]
      BY <3>2, ListGrows DEF PlaylistInv
    <3>4. \A k \in 1..Len(lines) : lines[k].tag \in {"STREAM-INF", "MEDIA", "OTHER", "TEXT"}
      BY <2>1 DEF RangesInv
    <3>5. \A k \in 1..Len(lines') : lines'[k].tag \in {"STREAM-INF", "MEDIA", "OTHER", "TEXT"}
      BY <3>2, <3>3, <3>4
    <3> QED BY <2>1, <3>2, <3>5 DEF RangesInv, Accepted
  <2> QED BY <2>1, <2>2, <2>3 DEF Master!Next
<1>4. CASE UNCHANGED all_vars
  BY <1>1, <1>4 DEF all_vars, media_vars
<1> QED BY <1>2, <1>3, <1>4 DEF PlaylistNext

LEMMA NothingAnnounced == PlaylistInit => RangesInv
<1> SUFFICES ASSUME PlaylistInit PROVE RangesInv
  OBVIOUS
<1>1. /\ dialect \in Dialects /\ lines = <<>> /\ status = "parsing"
      /\ me = [segments |-> <<>>, first_media_sequence |-> 0, last_media_sequence |-> 0,
               is_endlist |-> FALSE, encryptiontype |-> "NONE", enc_aes |-> NoKey]
      /\ ahead = [section |-> NULL, range |-> NoRange, discontinuity |-> 0, duration |-> 0]
  BY DEF PlaylistInit, Init
<1>2. \A tag, k : AtIn(lines, tag) = {} /\ BeforeIn(lines, tag, k) = {} /\ LatestIn(lines, tag, k) = 0
  BY <1>1, EmptyIsList DEF AtIn, BeforeIn, LatestIn
<1>3. Len(lines) = 0 /\ 1..Len(lines) = {}
  BY <1>1, EmptyIsList
<1>4. ~RangedIn(lines, Len(lines) + 1) /\ DurationIn(lines, Len(lines) + 1) = 0
  BY <1>2 DEF RangedIn, DurationIn
<1>5. me.enc_aes \in Keys
  BY <1>1 DEF Keys, NoKey
<1>6. RangesOk(lines)
  BY <1>2 DEF RangesOk
<1>7. 0 <= MaxInt
  BY LimitsAssumption
<1>8. Announced(lines, me, ahead)
  BY <1>1, <1>2, <1>4, <1>5, <1>6, <1>7 DEF Announced
<1> QED BY <1>1, <1>3, <1>8 DEF RangesInv, Accepted

\* Each segment owns what was announced for it, and legal lines are read and
\* illegal ones are not.
THEOREM RangesInvariant == PlaylistSpec => [](PlaylistInv /\ RangesInv)
<1>1. PlaylistInv /\ [PlaylistNext]_all_vars => PlaylistInv'
  <2>1. PlaylistInv /\ UNCHANGED all_vars => PlaylistInv'
    BY DEF PlaylistInv, Untouched, Accepted, media_vars, all_vars
  <2> QED BY <2>1, MediaStep, MasterStep DEF PlaylistNext
<1> QED BY <1>1, EmptyPlaylist, NothingAnnounced, RangesStep, PTL DEF PlaylistSpec

-----------------------------------------------------------------------------
(* The properties                                                              *)

LEMMA AboutRanges ==
  /\ \A k : Ranged(k) <=> RangedIn(lines, k)
  /\ \A k : RangeAt(k) = RangeIn(lines, k)
  /\ \A k : Anchor(k) = AnchorIn(lines, k)
  /\ \A k : RunOn(k) = RunIn(lines, k)
  /\ \A k : OffsetAt(k) = OffsetIn(lines, k)
<1>1. \A k : Ranged(k) <=> RangedIn(lines, k)
  BY AboutLines DEF Ranged, RangedIn
<1>2. \A k : RangeAt(k) = RangeIn(lines, k)
  BY AboutLines DEF RangeAt, RangeIn
<1>3. ASSUME NEW k PROVE Anchor(k) = AnchorIn(lines, k)
  <2>1. {j \in At("URI") : j <= k /\ Ranged(j) /\ RangeAt(j).offset >= 0} = AnchorsIn(lines, k)
    BY <1>1, <1>2, AboutLines DEF AnchorsIn
  <2> QED BY <2>1 DEF Anchor, AnchorIn
<1>4. \A k : RunOn(k) = RunIn(lines, k)
  BY <1>3, AboutLines DEF RunOn, RunIn
<1>5. ASSUME NEW k PROVE OffsetAt(k) = OffsetIn(lines, k)
  <2>1. [j \in RunOn(k) |-> RangeAt(j).size] = SizesIn(lines, k)
    BY <1>2, <1>4 DEF SizesIn
  <2> QED BY <1>2, <1>3, <1>4, <2>1 DEF OffsetAt, OffsetIn
<1> QED BY <1>1, <1>2, <1>3, <1>4, <1>5

LEMMA OwnHolds == PlaylistInv /\ RangesInv => OwnRangeAndDuration
<1> SUFFICES ASSUME PlaylistInv, RangesInv, NEW i \in DOMAIN me.segments
             PROVE  LET k == UriLine(i)
                        s == me.segments[i]
                    IN /\ IF Ranged(k)
                          THEN /\ s.size = RangeAt(k).size /\ s.offset = OffsetAt(k)
                               /\ s.offset + s.size <= MaxOffset
                          ELSE s.size = -1 /\ s.offset = 0
                       /\ s.duration = IF Latest("EXTINF", k) > Latest("URI", k)
                                       THEN Number("EXTINF", k) ELSE 0
  BY DEF OwnRangeAndDuration
<1> DEFINE k == UriLine(i)
           s == me.segments[i]
<1>1. /\ Accepted /\ playlist_type = "media" /\ IsList(me.segments)
      /\ SegmentMeans(lines, i, k, s, me.first_media_sequence, dialect.fps)
  BY NamedThere DEF Parsed, Recorded
<1>2. Announced(lines, me, ahead)
  BY <1>1 DEF RangesInv
<1>3. k \in AtIn(lines, "URI") /\ Cardinality(BeforeIn(lines, "URI", k)) = i - 1
  BY <1>1 DEF SegmentMeans, NamesSegment
<1>4. i \in Nat
  BY <1>1, ListGrows
<1>5. SegmentOf(lines, me.segments, k) = s
  BY <1>3, <1>4 DEF SegmentOf
<1> HIDE DEF k, s
<1>6. Own(lines, k, s)
  BY <1>2, <1>3, <1>5 DEF Announced
<1>7. IF Ranged(k)
      THEN s.size = RangeAt(k).size /\ s.offset = OffsetAt(k) /\ s.offset + s.size <= MaxOffset
      ELSE s.size = -1 /\ s.offset = 0
  BY <1>6, AboutRanges DEF Own
<1>8. s.duration = IF Latest("EXTINF", k) > Latest("URI", k) THEN Number("EXTINF", k) ELSE 0
  BY <1>6, AboutLines DEF Own, DurationIn
<1> QED BY <1>7, <1>8 DEF k, s

\* Every segment of every playlist has the byte range and the duration announced
\* for it alone; a range without an offset starts where the run of ranges
\* ahead of it ends, however long that is, and none passes the greatest offset.
THEOREM RangesAndDurationsOwned == PlaylistSpec => []OwnRangeAndDuration
<1> QED BY RangesInvariant, OwnHolds, PTL

\* The two readings of what is legal agree on every line a source may have.
LEMMA LegalIsLegal ==
  ASSUME NEW k, LineOk(lines[k]), Bounded(lines), IsList(lines), k \in 1..(Len(lines) + 1)
  PROVE  Legal(k) <=> LegalIn(lines, k)
<1> DEFINE l == lines[k]
           base == Latest("DISCONTINUITY-SEQUENCE", k)
<1>1. /\ KeyAt(k) = KeyIn(lines, k)
      /\ \A tag : Before(tag, k) = BeforeIn(lines, tag, k) /\ Number(tag, k) = NumberIn(lines, tag, k)
      /\ Number("DISCONTINUITY-SEQUENCE", k)
           + Cardinality({j \in Before("DISCONTINUITY", k) : j > base}) = CountIn(lines, k)
  BY AboutLines DEF CountIn, SinceBase
<1>2. Before("MAP", k) # {} <=> LatestIn(lines, "MAP", k) # 0
  BY AboutLines, LatestIsLast
<1>3. /\ Ranged(k) <=> RangedIn(lines, k)
      /\ OffsetAt(k) + RangeAt(k).size <= MaxOffset
           <=> OffsetIn(lines, k) + RangeIn(lines, k).size <= MaxOffset
  BY AboutRanges
<1>4. Anchor(k) # 0 /\ (\A j \in RunOn(k) : Ranged(j) /\ lines[j].uri = lines[k].uri)
        <=> RunsOn(lines, k)
  BY AboutRanges DEF RunsOn
<1>5. \A r \in Ranges : RangeOk(r) <=> /\ r.size > 0 /\ r.size <= MaxOffset
                                       /\ r.offset + r.size <= MaxOffset
  BY LimitsAssumption DEF Ranges, RangeOk
<1>6. LineOk(l)
  OBVIOUS
<1> HIDE DEF l
<1>7. CASE l.tag = "KEY"
  <2>1. KeyOk(l) <=> IF l.method = "NONE" THEN l.uri = NULL /\ l.iv = NULL
                     ELSE l.method \in Methods /\ l.uri # NULL
    BY DEF KeyOk, Methods
  <2> QED BY <1>7, <2>1 DEF Legal, LegalIn, l
<1>8. CASE l.tag = "MAP"
  <2>1. l.range # NULL => /\ l.range \in Ranges
                          /\ RangeOk(l.range) /\ l.range.offset >= 0
                               <=> /\ l.range.size > 0 /\ l.range.offset >= 0
                                   /\ l.range.offset + l.range.size <= MaxOffset
    <3>1. SUFFICES ASSUME l.range # NULL
                   PROVE  /\ l.range \in Ranges
                          /\ RangeOk(l.range) /\ l.range.offset >= 0
                               <=> /\ l.range.size > 0 /\ l.range.offset >= 0
                                   /\ l.range.offset + l.range.size <= MaxOffset
      OBVIOUS
    <3>2. l.range \in Ranges
      BY <1>6, <1>8, <3>1 DEF LineOk
    <3>3. l.range.size \in Nat /\ l.range.offset \in Int
      BY <3>2 DEF Ranges
    <3> QED BY <1>5, <3>2, <3>3, LimitsAssumption
  <2> QED BY <1>1, <1>8, <2>1 DEF Legal, LegalIn, SectionRangeOk, l
<1>9. CASE l.tag \in {"MEDIA-SEQUENCE", "DISCONTINUITY-SEQUENCE"}
  <2>1. l.value <= MaxInt <=> l.value \in 0..MaxInt
    BY <1>6, <1>9, LimitsAssumption DEF LineOk
  <2> QED BY <1>1, <1>9, <2>1 DEF Legal, LegalIn, l
<1>10. CASE l.tag = "DISCONTINUITY"
  BY <1>1, <1>10 DEF Legal, LegalIn, l
<1>11. CASE l.tag = "BYTERANGE"
  <2>1. l.range \in Ranges
    BY <1>6, <1>11 DEF LineOk
  <2> QED BY <1>5, <1>11, <2>1 DEF Legal, LegalIn, l
<1>12. CASE l.tag = "URI"
  BY <1>1, <1>2, <1>3, <1>4, <1>12 DEF Legal, LegalIn, l
<1>13. CASE l.tag \notin {"KEY", "MAP", "MEDIA-SEQUENCE", "DISCONTINUITY-SEQUENCE",
                         "DISCONTINUITY", "BYTERANGE", "URI"}
  BY <1>13 DEF Legal, LegalIn, l
<1> QED BY <1>7, <1>8, <1>9, <1>10, <1>11, <1>12, <1>13

LEMMA RejectedHolds == PlaylistInv /\ RangesInv => RejectedIffIllegal
<1> SUFFICES ASSUME PlaylistInv, RangesInv PROVE RejectedIffIllegal
  OBVIOUS
<1>1. IsList(lines) /\ Bounded(lines) /\ Len(lines) \in Nat /\ DOMAIN lines = 1..Len(lines)
      /\ \A k \in 1..Len(lines) : k \in 1..(Len(lines) + 1)
  BY ListGrows DEF PlaylistInv
<1>2. CASE playlist_type = "media"
  <2>1. \A k \in 1..Len(lines) : Legal(k) <=> LegalIn(lines, k)
    BY <1>1, <1>2, LegalIsLegal DEF RangesInv
  <2>2. Accepted <=> \A k \in 1..Len(lines) : LegalIn(lines, k)
    BY <1>2 DEF RangesInv
  <2>3. Accepted \/ me.segments = <<>>
    BY <1>2 DEF PlaylistInv
  <2> QED BY <1>1, <2>1, <2>2, <2>3 DEF RejectedIffIllegal
<1>3. CASE playlist_type # "media"
  <2>1. Accepted /\ \A k \in 1..Len(lines) : lines[k].tag \in {"STREAM-INF", "MEDIA", "OTHER", "TEXT"}
    BY <1>3 DEF RangesInv
  <2>2. \A k \in 1..Len(lines) : Legal(k)
    BY <2>1 DEF Legal
  <2> QED BY <1>1, <2>1, <2>2 DEF RejectedIffIllegal
<1> QED BY <1>2, <1>3

\* A playlist is rejected just when some line of it is illegal for the lines ahead
\* of that one, and then has no segments.
THEOREM OnlyIllegalRejected == PlaylistSpec => []RejectedIffIllegal
<1> QED BY RangesInvariant, RejectedHolds, PTL

-----------------------------------------------------------------------------
(***************************************************************************)
(* Master playlists                                                        *)
(***************************************************************************)
(* The attributes of a line of a master playlist                               *)

LEMMA MasterExtremes == \A S : Master!Max(S) = Max(S) /\ Master!Min(S) = Min(S)
BY DEF Master!Max, Master!Min, Max, Min

\* The attributes ahead of the first empty one.
LEMMA AttribsAre ==
  ASSUME NEW s, IsList(s)
  PROVE  \E p \in 0..Len(s) :
           /\ Len(Master!Attribs(s)) = p /\ DOMAIN Master!Attribs(s) = 1..p
           /\ \A i \in 1..p : Master!Attribs(s)[i] = s[i]
           /\ \A i \in 1..Len(s) : i <= p <=> \A j \in 1..i : s[j].value # NULL
<1> DEFINE I == {i \in 1..Len(s) : s[i].value = NULL}
           e == Master!SelectInSeq(s, LAMBDA a : a.value = NULL)
<1>1. Len(s) \in Nat /\ DOMAIN s = 1..Len(s)
  BY ListGrows
<1>2. e = IF I # {} THEN Min(I) ELSE 0
  BY MasterExtremes DEF Master!SelectInSeq
<1>3. Master!Attribs(s) = IF e = 0 THEN s ELSE SubSeq(s, 1, e - 1)
  BY DEF Master!Attribs
<1>4. \A i \in 1..Len(s) : i \in I <=> s[i].value = NULL
  OBVIOUS
<1>5. I \in SUBSET (1..Len(s)) /\ I \in SUBSET Nat
  BY <1>1
<1>6. IsFiniteSet(I)
  <2>1. IsFiniteSet(1..Len(s))
    BY <1>1, FS_Interval
  <2> QED BY <1>5, <2>1, FS_Subset
<1> HIDE DEF I, e
<1>7. I # {} => Min(I) \in I /\ \A y \in I : Min(I) <= y
  BY <1>5, <1>6, MaxOfFinite
<1>8. CASE I = {}
  <2>1. Master!Attribs(s) = s
    BY <1>2, <1>3, <1>8
  <2>2. \A i \in 1..Len(s) : i <= Len(s) /\ \A j \in 1..i : s[j].value # NULL
    <3> SUFFICES ASSUME NEW i \in 1..Len(s), NEW j \in 1..i PROVE i <= Len(s) /\ s[j].value # NULL
      BY <1>1
    <3>1. i <= Len(s) /\ j \in 1..Len(s)
      BY <1>1
    <3> QED BY <1>4, <1>8, <3>1
  <2>3. Len(s) \in 0..Len(s)
    BY <1>1
  <2> QED BY <1>1, <2>1, <2>2, <2>3
<1>9. CASE I # {}
  <2>1. e \in 1..Len(s) /\ e - 1 \in 0..Len(s) /\ e # 0 /\ s[e].value = NULL
        /\ \A i \in 1..Len(s) : s[i].value = NULL => e <= i
    <3>1. e \in I /\ \A y \in I : e <= y
      BY <1>2, <1>7, <1>9
    <3>2. e \in 1..Len(s)
      BY <1>5, <3>1
    <3>3. e - 1 \in 0..Len(s) /\ e # 0
      BY <1>1, <3>2
    <3> QED BY <1>4, <3>1, <3>2, <3>3
  <2>2. \A i \in 1..Len(s) : i <= e - 1 <=> \A j \in 1..i : s[j].value # NULL
    <3> SUFFICES ASSUME NEW i \in 1..Len(s) PROVE i <= e - 1 <=> \A j \in 1..i : s[j].value # NULL
      OBVIOUS
    <3>1. ASSUME i <= e - 1, NEW j \in 1..i PROVE s[j].value # NULL
      BY <1>1, <2>1, <3>1
    <3>2. ASSUME ~(i <= e - 1) PROVE e \in 1..i
      BY <1>1, <2>1, <3>2
    <3> QED BY <2>1, <3>1, <3>2
  <2>3. PICK S : s \in Seq(S)
    BY DEF IsList
  <2>4. Len(SubSeq(s, 1, e - 1)) = e - 1 /\ DOMAIN SubSeq(s, 1, e - 1) = 1..(e - 1)
        /\ \A i \in 1..(e - 1) : SubSeq(s, 1, e - 1)[i] = s[i]
    BY <1>1, <2>1, <2>3
  <2> QED BY <1>3, <2>1, <2>2, <2>4
<1> QED BY <1>8, <1>9

\* The loop over the attributes.
AssignLoop(h, record, a) ==
  h = [s \in SUBSET DOMAIN a |->
         IF s = {} THEN record
         ELSE IF a[Max(s)].name \in DOMAIN h[s \ {Max(s)}] /\ a[Max(s)].value # NoNumber
              THEN [h[s \ {Max(s)}] EXCEPT ![a[Max(s)].name] = a[Max(s)].value]
              ELSE h[s \ {Max(s)}]]

LEMMA AssignIsLoop ==
  ASSUME NEW record, NEW s
  PROVE  Master!Assign(record, s)
           = (CHOOSE h : AssignLoop(h, record, Master!Attribs(s)))[DOMAIN Master!Attribs(s)]
<1> DEFINE a == Master!Attribs(s)
<1>1. Master!Assign(record, s) = Master!FoldLeft(
         LAMBDA r, x : IF x.name \in DOMAIN r /\ x.value # NoNumber
                       THEN [r EXCEPT ![x.name] = x.value] ELSE r, record, a)
  BY DEF Master!Assign
<1> HIDE DEF a
<1>2. Master!Assign(record, s)
           = (CHOOSE h : AssignLoop(h, record, a))[DOMAIN a]
  BY <1>1, MasterExtremes DEF Master!FoldLeft, Master!MapThenFoldSet, AssignLoop
<1> QED BY <1>2 DEF a

\* The occurrences of an attribute among the first k.
Occurs(s, n, k) == {i \in 1..k : s[i].name = n /\ s[i].value # NoNumber}

\* What the loop has for attribute n after the first k.
Has(s, record, n, k) == IF Occurs(s, n, k) = {} THEN record[n] ELSE s[Max(Occurs(s, n, k))].value

LEMMA OccursNext ==
  ASSUME NEW s, NEW n, NEW k \in Nat, NEW record
  PROVE  Has(s, record, n, k + 1) = IF s[k + 1].name = n /\ s[k + 1].value # NoNumber
                                    THEN s[k + 1].value ELSE Has(s, record, n, k)
<1> DEFINE A == Occurs(s, n, k + 1)
           B == Occurs(s, n, k)
<1>1. 1..(k + 1) = (1..k) \cup {k + 1}
  OBVIOUS
<1>2. CASE s[k + 1].name = n /\ s[k + 1].value # NoNumber
  <2>1. k + 1 \in A
    BY <1>1, <1>2 DEF Occurs
  <2>2. A \in SUBSET (1..(k + 1)) /\ A \in SUBSET Nat
    BY DEF Occurs
  <2>3. IsFiniteSet(1..(k + 1))
    BY FS_Interval
  <2>4. IsFiniteSet(A)
    BY <2>2, <2>3, FS_Subset
  <2> HIDE DEF A
  <2>5. Max(A) \in A /\ \A y \in A : y <= Max(A)
    BY <2>1, <2>2, <2>4, MaxOfFinite
  <2>6. Max(A) = k + 1
    <3>1. Max(A) \in 1..(k + 1)
      BY <2>2, <2>5
    <3>2. k + 1 <= Max(A)
      BY <2>1, <2>5
    <3> QED BY <3>1, <3>2
  <2> QED BY <1>2, <2>1, <2>6 DEF Has, A
<1>3. CASE ~(s[k + 1].name = n /\ s[k + 1].value # NoNumber)
  <2>1. A = B
    BY <1>1, <1>3 DEF Occurs
  <2> QED BY <1>3, <2>1 DEF Has
<1> QED BY <1>2, <1>3

\* Each attribute gets the last value that the line has for it ahead of the first
\* empty one.
LEMMA AssignIs ==
  ASSUME NEW D, NEW record, record = [n \in D |-> record[n]],
         NEW s, IsList(s), NEW p \in 0..Len(s),
         Len(Master!Attribs(s)) = p, DOMAIN Master!Attribs(s) = 1..p,
         \A i \in 1..p : Master!Attribs(s)[i] = s[i]
  PROVE  \A n \in D : Master!Assign(record, s)[n] = Has(s, record, n, p)
<1> DEFINE a == Master!Attribs(s)
           V == [D -> {record[n] : n \in D} \cup {s[i].value : i \in 1..p}]
           step == [x \in (1..p) \X V |->
                      IF s[x[1]].name \in D /\ s[x[1]].value # NoNumber
                      THEN [x[2] EXCEPT ![s[x[1]].name] = s[x[1]].value] ELSE x[2]]
           h == CHOOSE it : AssignLoop(it, record, a)
<1>1. p \in Nat /\ record \in V /\ Len(s) \in Nat
  BY ListGrows
<1>2. step \in [(1..p) \X V -> V]
  <2> SUFFICES ASSUME NEW i \in 1..p, NEW r \in V,
                      s[i].name \in D /\ s[i].value # NoNumber
               PROVE  [r EXCEPT ![s[i].name] = s[i].value] \in V
    OBVIOUS
  <2> QED OBVIOUS
<1>3. \A i \in 1..p : \A r \in V :
        step[<<i, r>>] = IF s[i].name \in D /\ s[i].value # NoNumber
                         THEN [r EXCEPT ![s[i].name] = s[i].value] ELSE r
  OBVIOUS
<1>4. Master!Assign(record, s) = h[DOMAIN a]
  BY AssignIsLoop
<1>5. \A r \in V : DOMAIN r = D
  OBVIOUS
<1>6. DOMAIN a = 1..p /\ \A i \in 1..p : a[i] = s[i]
  OBVIOUS
<1> HIDE DEF V, step, a, h
<1>7. PICK f \in [SUBSET (1..p) -> V] : FoldOf(f, p, record, step)
  BY <1>1, <1>2, FoldExists
<1>8. AssignLoop(f, record, a)
  <2>1. ASSUME NEW t \in SUBSET (1..p), t # {}
        PROVE  step[<<Max(t), f[t \ {Max(t)}]>>] =
                 IF a[Max(t)].name \in DOMAIN f[t \ {Max(t)}] /\ a[Max(t)].value # NoNumber
                 THEN [f[t \ {Max(t)}] EXCEPT ![a[Max(t)].name] = a[Max(t)].value]
                 ELSE f[t \ {Max(t)}]
    <3>1. Max(t) \in t
      BY <1>1, <2>1, LastOff
    <3>2. Max(t) \in 1..p /\ f[t \ {Max(t)}] \in V /\ a[Max(t)] = s[Max(t)]
      BY <1>6, <3>1
    <3> DEFINE x == Max(t)
               r == f[t \ {Max(t)}]
    <3>3. x \in 1..p /\ r \in V /\ DOMAIN r = D /\ a[x] = s[x]
      BY <1>5, <3>2
    <3> HIDE DEF x, r
    <3>4. step[<<x, r>>] = IF a[x].name \in DOMAIN r /\ a[x].value # NoNumber
                           THEN [r EXCEPT ![a[x].name] = a[x].value] ELSE r
      <4>1. step[<<x, r>>] = IF s[x].name \in D /\ s[x].value # NoNumber
                             THEN [r EXCEPT ![s[x].name] = s[x].value] ELSE r
        BY <1>3, <3>3
      <4> QED BY <3>3, <4>1, Zenon
    <3> QED BY <3>4 DEF x, r
  <2> QED BY <1>6, <1>7, <2>1 DEF FoldOf, AssignLoop
<1>9. AssignLoop(h, record, a)
  BY <1>8 DEF h
<1>10. h[1..0] = record
  <2>1. 1..0 = {} /\ 1..0 \in SUBSET (1..p)
    OBVIOUS
  <2> QED BY <1>6, <1>9, <2>1 DEF AssignLoop
<1>11. ASSUME NEW k \in 1..p
       PROVE  h[1..k] = IF s[k].name \in DOMAIN h[1..(k - 1)] /\ s[k].value # NoNumber
                        THEN [h[1..(k - 1)] EXCEPT ![s[k].name] = s[k].value]
                        ELSE h[1..(k - 1)]
  <2>1. 1..k \in SUBSET (1..p) /\ 1..k # {}
    BY <1>1, LastOff
  <2>2. Max(1..k) = k /\ (1..k) \ {k} = 1..(k - 1) /\ a[k] = s[k]
    BY <1>1, <1>6, LastOff
  <2>3. h[1..k] = IF a[Max(1..k)].name \in DOMAIN h[(1..k) \ {Max(1..k)}] /\ a[Max(1..k)].value # NoNumber
                  THEN [h[(1..k) \ {Max(1..k)}] EXCEPT ![a[Max(1..k)].name] = a[Max(1..k)].value]
                  ELSE h[(1..k) \ {Max(1..k)}]
    BY <1>6, <1>9, <2>1 DEF AssignLoop
  <2> QED BY <2>2, <2>3
<1> DEFINE T == {k \in Nat : k <= p => /\ h[1..k] \in V
                                       /\ \A n \in D : h[1..k][n] = Has(s, record, n, k)}
<1>12. 0 \in T
  <2>1. \A n \in D : Has(s, record, n, 0) = record[n]
    BY DEF Has, Occurs
  <2> QED BY <1>1, <1>10, <2>1
<1>13. ASSUME NEW k \in T PROVE k + 1 \in T
  <2>1. SUFFICES ASSUME k + 1 <= p
                 PROVE  /\ h[1..(k + 1)] \in V
                        /\ \A n \in D : h[1..(k + 1)][n] = Has(s, record, n, k + 1)
    OBVIOUS
  <2>2. k \in Nat /\ h[1..k] \in V /\ \A n \in D : h[1..k][n] = Has(s, record, n, k)
    BY <1>1, <2>1
  <2>3. k + 1 \in 1..p /\ (k + 1) - 1 = k
    BY <1>1, <2>1, <2>2
  <2> HIDE DEF T
  <2> DEFINE r == h[1..k]
             e == s[k + 1]
  <2>4. h[1..(k + 1)] = IF e.name \in D /\ e.value # NoNumber
                        THEN [r EXCEPT ![e.name] = e.value] ELSE r
    BY <1>5, <1>11, <2>2, <2>3
  <2>5. h[1..(k + 1)] \in V
    <3>1. r \in V
      BY <2>2
    <3> HIDE DEF r
    <3>2. step[<<k + 1, r>>] \in V
      BY <1>2, <2>3, <3>1
    <3>3. step[<<k + 1, r>>] = h[1..(k + 1)]
      BY <1>3, <2>3, <2>4, <3>1
    <3> QED BY <3>2, <3>3
  <2>6. \A n \in D : Has(s, record, n, k + 1) = IF e.name = n /\ e.value # NoNumber
                                                THEN e.value ELSE Has(s, record, n, k)
    BY <2>2, OccursNext
  <2>7. r \in V /\ DOMAIN r = D /\ \A n \in D : r[n] = Has(s, record, n, k)
    BY <1>5, <2>2
  <2> HIDE DEF r, e
  <2>8. \A n \in D : h[1..(k + 1)][n] = Has(s, record, n, k + 1)
    BY <2>4, <2>6, <2>7
  <2> QED BY <2>5, <2>8
<1>14. T \in SUBSET Nat
  OBVIOUS
<1>15. p \in T
  <2> HIDE DEF T
  <2> QED BY <1>1, <1>12, <1>13, <1>14, SetInduction
<1> QED BY <1>1, <1>4, <1>6, <1>15

-----------------------------------------------------------------------------
(* What a line of a master playlist says                                       *)

LEMMA MasterCardinality == \A S : Master!Cardinality(S) = Cardinality(S)
BY DEF Master!Cardinality, Cardinality, Master!IsFiniteSet, IsFiniteSet

\* The effective occurrence of an attribute is the one that the loop takes last.
LEMMA PositionIs ==
  ASSUME NEW l, IsList(l.attribs), NEW n, NEW p \in 0..Len(l.attribs),
         \A i \in 1..Len(l.attribs) : i <= p <=> \A j \in 1..i : l.attribs[j].value # NULL
  PROVE  LET at == Occurs(l.attribs, n, p)
         IN  /\ Master!Position(l, n) = IF at = {} THEN 0 ELSE Max(at)
             /\ at # {} => Max(at) \in 1..p /\ l.attribs[Max(at)].value # NULL
<1> DEFINE s == l.attribs
           at == Occurs(s, n, p)
           there == {i \in DOMAIN s : /\ s[i].name = n /\ s[i].value # NoNumber
                                      /\ Master!Reached(l, i)}
<1>1. Len(s) \in Nat /\ DOMAIN s = 1..Len(s)
  BY ListGrows
<1>2. \A i \in 1..Len(s) : Master!Reached(l, i) <=> i <= p
  BY DEF Master!Reached
<1>3. 1..p \subseteq 1..Len(s) /\ \A i \in 1..Len(s) : i \in 1..p <=> i <= p
  BY <1>1
<1>4. at = there
  BY <1>1, <1>2, <1>3 DEF Occurs
<1>5. Master!Position(l, n) = IF there = {} THEN 0 ELSE Max(there)
  BY MasterExtremes DEF Master!Position
<1>6. at \in SUBSET (1..p) /\ at \in SUBSET Nat
  BY DEF Occurs
<1>7. IsFiniteSet(at)
  <2>1. IsFiniteSet(1..p)
    BY FS_Interval
  <2> QED BY <1>6, <2>1, FS_Subset
<1> HIDE DEF at, there
<1>8. ASSUME at # {} PROVE Max(at) \in 1..p /\ s[Max(at)].value # NULL
  <2>1. Max(at) \in 1..p
    BY <1>6, <1>7, <1>8, MaxOfFinite
  <2>2. Max(at) \in 1..Len(s) /\ Max(at) <= p /\ Max(at) \in 1..Max(at)
    BY <1>1, <2>1
  <2> QED BY <2>1, <2>2
<1> QED BY <1>4, <1>5, <1>8 DEF at

\* The record of a tag has the effective value of each of its attributes.
LEMMA ValueIs ==
  ASSUME NEW l, IsList(l.attribs), NEW D, NEW record, record = [n \in D |-> record[n]]
  PROVE  \A n \in D : /\ Master!Assign(record, l.attribs)[n] = Master!Value(l, n, record[n])
                      /\ record[n] = NULL =>
                           (Master!Assign(record, l.attribs)[n] # NULL <=> Master!Position(l, n) # 0)
<1> DEFINE s == l.attribs
<1>1. PICK p \in 0..Len(s) :
        /\ Len(Master!Attribs(s)) = p /\ DOMAIN Master!Attribs(s) = 1..p
        /\ \A i \in 1..p : Master!Attribs(s)[i] = s[i]
        /\ \A i \in 1..Len(s) : i <= p <=> \A j \in 1..i : s[j].value # NULL
  BY AttribsAre
<1>2. \A n \in D : Master!Assign(record, s)[n] = Has(s, record, n, p)
  <2>1. IsList(s)
    OBVIOUS
  <2> HIDE DEF s
  <2> QED BY <1>1, <2>1, AssignIs
<1> SUFFICES ASSUME NEW n \in D
             PROVE  /\ Master!Assign(record, s)[n] = Master!Value(l, n, record[n])
                    /\ record[n] = NULL =>
                           (Master!Assign(record, s)[n] # NULL <=> Master!Position(l, n) # 0)
  OBVIOUS
<1> DEFINE at == Occurs(s, n, p)
<1>3. /\ Master!Position(l, n) = IF at = {} THEN 0 ELSE Max(at)
      /\ at # {} => Max(at) \in 1..p /\ s[Max(at)].value # NULL
  BY <1>1, PositionIs
<1>4. Master!Assign(record, s)[n] = IF at = {} THEN record[n] ELSE s[Max(at)].value
  BY <1>2 DEF Has
<1> HIDE DEF at
<1>5. at # {} => Max(at) # 0
  BY <1>1, <1>3
<1>6. Master!Value(l, n, record[n]) = IF Master!Position(l, n) = 0 THEN record[n]
                                      ELSE s[Master!Position(l, n)].value
  BY DEF Master!Value
<1> QED BY <1>3, <1>4, <1>5, <1>6

\* The element that a STREAM-INF tag and a URL make, and the one of a MEDIA tag.
VariantOf(tag, l) ==
  [url |-> l.url, bitrate |-> Master!Value(tag, "BANDWIDTH", 0),
   audio_grp |-> Master!Value(tag, "AUDIO", NULL),
   resolution |-> Master!Value(tag, "RESOLUTION", "unknown"),
   codecs |-> Master!Value(tag, "CODECS", "unknown")]

Complete(l) == \A n \in {"GROUP-ID", "NAME", "URI"} : Master!Position(l, n) # 0

Default(l) == \E j \in DOMAIN l.attribs :
                /\ l.attribs[j] = [name |-> "DEFAULT", value |-> "YES"]
                /\ Master!Reached(l, j)

RenditionOf(l) ==
  [url |-> Master!Value(l, "URI", NULL), grp_id |-> Master!Value(l, "GROUP-ID", NULL),
   name |-> Master!Value(l, "NAME", NULL), lang |-> Master!Value(l, "LANGUAGE", NULL),
   is_default |-> Default(l)]

LEMMA VariantIs ==
  ASSUME NEW tag, IsList(tag.attribs), NEW l, pending = Master!Stream(tag)
  PROVE  Master!Variant(l) = VariantOf(tag, l)
<1> DEFINE record == Master!NoStream
           D == {"BANDWIDTH", "AUDIO", "RESOLUTION", "CODECS"}
<1>1. /\ record["BANDWIDTH"] = 0 /\ record["AUDIO"] = NULL
      /\ record["RESOLUTION"] = "unknown" /\ record["CODECS"] = "unknown"
      /\ record = [n \in D |-> record[n]]
  BY DEF Master!NoStream
<1>2. pending = Master!Assign(record, tag.attribs)
  BY DEF Master!Stream
<1> HIDE DEF record
<1>3. \A n \in D : Master!Assign(record, tag.attribs)[n] = Master!Value(tag, n, record[n])
  <2> HIDE DEF D
  <2> QED BY <1>1, ValueIs
<1>4. /\ pending["BANDWIDTH"] = Master!Value(tag, "BANDWIDTH", 0)
      /\ pending["AUDIO"] = Master!Value(tag, "AUDIO", NULL)
      /\ pending["RESOLUTION"] = Master!Value(tag, "RESOLUTION", "unknown")
      /\ pending["CODECS"] = Master!Value(tag, "CODECS", "unknown")
  BY <1>1, <1>2, <1>3
<1> QED BY <1>4 DEF Master!Variant, VariantOf

LEMMA RenditionIs ==
  ASSUME NEW l, IsList(l.attribs)
  PROVE  /\ Master!Recordable(l) <=> Complete(l)
         /\ Master!Rendition(l) = RenditionOf(l)
<1> DEFINE D == {"GROUP-ID", "NAME", "LANGUAGE", "URI"}
           record == [n \in D |-> NULL]
           s == l.attribs
<1>1. record = [n \in D |-> record[n]] /\ \A n \in D : record[n] = NULL
  OBVIOUS
<1>2. Master!Names(l) = Master!Assign(record, l.attribs)
  BY DEF Master!Names
<1> HIDE DEF record
<1>3. \A n \in D : /\ Master!Names(l)[n] = Master!Value(l, n, NULL)
                   /\ Master!Names(l)[n] # NULL <=> Master!Position(l, n) # 0
  <2> HIDE DEF D
  <2> QED BY <1>1, <1>2, ValueIs
<1>4. Master!Recordable(l) <=> Complete(l)
  BY <1>3 DEF Master!Recordable, Complete
<1>5. PICK p \in 0..Len(s) :
        /\ Len(Master!Attribs(s)) = p /\ DOMAIN Master!Attribs(s) = 1..p
        /\ \A i \in 1..p : Master!Attribs(s)[i] = s[i]
        /\ \A i \in 1..Len(s) : i <= p <=> \A j \in 1..i : s[j].value # NULL
  BY AttribsAre
<1>6. Len(s) \in Nat /\ DOMAIN s = 1..Len(s)
  BY ListGrows
<1>7. \A j \in 1..Len(s) : Master!Reached(l, j) <=> j \in 1..p
  <2>1. \A j \in 1..Len(s) : Master!Reached(l, j) <=> j <= p
    BY <1>5 DEF Master!Reached
  <2> QED BY <1>6, <2>1
<1>8. \A j \in 1..p : j \in 1..Len(s)
  BY <1>6
<1>9. Master!IsDefault(l) = Default(l)
  <2> DEFINE yes == [name |-> "DEFAULT", value |-> "YES"]
  <2>1. Master!IsDefault(l) <=> \E i \in 1..Len(Master!Attribs(s)) : Master!Attribs(s)[i] = yes
    BY DEF Master!IsDefault, Master!Contains
  <2>2. Default(l) <=> \E j \in DOMAIN s : s[j] = yes /\ Master!Reached(l, j)
    BY DEF Default
  <2> HIDE DEF yes, s
  <2>3. Master!IsDefault(l) <=> Default(l)
    BY <1>5, <1>6, <1>7, <1>8, <2>1, <2>2
  <2> QED BY <2>3 DEF Master!IsDefault, Master!Contains, Default
<1> QED BY <1>3, <1>4, <1>9 DEF Master!Rendition, RenditionOf

-----------------------------------------------------------------------------
(* Lists that hold one element for each of some positions, the last one first. *)

Above(ks, k) == {j \in ks : j > k}

Listed(list, ks, what) ==
  /\ IsList(list) /\ IsFiniteSet(ks) /\ ks \in SUBSET Nat
  /\ Len(list) = Cardinality(ks)
  /\ \A i \in 1..Len(list) :
       \E k \in ks : Cardinality(Above(ks, k)) = i - 1 /\ list[i] = what[k]

LEMMA NothingListed == \A what : Listed(<<>>, {}, what)
<1>1. 1..Len(<<>>) = {} /\ IsList(<<>>) /\ Len(<<>>) = 0
  BY EmptyIsList
<1>2. IsFiniteSet({}) /\ Cardinality({}) = 0
  BY FS_EmptySet
<1> QED BY <1>1, <1>2 DEF Listed

LEMMA AboveFinite ==
  ASSUME NEW ks \in SUBSET Nat, IsFiniteSet(ks), NEW k
  PROVE  IsFiniteSet(Above(ks, k)) /\ Cardinality(Above(ks, k)) \in Nat
<1>1. Above(ks, k) \in SUBSET ks
  BY DEF Above
<1>2. IsFiniteSet(Above(ks, k))
  BY <1>1, FS_Subset
<1> QED BY <1>2, FS_CardinalityType

\* The element that a position has in the list is one only.
LEMMA OnePosition ==
  ASSUME NEW ks \in SUBSET Nat, IsFiniteSet(ks), NEW k \in ks, NEW m \in ks,
         Cardinality(Above(ks, k)) = Cardinality(Above(ks, m))
  PROVE  k = m
<1>1. ASSUME NEW x \in ks, NEW y \in ks, x < y
      PROVE  Cardinality(Above(ks, y)) < Cardinality(Above(ks, x))
  <2> DEFINE A == Above(ks, x)
             B == Above(ks, y)
  <2>1. y \in A /\ y \notin B
    BY <1>1 DEF Above
  <2>2. B \in SUBSET A
    <3>1. \A j \in ks : j > y => j > x
      BY <1>1
    <3> QED BY <3>1 DEF Above
  <2>3. IsFiniteSet(A) /\ IsFiniteSet(B) /\ Cardinality(A) \in Nat /\ Cardinality(B) \in Nat
    BY AboveFinite
  <2> HIDE DEF A, B
  <2>4. B \cup {y} \in SUBSET A
    BY <2>1, <2>2
  <2>5. Cardinality(B \cup {y}) = Cardinality(B) + 1
    BY <2>1, <2>3, FS_AddElement
  <2>6. Cardinality(B \cup {y}) <= Cardinality(A)
    BY <2>3, <2>4, FS_Subset
  <2>7. Cardinality(B) < Cardinality(A)
    BY <2>3, <2>5, <2>6
  <2> QED BY <2>7 DEF A, B
<1>2. Cardinality(Above(ks, k)) \in Nat
  BY AboveFinite
<1>3. ~(k < m) /\ ~(m < k)
  BY <1>1, <1>2
<1> QED BY <1>3

\* The list goes on at its head.
LEMMA Prepended ==
  ASSUME NEW list, NEW ks, NEW what, Listed(list, ks, what),
         NEW m \in Nat, \A k \in ks : k < m,
         NEW more, \A k \in ks : more[k] = what[k]
  PROVE  Listed(<<more[m]>> \o list, ks \cup {m}, more)
<1> DEFINE new == <<more[m]>> \o list
           all == ks \cup {m}
<1>1. /\ IsList(list) /\ IsFiniteSet(ks) /\ ks \in SUBSET Nat
      /\ Len(list) \in Nat /\ Len(list) = Cardinality(ks)
      /\ \A i \in 1..Len(list) :
           \E k \in ks : Cardinality(Above(ks, k)) = i - 1 /\ list[i] = what[k]
  BY ListGrows DEF Listed
<1>2. /\ IsList(new) /\ Len(new) = Len(list) + 1 /\ new[1] = more[m]
      /\ \A i \in 2..(Len(list) + 1) : new[i] = list[i - 1]
  <2>1. PICK S : list \in Seq(S)
    BY <1>1 DEF IsList
  <2> DEFINE T == S \cup {more[m]}
  <2>2. list \in Seq(T) /\ <<more[m]>> \in Seq(T)
    BY <2>1
  <2> HIDE DEF T
  <2>3. new \in Seq(T)
    BY <2>2
  <2>4. Len(new) = Len(list) + 1 /\ new[1] = more[m]
        /\ \A i \in 2..(Len(list) + 1) : new[i] = list[i - 1]
    BY <2>2
  <2> QED BY <2>3, <2>4 DEF IsList
<1>3. m \notin ks
  BY <1>1
<1>4. /\ IsFiniteSet(all) /\ all \in SUBSET Nat
      /\ Cardinality(all) = Cardinality(ks) + 1
  BY <1>1, <1>3, FS_AddElement
<1>5. Above(all, m) = {} /\ Cardinality(Above(all, m)) = 0
  <2>1. \A j \in all : ~(j > m)
    BY <1>1
  <2>2. Above(all, m) = {}
    BY <2>1 DEF Above
  <2> QED BY <2>2, FS_EmptySet
<1>6. ASSUME NEW k \in ks
      PROVE  Cardinality(Above(all, k)) = Cardinality(Above(ks, k)) + 1
  <2>1. Above(all, k) = Above(ks, k) \cup {m}
    BY <1>1 DEF Above
  <2>2. m \notin Above(ks, k)
    BY <1>3 DEF Above
  <2>3. IsFiniteSet(Above(ks, k))
    BY <1>1, AboveFinite
  <2> QED BY <2>1, <2>2, <2>3, FS_AddElement
<1>7. m \in all /\ \A k \in ks : k \in all
  OBVIOUS
<1> HIDE DEF new, all
<1>8. ASSUME NEW i \in 1..Len(new)
      PROVE  \E k \in all : Cardinality(Above(all, k)) = i - 1 /\ new[i] = more[k]
  <2>1. CASE i = 1
    <3>1. i - 1 = 0 /\ new[i] = more[m]
      BY <1>2, <2>1
    <3> QED BY <1>5, <1>7, <3>1
  <2>2. CASE i # 1
    <3>1. i - 1 \in 1..Len(list) /\ i \in 2..(Len(list) + 1)
      BY <1>1, <1>2, <2>2
    <3>2. PICK k \in ks : Cardinality(Above(ks, k)) = (i - 1) - 1 /\ list[i - 1] = what[k]
      BY <1>1, <3>1
    <3>3. Cardinality(Above(all, k)) = i - 1
      BY <1>6, <3>1, <3>2
    <3>4. new[i] = more[k]
      BY <1>2, <3>1, <3>2
    <3> QED BY <1>7, <3>3, <3>4
  <2> QED BY <2>1, <2>2
<1>9. Listed(new, all, more)
  BY <1>1, <1>2, <1>4, <1>8 DEF Listed
<1> QED BY <1>9 DEF new, all

LEMMA ListKept ==
  ASSUME NEW list, NEW ks, NEW what, Listed(list, ks, what),
         NEW more, \A k \in ks : more[k] = what[k]
  PROVE  Listed(list, ks, more)
BY DEF Listed

\* LineOf finds the position of an element.
LEMMA LineOfIs ==
  ASSUME NEW list, NEW ks, NEW what, Listed(list, ks, what), NEW i \in 1..Len(list)
  PROVE  Master!LineOf(ks, i) \in ks /\ list[i] = what[Master!LineOf(ks, i)]
<1>1. PICK k \in ks : Cardinality(Above(ks, k)) = i - 1 /\ list[i] = what[k]
  BY DEF Listed
<1>2. Master!LineOf(ks, i) = CHOOSE n \in ks : Cardinality(Above(ks, n)) = i - 1
  BY MasterCardinality DEF Master!LineOf, Above
<1>3. Master!LineOf(ks, i) \in ks /\ Cardinality(Above(ks, Master!LineOf(ks, i))) = i - 1
  BY <1>1, <1>2
<1>4. IsFiniteSet(ks) /\ ks \in SUBSET Nat
  BY DEF Listed
<1> QED BY <1>1, <1>3, <1>4, OnePosition

-----------------------------------------------------------------------------
(* The lists of a master playlist.                                             *)

VariantLinesIn(ls)   == {k \in DOMAIN ls : /\ ls[k].tag = "TEXT" /\ k > 1
                                           /\ ls[k - 1].tag = "STREAM-INF"}
VariantsIn(ls)       == [k \in VariantLinesIn(ls) |-> VariantOf(ls[k - 1], ls[k])]
RenditionLinesIn(ls) == {k \in DOMAIN ls : ls[k].tag = "MEDIA" /\ Complete(ls[k])}
RenditionsIn(ls)     == [k \in RenditionLinesIn(ls) |-> RenditionOf(ls[k])]

UrlExpected(ls) == Len(ls) > 0 /\ ls[Len(ls)].tag = "STREAM-INF"

\* The lists hold what the lines read so far say, and a URL that comes next
\* belongs to the tag that was read last.  No other playlist has such lines.
ListsInv ==
  /\ playlist_type = "master" =>
       /\ \A k \in 1..Len(lines) : lines[k] \in MasterLines
       /\ url_expected <=> UrlExpected(lines)
       /\ url_expected => pending = Master!Stream(lines[Len(lines)])
  /\ playlist_type # "master" => \A k \in 1..Len(lines) : lines[k].tag \notin {"TEXT", "MEDIA"}
  /\ Listed(media_playlist, VariantLinesIn(lines), VariantsIn(lines))
  /\ Listed(audio, RenditionLinesIn(lines), RenditionsIn(lines))

LEMMA VariantLinesGrow ==
  ASSUME NEW ls, IsList(ls), NEW l
  PROVE  LET new == Append(ls, l)
             n   == Len(ls) + 1
         IN  /\ VariantLinesIn(new) =
                  IF l.tag = "TEXT" /\ UrlExpected(ls) THEN VariantLinesIn(ls) \cup {n}
                  ELSE VariantLinesIn(ls)
             /\ \A k \in VariantLinesIn(ls) : k < n /\ VariantsIn(new)[k] = VariantsIn(ls)[k]
             /\ l.tag = "TEXT" /\ UrlExpected(ls) => VariantsIn(new)[n] = VariantOf(ls[n - 1], l)
<1> DEFINE new == Append(ls, l)
           n == Len(ls) + 1
<1>1. /\ Len(ls) \in Nat /\ DOMAIN ls = 1..Len(ls) /\ DOMAIN new = (1..Len(ls)) \cup {n}
      /\ new[n] = l /\ \A k \in 1..Len(ls) : new[k] = ls[k]
  <2>1. 1..n = (1..Len(ls)) \cup {n}
    BY ListGrows
  <2> QED BY <2>1, ListGrows
<1>2. \A k : k \in VariantLinesIn(ls) <=> /\ k \in 1..Len(ls) /\ ls[k].tag = "TEXT"
                                          /\ k > 1 /\ ls[k - 1].tag = "STREAM-INF"
  BY <1>1 DEF VariantLinesIn
<1>3. \A k : k \in VariantLinesIn(new) <=> /\ k \in DOMAIN new /\ new[k].tag = "TEXT"
                                           /\ k > 1 /\ new[k - 1].tag = "STREAM-INF"
  BY DEF VariantLinesIn
<1> HIDE DEF new, n
<1>4. \A k \in 1..Len(ls) : k < n /\ (k > 1 => k - 1 \in 1..Len(ls))
  BY <1>1 DEF n
<1>5. \A k \in 1..Len(ls) : k \in VariantLinesIn(new) <=> k \in VariantLinesIn(ls)
  BY <1>1, <1>2, <1>3, <1>4
<1>6. n \in VariantLinesIn(new) <=> l.tag = "TEXT" /\ UrlExpected(ls)
  <2>1. n > 1 <=> Len(ls) > 0
    BY <1>1 DEF n
  <2>2. n - 1 = Len(ls)
    BY <1>1 DEF n
  <2>3. Len(ls) > 0 => Len(ls) \in 1..Len(ls)
    BY <1>1
  <2> QED BY <1>1, <1>3, <2>1, <2>2, <2>3 DEF UrlExpected
<1>7. \A k \in VariantLinesIn(ls) : k < n /\ VariantsIn(new)[k] = VariantsIn(ls)[k]
  BY <1>1, <1>2, <1>4, <1>5 DEF VariantsIn
<1>8. n \in VariantLinesIn(new) => VariantsIn(new)[n] = VariantOf(ls[n - 1], l)
  <2> SUFFICES ASSUME n \in VariantLinesIn(new) PROVE VariantsIn(new)[n] = VariantOf(ls[n - 1], l)
    OBVIOUS
  <2>1. VariantsIn(new)[n] = VariantOf(new[n - 1], new[n])
    BY DEF VariantsIn
  <2>2. n - 1 \in 1..Len(ls)
    BY <1>1, <1>3 DEF n
  <2> QED BY <1>1, <2>1, <2>2
<1>9. \A k \in VariantLinesIn(new) : k \in 1..Len(ls) \/ k = n
  BY <1>1, <1>3
<1>10. \A k \in VariantLinesIn(ls) : k \in 1..Len(ls)
  BY <1>2
<1>11. VariantLinesIn(new) = IF l.tag = "TEXT" /\ UrlExpected(ls) THEN VariantLinesIn(ls) \cup {n}
                             ELSE VariantLinesIn(ls)
  BY <1>5, <1>6, <1>9, <1>10
<1> QED BY <1>6, <1>7, <1>8, <1>11 DEF n, new

LEMMA RenditionLinesGrow ==
  ASSUME NEW ls, IsList(ls), NEW l
  PROVE  LET new == Append(ls, l)
             n   == Len(ls) + 1
         IN  /\ RenditionLinesIn(new) =
                  IF l.tag = "MEDIA" /\ Complete(l) THEN RenditionLinesIn(ls) \cup {n}
                  ELSE RenditionLinesIn(ls)
             /\ \A k \in RenditionLinesIn(ls) : k < n /\ RenditionsIn(new)[k] = RenditionsIn(ls)[k]
             /\ l.tag = "MEDIA" /\ Complete(l) => RenditionsIn(new)[n] = RenditionOf(l)
<1> DEFINE new == Append(ls, l)
           n == Len(ls) + 1
<1>1. /\ Len(ls) \in Nat /\ DOMAIN ls = 1..Len(ls) /\ DOMAIN new = (1..Len(ls)) \cup {n}
      /\ new[n] = l /\ \A k \in 1..Len(ls) : k < n /\ new[k] = ls[k]
  <2>1. 1..n = (1..Len(ls)) \cup {n}
    BY ListGrows
  <2>2. \A k \in 1..Len(ls) : k < n
    BY ListGrows
  <2> QED BY <2>1, <2>2, ListGrows
<1> HIDE DEF new, n
<1>2. \A k : k \in RenditionLinesIn(ls) <=> k \in 1..Len(ls) /\ ls[k].tag = "MEDIA" /\ Complete(ls[k])
  BY <1>1 DEF RenditionLinesIn
<1>3. \A k : k \in RenditionLinesIn(new) <=> k \in DOMAIN new /\ new[k].tag = "MEDIA" /\ Complete(new[k])
  BY DEF RenditionLinesIn
<1>4. \A k \in 1..Len(ls) : k \in RenditionLinesIn(new) <=> k \in RenditionLinesIn(ls)
  BY <1>1, <1>2, <1>3
<1>5. n \in RenditionLinesIn(new) <=> l.tag = "MEDIA" /\ Complete(l)
  BY <1>1, <1>3
<1>6. \A k \in RenditionLinesIn(ls) : k < n /\ RenditionsIn(new)[k] = RenditionsIn(ls)[k]
  BY <1>1, <1>2, <1>4 DEF RenditionsIn
<1>7. n \in RenditionLinesIn(new) => RenditionsIn(new)[n] = RenditionOf(l)
  BY <1>1 DEF RenditionsIn
<1>8. \A k \in RenditionLinesIn(new) : k \in 1..Len(ls) \/ k = n
  BY <1>1, <1>3
<1>9. \A k \in RenditionLinesIn(ls) : k \in 1..Len(ls)
  BY <1>2
<1>10. RenditionLinesIn(new) = IF l.tag = "MEDIA" /\ Complete(l) THEN RenditionLinesIn(ls) \cup {n}
                               ELSE RenditionLinesIn(ls)
  <2>1. \A k : k \in RenditionLinesIn(new) <=>
               k \in RenditionLinesIn(ls) \/ (k = n /\ l.tag = "MEDIA" /\ Complete(l))
    BY <1>4, <1>5, <1>8, <1>9
  <2> QED BY <2>1
<1> QED BY <1>5, <1>6, <1>7, <1>10 DEF n, new

\* What a line of a master playlist adds.
LEMMA MasterLine ==
  ASSUME IsList(lines), ListsInv, playlist_type = "master", playlist_type' = playlist_type,
         NEW l \in MasterLines,
         \/ Master!ReadStreamInf(l) \/ Master!ReadMedia(l) \/ Master!ReadOther(l)
         \/ Master!ReadUrl(l) \/ Master!IgnoreText(l)
  PROVE  ListsInv'
<1> DEFINE n == Len(lines) + 1
<1>1. lines' = Append(lines, l) /\ l.tag \in {"STREAM-INF", "MEDIA", "OTHER", "TEXT"}
  BY DEF Master!ReadStreamInf, Master!ReadMedia, Master!ReadOther, Master!ReadUrl,
         Master!IgnoreText, Master!Line
<1>2. /\ Len(lines) \in Nat /\ Len(lines') = n /\ n > 0 /\ n - 1 = Len(lines) /\ lines'[n] = l
      /\ 1..n = (1..Len(lines)) \cup {n} /\ n \in Nat
      /\ \A k \in 1..Len(lines) : lines'[k] = lines[k]
  BY <1>1, ListGrows
<1>3. /\ \A k \in 1..Len(lines) : lines[k] \in MasterLines
      /\ url_expected <=> UrlExpected(lines)
      /\ url_expected => pending = Master!Stream(lines[Len(lines)])
      /\ Listed(media_playlist, VariantLinesIn(lines), VariantsIn(lines))
      /\ Listed(audio, RenditionLinesIn(lines), RenditionsIn(lines))
  BY DEF ListsInv
<1>4. \A m \in MasterLines : m.tag \in {"STREAM-INF", "MEDIA"} => IsList(m.attribs)
  <2> SUFFICES ASSUME NEW m \in MasterLines, m.tag \in {"STREAM-INF", "MEDIA"}
               PROVE  IsList(m.attribs)
    OBVIOUS
  <2> DEFINE s == m.attribs
             S == {s[i] : i \in 1..Len(s)}
  <2>1. Len(s) \in Nat /\ s = [i \in 1..Len(s) |-> s[i]]
    BY MasterLinesAssumption
  <2>2. \A i \in 1..Len(s) : s[i] \in S
    OBVIOUS
  <2> HIDE DEF s, S
  <2>3. s \in Seq(S)
    BY <2>1, <2>2
  <2> QED BY <2>3 DEF IsList, s
<1>5. /\ VariantLinesIn(lines') =
              IF l.tag = "TEXT" /\ UrlExpected(lines) THEN VariantLinesIn(lines) \cup {n}
              ELSE VariantLinesIn(lines)
      /\ \A k \in VariantLinesIn(lines) : k < n /\ VariantsIn(lines')[k] = VariantsIn(lines)[k]
      /\ l.tag = "TEXT" /\ UrlExpected(lines) => VariantsIn(lines')[n] = VariantOf(lines[n - 1], l)
  BY <1>1, VariantLinesGrow
<1>6. /\ RenditionLinesIn(lines') =
              IF l.tag = "MEDIA" /\ Complete(l) THEN RenditionLinesIn(lines) \cup {n}
              ELSE RenditionLinesIn(lines)
      /\ \A k \in RenditionLinesIn(lines) : k < n /\ RenditionsIn(lines')[k] = RenditionsIn(lines)[k]
      /\ l.tag = "MEDIA" /\ Complete(l) => RenditionsIn(lines')[n] = RenditionOf(l)
  BY <1>1, RenditionLinesGrow
<1>7. UrlExpected(lines') <=> l.tag = "STREAM-INF"
  BY <1>2 DEF UrlExpected
<1> HIDE DEF n
<1>8. \A k \in 1..Len(lines') : lines'[k] \in MasterLines
  BY <1>2, <1>3
<1>9. /\ url_expected' <=> UrlExpected(lines')
      /\ url_expected' => pending' = Master!Stream(lines'[Len(lines')])
  <2>1. CASE Master!ReadStreamInf(l)
    BY <1>2, <1>7, <2>1 DEF Master!ReadStreamInf, Master!Line
  <2>2. CASE ~Master!ReadStreamInf(l)
    <3>1. l.tag # "STREAM-INF" /\ ~url_expected'
      BY <2>2 DEF Master!ReadMedia, Master!ReadOther, Master!ReadUrl, Master!IgnoreText,
                  Master!Line, Master!Forget
    <3> QED BY <1>7, <3>1
  <2> QED BY <2>1, <2>2
<1>10. Listed(media_playlist', VariantLinesIn(lines'), VariantsIn(lines'))
  <2>1. CASE Master!ReadUrl(l)
    <3>1. /\ l.tag = "TEXT" /\ url_expected
          /\ media_playlist' = <<Master!Variant(l)>> \o media_playlist
      BY <2>1 DEF Master!ReadUrl, Master!Line
    <3>2. Len(lines) \in 1..Len(lines) /\ lines[Len(lines)].tag = "STREAM-INF"
      BY <1>2, <1>3, <3>1 DEF UrlExpected
    <3>3. IsList(lines[n - 1].attribs) /\ pending = Master!Stream(lines[n - 1])
      BY <1>2, <1>3, <1>4, <3>1, <3>2
    <3>4. Master!Variant(l) = VariantsIn(lines')[n]
      <4>1. Master!Variant(l) = VariantOf(lines[n - 1], l)
        BY <3>3, VariantIs
      <4> QED BY <1>3, <1>5, <3>1, <4>1
    <3>5. VariantLinesIn(lines') = VariantLinesIn(lines) \cup {n}
      BY <1>3, <1>5, <3>1
    <3>6. Listed(<<VariantsIn(lines')[n]>> \o media_playlist, VariantLinesIn(lines) \cup {n},
                 VariantsIn(lines'))
      BY <1>2, <1>3, <1>5, Prepended
    <3> QED BY <3>1, <3>4, <3>5, <3>6
  <2>2. CASE ~Master!ReadUrl(l)
    <3>1. media_playlist' = media_playlist /\ ~(l.tag = "TEXT" /\ url_expected)
      BY <2>2 DEF Master!ReadStreamInf, Master!ReadMedia, Master!ReadOther, Master!IgnoreText,
                  Master!Line
    <3>2. VariantLinesIn(lines') = VariantLinesIn(lines)
      BY <1>3, <1>5, <3>1
    <3> QED BY <1>3, <1>5, <3>1, <3>2, ListKept
  <2> QED BY <2>1, <2>2
<1>11. Listed(audio', RenditionLinesIn(lines'), RenditionsIn(lines'))
  <2>1. CASE l.tag = "MEDIA" /\ Complete(l)
    <3>1. /\ Master!Recordable(l) <=> Complete(l)
          /\ Master!Rendition(l) = RenditionOf(l)
      BY <1>4, <2>1, RenditionIs
    <3>2. audio' = <<Master!Rendition(l)>> \o audio
      BY <2>1, <3>1 DEF Master!ReadStreamInf, Master!ReadMedia, Master!ReadOther, Master!ReadUrl,
                        Master!IgnoreText, Master!Line
    <3>3. Listed(<<RenditionsIn(lines')[n]>> \o audio, RenditionLinesIn(lines) \cup {n},
                 RenditionsIn(lines'))
      BY <1>2, <1>3, <1>6, Prepended
    <3> QED BY <1>6, <2>1, <3>1, <3>2, <3>3
  <2>2. CASE ~(l.tag = "MEDIA" /\ Complete(l))
    <3>1. l.tag = "MEDIA" => ~Master!Recordable(l)
      BY <1>4, <2>2, RenditionIs
    <3>2. audio' = audio
      BY <3>1 DEF Master!ReadStreamInf, Master!ReadMedia, Master!ReadOther, Master!ReadUrl,
                  Master!IgnoreText, Master!Line
    <3>3. RenditionLinesIn(lines') = RenditionLinesIn(lines)
      BY <1>6, <2>2
    <3> QED BY <1>3, <1>6, <3>2, <3>3, ListKept
  <2> QED BY <2>1, <2>2
<1> QED BY <1>8, <1>9, <1>10, <1>11 DEF ListsInv

\* A line of a media playlist adds nothing.
LEMMA NoMasterLine ==
  ASSUME IsList(lines), ListsInv, playlist_type = "media", playlist_type' = playlist_type,
         UNCHANGED master_vars, NEW l, lines' = Append(lines, l), l.tag \notin {"TEXT", "MEDIA"}
  PROVE  ListsInv'
<1> DEFINE n == Len(lines) + 1
<1>1. /\ Len(lines) \in Nat /\ Len(lines') = n /\ lines'[n] = l
      /\ 1..n = (1..Len(lines)) \cup {n}
      /\ \A k \in 1..Len(lines) : lines'[k] = lines[k]
  BY ListGrows
<1>2. media_playlist' = media_playlist /\ audio' = audio
  BY DEF master_vars
<1>3. /\ VariantLinesIn(lines') = VariantLinesIn(lines)
      /\ \A k \in VariantLinesIn(lines) : VariantsIn(lines')[k] = VariantsIn(lines)[k]
  BY VariantLinesGrow
<1>4. /\ RenditionLinesIn(lines') = RenditionLinesIn(lines)
      /\ \A k \in RenditionLinesIn(lines) : RenditionsIn(lines')[k] = RenditionsIn(lines)[k]
  BY RenditionLinesGrow
<1>5. /\ Listed(media_playlist, VariantLinesIn(lines), VariantsIn(lines))
      /\ Listed(audio, RenditionLinesIn(lines), RenditionsIn(lines))
      /\ \A k \in 1..Len(lines) : lines[k].tag \notin {"TEXT", "MEDIA"}
  BY DEF ListsInv
<1>6. /\ Listed(media_playlist', VariantLinesIn(lines'), VariantsIn(lines'))
      /\ Listed(audio', RenditionLinesIn(lines'), RenditionsIn(lines'))
  BY <1>2, <1>3, <1>4, <1>5, ListKept
<1> HIDE DEF n
<1>7. \A k \in 1..Len(lines') : lines'[k].tag \notin {"TEXT", "MEDIA"}
  BY <1>1, <1>5
<1> QED BY <1>6, <1>7 DEF ListsInv

LEMMA ListsStep == PlaylistInv /\ ListsInv /\ [PlaylistNext]_all_vars => ListsInv'
<1> SUFFICES ASSUME PlaylistInv, ListsInv, [PlaylistNext]_all_vars PROVE ListsInv'
  OBVIOUS
<1>1. IsList(lines)
  BY DEF PlaylistInv
<1>2. ASSUME UNCHANGED <<lines, playlist_type, master_vars>> PROVE ListsInv'
  BY <1>2 DEF ListsInv, master_vars
<1>3. CASE ParseMedia
  <2>1. playlist_type = "media" /\ playlist_type' = playlist_type /\ Next /\ UNCHANGED master_vars
    BY <1>3 DEF ParseMedia
  <2>2. CASE EndOfSource
    BY <1>2, <2>1, <2>2 DEF EndOfSource
  <2>3. CASE ~EndOfSource
    <3>1. PICK l \in dialect.lines :
            \/ ReadKey(l) \/ ReadMap(l) \/ ReadInf(l) \/ ReadEndlist(l)
            \/ ReadMediaSequence(l) \/ ReadDiscontinuitySequence(l) \/ ReadDiscontinuity(l)
            \/ ReadByteRange(l) \/ ReadUri(l) \/ Reject(l)
      BY <2>1, <2>3 DEF Next
    <3>2. lines' = Append(lines, l) /\ l.tag \notin {"TEXT", "MEDIA"}
      BY <3>1 DEF ReadKey, ReadMap, ReadInf, ReadEndlist, ReadMediaSequence,
                  ReadDiscontinuitySequence, ReadDiscontinuity, ReadByteRange, ReadUri, Reject, Line
    <3> QED BY <1>1, <2>1, <3>2, NoMasterLine
  <2> QED BY <2>2, <2>3
<1>4. CASE ParseMaster
  <2>1. playlist_type = "master" /\ playlist_type' = playlist_type /\ Master!Next
    BY <1>4 DEF ParseMaster
  <2>2. CASE Master!EndOfSource
    BY <1>2, <2>1, <2>2 DEF Master!EndOfSource, master_vars
  <2>3. CASE ~Master!EndOfSource
    BY <1>1, <2>1, <2>3, MasterLine DEF Master!Next
  <2> QED BY <2>2, <2>3
<1>5. CASE UNCHANGED all_vars
  BY <1>2, <1>5 DEF all_vars
<1> QED BY <1>3, <1>4, <1>5 DEF PlaylistNext

LEMMA NothingRead == PlaylistInit => ListsInv
<1> SUFFICES ASSUME PlaylistInit PROVE ListsInv
  OBVIOUS
<1>1. /\ lines = <<>> /\ url_expected = FALSE /\ media_playlist = <<>> /\ audio = <<>>
  BY DEF PlaylistInit, Master!Init
<1>2. Len(lines) = 0 /\ 1..Len(lines) = {} /\ DOMAIN lines = {}
  BY <1>1, EmptyIsList
<1>3. VariantLinesIn(lines) = {} /\ RenditionLinesIn(lines) = {}
  BY <1>2 DEF VariantLinesIn, RenditionLinesIn
<1>4. ~UrlExpected(lines)
  BY <1>2 DEF UrlExpected
<1> QED BY <1>1, <1>2, <1>3, <1>4, NothingListed DEF ListsInv

LEMMA ListsHold == PlaylistInv /\ ListsInv => ListsOfLines
<1> SUFFICES ASSUME PlaylistInv, ListsInv PROVE ListsOfLines
  OBVIOUS
<1>1. /\ Listed(media_playlist, VariantLinesIn(lines), VariantsIn(lines))
      /\ Listed(audio, RenditionLinesIn(lines), RenditionsIn(lines))
  BY DEF ListsInv
<1>2. /\ DOMAIN media_playlist = 1..Len(media_playlist) /\ DOMAIN audio = 1..Len(audio)
      /\ Len(media_playlist) = Cardinality(VariantLinesIn(lines))
      /\ Len(audio) = Cardinality(RenditionLinesIn(lines))
  BY <1>1, ListGrows DEF Listed
<1>3. Master!VariantLines = VariantLinesIn(lines)
  BY DEF Master!VariantLines, VariantLinesIn
<1>4. Master!RenditionLines = RenditionLinesIn(lines)
  BY DEF Master!RenditionLines, RenditionLinesIn, Complete
<1>5. ASSUME NEW i \in DOMAIN media_playlist
      PROVE  LET k == Master!LineOf(Master!VariantLines, i)
             IN  media_playlist[i] = VariantOf(lines[k - 1], lines[k])
  BY <1>1, <1>2, <1>3, LineOfIs DEF VariantsIn
<1>6. Master!VariantsOfLines
  BY <1>2, <1>3, <1>5, MasterCardinality DEF Master!VariantsOfLines, VariantOf
<1>7. ASSUME NEW i \in DOMAIN audio
      PROVE  audio[i] = RenditionOf(lines[Master!LineOf(Master!RenditionLines, i)])
  BY <1>1, <1>2, <1>4, LineOfIs DEF RenditionsIn
<1>8. Master!RenditionsOfLines
  BY <1>2, <1>4, <1>7, MasterCardinality DEF Master!RenditionsOfLines, RenditionOf, Default
<1> QED BY <1>6, <1>8 DEF ListsOfLines

\* The variants and renditions that the selection works on are those of the lines:
\* each STREAM-INF that its URL follows and each usable audio MEDIA tag, with the
\* attributes that count, the one read last at the head.
THEOREM ListsAreOfLines == PlaylistSpec => []ListsOfLines
<1>1. PlaylistInv /\ [PlaylistNext]_all_vars => PlaylistInv'
  <2>1. PlaylistInv /\ UNCHANGED all_vars => PlaylistInv'
    BY DEF PlaylistInv, Untouched, Accepted, media_vars, all_vars
  <2> QED BY <2>1, MediaStep, MasterStep DEF PlaylistNext
<1> QED BY <1>1, EmptyPlaylist, NothingRead, ListsStep, ListsHold, PTL DEF PlaylistSpec
=============================================================================
